------------------------------ MODULE Accounts ------------------------------
(***************************************************************************)
(* Accounts and what is kept of them: /etc/passwd in the ramfs             *)
(* (users/mod.rs, fs/ramfs.rs), the login prompt and the shell commands    *)
(* that change files and accounts (shell/tty_login.rs, shell/mod.rs), and  *)
(* the blob that carries two files over a reboot (persist.rs), written     *)
(* sector by sector at a fixed place of the disk (drivers/ata.rs) that     *)
(* also holds a FAT32 volume (drivers/part.rs, drivers/fat32.rs).          *)
(*                                                                         *)
(* A command runs to its end inside one poll of the shell's task, so only  *)
(* a disk error or a power cut can come between two of its steps.  A file  *)
(* is a sequence of lines, a sector a sequence of cells; a line of text,   *)
(* the blob's header and an entry's header take one cell each.             *)
(***************************************************************************)
EXTENDS Integers, Sequences, FiniteSets, Retain

CONSTANTS Names,       \* valid account names, "root" and "luc" among them
          MaxUid,      \* the largest uid, u32::MAX in the code
          PerSector,   \* cells in a sector
          Sectors,     \* PERSIST_SECTORS
          VolumeLba,   \* first sector of the FAT32 partition
          MaxCommands  \* bound: commands typed

ASSUME AccountsAssumption ==
  /\ {"root", "luc"} \subseteq Names
  /\ MaxUid \in Nat \ {0, 1} /\ PerSector \in Nat \ {0} /\ Sectors \in Nat \ {0}
  /\ VolumeLba \in Nat /\ MaxCommands \in Nat

VARIABLES files,    \* FS: path -> lines, of the two files that persist
          session,  \* CURRENT_USER
          attempts, \* failed logins since the last pause
          at,       \* what the machine does
          save,     \* the image being written and the sectors already out
          disk,     \* LBA -> cells
          mounted,  \* MOUNTED
          commands, \* commands typed so far
          cmd,      \* history: the last command and its subject
          maybe,    \* history: what a boot may find, each a map of files
          torn,     \* history: the last save did not reach its end
          spoilt    \* history: a boot has read the remains of such a save

vars == <<files, session, attempts, at, save, disk, mounted, commands, cmd,
          maybe, torn, spoilt>>
kept == <<disk, mounted, maybe, torn, spoilt>>

PERSIST_LBA  == 2048
FirstUid     == 2        \* stands for 1000; 1 for the uids below it
Paths        == {"passwd", "settings"}   \* PERSISTED_PATHS
Passwords    == {"root", "luc", "other"}
TooShort     == {"luc"}
MAX_ATTEMPTS == 3

sha256_hex(p) == <<"sha256", p>>
User(n, h, u) == [name |-> n, hash |-> h, uid |-> u]
Junk          == User("", << >>, 0)        \* a line that is no account
None          == Junk

Cell(kind, path, n, line) == [kind |-> kind, path |-> path, n |-> n, line |-> line]
Zero   == Cell("zero", "", 0, Junk)
BpbRow == Cell("bpb", "", 0, Junk)

Region     == PERSIST_LBA .. PERSIST_LBA + Sectors - 1
RegionSize == Sectors * PerSector
Blank      == [i \in 1 .. PerSector |-> Zero]
BootSector == [i \in 1 .. PerSector |-> BpbRow]
NoFiles    == [p \in {} |-> << >>]
NoBlob     == [p \in {"none"} |-> << >>]   \* what a boot finds where no blob is

Init ==
  /\ files = NoFiles /\ session = None /\ attempts = 0 /\ at = "off"
  /\ save = [image |-> << >>, out |-> 0]
  /\ disk = [l \in Region \cup {VolumeLba} |->
               IF l = VolumeLba THEN BootSector ELSE Blank]
  /\ mounted = FALSE /\ commands = 0 /\ cmd = [op |-> "none", name |-> ""]
  /\ maybe = {NoBlob} /\ torn = FALSE /\ spoilt = FALSE

-----------------------------------------------------------------------------
(* The blob *)

Put(fs, path, lines) ==
  [p \in DOMAIN fs \cup {path} |-> IF p = path THEN lines ELSE fs[p]]

\* Ramfs::remove of a path that exists.
Without(fs, path) == [p \in DOMAIN fs \ {path} |-> fs[p]]

Entry(path, lines) ==
  <<Cell("entry", path, Len(lines), Junk)>>
    \o [i \in 1 .. Len(lines) |-> Cell("line", "", 0, lines[i])]

\* The files of PERSISTED_PATHS that exist, one after the other.
EntryIf(fs, path) == IF path \in DOMAIN fs THEN Entry(path, fs[path]) ELSE << >>
Entries(fs)       == EntryIf(fs, "passwd") \o EntryIf(fs, "settings")

\* Slip: a file that does not exist is counted too.
Header_All(fs) == Cell("header", "", Cardinality(Paths), Junk)

\* The magic, the version and the number of entries.
Header(fs) == Cell("header", "", Cardinality(DOMAIN fs), Junk)

serialize(fs) == <<Header(fs)>> \o Entries(fs)

\* A short blob is filled with zeros up to the size of the region.
Padded(b) == b \o [i \in 1 .. RegionSize - Len(b) |-> Zero]

OnDisk == [i \in 1 .. RegionSize |->
             disk[PERSIST_LBA + ((i - 1) \div PerSector)][((i - 1) % PerSector) + 1]]

\* One entry read at p.off.  Bytes that are no entry may still pass for one,
\* with a path nobody uses: `lucky` says whether they do.
ReadEntry(p, cells, lucky) ==
  LET c == cells[p.off]
  IN IF p.off > RegionSize THEN [p EXCEPT !.ok = FALSE]
     ELSE IF c.kind = "entry"
     THEN IF p.off + c.n > RegionSize THEN [p EXCEPT !.ok = FALSE]
          ELSE [ok |-> TRUE, off |-> p.off + 1 + c.n,
                files |-> Put(p.files, c.path, [i \in 1 .. c.n |->
                   IF cells[p.off + i].kind = "line" THEN cells[p.off + i].line ELSE Junk])]
     ELSE [ok |-> lucky, off |-> p.off + 1, files |-> p.files]

deserialize(cells, lucky) ==
  LET n == cells[1].n
      at_[k \in 0 .. n] ==
        IF k = 0 THEN [ok |-> TRUE, off |-> 2, files |-> NoFiles]
        ELSE IF ~at_[k - 1].ok THEN at_[k - 1] ELSE ReadEntry(at_[k - 1], cells, lucky)
  IN IF cells[1].kind # "header" \/ ~at_[n].ok THEN NoBlob ELSE at_[n].files

\* What load_into_ramfs may make of the disk as it is.
Found == {deserialize(OnDisk, lucky) : lucky \in BOOLEAN}

\* The last save is whole, or none of those at stake is longer than a sector.
Whole ==
  torn => \A fs \in maybe : fs = NoBlob \/ Len(serialize(fs)) <= PerSector

-----------------------------------------------------------------------------
(* Power on: fs::init seeds the defaults, the volume is mounted, the blob  *)
(* read back over the defaults.                                            *)

Seed ==
  Put(NoFiles, "passwd", <<User("root", sha256_hex("root"), 0),
                         User("luc", sha256_hex("luc"), FirstUid)>>)

Restored(blob) ==
  IF blob = NoBlob THEN Seed
  ELSE [p \in DOMAIN Seed \cup DOMAIN blob |-> IF p \in DOMAIN blob THEN blob[p] ELSE Seed[p]]

\* Every read of the disk may fail, the mount's and the blob's.
boot ==
  /\ at = "off"
  /\ \E reads \in BOOLEAN : mounted' = (reads /\ disk[VolumeLba] = BootSector)
  /\ files' \in {Restored(b) : b \in Found \cup {NoBlob}}
  /\ at' = "login" /\ attempts' = 0 /\ session' = None
  /\ spoilt' = (spoilt \/ ~Whole)
  /\ UNCHANGED <<save, disk, commands, cmd, maybe, torn>>

power_cut ==
  /\ at # "off"
  /\ at' = "off" /\ files' = NoFiles /\ session' = None
  /\ save' = [image |-> << >>, out |-> 0] /\ mounted' = FALSE
  /\ attempts' = 0 /\ cmd' = [op |-> "none", name |-> ""]
  /\ UNCHANGED <<disk, commands, maybe, torn, spoilt>>

-----------------------------------------------------------------------------
(* users *)

parse_passwd(lines) == Retained(lines, {i \in 1 .. Len(lines) : lines[i] # Junk})

\* load().unwrap_or_default(): no file, no accounts.
Users == IF "passwd" \in DOMAIN files THEN parse_passwd(files["passwd"]) ELSE << >>

Least(is) == CHOOSE i \in is : \A j \in is : i <= j

\* The first account of the name, None if there is none.
find(name) ==
  LET is == {i \in 1 .. Len(Users) : Users[i].name = name}
  IN IF is = {} THEN None ELSE Users[Least(is)]

authenticate(name, password) ==
  LET u == find(name) IN IF u.hash = sha256_hex(password) THEN u ELSE None

\* Slip: the uid after as many accounts as there are.
NextUid_Count(us) == FirstUid + Cardinality({i \in 1 .. Len(us) : us[i].uid >= FirstUid})

\* One more than the largest ordinary uid.
NextUid(us) ==
  LET ordinary == {us[i].uid : i \in 1 .. Len(us)} \cap (FirstUid .. MaxUid)
  IN IF ordinary = {} THEN FirstUid
     ELSE 1 + CHOOSE m \in ordinary : \A u \in ordinary : u <= m

-----------------------------------------------------------------------------
(* Saving *)

\* save_from_ramfs of files fs: the region's image goes out from the first
\* sector on, unless it is too large.  users::save has changed the ramfs by then.
StartSave(fs) ==
  LET image == Padded(serialize(fs))
  IN IF Len(image) > RegionSize
     THEN at' = "shell" /\ UNCHANGED <<save, maybe, torn>>
     ELSE /\ at' = "saving" /\ save' = [image |-> image, out |-> 0]
          /\ maybe' = maybe \cup {fs} /\ torn' = TRUE

SectorOf(image, k) ==
  [i \in 1 .. PerSector |->
     IF (k - 1) * PerSector + i <= Len(image) THEN image[(k - 1) * PerSector + i]
     ELSE disk[PERSIST_LBA + k - 1][i]]

write_sector ==
  /\ at = "saving" /\ save.out < Sectors
  /\ save' = [save EXCEPT !.out = @ + 1]
  /\ disk' = [disk EXCEPT ![PERSIST_LBA + save.out] = SectorOf(save.image, save.out + 1)]
  /\ UNCHANGED <<files, session, attempts, at, mounted, commands, cmd, maybe, torn, spoilt>>

\* write_sectors has flushed the cache; from here on a boot finds this state.
save_done ==
  /\ at = "saving" /\ save.out = Sectors
  /\ at' = "shell" /\ maybe' = {files} /\ torn' = FALSE
  /\ UNCHANGED <<files, session, attempts, save, disk, mounted, commands, cmd, spoilt>>

\* The drive does not answer: the command reports an error and the shell goes on.
save_fails ==
  /\ at = "saving" /\ at' = "shell"
  /\ UNCHANGED <<files, session, attempts, save, commands, cmd, kept>>

-----------------------------------------------------------------------------
(* Changing accounts *)

\* users::save: the ramfs first, then the disk.
SaveUsers(us) ==
  /\ files' = Put(files, "passwd", us)
  /\ StartSave(files')
  /\ UNCHANGED <<session, attempts, disk, mounted, spoilt>>

\* The uid is a u32 and the build checks overflow: past MaxUid the kernel panics.
create_user(name, password) ==
  /\ password \notin TooShort /\ find(name) = None
  /\ IF NextUid(Users) > MaxUid
     THEN at' = "halted" /\ UNCHANGED <<files, session, attempts, save, kept>>
     ELSE SaveUsers(Append(Users, User(name, sha256_hex(password), NextUid(Users))))

\* Slip: the accounts above the one asked for go as well.
AllBut_Less(us, uid) == Retained(us, {i \in 1 .. Len(us) : us[i].uid < uid})

AllBut(us, uid) == Retained(us, {i \in 1 .. Len(us) : us[i].uid # uid})

\* Never root.
delete_user(uid) == uid # 0 /\ SaveUsers(AllBut(Users, uid))

\* The first account with the uid.
set_password(uid, password) ==
  LET first == Least({i \in 1 .. Len(Users) : Users[i].uid = uid})
  IN /\ password \notin TooShort
     /\ SaveUsers([Users EXCEPT ![first].hash = sha256_hex(password)])

-----------------------------------------------------------------------------
(* The shell *)

Types(op, name) ==
  /\ at = "shell" /\ commands < MaxCommands
  /\ commands' = commands + 1 /\ cmd' = [op |-> op, name |-> name]

cmd_useradd(name, password) == Types("useradd", name) /\ create_user(name, password)

\* The account is looked up by name and removed by uid.
cmd_userdel(name) ==
  Types("userdel", name) /\ find(name) # None /\ delete_user(find(name).uid)

\* Looked up by name, changed by uid.
cmd_passwd(name, password) ==
  Types("passwd", name) /\ find(name) # None /\ set_password(find(name).uid, password)

cmd_save ==
  /\ Types("save", "")
  /\ StartSave(files)
  /\ UNCHANGED <<files, session, attempts, disk, mounted, spoilt>>

\* One line of text, an account's or not, replaces the file.
cmd_write(path, line) ==
  /\ Types("write", "")
  /\ files' = Put(files, path, <<line>>)
  /\ UNCHANGED <<session, attempts, at, save, kept>>

cmd_rm(path) ==
  /\ Types("rm", "")
  /\ path \in DOMAIN files
  /\ files' = Without(files, path)
  /\ UNCHANGED <<session, attempts, at, save, kept>>

\* A line of blanks is not empty and has no first word: execute panics.
blank_line ==
  /\ Types("blank", "")
  /\ at' = "halted" /\ UNCHANGED <<files, session, attempts, save, kept>>

logout ==
  /\ Types("logout", "")
  /\ session' = None /\ at' = "login" /\ attempts' = 0
  /\ UNCHANGED <<files, save, kept>>

login(name, password) ==
  /\ at = "login" /\ authenticate(name, password) # None
  /\ session' = authenticate(name, password) /\ at' = "shell" /\ attempts' = 0
  /\ UNCHANGED <<files, save, commands, cmd, kept>>

\* Slip: one attempt too many.
Exhausted_Late(n) == n > MAX_ATTEMPTS

Exhausted(n) == n >= MAX_ATTEMPTS

\* The third failure in a row costs five seconds.
login_fails(name, password) ==
  /\ at = "login" /\ authenticate(name, password) = None
  /\ IF Exhausted(attempts + 1) THEN at' = "pause" /\ attempts' = 0
     ELSE attempts' = attempts + 1 /\ UNCHANGED at
  /\ UNCHANGED <<files, session, save, commands, cmd, kept>>

pause_over ==
  /\ at = "pause" /\ at' = "login"
  /\ UNCHANGED <<files, session, attempts, save, commands, cmd, kept>>

Command ==
  \/ \E n \in Names, p \in Passwords : cmd_useradd(n, p) \/ cmd_passwd(n, p)
  \/ \E n \in Names : cmd_userdel(n)
  \/ cmd_save
  \/ \E p \in Paths : cmd_write(p, Junk)
  \/ \E n \in Names, u \in {0, MaxUid} : cmd_write("passwd", User(n, sha256_hex("other"), u))
  \/ \E p \in Paths : cmd_rm(p)
  \/ blank_line \/ logout

Next ==
  \/ boot \/ power_cut
  \/ \E n \in Names, p \in Passwords : login(n, p) \/ login_fails(n, p)
  \/ pause_over
  \/ Command
  \/ write_sector \/ save_done \/ save_fails

Spec == Init /\ [][Next]_vars

-----------------------------------------------------------------------------
(* Properties *)

UserType == [name : Names \cup {""}, hash : {sha256_hex(p) : p \in Passwords} \cup {<< >>},
             uid : 0 .. MaxUid]

\* Every variable has its type; attempts never reaches MAX_ATTEMPTS between two prompts.
TypeOK ==
  /\ DOMAIN files \subseteq Paths
  /\ \A p \in DOMAIN files : \A i \in 1 .. Len(files[p]) : files[p][i] \in UserType
  /\ session \in UserType /\ attempts \in 0 .. MAX_ATTEMPTS - 1
  /\ at \in {"off", "login", "pause", "shell", "saving", "halted"}
  /\ save.out \in 0 .. Sectors /\ Len(save.image) \in {0, RegionSize}
  /\ \A l \in DOMAIN disk : Len(disk[l]) = PerSector
  /\ mounted \in BOOLEAN /\ commands \in 0 .. MaxCommands
  /\ torn \in BOOLEAN /\ spoilt \in BOOLEAN

\* What a boot reads back is what the last save that finished wrote
\* (save_from_ramfs, load_into_ramfs), whatever fails in between; after a save
\* cut short, one of the states at stake, as long as each fits in a sector.
SavedStateReturns == Whole => Found \subseteq maybe

\* No two accounts share a name or a uid: create_user's test for the name and
\* its choice of the uid keep it so through deletions, reboots and a passwd
\* file written by hand.  Only the remains of a save cut short can break it.
AccountsAreUnique ==
  ~spoilt => \A i, j \in 1 .. Len(Users) :
    i # j => Users[i].name # Users[j].name /\ Users[i].uid # Users[j].uid

\* useradd, userdel and passwd look an account up by name and change it by uid:
\* no account of another name appears, disappears or changes by them.
OthersUntouched ==
  [][ (commands' # commands /\ cmd'.op \in {"useradd", "userdel", "passwd"} /\ ~spoilt)
        => \A n \in Names \ {cmd'.name} : find(n)' = find(n) ]_vars

\* "on reserve une zone fixe du disque" (persist.rs): saving leaves the FAT32
\* volume alone, so a mounted volume still has the boot sector it was mounted from.
VolumeIsKept == mounted => disk[VolumeLba] = BootSector
====
