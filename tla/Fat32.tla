------------------------------- MODULE Fat32 --------------------------------
(***************************************************************************)
(* The FAT32 driver's write path, create_root_file and unlink_root         *)
(* (drivers/fat32.rs), one step per write that reaches the disk, over ATA  *)
(* PIO transfers that may fail (drivers/ata.rs).                           *)
(*                                                                         *)
(* The driver keeps nothing between two calls, so a power cut and an error *)
(* that `?` passes on look alike: the call stops where it is.  A cluster   *)
(* of data holds the number of the create that wrote it and its place in   *)
(* the file; a cluster of the root directory holds slots.  Both copies of  *)
(* the FAT are written, and only the first is read.                        *)
(*                                                                         *)
(* The write path makes and removes no long names.  The files that are on  *)
(* the volume at the mount have one, of a single part, as an image made    *)
(* under Linux has for names in lower case: the two names of such a file   *)
(* are the same to resolve, which ignores case.                            *)
(***************************************************************************)
EXTENDS Integers, Sequences, FiniteSets, Functions

CONSTANTS Names,       \* short names, packed
          Last,        \* clusters are 2 .. Last, and the FAT has no more entries
          Slots,       \* directory entries in a cluster
          Shipped,     \* the files the volume may have at the mount
          MaxClusters, \* bound: clusters of a file
          MaxCreates   \* bound: files written, those at the mount included

ASSUME Fat32Assumption == /\ Names # {} /\ Last \in Nat /\ Last > 2 /\ Slots \in Nat \ {0}
                          /\ MaxClusters \in Nat \ {0} /\ MaxCreates \in Nat

ASSUME ShippedAssumption == /\ Shipped \in Seq(Names) /\ IsInjective(Shipped)
                            /\ 2 * Len(Shipped) <= Slots /\ Len(Shipped) + 2 <= Last
                            /\ Len(Shipped) <= MaxCreates

Cluster == 2 .. Last
Root    == 2
Free    == 0
EOC     == 1       \* stands for 0x0FFF_FFF8 and above

VARIABLES fat,      \* cluster -> its FAT entry
          dir,      \* cluster -> its slots, where it belongs to the root
          body,     \* cluster -> <<create, place>>, where it holds data
          op,       \* the call under way
          creates,  \* files written so far
          failed,   \* some transfer or allocation has failed
          torn,     \* ... and has left the directory inconsistent
          want      \* history: name -> the create that wrote it, its size; 0: no file

disk == <<fat, dir, body>>
vars == <<fat, dir, body, op, creates, failed, torn, want>>

Slot(kind, name, first, size) ==
  [kind |-> kind, name |-> name, first |-> first, size |-> size]
NoName == CHOOSE n \in Names : TRUE
End    == Slot("end", NoName, 0, 0)
Gone   == Slot("gone", NoName, 0, 0)

Idle == [at |-> "idle", name |-> NoName, size |-> 0, chain |-> << >>, cur |-> Root,
         off |-> 0, todo |-> 0, freed |-> FALSE, unlinks |-> FALSE]

\* The root as the volume has it at the mount: each of the first k files has its
\* long name, then its entry; it is one cluster long.
ShippedSlot(k, o) ==
  IF o > 2 * k THEN End
  ELSE IF o % 2 = 1 THEN Slot("long", Shipped[(o + 1) \div 2], 0, 0)
  ELSE Slot("file", Shipped[o \div 2], Root + o \div 2, 1)

\* mount: the root directory has one cluster.
Init ==
  \E k \in 0 .. Len(Shipped) :
    /\ fat = [c \in Cluster |-> IF c <= Root + k THEN EOC ELSE Free]
    /\ dir = [c \in Cluster |-> [o \in 1 .. Slots |-> IF c = Root THEN ShippedSlot(k, o) ELSE End]]
    /\ body = [c \in Cluster |-> IF c \in Root + 1 .. Root + k THEN <<c - Root, 1>> ELSE <<0, 0>>]
    /\ op = Idle /\ creates = k /\ failed = FALSE /\ torn = FALSE
    /\ want = [n \in Names |-> IF \E i \in 1 .. k : Shipped[i] = n
                               THEN <<CHOOSE i \in 1 .. k : Shipped[i] = n, 1>> ELSE <<0, 0>>]

-----------------------------------------------------------------------------
(* The FAT *)

\* The end of a chain, and a free or reserved entry, are no next cluster: 0.
next_cluster(c) == IF fat[c] \in Cluster THEN fat[c] ELSE 0

\* The clusters read_chain visits from c on.
Chain(c) ==
  LET at[k \in 0 .. Last] == IF k = 0 THEN c
                             ELSE IF at[k - 1] = 0 THEN 0 ELSE next_cluster(at[k - 1])
  IN [k \in {j \in 1 .. Last : at[j - 1] # 0} |-> at[k - 1]]

\* set_fat_entry, in both copies.
Entered(c, value) == [fat EXCEPT ![c] = value]

\* Slip: the new cluster is not marked in the FAT.
Marked_Not(c) == fat

\* alloc_cluster marks the cluster it returns as the end of a chain.
Marked(c) == Entered(c, EOC)

FreeClusters == {c \in Cluster : fat[c] = Free}
Lowest(S)    == CHOOSE c \in S : \A d \in S : c <= d

-----------------------------------------------------------------------------
(* The root directory *)

\* Entries before the first 0x00, which ends the directory.
Used(slots) == {o \in 1 .. Slots : \A i \in 1 .. o : slots[i].kind # "end"}

Match(slots, name) ==
  {o \in Used(slots) : slots[o].kind = "file" /\ slots[o].name = name}

\* Slip: a free slot is taken without looking for the name.
Chosen_FirstFree(slots, name) ==
  LET free == {o \in 1 .. Slots : slots[o].kind \in {"end", "gone"}}
  IN IF free # {} THEN Lowest(free)
     ELSE IF Match(slots, name) # {} THEN Lowest(Match(slots, name)) ELSE 0

\* The slot upsert_root_dir_entry takes in a cluster, 0 if none: that of the
\* name, else the end of the directory, else the first deleted one; the parts of
\* long names are skipped.
Chosen(slots, name) ==
  LET match == Match(slots, name)
      ends  == {o \in 1 .. Slots : slots[o].kind = "end"}
      gone  == {o \in Used(slots) : slots[o].kind = "gone"}
  IN IF match # {} THEN Lowest(match)
     ELSE IF ends # {} THEN Lowest(ends)
     ELSE IF gone # {} THEN Lowest(gone) ELSE 0

-----------------------------------------------------------------------------
(* create_root_file *)

Moves(place) == op' = [op EXCEPT !.at = place]

\* The call returns an error, clusters it took included.
GiveUp == op' = Idle /\ failed' = TRUE

create_root_file(name, size) ==
  /\ op = Idle /\ ~torn /\ creates < MaxCreates
  /\ op' = [Idle EXCEPT !.at = "alloc", !.name = name, !.size = size]
  /\ creates' = creates + 1
  /\ UNCHANGED <<disk, failed, torn, want>>

alloc_cluster ==
  /\ op.at = "alloc" /\ Len(op.chain) < op.size
  /\ IF FreeClusters = {}
     THEN GiveUp /\ UNCHANGED fat
     ELSE /\ fat' = Marked(Lowest(FreeClusters))
          /\ op' = [op EXCEPT !.chain = Append(@, Lowest(FreeClusters))]
          /\ UNCHANGED failed
  /\ UNCHANGED <<dir, body, creates, torn, want>>

\* Links the chain and writes the data: until the directory names the chain,
\* nothing leads to it, and the single writes are not told apart.
write_chain ==
  /\ op.at = "alloc" /\ Len(op.chain) = op.size
  /\ fat' = [c \in Cluster |->
       IF \E i \in 1 .. op.size - 1 : op.chain[i] = c
       THEN op.chain[1 + CHOOSE i \in 1 .. op.size - 1 : op.chain[i] = c] ELSE fat[c]]
  /\ body' = [c \in Cluster |->
       IF c \in Range(op.chain)
       THEN <<creates, CHOOSE i \in 1 .. op.size : op.chain[i] = c>> ELSE body[c]]
  /\ Moves("scan")
  /\ UNCHANGED <<dir, creates, failed, torn, want>>

\* upsert_root_dir_entry in one cluster of the root; a file that is replaced
\* gives up its chain first.
upsert_root_dir_entry ==
  LET off  == Chosen(dir[op.cur], op.name)
      slot == dir[op.cur][off]
  IN /\ op.at = "scan" /\ ~op.unlinks
     /\ IF off # 0
        THEN op' = [op EXCEPT !.off = off,
                      !.todo = IF slot.kind = "file" THEN slot.first ELSE 0,
                      !.at = IF slot.kind = "file" /\ slot.first # 0 THEN "free" ELSE "write"]
        ELSE IF next_cluster(op.cur) # 0
        THEN op' = [op EXCEPT !.cur = next_cluster(op.cur)]
        ELSE Moves("grow")
     /\ UNCHANGED <<disk, creates, failed, torn, want>>

\* next_cluster takes a read that fails for the end of the chain: here the root
\* grows at a cluster that need not be its last.
misread_root ==
  /\ op.at = "scan" /\ ~op.unlinks /\ Chosen(dir[op.cur], op.name) = 0
  /\ Moves("grow") /\ failed' = TRUE
  /\ UNCHANGED <<disk, creates, torn, want>>

\* The root has no slot left: a cluster is taken, linked, and only then zeroed.
grow_alloc ==
  /\ op.at = "grow"
  /\ IF FreeClusters = {}
     THEN GiveUp /\ UNCHANGED fat
     ELSE /\ fat' = Marked(Lowest(FreeClusters))
          /\ op' = [op EXCEPT !.at = "link", !.todo = Lowest(FreeClusters)]
          /\ UNCHANGED failed
  /\ UNCHANGED <<dir, body, creates, torn, want>>

grow_link == /\ op.at = "link"
             /\ fat' = Entered(op.cur, op.todo)
             /\ torn' = (torn \/ next_cluster(op.cur) # 0)
             /\ Moves("zero")
             /\ UNCHANGED <<dir, body, creates, failed, want>>

grow_zero == /\ op.at = "zero"
             /\ dir' = [dir EXCEPT ![op.todo] = [o \in 1 .. Slots |-> End]]
             /\ op' = [op EXCEPT !.at = "scan", !.cur = op.todo, !.todo = 0]
             /\ UNCHANGED <<fat, body, creates, failed, torn, want>>

\* Slip: the walk stops after the first cluster.
After_Nothing(c) == 0

\* The next cluster is read before the entry is overwritten.
After(c) == next_cluster(c)

\* free_chain, one cluster.
free_chain ==
  /\ op.at = "free"
  /\ fat' = Entered(op.todo, Free)
  /\ op' = [op EXCEPT !.freed = TRUE, !.todo = After(op.todo),
                      !.at = IF After(op.todo) = 0 THEN "write" ELSE "free"]
  /\ UNCHANGED <<dir, body, creates, failed, torn, want>>

\* ... and here the rest of the chain stays taken.
misread_chain ==
  /\ op.at = "free"
  /\ fat' = Entered(op.todo, Free)
  /\ op' = [op EXCEPT !.freed = TRUE, !.todo = 0, !.at = "write"]
  /\ failed' = TRUE
  /\ UNCHANGED <<dir, body, creates, torn, want>>

First(chain) == IF chain = << >> THEN 0 ELSE chain[1]

\* Slip: the size written is one cluster short.
NewSlot_Short == Slot("file", op.name, First(op.chain), op.size - 1)

NewSlot == Slot("file", op.name, First(op.chain), op.size)

\* The directory cluster goes back to the disk, and the call is over.
write_slot ==
  /\ op.at = "write"
  /\ dir' = [dir EXCEPT ![op.cur][op.off] = IF op.unlinks THEN Gone ELSE NewSlot]
  /\ want' = [want EXCEPT ![op.name] = IF op.unlinks THEN <<0, 0>> ELSE <<creates, op.size>>]
  /\ op' = Idle
  /\ UNCHANGED <<fat, body, creates, failed, torn>>

-----------------------------------------------------------------------------
(* unlink_root *)

unlink_root(name) ==
  /\ op = Idle /\ ~torn
  /\ op' = [Idle EXCEPT !.at = "scan", !.name = name, !.unlinks = TRUE]
  /\ UNCHANGED <<disk, creates, failed, torn, want>>

\* One cluster of the root; "not found" touches nothing.
unlink_scan ==
  LET match == Match(dir[op.cur], op.name)
      slot  == dir[op.cur][Lowest(match)]
  IN /\ op.at = "scan" /\ op.unlinks
     /\ IF match # {}
        THEN op' = [op EXCEPT !.off = Lowest(match), !.todo = slot.first,
                      !.at = IF slot.first # 0 THEN "free" ELSE "write"]
        ELSE IF Used(dir[op.cur]) = 1 .. Slots /\ next_cluster(op.cur) # 0
        THEN op' = [op EXCEPT !.cur = next_cluster(op.cur)]
        ELSE op' = Idle
     /\ UNCHANGED <<disk, creates, failed, torn, want>>

-----------------------------------------------------------------------------
(* A transfer fails, or the power does *)

\* The directory still names clusters that are free, or has a cluster that
\* was never zeroed.
Tears == op.freed \/ op.at = "zero"

interrupted == /\ op # Idle
               /\ op' = Idle /\ failed' = TRUE /\ torn' = (torn \/ Tears)
               /\ UNCHANGED <<disk, creates, want>>

Next == \/ \E n \in Names : unlink_root(n) \/ \E k \in 0 .. MaxClusters : create_root_file(n, k)
        \/ alloc_cluster \/ write_chain \/ upsert_root_dir_entry
        \/ misread_root \/ grow_alloc \/ grow_link \/ grow_zero
        \/ free_chain \/ misread_chain \/ write_slot \/ unlink_scan \/ interrupted

Spec == Init /\ [][Next]_vars

-----------------------------------------------------------------------------
(* Properties *)

\* Every variable has its type; sizes in the directory are those of create_root_file.
TypeOK ==
  /\ fat \in [Cluster -> {Free, EOC} \cup Cluster]
  /\ \A c \in Cluster : \A o \in 1 .. Slots :
       /\ dir[c][o].kind \in {"end", "gone", "long", "file"} /\ dir[c][o].name \in Names
       /\ dir[c][o].first \in {0} \cup Cluster /\ dir[c][o].size \in 0 .. MaxClusters
  /\ op.at \in {"idle", "alloc", "scan", "grow", "link", "zero", "free", "write"}
  /\ creates \in 0 .. MaxCreates /\ failed \in BOOLEAN /\ torn \in BOOLEAN

\* The entries of the root, but for the one a call is giving up.
Entries == {e \in Range(Chain(Root)) \X (1 .. Slots) :
              /\ e[2] \in Used(dir[e[1]]) /\ dir[e[1]][e[2]].kind = "file"
              /\ ~(op.freed /\ e = <<op.cur, op.off>>)}

FileChain(e) == LET first == dir[e[1]][e[2]].first IN IF first = 0 THEN << >> ELSE Chain(first)

\* No cluster is in two files, or in a file and the directory, or in a file and
\* handed out to a new one; every file's chain is as long as its size, and no
\* cluster of it is free.  Errors and power cuts change this only where a call
\* frees a chain before the entry, links the root before zeroing, or links it
\* after a read of its FAT entry that failed.
NoCrossLinks ==
  ~torn /\ op.at # "zero" =>
    /\ \A e \in Entries :
         /\ Len(FileChain(e)) = dir[e[1]][e[2]].size
         /\ \A c \in Range(FileChain(e)) : fat[c] # Free
         /\ Range(FileChain(e)) \cap (Range(Chain(Root)) \cup Range(op.chain)) = {}
    /\ \A d, e \in Entries : d # e => Range(FileChain(d)) \cap Range(FileChain(e)) = {}

\* parse_dir_entries reads the root from its first cluster on.
Before(d, e) ==
  \/ \E i \in DOMAIN Chain(Root), j \in DOMAIN Chain(Root) :
       i < j /\ Chain(Root)[i] = d[1] /\ Chain(Root)[j] = e[1]
  \/ d[1] = e[1] /\ d[2] < e[2]

\* The parts of long names that it has met since the last entry before e: deleted
\* entries in between leave them waiting.
Parts(e) ==
  {d \in Range(Chain(Root)) \X (1 .. Slots) :
     /\ dir[d[1]][d[2]].kind = "long" /\ Before(d, e)
     /\ ~\E x \in Range(Chain(Root)) \X (1 .. Slots) :
           dir[x[1]][x[2]].kind = "file" /\ Before(d, x) /\ Before(x, e)}

\* They name the entry; several in a row are joined, which makes no name of Names.
IsReadAs(e, name) == IF Parts(e) = {} THEN dir[e[1]][e[2]].name = name
                     ELSE \E d \in Parts(e) : Parts(e) = {d} /\ dir[d[1]][d[2]].name = name

\* What read_file finds under a name: the first entry's data.
Found(name) == {e \in Entries : IsReadAs(e, name)}
Earliest(S) == CHOOSE e \in S : \A d \in S : d = e \/ Before(e, d)
Data(name)  == LET c == FileChain(Earliest(Found(name)))
               IN [i \in DOMAIN c |-> body[c[i]]]

\* Every long name is followed by the entry of its file.  unlink_root ends this: it
\* marks the entry and not its long name.
Paired ==
  \A c \in Range(Chain(Root)) : \A o \in 1 .. Slots : dir[c][o].kind = "long" =>
    /\ o < Slots /\ dir[c][o + 1].kind = "file"
    /\ dir[c][o + 1].name = dir[c][o].name

\* read_file gives back what was last written under that name, by
\* create_root_file or before the mount, no matter what was created, replaced,
\* removed or interrupted since, as long as no file with a long name was removed
\* and has left it to the next entry.  (Not of an empty file: its first cluster is
\* 0, and cluster_to_lba(0) underflows.)
ReadBack ==
  ~torn /\ op = Idle /\ Paired =>
    \A n \in Names : want[n][2] > 0 =>
      Found(n) # {} /\ Data(n) = [i \in 1 .. want[n][2] |-> <<want[n][1], i>>]

\* Without failures no cluster is lost: what the FAT calls taken is in the root,
\* in a file, or in the hands of the call under way.
SpaceIsAccounted ==
  ~failed =>
    Cluster \ FreeClusters \subseteq
      Range(Chain(Root)) \cup (UNION {Range(FileChain(e)) : e \in Entries})
        \cup Range(op.chain)
        \cup (IF op.at \in {"link", "free"} THEN Range(Chain(op.todo)) ELSE {})
=============================================================================
