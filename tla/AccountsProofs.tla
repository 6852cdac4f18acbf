--------------------------- MODULE AccountsProofs ---------------------------
(***************************************************************************)
(* Proofs about Accounts, for every set of names, every size of a sector   *)
(* and of the region, and every number of commands: what was saved comes   *)
(* back, and accounts stay distinct.                                       *)
(***************************************************************************)
EXTENDS Accounts, FiniteSetTheorems, WellFoundedInduction, TLAPS

-----------------------------------------------------------------------------
(* The inductive invariant *)

\* A map of the files that persist, each a sequence of lines.
IsFiles(fs) == DOMAIN fs \in SUBSET Paths /\ fs \in [DOMAIN fs -> Seq(UserType)]

CellType == [kind : {"zero", "bpb", "header", "entry", "line"}, path : Paths \cup {""},
             n : Nat, line : UserType]

\* A header counts at most two entries, an entry names one of the two files.
IsCell(c) == /\ c \in CellType
             /\ c.kind = "header" => c.n \in 0 .. 2
             /\ c.kind = "entry" => c.path \in Paths

\* A row of m cells.
IsRow(r, m) == r \in Seq(CellType) /\ Len(r) = m /\ \A i \in 1 .. m : IsCell(r[i])

\* The type invariant, with the types of the history and of what is on the disk.
TypedRun ==
  /\ session \in UserType /\ attempts \in 0 .. MAX_ATTEMPTS - 1
  /\ at \in {"off", "login", "pause", "shell", "saving", "halted"}
  /\ mounted \in BOOLEAN /\ commands \in 0 .. MaxCommands /\ spoilt \in BOOLEAN

TypedSave ==
  /\ save.out \in 0 .. Sectors /\ save = [image |-> save.image, out |-> save.out]
  /\ save.image = << >> \/ IsRow(save.image, RegionSize)
  /\ torn \in BOOLEAN
  /\ \A fs \in maybe : fs = NoBlob \/ IsFiles(fs)

TypedDisk ==
  /\ DOMAIN disk = Region \cup {VolumeLba} /\ disk = [l \in DOMAIN disk |-> disk[l]]
  /\ \A l \in DOMAIN disk : IsRow(disk[l], PerSector)

Typed == IsFiles(files) /\ TypedRun /\ TypedSave /\ TypedDisk

\* The region's cells of a disk d; OnDisk is those of disk.
CellsOf(d) == [i \in 1 .. RegionSize |->
                 d[PERSIST_LBA + ((i - 1) \div PerSector)][((i - 1) % PerSector) + 1]]

\* The first m cells are those of a blob with files fs, or of none.
Shows(cells, fs, m) ==
  \/ fs = NoBlob /\ cells[1].kind # "header"
  \/ /\ IsFiles(fs) /\ Len(serialize(fs)) <= RegionSize
     /\ \A j \in 1 .. Len(serialize(fs)) : j <= m => cells[j] = serialize(fs)[j]

\* The sectors of an image that are out are on the disk.
Out(d, image, n) ==
  \A k \in 0 .. n - 1 : \A i \in 1 .. PerSector :
    d[PERSIST_LBA + k][i] = image[k * PerSector + i]

\* The first sector always belongs to one of the states at stake; the whole
\* region does unless a save was cut short.
BlobInv ==
  /\ \E fs \in maybe : Shows(OnDisk, fs, IF torn THEN PerSector ELSE RegionSize)
  /\ at = "saving" =>
       /\ torn /\ files \in maybe /\ save.image = Padded(serialize(files))
       /\ Len(serialize(files)) <= RegionSize
       /\ Out(disk, save.image, save.out)

UsersOf(fs) == IF "passwd" \in DOMAIN fs THEN parse_passwd(fs["passwd"]) ELSE << >>

Unique(us) == \A i, j \in 1 .. Len(us) : i # j => us[i].name # us[j].name /\ us[i].uid # us[j].uid

\* Accounts are distinct in memory and in whatever a boot may find.
UniqueInv ==
  ~spoilt => Unique(UsersOf(files)) /\ \A fs \in maybe : fs = NoBlob \/ Unique(UsersOf(fs))

IInv == Typed /\ BlobInv /\ UniqueInv

-----------------------------------------------------------------------------
(* Numbers *)

\* A set of natural numbers has a least one.
LEMMA LeastNat ==
  ASSUME NEW S \in SUBSET Nat, S # {}
  PROVE  \E m \in S : \A k \in S : m <= k
<1>1. PICK m \in S : \A k \in S : ~(<<k, m>> \in OpToRel(<, Nat))
  BY Zenon, NatLessThanWellFounded, WFMin
<1>2. \A k \in S : ~(k < m)
  BY Zenon, <1>1 DEF OpToRel
<1>. QED
  BY <1>2

\* The ranks of a finite set of numbers are 1 up to its size, each taken once.
LEMMA RankBijection ==
  ASSUME NEW S \in SUBSET Nat, IsFiniteSet(S)
  PROVE  /\ Cardinality(S) \in Nat
         /\ \A i \in S : Rank(S, i) \in 1 .. Cardinality(S)
         /\ \A i, j \in S : Rank(S, i) = Rank(S, j) => i = j
         /\ \A k \in 1 .. Cardinality(S) : \E i \in S : Rank(S, i) = k
<1> DEFINE Upto(i) == {j \in S : j <= i}
           n == Cardinality(S)
<1>1. \A i : IsFiniteSet(Upto(i)) /\ Cardinality(Upto(i)) \in Nat /\ Cardinality(Upto(i)) <= n
  <2>1. \A i : Upto(i) \in SUBSET S
    OBVIOUS
  <2>. HIDE DEF Upto
  <2>. QED
    BY <2>1, FS_Subset, FS_CardinalityType
<1>2. n \in Nat
  BY FS_CardinalityType
<1>3. ASSUME NEW i \in S, Cardinality(Upto(i)) = 0 PROVE FALSE
  <2>1. i \in Upto(i)
    OBVIOUS
  <2>. HIDE DEF Upto
  <2>. QED
    BY <1>1, <1>3, <2>1, FS_EmptySet
<1>4. ASSUME NEW i \in S, NEW j \in S, i < j PROVE Cardinality(Upto(i)) # Cardinality(Upto(j))
  <2>1. Upto(i) \in SUBSET Upto(j) /\ j \in Upto(j) /\ j \notin Upto(i)
    <3>1. i \in Nat /\ j \in Nat /\ \A k \in S : k \in Nat
      OBVIOUS
    <3>2. \A k \in S : k <= i => k <= j
      BY <1>4, <3>1
    <3>3. j <= j /\ ~(j <= i)
      BY <1>4, <3>1
    <3>. QED
      BY Zenon, <3>2, <3>3
  <2>. HIDE DEF Upto
  <2>2. Cardinality(Upto(i)) = Cardinality(Upto(j)) => Upto(i) = Upto(j)
    BY <1>1, <2>1, FS_Subset
  <2>. QED
    BY Zenon, <2>1, <2>2
<1>5. \A i \in S : Cardinality(Upto(i)) \in 1 .. n
  <2>. HIDE DEF Upto, n
  <2>. QED
    BY <1>1, <1>2, <1>3
<1>6. \A i, j \in S : Cardinality(Upto(i)) = Cardinality(Upto(j)) => i = j
  <2>1. \A i, j \in S : i = j \/ i < j \/ j < i
    OBVIOUS
  <2>. HIDE DEF Upto
  <2>. QED
    BY Zenon, <1>4, <2>1
<1> DEFINE f == [i \in S |-> Cardinality(Upto(i))]
<1>7. f \in Injection(S, 1 .. n)
  <2>. HIDE DEF Upto, n
  <2>. QED
    BY Zenon, <1>5, <1>6 DEF Injection, IsInjective
<1>8. f \in Surjection(S, 1 .. n)
  <2>1. IsFiniteSet(1 .. n) /\ Cardinality(1 .. n) = n
    BY <1>2, FS_Interval
  <2>. HIDE DEF f
  <2>. QED
    BY Zenon, <1>7, <2>1, FS_Injection
<1>9. \A k \in 1 .. n : \E i \in S : Cardinality(Upto(i)) = k
  <2>. HIDE DEF Upto, n
  <2>. QED
    BY Zenon, <1>8 DEF Surjection
<1>. QED
  BY Zenon, <1>2, <1>5, <1>6, <1>9 DEF Rank

-----------------------------------------------------------------------------
(* Places in the region *)

\* A place counted in cells, and the sector and the place in it.
LEMMA Places ==
  /\ RegionSize \in Nat /\ PerSector <= RegionSize /\ RegionSize >= 1
  /\ \A k \in 0 .. Sectors - 1 : \A i \in 1 .. PerSector :
       k * PerSector + i \in 1 .. RegionSize
  /\ \A j \in 1 .. RegionSize :
       /\ (j - 1) \div PerSector \in 0 .. Sectors - 1
       /\ ((j - 1) % PerSector) + 1 \in 1 .. PerSector
       /\ ((j - 1) \div PerSector) * PerSector + ((j - 1) % PerSector) + 1 = j
  /\ \A j \in 1 .. PerSector : (j - 1) \div PerSector = 0 /\ ((j - 1) % PerSector) + 1 = j
<1>1. PerSector \in Nat /\ PerSector >= 1 /\ Sectors \in Nat /\ Sectors >= 1
  BY AccountsAssumption
<1>2. RegionSize \in Nat /\ PerSector <= RegionSize /\ RegionSize >= 1
  BY <1>1 DEF RegionSize
<1>3. ASSUME NEW k \in 0 .. Sectors - 1, NEW i \in 1 .. PerSector
      PROVE  k * PerSector + i \in 1 .. RegionSize
  <2>1. k * PerSector \in Nat
    BY <1>1
  <2>2. (k + 1) * PerSector <= Sectors * PerSector
    BY <1>1
  <2>3. (k + 1) * PerSector = k * PerSector + PerSector
    BY <1>1
  <2>. QED
    BY <1>1, <2>1, <2>2, <2>3 DEF RegionSize
<1>4. ASSUME NEW j \in 1 .. RegionSize
      PROVE  /\ (j - 1) \div PerSector \in 0 .. Sectors - 1
             /\ ((j - 1) % PerSector) + 1 \in 1 .. PerSector
             /\ ((j - 1) \div PerSector) * PerSector + ((j - 1) % PerSector) + 1 = j
  <2> DEFINE q == (j - 1) \div PerSector
             r == (j - 1) % PerSector
  <2>1. q \in Int /\ r \in 0 .. PerSector - 1 /\ q * PerSector + r = j - 1
    BY <1>1, <1>2
  <2>2. q >= 0
    BY <1>1, <1>2
  <2>3. ASSUME q >= Sectors PROVE FALSE
    <3>. HIDE DEF q, r
    <3>1. q * PerSector >= Sectors * PerSector
      BY <1>1, <2>1, <2>3
    <3>. QED
      BY <1>1, <2>1, <3>1 DEF RegionSize
  <2>. HIDE DEF q, r
  <2>4. q \in 0 .. Sectors - 1 /\ r + 1 \in 1 .. PerSector /\ q * PerSector + r + 1 = j
    BY <1>1, <2>1, <2>2, <2>3
  <2>. QED
    BY <2>4 DEF q, r
<1>5. ASSUME NEW j \in 1 .. PerSector
      PROVE  (j - 1) \div PerSector = 0 /\ ((j - 1) % PerSector) + 1 = j
  BY <1>1
<1>. QED
  BY Zenon, <1>2, <1>3, <1>4, <1>5

-----------------------------------------------------------------------------
(* The blob *)

\* A sequence of one element, and one given by a function.
LEMMA SeqOne ==
  ASSUME NEW T, NEW x \in T
  PROVE  <<x>> \in Seq(T) /\ Len(<<x>>) = 1 /\ <<x>>[1] = x
OBVIOUS

\* A function on an initial interval is a sequence.
LEMMA SeqFn ==
  ASSUME NEW T, NEW n \in Nat, NEW f \in [1 .. n -> T]
  PROVE  f \in Seq(T) /\ Len(f) = n
OBVIOUS

\* u is s followed by t.
Joins(s, t, u) == /\ Len(u) = Len(s) + Len(t)
                  /\ \A i \in 1 .. Len(s) : u[i] = s[i]
                  /\ \A i \in 1 .. Len(t) : u[Len(s) + i] = t[i]

\* What concatenation does.
LEMMA Concat ==
  ASSUME NEW T, NEW s \in Seq(T), NEW t \in Seq(T)
  PROVE  s \o t \in Seq(T) /\ Joins(s, t, s \o t)
<1>1. s \o t \in Seq(T) /\ Len(s \o t) = Len(s) + Len(t)
  OBVIOUS
<1>2. \A i \in 1 .. Len(s) : (s \o t)[i] = s[i]
  OBVIOUS
<1>3. \A i \in 1 .. Len(t) : (s \o t)[Len(s) + i] = t[i]
  OBVIOUS
<1>. QED
  BY Zenon, <1>1, <1>2, <1>3 DEF Joins

\* The lines of text the model has are of their type.
LEMMA UserTypes ==
  /\ Junk \in UserType /\ None \in UserType
  /\ \A n \in Names, p \in Passwords, u \in 0 .. MaxUid :
       User(n, sha256_hex(p), u) \in UserType /\ User(n, sha256_hex(p), u) # Junk
  /\ FirstUid \in 0 .. MaxUid /\ 0 \in 0 .. MaxUid /\ MaxUid \in 0 .. MaxUid
  /\ "root" \in Passwords /\ "luc" \in Passwords /\ "other" \in Passwords
  /\ "root" \in Names /\ "luc" \in Names
<1>1. MaxUid \in Nat /\ MaxUid >= 2
  BY AccountsAssumption
<1>2. FirstUid \in 0 .. MaxUid /\ 0 \in 0 .. MaxUid /\ MaxUid \in 0 .. MaxUid
  BY <1>1 DEF FirstUid
<1>3. Junk \in UserType /\ None \in UserType
  BY <1>2 DEF Junk, None, User, UserType
<1>4. ASSUME NEW n \in Names, NEW p \in Passwords, NEW u \in 0 .. MaxUid
      PROVE  User(n, sha256_hex(p), u) \in UserType /\ User(n, sha256_hex(p), u) # Junk
  <2>1. sha256_hex(p) # << >>
    BY DEF sha256_hex
  <2>2. User(n, sha256_hex(p), u).hash = sha256_hex(p) /\ Junk.hash = << >>
    BY DEF User, Junk
  <2>3. User(n, sha256_hex(p), u) \in UserType
    BY DEF User, UserType
  <2>. QED
    BY Zenon, <2>1, <2>2, <2>3
<1>. QED
  BY Zenon, <1>2, <1>3, <1>4, AccountsAssumption DEF Passwords

\* The fields of a cell.
HasFields(c, k, p, n, l) == c.kind = k /\ c.path = p /\ c.n = n /\ c.line = l

\* The fields of a cell.
LEMMA CellFields ==
  ASSUME NEW k, NEW p, NEW n, NEW l
  PROVE  HasFields(Cell(k, p, n, l), k, p, n, l)
BY DEF Cell, HasFields

\* What cells the model writes.
LEMMA CellTypes ==
  /\ IsCell(Zero) /\ IsCell(BpbRow) /\ Zero.kind # "header" /\ BpbRow.kind # "header"
  /\ \A n \in 0 .. 2 : IsCell(Cell("header", "", n, Junk))
  /\ \A p \in Paths, n \in Nat : IsCell(Cell("entry", p, n, Junk))
  /\ \A l \in UserType : IsCell(Cell("line", "", 0, l))
BY UserTypes DEF IsCell, CellType, Cell, Zero, BpbRow, Paths

\* An entry is the file's header and its lines.
LEMMA EntryShape ==
  ASSUME NEW p \in Paths, NEW l \in Seq(UserType)
  PROVE  /\ Entry(p, l) \in Seq(CellType) /\ Len(Entry(p, l)) = 1 + Len(l)
         /\ Entry(p, l)[1] = Cell("entry", p, Len(l), Junk)
         /\ \A i \in 1 .. Len(l) : Entry(p, l)[1 + i] = Cell("line", "", 0, l[i])
         /\ \A i \in 1 .. 1 + Len(l) : IsCell(Entry(p, l)[i])
<1> DEFINE h == <<Cell("entry", p, Len(l), Junk)>>
           t == [i \in 1 .. Len(l) |-> Cell("line", "", 0, l[i])]
<1>1. Len(l) \in Nat /\ \A i \in 1 .. Len(l) : l[i] \in UserType
  OBVIOUS
<1>2. IsCell(Cell("entry", p, Len(l), Junk)) /\ \A i \in 1 .. Len(l) : IsCell(t[i])
  BY Zenon, <1>1, CellTypes
<1>3. h \in Seq(CellType) /\ Len(h) = 1 /\ h[1] = Cell("entry", p, Len(l), Junk)
  BY Zenon, <1>2, SeqOne DEF IsCell
<1>4. t \in Seq(CellType) /\ Len(t) = Len(l)
  <2>1. t \in [1 .. Len(l) -> CellType]
    BY Zenon, <1>1, CellTypes DEF IsCell
  <2>. HIDE DEF t
  <2>. QED
    BY Zenon, <1>1, <2>1, SeqFn
<1>5. \A i \in 1 .. Len(l) : t[i] = Cell("line", "", 0, l[i])
  BY Zenon
<1>. HIDE DEF h, t
<1>0. h \o t \in Seq(CellType) /\ Joins(h, t, h \o t)
  BY Zenon, <1>3, <1>4, Concat
<1>6. h \o t \in Seq(CellType) /\ Len(h \o t) = 1 + Len(l) /\ (h \o t)[1] = h[1]
  BY <1>1, <1>3, <1>4, <1>0 DEF Joins
<1>7. \A i \in 1 .. Len(l) : (h \o t)[1 + i] = t[i]
  BY Zenon, <1>3, <1>4, <1>0 DEF Joins
<1>8. \A i \in 1 .. 1 + Len(l) : IsCell((h \o t)[i])
  <2>1. \A i \in 1 .. 1 + Len(l) : i = 1 \/ (i - 1 \in 1 .. Len(l) /\ 1 + (i - 1) = i)
    BY <1>1
  <2>. QED
    BY <1>1, <1>2, <1>3, <1>6, <1>7, <2>1
<1>9. Entry(p, l) = h \o t
  BY DEF Entry, h, t
<1>. QED
  BY Zenon, <1>3, <1>5, <1>6, <1>7, <1>8, <1>9

\* The maps of files there are, by the files in them.
LEMMA Domains ==
  ASSUME NEW fs, IsFiles(fs)
  PROVE  /\ \/ DOMAIN fs = {} /\ Cardinality(DOMAIN fs) = 0
            \/ DOMAIN fs = {"passwd"} /\ Cardinality(DOMAIN fs) = 1
            \/ DOMAIN fs = {"settings"} /\ Cardinality(DOMAIN fs) = 1
            \/ DOMAIN fs = Paths /\ Cardinality(DOMAIN fs) = 2
         /\ Cardinality(DOMAIN fs) \in 0 .. 2
         /\ fs # NoBlob
         /\ fs = [p \in DOMAIN fs |-> fs[p]]
         /\ \A p \in DOMAIN fs : p \in Paths /\ fs[p] \in Seq(UserType)
<1>1. DOMAIN fs \in SUBSET {"passwd", "settings"} /\ fs \in [DOMAIN fs -> Seq(UserType)]
  BY Zenon DEF IsFiles, Paths
<1>2. DOMAIN fs = {} \/ DOMAIN fs = {"passwd"} \/ DOMAIN fs = {"settings"} \/ DOMAIN fs = Paths
  BY Zenon, <1>1 DEF Paths
<1>3. Cardinality({}) = 0
  BY Zenon, FS_EmptySet
<1>4. IsFiniteSet({"passwd"}) /\ Cardinality({"passwd"}) = 1 /\ Cardinality({"settings"}) = 1
  BY Zenon, FS_Singleton
<1>5. Cardinality(Paths) = 2
  <2>1. Paths = {"passwd"} \cup {"settings"} /\ "settings" \notin {"passwd"}
    BY DEF Paths
  <2>2. Cardinality({"passwd"} \cup {"settings"}) = Cardinality({"passwd"}) + 1
    BY Zenon, <1>4, <2>1, FS_AddElement
  <2>. QED
    BY <1>4, <2>1, <2>2
<1>6. fs # NoBlob
  <2>1. "none" \in DOMAIN NoBlob
    BY Zenon DEF NoBlob
  <2>2. "none" \notin {"passwd", "settings"}
    OBVIOUS
  <2>. QED
    BY Zenon, <1>1, <2>1, <2>2
<1>7. fs = [p \in DOMAIN fs |-> fs[p]] /\ \A p \in DOMAIN fs : p \in Paths /\ fs[p] \in Seq(UserType)
  BY Zenon, <1>1 DEF Paths
<1>8. 0 \in 0 .. 2 /\ 1 \in 0 .. 2 /\ 2 \in 0 .. 2
  OBVIOUS
<1>. QED
  BY Zenon, <1>2, <1>3, <1>4, <1>5, <1>6, <1>7, <1>8

\* A blob is its header and the entries of the two files, if they exist.
LEMMA SerializeShape ==
  ASSUME NEW fs, IsFiles(fs)
  PROVE  LET s == serialize(fs)
             e == EntryIf(fs, "passwd")
             g == EntryIf(fs, "settings")
         IN /\ s \in Seq(CellType) /\ \A i \in 1 .. Len(s) : IsCell(s[i])
            /\ Len(e) \in Nat /\ Len(g) \in Nat /\ Len(s) = 1 + Len(e) + Len(g)
            /\ s[1] = Cell("header", "", Cardinality(DOMAIN fs), Junk)
            /\ \A i \in 1 .. Len(e) : s[1 + i] = e[i]
            /\ \A i \in 1 .. Len(g) : s[1 + Len(e) + i] = g[i]
<1> DEFINE h == <<Header(fs)>>
           e == EntryIf(fs, "passwd")
           g == EntryIf(fs, "settings")
           s == h \o (e \o g)
<1>1. ASSUME NEW p \in Paths
      PROVE  EntryIf(fs, p) \in Seq(CellType) /\ \A i \in 1 .. Len(EntryIf(fs, p)) : IsCell(EntryIf(fs, p)[i])
  <2>1. CASE p \in DOMAIN fs
    <3>1. EntryIf(fs, p) = Entry(p, fs[p]) /\ fs[p] \in Seq(UserType)
      BY Zenon, <2>1, Domains DEF EntryIf
    <3>2. /\ Entry(p, fs[p]) \in Seq(CellType)
          /\ \A i \in 1 .. Len(Entry(p, fs[p])) : IsCell(Entry(p, fs[p])[i])
      BY Zenon, <3>1, EntryShape
    <3>. QED
      BY Zenon, <3>1, <3>2
  <2>2. CASE p \notin DOMAIN fs
    <3>1. EntryIf(fs, p) = << >>
      BY Zenon, <2>2 DEF EntryIf
    <3>. QED
      BY <3>1
  <2>. QED
    BY Zenon, <2>1, <2>2
<1>2. /\ e \in Seq(CellType) /\ \A i \in 1 .. Len(e) : IsCell(e[i])
      /\ g \in Seq(CellType) /\ \A i \in 1 .. Len(g) : IsCell(g[i])
  BY Zenon, <1>1 DEF Paths
<1>3. IsCell(Header(fs)) /\ Header(fs) = Cell("header", "", Cardinality(DOMAIN fs), Junk)
  BY Zenon, Domains, CellTypes DEF Header
<1>4. h \in Seq(CellType) /\ Len(h) = 1 /\ h[1] = Header(fs)
  BY Zenon, <1>3, SeqOne DEF IsCell
<1>5. serialize(fs) = s
  BY Zenon DEF serialize, Entries
<1>. HIDE DEF h, e, g
<1>6. e \o g \in Seq(CellType) /\ Joins(e, g, e \o g)
  BY Zenon, <1>2, Concat
<1>7. s \in Seq(CellType) /\ Joins(h, e \o g, s)
  BY Zenon, <1>4, <1>6, Concat
<1>8. Len(e) \in Nat /\ Len(g) \in Nat
  BY <1>2
<1> DEFINE eg == e \o g
<1>. HIDE DEF s, eg
<1>9. Len(eg) = Len(e) + Len(g) /\ Len(s) = 1 + Len(e) + Len(g) /\ s[1] = h[1]
  BY <1>4, <1>6, <1>7, <1>8 DEF Joins, eg
<1>10. \A i \in 1 .. Len(e) : s[1 + i] = e[i]
  <2>1. \A i \in 1 .. Len(e) : i \in 1 .. Len(eg)
    BY <1>8, <1>9
  <2>. QED
    BY Zenon, <1>4, <1>6, <1>7, <2>1 DEF Joins, eg
<1>11. \A i \in 1 .. Len(g) : s[1 + Len(e) + i] = g[i]
  <2>1. \A i \in 1 .. Len(g) : Len(e) + i \in 1 .. Len(eg) /\ 1 + (Len(e) + i) = 1 + Len(e) + i
    BY <1>8, <1>9
  <2>. QED
    <3>1. \A i \in 1 .. Len(g) : eg[Len(e) + i] = g[i]
      BY Zenon, <1>6 DEF Joins, eg
    <3>2. \A i \in 1 .. Len(eg) : s[1 + i] = eg[i]
      BY Zenon, <1>4, <1>7 DEF Joins, eg
    <3>. QED
      BY Zenon, <2>1, <3>1, <3>2
<1>12. ASSUME NEW i \in 1 .. Len(s) PROVE IsCell(s[i])
  <2>1. \/ i = 1
        \/ i - 1 \in 1 .. Len(e) /\ i = 1 + (i - 1)
        \/ i - 1 - Len(e) \in 1 .. Len(g) /\ i = 1 + Len(e) + (i - 1 - Len(e))
    BY <1>8, <1>9
  <2>2. CASE i = 1
    BY Zenon, <1>3, <1>4, <1>9, <2>2
  <2>3. CASE i - 1 \in 1 .. Len(e) /\ i = 1 + (i - 1)
    <3>1. s[i] = e[i - 1]
      BY Zenon, <1>10, <2>3
    <3>. QED
      BY Zenon, <1>2, <2>3, <3>1
  <2>4. CASE i - 1 - Len(e) \in 1 .. Len(g) /\ i = 1 + Len(e) + (i - 1 - Len(e))
    <3>1. s[i] = g[i - 1 - Len(e)]
      BY Zenon, <1>11, <2>4
    <3>. QED
      BY Zenon, <1>2, <2>4, <3>1
  <2>. QED
    BY Zenon, <2>1, <2>2, <2>3, <2>4
<1>. QED
  BY Zenon, <1>3, <1>4, <1>5, <1>7, <1>8, <1>9, <1>10, <1>11, <1>12 DEF e, g

\* The cells from place o on are the entry of a file.
EntryAt(cells, o, p, l) ==
  /\ cells[o] = Cell("entry", p, Len(l), Junk)
  /\ \A i \in 1 .. Len(l) : cells[o + i] = Cell("line", "", 0, l[i])

\* Where the entries of a blob are.
LEMMA EntriesAt ==
  ASSUME NEW fs, IsFiles(fs), NEW cells,
         \A j \in 1 .. Len(serialize(fs)) : cells[j] = serialize(fs)[j]
  PROVE  LET n == Len(serialize(fs))
             a == Len(fs["passwd"])
             b == Len(fs["settings"])
         IN /\ cells[1] = Cell("header", "", Cardinality(DOMAIN fs), Junk)
            /\ DOMAIN fs = {"passwd"} => n = 2 + a /\ EntryAt(cells, 2, "passwd", fs["passwd"])
            /\ DOMAIN fs = {"settings"} => n = 2 + b /\ EntryAt(cells, 2, "settings", fs["settings"])
            /\ DOMAIN fs = Paths => /\ n = 3 + a + b
                                    /\ EntryAt(cells, 2, "passwd", fs["passwd"])
                                    /\ EntryAt(cells, 3 + a, "settings", fs["settings"])
<1> DEFINE s == serialize(fs)
           e == EntryIf(fs, "passwd")
           g == EntryIf(fs, "settings")
<1>. HIDE DEF s, e, g
<1>1. /\ Len(e) \in Nat /\ Len(g) \in Nat /\ Len(s) = 1 + Len(e) + Len(g)
      /\ s[1] = Cell("header", "", Cardinality(DOMAIN fs), Junk)
      /\ \A i \in 1 .. Len(e) : s[1 + i] = e[i]
      /\ \A i \in 1 .. Len(g) : s[1 + Len(e) + i] = g[i]
  BY Zenon, SerializeShape DEF s, e, g
<1>0. Len(e) \in Nat /\ Len(g) \in Nat /\ Len(s) = 1 + Len(e) + Len(g)
  BY Zenon, <1>1
<1>2. \A j \in 1 .. Len(s) : cells[j] = s[j]
  BY Zenon DEF s
<1>3. cells[1] = Cell("header", "", Cardinality(DOMAIN fs), Junk)
  <2>1. 1 \in 1 .. Len(s)
    BY <1>0
  <2>. QED
    BY Zenon, <1>1, <1>2, <2>1
<1>4. /\ \A i \in 1 .. Len(e) : cells[1 + i] = e[i]
      /\ \A i \in 1 .. Len(g) : cells[1 + Len(e) + i] = g[i]
  <2>1. /\ \A i \in 1 .. Len(e) : 1 + i \in 1 .. Len(s)
        /\ \A i \in 1 .. Len(g) : 1 + Len(e) + i \in 1 .. Len(s)
    BY <1>0
  <2>. QED
    BY Zenon, <1>1, <1>2, <2>1
<1>5. ASSUME NEW p \in DOMAIN fs, NEW x \in Nat,
             \A i \in 1 .. Len(EntryIf(fs, p)) : cells[x + i] = EntryIf(fs, p)[i]
      PROVE  /\ Len(fs[p]) \in Nat /\ Len(EntryIf(fs, p)) = 1 + Len(fs[p])
             /\ EntryAt(cells, x + 1, p, fs[p])
  <2>1. fs[p] \in Seq(UserType) /\ p \in Paths /\ EntryIf(fs, p) = Entry(p, fs[p])
    BY Zenon, Domains DEF EntryIf
  <2>2. Len(fs[p]) \in Nat
    BY <2>1
  <2>3. /\ Len(Entry(p, fs[p])) = 1 + Len(fs[p])
        /\ Entry(p, fs[p])[1] = Cell("entry", p, Len(fs[p]), Junk)
        /\ \A i \in 1 .. Len(fs[p]) : Entry(p, fs[p])[1 + i] = Cell("line", "", 0, fs[p][i])
    BY Zenon, <2>1, EntryShape
  <2>4. /\ 1 \in 1 .. 1 + Len(fs[p])
        /\ \A i \in 1 .. Len(fs[p]) : 1 + i \in 1 .. 1 + Len(fs[p]) /\ x + 1 + i = x + (1 + i)
    BY <2>2
  <2>5. cells[x + 1] = Cell("entry", p, Len(fs[p]), Junk)
    BY Zenon, <1>5, <2>1, <2>3, <2>4
  <2>6. \A i \in 1 .. Len(fs[p]) : cells[x + 1 + i] = Cell("line", "", 0, fs[p][i])
    BY Zenon, <1>5, <2>1, <2>3, <2>4
  <2>. QED
    BY Zenon, <2>1, <2>2, <2>3, <2>5, <2>6 DEF EntryAt
<1>6. "passwd" \in DOMAIN fs => /\ Len(fs["passwd"]) \in Nat /\ Len(e) = 1 + Len(fs["passwd"])
                                /\ EntryAt(cells, 1 + 1, "passwd", fs["passwd"])
  <2>1. 1 \in Nat
    OBVIOUS
  <2>. QED
    BY Zenon, <1>4, <1>5, <2>1 DEF e
<1>7. "settings" \in DOMAIN fs => /\ Len(fs["settings"]) \in Nat /\ Len(g) = 1 + Len(fs["settings"])
                                  /\ EntryAt(cells, 1 + Len(e) + 1, "settings", fs["settings"])
  <2>1. 1 + Len(e) \in Nat
    BY <1>0
  <2>. QED
    BY Zenon, <1>4, <1>5, <2>1 DEF g
<1>8. /\ "passwd" \notin DOMAIN fs => Len(e) = 0
      /\ "settings" \notin DOMAIN fs => Len(g) = 0
  <2>1. /\ "passwd" \notin DOMAIN fs => e = << >>
        /\ "settings" \notin DOMAIN fs => g = << >>
    BY Zenon DEF e, g, EntryIf
  <2>. QED
    BY <2>1
<1>16. /\ "passwd" \in DOMAIN fs => Len(fs["passwd"]) \in Nat /\ Len(e) = 1 + Len(fs["passwd"])
       /\ "settings" \in DOMAIN fs => Len(fs["settings"]) \in Nat /\ Len(g) = 1 + Len(fs["settings"])
  BY Zenon, <1>6, <1>7
<1>9. DOMAIN fs = {"passwd"} => Len(s) = 2 + Len(fs["passwd"]) /\ 1 + 1 = 2
  BY <1>0, <1>16, <1>8
<1>10. DOMAIN fs = {"settings"} => Len(s) = 2 + Len(fs["settings"]) /\ 1 + Len(e) + 1 = 2
  BY <1>0, <1>16, <1>8
<1>11. DOMAIN fs = Paths => /\ Len(s) = 3 + Len(fs["passwd"]) + Len(fs["settings"])
                            /\ 1 + Len(e) + 1 = 3 + Len(fs["passwd"]) /\ 1 + 1 = 2
  BY <1>0, <1>16 DEF Paths
<1>12. "passwd" \in {"passwd"} /\ "settings" \in {"settings"} /\ "passwd" \in Paths /\ "settings" \in Paths
  BY Zenon DEF Paths
<1>13. DOMAIN fs = {"passwd"} => Len(s) = 2 + Len(fs["passwd"]) /\ EntryAt(cells, 2, "passwd", fs["passwd"])
  BY Zenon, <1>6, <1>9, <1>12
<1>14. DOMAIN fs = {"settings"} => Len(s) = 2 + Len(fs["settings"]) /\ EntryAt(cells, 2, "settings", fs["settings"])
  BY Zenon, <1>7, <1>10, <1>12
<1>15. DOMAIN fs = Paths => /\ Len(s) = 3 + Len(fs["passwd"]) + Len(fs["settings"])
                            /\ EntryAt(cells, 2, "passwd", fs["passwd"])
                            /\ EntryAt(cells, 3 + Len(fs["passwd"]), "settings", fs["settings"])
  BY Zenon, <1>6, <1>7, <1>11, <1>12
<1>. QED
  BY Zenon, <1>3, <1>13, <1>14, <1>15 DEF s

-----------------------------------------------------------------------------
(* Reading a blob *)

Start == [ok |-> TRUE, off |-> 2, files |-> NoFiles]

\* One turn of deserialize's loop.
Turn(p, cells, lucky) == IF ~p.ok THEN p ELSE ReadEntry(p, cells, lucky)

\* Where the loop is after as many turns as the header says, two at most.
AfterTurns(cells, lucky) ==
  IF cells[1].n = 0 THEN Start
  ELSE IF cells[1].n = 1 THEN Turn(Start, cells, lucky)
  ELSE Turn(Turn(Start, cells, lucky), cells, lucky)

IsLoop(f, cells, lucky) ==
  f = [k \in 0 .. cells[1].n |->
         IF k = 0 THEN Start
         ELSE IF ~f[k - 1].ok THEN f[k - 1] ELSE ReadEntry(f[k - 1], cells, lucky)]

\* deserialize, its loop unrolled.
LEMMA Unrolled ==
  ASSUME NEW cells, NEW lucky, cells[1].n \in 0 .. 2
  PROVE  deserialize(cells, lucky) =
           IF cells[1].kind # "header" \/ ~AfterTurns(cells, lucky).ok THEN NoBlob
           ELSE AfterTurns(cells, lucky).files
<1> DEFINE n  == cells[1].n
           S1 == Turn(Start, cells, lucky)
           S2 == Turn(S1, cells, lucky)
           w  == [k \in 0 .. n |-> IF k = 0 THEN Start ELSE IF k = 1 THEN S1 ELSE S2]
           f  == CHOOSE g : IsLoop(g, cells, lucky)
<1>1. n = 0 \/ n = 1 \/ n = 2
  OBVIOUS
<1>. HIDE DEF n, S1, S2
<1>2. IsLoop(w, cells, lucky)
  <2>1. ASSUME NEW k \in 0 .. n
        PROVE  w[k] = IF k = 0 THEN Start
                      ELSE IF ~w[k - 1].ok THEN w[k - 1] ELSE ReadEntry(w[k - 1], cells, lucky)
    <3>1. k = 0 \/ (k = 1 /\ 0 \in 0 .. n /\ k - 1 = 0) \/ (k = 2 /\ 1 \in 0 .. n /\ k - 1 = 1)
      BY <1>1
    <3>2. 1 # 0 /\ 2 # 0 /\ 2 # 1
      OBVIOUS
    <3>3. CASE k = 0
      BY Zenon, <3>3
    <3>4. CASE k = 1 /\ 0 \in 0 .. n /\ k - 1 = 0
      <4>1. w[k] = S1 /\ w[k - 1] = Start
        BY Zenon, <3>2, <3>4
      <4>. QED
        BY Zenon, <3>2, <3>4, <4>1 DEF S1, Turn
    <3>5. CASE k = 2 /\ 1 \in 0 .. n /\ k - 1 = 1
      <4>1. w[k] = S2 /\ w[k - 1] = S1
        BY Zenon, <3>2, <3>5
      <4>. QED
        BY Zenon, <3>2, <3>5, <4>1 DEF S2, Turn
    <3>. QED
      BY Zenon, <3>1, <3>3, <3>4, <3>5
  <2>2. w = [k \in 0 .. n |-> w[k]]
    BY Zenon
  <2>. HIDE DEF w
  <2>. QED
    BY Zenon, <2>1, <2>2 DEF IsLoop, n
<1>3. IsLoop(f, cells, lucky)
  <2>. HIDE DEF w
  <2>. QED
    BY Zenon, <1>2
<1>4. deserialize(cells, lucky) = IF cells[1].kind # "header" \/ ~f[n].ok THEN NoBlob ELSE f[n].files
  BY Zenon DEF deserialize, IsLoop, Start, n
<1>. HIDE DEF f
<1>5. \A k \in 0 .. n : f[k] = IF k = 0 THEN Start
                               ELSE IF ~f[k - 1].ok THEN f[k - 1] ELSE ReadEntry(f[k - 1], cells, lucky)
  BY Zenon, <1>3 DEF IsLoop, n
<1>6. f[0] = Start
  <2>1. 0 \in 0 .. n
    BY <1>1
  <2>. QED
    BY Zenon, <1>5, <2>1
<1>7. 1 \in 0 .. n => f[1] = S1
  <2>1. 1 # 0 /\ 1 - 1 = 0
    OBVIOUS
  <2>. QED
    BY Zenon, <1>5, <1>6, <2>1 DEF S1, Turn
<1>8. n = 2 => f[2] = S2
  <2>1. 2 # 0 /\ 2 - 1 = 1 /\ (n = 2 => 1 \in 0 .. n /\ 2 \in 0 .. n)
    OBVIOUS
  <2>. QED
    BY Zenon, <1>5, <1>7, <2>1 DEF S2, Turn
<1>9. f[n] = AfterTurns(cells, lucky)
  <2>1. n = 1 => 1 \in 0 .. n /\ 1 # 0
    OBVIOUS
  <2>2. n = 2 => n # 0 /\ n # 1
    OBVIOUS
  <2>. QED
    BY Zenon, <1>1, <1>6, <1>7, <1>8, <2>1, <2>2 DEF AfterTurns, n, S1, S2
<1>. QED
  BY Zenon, <1>4, <1>9

\* A turn that starts at place o with files g puts file p back.
PutsBack(cells, lucky, o, g, p, l) ==
  Turn([ok |-> TRUE, off |-> o, files |-> g], cells, lucky)
    = [ok |-> TRUE, off |-> o + 1 + Len(l), files |-> Put(g, p, l)]

\* One turn over a file's entry puts the file back.
LEMMA TurnReads ==
  ASSUME NEW cells, NEW lucky, NEW o \in Nat, NEW g, NEW p, NEW l \in Seq(UserType),
         EntryAt(cells, o, p, l), o >= 1, o + Len(l) <= RegionSize
  PROVE  PutsBack(cells, lucky, o, g, p, l)
<1> DEFINE q == [ok |-> TRUE, off |-> o, files |-> g]
           m == [i \in 1 .. Len(l) |-> IF cells[o + i].kind = "line" THEN cells[o + i].line ELSE Junk]
<1>1. q.ok = TRUE /\ q.off = o /\ q.files = g
  OBVIOUS
<1>2. Len(l) \in Nat /\ l = [i \in 1 .. Len(l) |-> l[i]] /\ RegionSize \in Nat
  BY Places
<1>3. cells[o].kind = "entry" /\ cells[o].path = p /\ cells[o].n = Len(l)
  <2>1. cells[o] = Cell("entry", p, Len(l), Junk)
    BY Zenon DEF EntryAt
  <2>2. HasFields(cells[o], "entry", p, Len(l), Junk)
    BY Zenon, <2>1, CellFields
  <2>. QED
    BY Zenon, <2>2 DEF HasFields
<1>4. ~(o > RegionSize) /\ ~(o + Len(l) > RegionSize)
  BY <1>2
<1>5. \A i \in 1 .. Len(l) : cells[o + i].kind = "line" /\ cells[o + i].line = l[i]
  <2>1. \A i \in 1 .. Len(l) : cells[o + i] = Cell("line", "", 0, l[i])
    BY Zenon DEF EntryAt
  <2>2. \A i \in 1 .. Len(l) : HasFields(cells[o + i], "line", "", 0, l[i])
    BY Zenon, <2>1, CellFields
  <2>. QED
    BY Zenon, <2>2 DEF HasFields
<1>6. m = l
  <2>1. m = [i \in 1 .. Len(l) |-> l[i]]
    BY Zenon, <1>5
  <2>. QED
    BY Zenon, <1>2, <2>1
<1>7. ReadEntry(q, cells, lucky) = [ok |-> TRUE, off |-> o + 1 + Len(l), files |-> Put(g, p, m)]
  <2>. HIDE DEF q
  <2>. QED
    BY Zenon, <1>1, <1>3, <1>4 DEF ReadEntry
<1>. HIDE DEF q, m
<1>8. Turn(q, cells, lucky) = ReadEntry(q, cells, lucky)
  BY Zenon, <1>1 DEF Turn
<1>. QED
  BY Zenon, <1>6, <1>7, <1>8 DEF q, PutsBack

\* What serialize writes, deserialize reads back, whatever follows the blob.
LEMMA Decodes ==
  ASSUME NEW fs, IsFiles(fs), NEW cells, NEW lucky, Len(serialize(fs)) <= RegionSize,
         \A j \in 1 .. Len(serialize(fs)) : cells[j] = serialize(fs)[j]
  PROVE  deserialize(cells, lucky) = fs
<1> DEFINE a == fs["passwd"]
           b == fs["settings"]
           N == Len(serialize(fs))
<1>0. \A p \in DOMAIN fs : fs[p] \in Seq(UserType)
  BY Zenon, Domains
<1>1. /\ cells[1] = Cell("header", "", Cardinality(DOMAIN fs), Junk)
      /\ DOMAIN fs = {"passwd"} => N = 2 + Len(a) /\ EntryAt(cells, 2, "passwd", a)
      /\ DOMAIN fs = {"settings"} => N = 2 + Len(b) /\ EntryAt(cells, 2, "settings", b)
      /\ DOMAIN fs = Paths => /\ N = 3 + Len(a) + Len(b)
                              /\ EntryAt(cells, 2, "passwd", a)
                              /\ EntryAt(cells, 3 + Len(a), "settings", b)
  BY Zenon, EntriesAt
<1>2. cells[1].kind = "header" /\ cells[1].n = Cardinality(DOMAIN fs)
  <2>1. cells[1] = Cell("header", "", Cardinality(DOMAIN fs), Junk)
    BY Zenon, <1>1
  <2>2. HasFields(cells[1], "header", "", Cardinality(DOMAIN fs), Junk)
    BY Zenon, <2>1, CellFields
  <2>. QED
    BY Zenon, <2>2 DEF HasFields
<1>3. deserialize(cells, lucky) =
        IF ~AfterTurns(cells, lucky).ok THEN NoBlob ELSE AfterTurns(cells, lucky).files
  <2>1. cells[1].n \in 0 .. 2
    BY Zenon, <1>2, Domains
  <2>2. deserialize(cells, lucky) =
          IF cells[1].kind # "header" \/ ~AfterTurns(cells, lucky).ok THEN NoBlob
          ELSE AfterTurns(cells, lucky).files
    BY Zenon, <2>1, Unrolled
  <2>. QED
    BY Zenon, <1>2, <2>2
<1>4. \E o : AfterTurns(cells, lucky) = [ok |-> TRUE, off |-> o, files |-> fs]
  <2>1. CASE DOMAIN fs = {}
    <3>1. fs = NoFiles
      BY Zenon, <2>1, Domains DEF NoFiles
    <3>2. AfterTurns(cells, lucky) = Start
      BY Zenon, <1>2, <2>1, FS_EmptySet DEF AfterTurns
    <3>. QED
      BY Zenon, <3>1, <3>2 DEF Start
  <2>2. ASSUME NEW p \in Paths, DOMAIN fs = {p}, N = 2 + Len(fs[p]), EntryAt(cells, 2, p, fs[p])
        PROVE  \E o : AfterTurns(cells, lucky) = [ok |-> TRUE, off |-> o, files |-> fs]
    <3>1. Cardinality(DOMAIN fs) = 1 /\ 1 # 0
      <4>1. Cardinality(DOMAIN fs) = 1
        BY Zenon, <2>2, FS_Singleton
      <4>. QED
        BY <4>1
    <3>2. AfterTurns(cells, lucky) = Turn(Start, cells, lucky)
      BY Zenon, <1>2, <3>1 DEF AfterTurns
    <3>3. fs[p] \in Seq(UserType)
      BY Zenon, <1>0, <2>2
    <3>4. 2 \in Nat /\ 2 >= 1 /\ 2 + Len(fs[p]) <= RegionSize
      BY <2>2
    <3>5. Turn(Start, cells, lucky) = [ok |-> TRUE, off |-> 2 + 1 + Len(fs[p]), files |-> Put(NoFiles, p, fs[p])]
      <4>1. PutsBack(cells, lucky, 2, NoFiles, p, fs[p])
        BY Zenon, <2>2, <3>3, <3>4, TurnReads
      <4>. QED
        BY Zenon, <4>1 DEF PutsBack, Start
    <3>6. Put(NoFiles, p, fs[p]) = fs
      <4>1. DOMAIN NoFiles \cup {p} = {p}
        BY Zenon DEF NoFiles
      <4>2. Put(NoFiles, p, fs[p]) = [x \in {p} |-> fs[x]]
        BY Zenon, <4>1 DEF Put
      <4>. QED
        BY Zenon, <2>2, <4>2, Domains
    <3>. QED
      BY Zenon, <3>2, <3>5, <3>6
  <2>3. CASE DOMAIN fs = Paths
    <3>1. Cardinality(DOMAIN fs) # 0 /\ Cardinality(DOMAIN fs) # 1
      <4>1. Paths # {} /\ Paths # {"passwd"} /\ Paths # {"settings"}
        <5>1. "passwd" \notin {"settings"} /\ "settings" \notin {"passwd"}
          OBVIOUS
        <5>. QED
          BY Zenon, <5>1 DEF Paths
      <4>2. Cardinality(DOMAIN fs) = 2
        BY Zenon, <2>3, <4>1, Domains
      <4>. QED
        BY <4>2
    <3>2. AfterTurns(cells, lucky) = Turn(Turn(Start, cells, lucky), cells, lucky)
      BY Zenon, <1>2, <3>1 DEF AfterTurns
    <3>3. a \in Seq(UserType) /\ b \in Seq(UserType)
      BY Zenon, <1>0, <2>3 DEF Paths
    <3>4. Len(a) \in Nat /\ Len(b) \in Nat
      BY <3>3
    <3>5. N = 3 + Len(a) + Len(b) /\ N <= RegionSize /\ RegionSize \in Nat
      BY Zenon, <1>1, <2>3, Places
    <3>6. /\ 2 \in Nat /\ 2 >= 1 /\ 2 + Len(a) <= RegionSize
          /\ 3 + Len(a) \in Nat /\ 3 + Len(a) >= 1 /\ 3 + Len(a) + Len(b) <= RegionSize
          /\ 2 + 1 + Len(a) = 3 + Len(a)
      <4>. HIDE DEF N, a, b
      <4>. QED
        BY <3>4, <3>5
    <3>7. Turn(Start, cells, lucky) = [ok |-> TRUE, off |-> 2 + 1 + Len(a), files |-> Put(NoFiles, "passwd", a)]
      <4>1. PutsBack(cells, lucky, 2, NoFiles, "passwd", a)
        BY Zenon, <1>1, <2>3, <3>3, <3>6, TurnReads
      <4>. QED
        BY Zenon, <4>1 DEF PutsBack, Start
    <3>8. Turn([ok |-> TRUE, off |-> 3 + Len(a), files |-> Put(NoFiles, "passwd", a)], cells, lucky)
            = [ok |-> TRUE, off |-> 3 + Len(a) + 1 + Len(b),
               files |-> Put(Put(NoFiles, "passwd", a), "settings", b)]
      <4> DEFINE g == Put(NoFiles, "passwd", a)
      <4>1. PutsBack(cells, lucky, 3 + Len(a), g, "settings", b)
        <5>. HIDE DEF g
        <5>. QED
          BY Zenon, <1>1, <2>3, <3>3, <3>6, TurnReads
      <4>. QED
        BY Zenon, <4>1 DEF PutsBack
    <3>9. Put(Put(NoFiles, "passwd", a), "settings", b) = fs
      <4> DEFINE f == Put(NoFiles, "passwd", a)
      <4>1. DOMAIN f = {"passwd"} /\ f["passwd"] = a
        BY Zenon DEF NoFiles, Put
      <4>. HIDE DEF f
      <4>2. DOMAIN f \cup {"settings"} = Paths /\ "passwd" # "settings"
        BY <4>1 DEF Paths
      <4>3. Put(f, "settings", b) = [p \in Paths |-> IF p = "settings" THEN b ELSE f[p]]
        BY Zenon, <4>2 DEF Put
      <4>4. \A p \in Paths : (IF p = "settings" THEN b ELSE f[p]) = fs[p]
        BY Zenon, <4>1, <4>2 DEF Paths
      <4>5. Put(f, "settings", b) = [p \in Paths |-> fs[p]]
        BY Zenon, <4>3, <4>4
      <4>. QED
        BY Zenon, <2>3, <4>5, Domains DEF f
    <3>. QED
      BY Zenon, <3>2, <3>6, <3>7, <3>8, <3>9
  <2>. QED
    BY Zenon, <1>1, <2>1, <2>2, <2>3, Domains DEF Paths
<1>5. PICK o : AfterTurns(cells, lucky) = [ok |-> TRUE, off |-> o, files |-> fs]
  BY Zenon, <1>4
<1>6. AfterTurns(cells, lucky).ok = TRUE /\ AfterTurns(cells, lucky).files = fs
  BY <1>5
<1>. QED
  BY Zenon, <1>3, <1>6

\* Adding a file, or taking one away, leaves a map of files.
LEMMA PutTyped ==
  ASSUME NEW fs, IsFiles(fs), NEW p \in Paths, NEW l \in Seq(UserType)
  PROVE  IsFiles(Put(fs, p, l))
<1>1. DOMAIN Put(fs, p, l) = DOMAIN fs \cup {p}
  BY Zenon DEF Put
<1>2. Put(fs, p, l) \in [DOMAIN fs \cup {p} -> Seq(UserType)]
  BY Zenon DEF Put, IsFiles
<1>3. DOMAIN fs \cup {p} \in SUBSET Paths
  BY Zenon DEF IsFiles
<1>. QED
  BY Zenon, <1>1, <1>2, <1>3 DEF IsFiles

\* A file that is removed leaves files.
LEMMA WithoutTyped ==
  ASSUME NEW fs, IsFiles(fs), NEW p
  PROVE  IsFiles(Without(fs, p))
<1>1. DOMAIN Without(fs, p) = DOMAIN fs \ {p}
  BY Zenon DEF Without
<1>2. Without(fs, p) \in [DOMAIN fs \ {p} -> Seq(UserType)]
  BY Zenon DEF Without, IsFiles
<1>3. DOMAIN fs \ {p} \in SUBSET Paths
  BY Zenon DEF IsFiles
<1>. QED
  BY Zenon, <1>1, <1>2, <1>3 DEF IsFiles

\* No files are files.
LEMMA NoFilesTyped == IsFiles(NoFiles)
<1>1. DOMAIN NoFiles = {}
  BY Zenon DEF NoFiles
<1>2. NoFiles \in [{} -> Seq(UserType)]
  BY Zenon DEF NoFiles
<1>. QED
  BY Zenon, <1>1, <1>2 DEF IsFiles

IsPoint(p) == p.ok \in BOOLEAN /\ p.off \in Nat /\ p.off >= 1 /\ IsFiles(p.files)

\* Whatever the cells are, a turn leaves a map of files.
LEMMA TurnTyped ==
  ASSUME NEW cells, \A i \in 1 .. RegionSize : IsCell(cells[i]),
         NEW lucky \in BOOLEAN, NEW p, IsPoint(p)
  PROVE  IsPoint(Turn(p, cells, lucky))
<1>0. p.ok \in BOOLEAN /\ p.off \in Nat /\ p.off >= 1 /\ IsFiles(p.files) /\ RegionSize \in Nat
  BY Zenon, Places DEF IsPoint
<1>1. CASE ~p.ok
  BY Zenon, <1>1 DEF Turn
<1>2. CASE p.ok
  <2> DEFINE c == cells[p.off]
             m == [i \in 1 .. c.n |-> IF cells[p.off + i].kind = "line" THEN cells[p.off + i].line ELSE Junk]
             stop == [p EXCEPT !.ok = FALSE]
             read == [ok |-> TRUE, off |-> p.off + 1 + c.n, files |-> Put(p.files, c.path, m)]
             skip == [ok |-> lucky, off |-> p.off + 1, files |-> p.files]
  <2>1. Turn(p, cells, lucky) = ReadEntry(p, cells, lucky)
    BY Zenon, <1>2 DEF Turn
  <2>2. ReadEntry(p, cells, lucky) =
          IF p.off > RegionSize THEN stop
          ELSE IF c.kind = "entry" THEN IF p.off + c.n > RegionSize THEN stop ELSE read
          ELSE skip
    BY Zenon DEF ReadEntry
  <2>. HIDE DEF c
  <2>3. ASSUME ~(p.off > RegionSize) PROVE IsCell(c)
    <3>1. p.off \in 1 .. RegionSize
      BY <1>0, <2>3
    <3>. QED
      BY Zenon, <3>1 DEF c
  <2>4. ASSUME ~(p.off > RegionSize), c.kind = "entry", ~(p.off + c.n > RegionSize)
        PROVE  IsPoint(read)
    <3>1. c.n \in Nat /\ c.path \in Paths
      BY <2>3, <2>4 DEF IsCell, CellType
    <3>2. \A i \in 1 .. c.n : p.off + i \in 1 .. RegionSize
      BY <1>0, <2>4, <3>1
    <3>3. \A i \in 1 .. c.n : cells[p.off + i].line \in UserType
      BY Zenon, <3>2 DEF IsCell, CellType
    <3>4. m \in [1 .. c.n -> UserType]
      BY Zenon, <3>3, UserTypes
    <3>. HIDE DEF m
    <3>5. m \in Seq(UserType)
      BY Zenon, <3>1, <3>4, SeqFn
    <3>6. IsFiles(Put(p.files, c.path, m))
      BY Zenon, <1>0, <3>1, <3>5, PutTyped
    <3>7. /\ read.ok = TRUE /\ read.off = p.off + 1 + c.n
          /\ read.files = Put(p.files, c.path, m)
      OBVIOUS
    <3>. HIDE DEF read
    <3>8. read.off \in Nat /\ read.off >= 1 
      BY <1>0, <3>1, <3>7
    <3>. QED
      BY Zenon, <3>6, <3>7, <3>8 DEF IsPoint
  <2>5. IsPoint(stop)
    <3>1. stop.ok = FALSE /\ stop.off = p.off /\ stop.files = p.files
      OBVIOUS
    <3>. HIDE DEF stop
    <3>. QED
      BY Zenon, <1>0, <3>1 DEF IsPoint
  <2>6. IsPoint(skip)
    <3>1. skip.ok = lucky /\ skip.off = p.off + 1 /\ skip.files = p.files
      OBVIOUS
    <3>. HIDE DEF skip
    <3>2. skip.off \in Nat /\ skip.off >= 1 
      BY <1>0, <3>1
    <3>. QED
      BY Zenon, <1>0, <3>1, <3>2 DEF IsPoint
  <2>. HIDE DEF stop, read, skip
  <2>. QED
    BY Zenon, <2>1, <2>2, <2>4, <2>5, <2>6
<1>. QED
  BY Zenon, <1>0, <1>1, <1>2

\* Whatever the cells are, what is read is no blob or a map of files.
LEMMA DecodesTyped ==
  ASSUME NEW cells, \A i \in 1 .. RegionSize : IsCell(cells[i]), NEW lucky \in BOOLEAN
  PROVE  deserialize(cells, lucky) = NoBlob \/ IsFiles(deserialize(cells, lucky))
<1>1. CASE cells[1].kind # "header"
  BY Zenon, <1>1 DEF deserialize
<1>2. CASE cells[1].kind = "header"
  <2>1. 1 \in 1 .. RegionSize
    BY Places
  <2>2. cells[1].n \in 0 .. 2
    BY Zenon, <1>2, <2>1 DEF IsCell
  <2>3. IsPoint(Start)
    <3>1. Start.ok = TRUE /\ Start.off = 2 /\ Start.files = NoFiles
      BY DEF Start
    <3>2. Start.off \in Nat /\ Start.off >= 1
      BY <3>1
    <3>. QED
      BY Zenon, <3>1, <3>2, NoFilesTyped DEF IsPoint
  <2>4. IsPoint(AfterTurns(cells, lucky))
    BY Zenon, <2>3, TurnTyped DEF AfterTurns
  <2>. QED
    BY Zenon, <1>2, <2>2, <2>4, Unrolled DEF IsPoint
<1>. QED
  BY Zenon, <1>1, <1>2

-----------------------------------------------------------------------------
(* Accounts *)

\* What is left of distinct accounts is distinct.
LEMMA RetainUnique ==
  ASSUME NEW us \in Seq(UserType), NEW S \in SUBSET (1 .. Len(us))
  PROVE  /\ Retained(us, S) \in Seq(UserType)
         /\ Unique(us) => Unique(Retained(us, S))
         /\ \A k \in 1 .. Len(Retained(us, S)) : \E i \in S : Retained(us, S)[k] = us[i]
         /\ \A i \in S : \E k \in 1 .. Len(Retained(us, S)) : Retained(us, S)[k] = us[i]
<1> DEFINE m  == Cardinality(S)
           rs == Retained(us, S)
           e  == [k \in 1 .. m |-> CHOOSE i \in S : Rank(S, i) = k]
<1>1. S \in SUBSET Nat /\ IsFiniteSet(S)
  <2>1. Len(us) \in Nat
    OBVIOUS
  <2>2. IsFiniteSet(1 .. Len(us))
    BY <2>1, FS_Interval
  <2>3. IsFiniteSet(S)
    BY Zenon, <2>2, FS_Subset
  <2>. QED
    BY <2>1, <2>3
<1>2. /\ m \in Nat
      /\ \A i \in S : Rank(S, i) \in 1 .. m
      /\ \A i, j \in S : Rank(S, i) = Rank(S, j) => i = j
      /\ \A k \in 1 .. m : \E i \in S : Rank(S, i) = k
  BY Zenon, <1>1, RankBijection
<1>3. \A k \in 1 .. m : e[k] \in S /\ Rank(S, e[k]) = k
  BY Zenon, <1>2
<1>4. rs = [k \in 1 .. m |-> us[CHOOSE i \in S : Rank(S, i) = k]]
  BY Zenon DEF Retained
<1>. HIDE DEF m, rs
<1>5. \A i \in S : us[i] \in UserType /\ i \in 1 .. Len(us)
  OBVIOUS
<1>6. rs \in [1 .. m -> UserType] /\ \A k \in 1 .. m : rs[k] = us[e[k]]
  <2>1. \A k \in 1 .. m : rs[k] = us[e[k]]
    BY Zenon, <1>3, <1>4
  <2>. HIDE DEF e
  <2>. QED
    BY Zenon, <1>3, <1>4, <1>5, <2>1
<1>. HIDE DEF e
<1>7. rs \in Seq(UserType) /\ Len(rs) = m
  BY Zenon, <1>2, <1>6, SeqFn
<1>8. ASSUME Unique(us) PROVE Unique(rs)
  <2>1. ASSUME NEW i \in 1 .. m, NEW j \in 1 .. m, i # j
        PROVE  rs[i].name # rs[j].name /\ rs[i].uid # rs[j].uid
    <3>1. rs[i] = us[e[i]] /\ rs[j] = us[e[j]] /\ e[i] \in 1 .. Len(us) /\ e[j] \in 1 .. Len(us)
      BY Zenon, <1>3, <1>5, <1>6
    <3>2. e[i] # e[j]
      BY Zenon, <1>3, <2>1
    <3>. QED
      BY Zenon, <1>8, <3>1, <3>2 DEF Unique
  <2>. QED
    BY Zenon, <1>7, <2>1 DEF Unique
<1>9. \A i \in S : \E k \in 1 .. Len(rs) : rs[k] = us[i]
  <2>1. ASSUME NEW i \in S PROVE \E k \in 1 .. m : rs[k] = us[i]
    <3>1. Rank(S, i) \in 1 .. m /\ e[Rank(S, i)] = i
      BY Zenon, <1>2, <1>3
    <3>. QED
      BY Zenon, <1>6, <3>1
  <2>. QED
    BY Zenon, <1>7, <2>1
<1>10. \A k \in 1 .. Len(rs) : \E i \in S : rs[k] = us[i]
  BY Zenon, <1>3, <1>6, <1>7
<1>. QED
  BY Zenon, <1>7, <1>8, <1>9, <1>10 DEF rs

\* Nothing goes when everything is kept.
LEMMA RetainAll ==
  ASSUME NEW us \in Seq(UserType)
  PROVE  Retained(us, 1 .. Len(us)) = us
<1> DEFINE S == 1 .. Len(us)
<1>1. DOMAIN us = S /\ Len(us) \in Nat /\ us = [i \in S |-> us[i]]
  OBVIOUS
<1>2. \A i \in S : Rank(S, i) = i
  <2>1. ASSUME NEW i \in S PROVE Rank(S, i) = i
    <3>1. {j \in S : j <= i} = 1 .. i /\ i \in Nat
      BY <1>1
    <3>2. Cardinality(1 .. i) = i
      BY <3>1, FS_Interval
    <3>. QED
      BY Zenon, <3>1, <3>2 DEF Rank
  <2>. QED
    BY Zenon, <2>1
<1>3. Cardinality(S) = Len(us)
  BY <1>1, FS_Interval
<1>. HIDE DEF S
<1>4. \A k \in S : (CHOOSE i \in S : Rank(S, i) = k) = k
  BY Zenon, <1>2
<1>5. Retained(us, S) = [k \in S |-> us[k]]
  <2>1. 1 .. Cardinality(S) = S
    BY Zenon, <1>3 DEF S
  <2>2. Retained(us, S) = [k \in S |-> us[CHOOSE i \in S : Rank(S, i) = k]]
    BY Zenon, <2>1 DEF Retained
  <2>. QED
    BY Zenon, <1>4, <2>2
<1>. QED
  BY Zenon, <1>1, <1>5 DEF S

\* No line of us is anything but an account.
Clean(us) == us \in Seq(UserType) /\ \A i \in 1 .. Len(us) : us[i] # Junk

\* parse_passwd returns clean accounts, distinct if the lines are.
LEMMA ParseTyped ==
  ASSUME NEW l \in Seq(UserType)
  PROVE  Clean(parse_passwd(l)) /\ (Unique(l) => Unique(parse_passwd(l)))
<1> DEFINE S == {i \in 1 .. Len(l) : l[i] # Junk}
<1>1. S \in SUBSET (1 .. Len(l)) /\ \A i \in S : l[i] # Junk
  BY Zenon
<1>2. parse_passwd(l) = Retained(l, S)
  BY Zenon DEF parse_passwd
<1>. HIDE DEF S
<1> DEFINE rs == Retained(l, S)
<1>3. /\ rs \in Seq(UserType) /\ (Unique(l) => Unique(rs))
      /\ \A k \in 1 .. Len(rs) : \E i \in S : rs[k] = l[i]
  BY Zenon, <1>1, RetainUnique
<1>. HIDE DEF rs
<1>4. \A k \in 1 .. Len(rs) : rs[k] # Junk
  BY Zenon, <1>1, <1>3
<1>. QED
  BY Zenon, <1>2, <1>3, <1>4 DEF Clean, rs

\* parse_passwd returns clean accounts as they are.
LEMMA ParseClean ==
  ASSUME NEW us, Clean(us)
  PROVE  parse_passwd(us) = us
<1>1. {i \in 1 .. Len(us) : us[i] # Junk} = 1 .. Len(us)
  BY Zenon DEF Clean
<1>. QED
  BY Zenon, <1>1, RetainAll DEF parse_passwd, Clean

\* The uid of a new account is that of no other.
LEMMA NextUidIsNew ==
  ASSUME NEW us \in Seq(UserType)
  PROVE  NextUid(us) \in Nat /\ \A i \in 1 .. Len(us) : us[i].uid # NextUid(us)
<1> DEFINE O == {us[i].uid : i \in 1 .. Len(us)} \cap (FirstUid .. MaxUid)
           U == {MaxUid - u : u \in O}
<1>0. MaxUid \in Nat /\ \A i \in 1 .. Len(us) : us[i].uid \in 0 .. MaxUid
  <2>1. \A i \in 1 .. Len(us) : us[i] \in UserType
    OBVIOUS
  <2>. QED
    BY <2>1, AccountsAssumption DEF UserType
<1>1. \A i \in 1 .. Len(us) : us[i].uid \in O \/ us[i].uid < FirstUid
  <2>1. ASSUME NEW i \in 1 .. Len(us), ~(us[i].uid < FirstUid) PROVE us[i].uid \in FirstUid .. MaxUid
    <3>1. us[i].uid \in 0 .. MaxUid
      BY Zenon, <1>0
    <3>. QED
      BY <1>0, <2>1, <3>1 DEF FirstUid
  <2>. QED
    BY Zenon, <2>1
<1>2. NextUid(us) = IF O = {} THEN FirstUid ELSE 1 + CHOOSE m \in O : \A u \in O : u <= m
  BY Zenon DEF NextUid
<1>3. O \in SUBSET (FirstUid .. MaxUid)
  BY Zenon
<1>. HIDE DEF O
<1>4. O # {} => \E m \in O : \A u \in O : u <= m
  <2>1. ASSUME O # {} PROVE \E m \in O : \A u \in O : u <= m
    <3>1. U # {}
      BY Zenon, <2>1
    <3>2. U \in SUBSET Nat
      BY <1>0, <1>3 DEF FirstUid
    <3>3. PICK x \in U : \A y \in U : x <= y
      BY Zenon, <3>1, <3>2, LeastNat
    <3>4. PICK m \in O : x = MaxUid - m
      BY Zenon, <3>3
    <3>5. \A u \in O : x <= MaxUid - u
      BY Zenon, <3>3
    <3>6. \A u \in O : u \in Int
      BY <1>0, <1>3 DEF FirstUid
    <3>7. \A u \in O : u <= m
      BY <1>0, <3>4, <3>5, <3>6
    <3>. QED
      BY Zenon, <3>7
  <2>. QED
    BY Zenon, <2>1
<1>5. CASE O = {}
  <2>1. NextUid(us) = FirstUid /\ \A i \in 1 .. Len(us) : us[i].uid < FirstUid
    BY Zenon, <1>1, <1>2, <1>5
  <2>. QED
    BY <1>0, <2>1 DEF FirstUid
<1>6. CASE O # {}
  <2>1. PICK m \in O : NextUid(us) = 1 + m /\ \A u \in O : u <= m
    BY Zenon, <1>2, <1>4, <1>6
  <2>2. m \in Nat /\ m >= FirstUid
    BY <1>0, <1>3 DEF FirstUid
  <2>3. \A i \in 1 .. Len(us) : us[i].uid <= m \/ us[i].uid < FirstUid
    BY Zenon, <1>1, <2>1
  <2>. QED
    BY <1>0, <2>1, <2>2, <2>3 DEF FirstUid
<1>. QED
  BY Zenon, <1>5, <1>6

FindIn(us, name) ==
  LET is == {i \in 1 .. Len(us) : us[i].name = name}
  IN IF is = {} THEN None ELSE us[Least(is)]

\* Least is an element.
LEMMA LeastIn ==
  ASSUME NEW n \in Nat, NEW is \in SUBSET (1 .. n), is # {}
  PROVE  Least(is) \in is
<1>1. is \in SUBSET Nat
  OBVIOUS
<1>2. \E i \in is : \A j \in is : i <= j
  BY Zenon, <1>1, LeastNat
<1>. QED
  BY Zenon, <1>2 DEF Least

\* Among distinct accounts, the one found is the one of that name.
LEMMA FindUnique ==
  ASSUME NEW us \in Seq(UserType), NEW name
  PROVE  /\ (\A i \in 1 .. Len(us) : us[i].name # name) => FindIn(us, name) = None
         /\ FindIn(us, name) # None =>
              \E i \in 1 .. Len(us) : us[i].name = name /\ FindIn(us, name) = us[i]
         /\ Unique(us) =>
              \A i \in 1 .. Len(us) : us[i].name = name => FindIn(us, name) = us[i]
<1> DEFINE is == {i \in 1 .. Len(us) : us[i].name = name}
<1>1. is \in SUBSET (1 .. Len(us)) /\ \A i \in 1 .. Len(us) : i \in is <=> us[i].name = name
  BY Zenon
<1>2. FindIn(us, name) = IF is = {} THEN None ELSE us[Least(is)]
  BY Zenon DEF FindIn
<1>. HIDE DEF is
<1>3. is # {} => Least(is) \in is
  <2>1. Len(us) \in Nat
    OBVIOUS
  <2>. QED
    BY Zenon, <1>1, <2>1, LeastIn
<1>4. (\A i \in 1 .. Len(us) : us[i].name # name) => FindIn(us, name) = None
  BY Zenon, <1>1, <1>2
<1>5. FindIn(us, name) # None =>
         \E i \in 1 .. Len(us) : us[i].name = name /\ FindIn(us, name) = us[i]
  BY Zenon, <1>1, <1>2, <1>3
<1>6. ASSUME Unique(us), NEW i \in 1 .. Len(us), us[i].name = name
      PROVE  FindIn(us, name) = us[i]
  <2>1. is # {} /\ Least(is) \in 1 .. Len(us) /\ us[Least(is)].name = name
    BY Zenon, <1>1, <1>3, <1>6
  <2>2. Least(is) = i
    BY Zenon, <1>6, <2>1 DEF Unique
  <2>. QED
    BY Zenon, <1>2, <2>1, <2>2
<1>. QED
  BY Zenon, <1>4, <1>5, <1>6

\* Two lists with the same accounts of a name.
LEMMA SameFound ==
  ASSUME NEW us \in Seq(UserType), NEW vs \in Seq(UserType), Unique(us), Unique(vs), NEW name,
         \A i \in 1 .. Len(us) : us[i].name = name => \E k \in 1 .. Len(vs) : vs[k] = us[i],
         \A k \in 1 .. Len(vs) : vs[k].name = name => \E i \in 1 .. Len(us) : us[i] = vs[k]
  PROVE  FindIn(vs, name) = FindIn(us, name)
<1>0. /\ (\A i \in 1 .. Len(us) : us[i].name # name) => FindIn(us, name) = None
      /\ (\A i \in 1 .. Len(vs) : vs[i].name # name) => FindIn(vs, name) = None
      /\ \A i \in 1 .. Len(us) : us[i].name = name => FindIn(us, name) = us[i]
      /\ \A i \in 1 .. Len(vs) : vs[i].name = name => FindIn(vs, name) = vs[i]
  <2>1. Unique(us) => \A i \in 1 .. Len(us) : us[i].name = name => FindIn(us, name) = us[i]
    BY Zenon, FindUnique
  <2>2. Unique(vs) => \A i \in 1 .. Len(vs) : vs[i].name = name => FindIn(vs, name) = vs[i]
    BY Zenon, FindUnique
  <2>. QED
    BY ZenonT(30), <2>1, <2>2, FindUnique
<1>1. CASE \A i \in 1 .. Len(us) : us[i].name # name
  <2>1. \A k \in 1 .. Len(vs) : vs[k].name # name
    BY Zenon, <1>1
  <2>. QED
    BY Zenon, <1>0, <1>1, <2>1
<1>2. CASE \E i \in 1 .. Len(us) : us[i].name = name
  <2>1. PICK i \in 1 .. Len(us) : us[i].name = name
    BY Zenon, <1>2
  <2>2. PICK k \in 1 .. Len(vs) : vs[k] = us[i]
    BY Zenon, <2>1
  <2>3. FindIn(us, name) = us[i]
    BY Zenon, <1>0, <2>1
  <2>4. FindIn(vs, name) = vs[k]
    BY Zenon, <1>0, <2>1, <2>2
  <2>. QED
    BY Zenon, <2>2, <2>3, <2>4
<1>. QED
  BY Zenon, <1>1, <1>2

-----------------------------------------------------------------------------
(* The region *)

\* An image that is not too large is the blob and zeros, as large as the region.
LEMMA PaddedRow ==
  ASSUME NEW fs, IsFiles(fs),
         Len(serialize(fs)) <= RegionSize \/ ~(Len(Padded(serialize(fs))) > RegionSize)
  PROVE  /\ Len(serialize(fs)) <= RegionSize
         /\ IsRow(Padded(serialize(fs)), RegionSize)
         /\ \A j \in 1 .. Len(serialize(fs)) : Padded(serialize(fs))[j] = serialize(fs)[j]
<1> DEFINE b   == serialize(fs)
           pad == [i \in 1 .. RegionSize - Len(b) |-> Zero]
           P   == b \o pad
<1>1. b \in Seq(CellType) /\ \A i \in 1 .. Len(b) : IsCell(b[i])
  BY Zenon, SerializeShape
<1>2. Padded(b) = P
  BY Zenon DEF Padded
<1>. HIDE DEF b
<1>3. Len(b) \in Nat /\ RegionSize \in Nat
  BY <1>1, Places
<1>4. IsCell(Zero) /\ Zero \in CellType
  BY Zenon, CellTypes DEF IsCell
<1>5. PICK n \in Nat : 1 .. RegionSize - Len(b) = 1 .. n /\ (Len(b) <= RegionSize => n = RegionSize - Len(b))
  <2>1. CASE Len(b) <= RegionSize
    <3>1. RegionSize - Len(b) \in Nat
      BY <1>3, <2>1
    <3>. QED
      BY Zenon, <3>1
  <2>2. CASE ~(Len(b) <= RegionSize)
    <3>1. 1 .. RegionSize - Len(b) = 1 .. 0 /\ 0 \in Nat
      BY <1>3, <2>2
    <3>. QED
      BY Zenon, <2>2, <3>1
  <2>. QED
    BY Zenon, <2>1, <2>2
<1>6. pad \in [1 .. n -> CellType] /\ \A i \in 1 .. n : pad[i] = Zero
  BY Zenon, <1>4, <1>5
<1>. HIDE DEF pad
<1>7. pad \in Seq(CellType) /\ Len(pad) = n
  BY Zenon, <1>6, SeqFn
<1>8. P \in Seq(CellType) /\ Joins(b, pad, P)
  BY Zenon, <1>1, <1>7, Concat
<1>. HIDE DEF P
<1>9. Len(P) = Len(b) + n /\ (Len(b) <= RegionSize \/ ~(Len(P) > RegionSize))
  <2>1. Len(P) = Len(b) + Len(pad)
    BY Zenon, <1>8 DEF Joins
  <2>. QED
    BY Zenon, <1>2, <1>7, <2>1 DEF b
<1>10. Len(b) <= RegionSize /\ Len(P) = RegionSize
  BY <1>3, <1>5, <1>9
<1>11. \A i \in 1 .. Len(b) : P[i] = b[i]
  BY Zenon, <1>8 DEF Joins
<1>12. \A i \in 1 .. n : P[Len(b) + i] = pad[i]
  BY Zenon, <1>7, <1>8 DEF Joins
<1>13. ASSUME NEW i \in 1 .. RegionSize PROVE IsCell(P[i])
  <2>1. i \in 1 .. Len(b) \/ (i - Len(b) \in 1 .. n /\ Len(b) + (i - Len(b)) = i)
    BY <1>3, <1>5, <1>10
  <2>2. CASE i \in 1 .. Len(b)
    BY Zenon, <1>1, <1>11, <2>2
  <2>3. CASE i - Len(b) \in 1 .. n /\ Len(b) + (i - Len(b)) = i
    <3>1. P[i] = Zero
      BY Zenon, <1>6, <1>12, <2>3
    <3>. QED
      BY Zenon, <1>4, <3>1
  <2>. QED
    BY Zenon, <2>1, <2>2, <2>3
<1>. QED
  BY Zenon, <1>2, <1>8, <1>10, <1>11, <1>13 DEF IsRow, b

\* The region's cells are cells.
LEMMA DiskCells ==
  ASSUME TypedDisk
  PROVE  /\ OnDisk = CellsOf(disk)
         /\ \A i \in 1 .. RegionSize : IsCell(OnDisk[i])
         /\ \A k \in 0 .. Sectors - 1 : PERSIST_LBA + k \in DOMAIN disk
<1>1. \A k \in 0 .. Sectors - 1 : PERSIST_LBA + k \in Region
  BY AccountsAssumption DEF Region, PERSIST_LBA
<1>2. \A k \in 0 .. Sectors - 1 : PERSIST_LBA + k \in DOMAIN disk
  BY Zenon, <1>1 DEF TypedDisk
<1>3. OnDisk = CellsOf(disk)
  BY Zenon DEF OnDisk, CellsOf
<1>4. ASSUME NEW i \in 1 .. RegionSize PROVE IsCell(CellsOf(disk)[i])
  <2> DEFINE q == (i - 1) \div PerSector
             r == ((i - 1) % PerSector) + 1
  <2>1. q \in 0 .. Sectors - 1 /\ r \in 1 .. PerSector
    BY Zenon, Places
  <2>2. CellsOf(disk)[i] = disk[PERSIST_LBA + q][r]
    BY Zenon DEF CellsOf
  <2>. HIDE DEF q, r
  <2>3. IsRow(disk[PERSIST_LBA + q], PerSector)
    BY Zenon, <1>2, <2>1 DEF TypedDisk
  <2>. QED
    BY Zenon, <2>1, <2>2, <2>3 DEF IsRow
<1>. QED
  BY Zenon, <1>2, <1>3, <1>4

\* The region's first sector.
LEMMA FirstSector ==
  ASSUME NEW d
  PROVE  \A j \in 1 .. PerSector : j \in 1 .. RegionSize /\ CellsOf(d)[j] = d[PERSIST_LBA][j]
<1>1. ASSUME NEW j \in 1 .. PerSector
      PROVE  j \in 1 .. RegionSize /\ CellsOf(d)[j] = d[PERSIST_LBA][j]
  <2>1. (j - 1) \div PerSector = 0 /\ ((j - 1) % PerSector) + 1 = j
    BY Zenon, Places
  <2>2. j \in 1 .. RegionSize /\ PERSIST_LBA + 0 = PERSIST_LBA
    BY Places, AccountsAssumption DEF PERSIST_LBA
  <2>3. CellsOf(d)[j] = d[PERSIST_LBA + ((j - 1) \div PerSector)][((j - 1) % PerSector) + 1]
    BY Zenon, <2>2 DEF CellsOf
  <2>. QED
    BY Zenon, <2>1, <2>2, <2>3
<1>. QED
  BY Zenon, <1>1

\* Once all sectors are out, the region is the image.
LEMMA WholeImage ==
  ASSUME NEW d, NEW image, Out(d, image, Sectors)
  PROVE  \A j \in 1 .. RegionSize : CellsOf(d)[j] = image[j]
<1>1. ASSUME NEW j \in 1 .. RegionSize PROVE CellsOf(d)[j] = image[j]
  <2> DEFINE q == (j - 1) \div PerSector
             r == ((j - 1) % PerSector) + 1
  <2>1. q \in 0 .. Sectors - 1 /\ r \in 1 .. PerSector
    BY Zenon, Places
  <2>2. CellsOf(d)[j] = d[PERSIST_LBA + q][r]
    BY Zenon DEF CellsOf
  <2>3. q * PerSector + r = j
    BY Places, AccountsAssumption
  <2>. HIDE DEF q, r
  <2>. QED
    BY Zenon, <2>1, <2>2, <2>3 DEF Out
<1>. QED
  BY Zenon, <1>1

\* A blob that fits in the cells that show it is what is read.
LEMMA ShownIsFound ==
  ASSUME NEW cells, NEW fs, NEW m, NEW lucky, Shows(cells, fs, m),
         fs = NoBlob \/ \A j \in 1 .. Len(serialize(fs)) : j <= m
  PROVE  deserialize(cells, lucky) = fs
<1>1. CASE fs = NoBlob /\ cells[1].kind # "header"
  BY Zenon, <1>1 DEF deserialize
<1>2. CASE ~(fs = NoBlob /\ cells[1].kind # "header")
  <2>1. IsFiles(fs) /\ Len(serialize(fs)) <= RegionSize
    BY Zenon, <1>2 DEF Shows
  <2>2. fs # NoBlob
    BY Zenon, <2>1, Domains
  <2>3. \A j \in 1 .. Len(serialize(fs)) : cells[j] = serialize(fs)[j]
    BY Zenon, <1>2, <2>2 DEF Shows
  <2>. QED
    BY Zenon, <2>1, <2>3, Decodes
<1>. QED
  BY Zenon, <1>1, <1>2

\* What save_from_ramfs wrote comes back: the states at stake hold what a boot finds.
LEMMA FoundAtStake ==
  ASSUME IInv
  PROVE  SavedStateReturns
<1>1. PICK fs \in maybe : Shows(OnDisk, fs, IF torn THEN PerSector ELSE RegionSize)
  BY Zenon DEF IInv, BlobInv
<1>2. ASSUME Whole, NEW x \in Found PROVE x \in maybe
  <2>1. PICK lucky \in BOOLEAN : x = deserialize(OnDisk, lucky)
    BY Zenon, <1>2 DEF Found
  <2>2. CASE torn
    <3>1. fs = NoBlob \/ (IsFiles(fs) /\ Len(serialize(fs)) <= PerSector)
      BY Zenon, <1>1, <1>2, <2>2 DEF Whole, IInv, Typed, TypedSave
    <3>2. IsFiles(fs) => Len(serialize(fs)) \in Nat
      <4>1. IsFiles(fs) => serialize(fs) \in Seq(CellType)
        BY Zenon, SerializeShape
      <4>. QED
        BY <4>1
    <3>3. fs = NoBlob \/ \A j \in 1 .. Len(serialize(fs)) : j <= PerSector
      BY <3>1, <3>2, AccountsAssumption
    <3>4. Shows(OnDisk, fs, PerSector)
      BY Zenon, <1>1, <2>2
    <3>. QED
      BY Zenon, <2>1, <3>3, <3>4, ShownIsFound
  <2>3. CASE ~torn
    <3>1. Shows(OnDisk, fs, RegionSize)
      BY Zenon, <1>1, <2>3
    <3>2. fs = NoBlob \/ (Len(serialize(fs)) <= RegionSize /\ serialize(fs) \in Seq(CellType))
      BY Zenon, <3>1, SerializeShape DEF Shows
    <3>3. fs = NoBlob \/ \A j \in 1 .. Len(serialize(fs)) : j <= RegionSize
      <4>1. CASE Len(serialize(fs)) <= RegionSize /\ serialize(fs) \in Seq(CellType)
        <5>1. Len(serialize(fs)) \in Nat
          BY <4>1
        <5>. QED
          BY <4>1, <5>1, Places
      <4>. QED
        BY Zenon, <3>2, <4>1
    <3>. QED
      BY Zenon, <2>1, <3>1, <3>3, ShownIsFound
  <2>. QED
    BY Zenon, <2>2, <2>3
<1>. QED
  BY Zenon, <1>2 DEF SavedStateReturns

-----------------------------------------------------------------------------
(* The invariant is inductive *)

\* The accounts of a map of files.
LEMMA UsersTyped ==
  ASSUME NEW fs, IsFiles(fs)
  PROVE  Clean(UsersOf(fs))
<1>1. CASE "passwd" \in DOMAIN fs
  <2>1. fs["passwd"] \in Seq(UserType)
    BY Zenon, <1>1, Domains
  <2>. QED
    BY Zenon, <1>1, <2>1, ParseTyped DEF UsersOf
<1>2. CASE "passwd" \notin DOMAIN fs
  <2>1. UsersOf(fs) = << >>
    BY Zenon, <1>2 DEF UsersOf
  <2>. QED
    BY <2>1 DEF Clean
<1>. QED
  BY Zenon, <1>1, <1>2

\* The accounts after a passwd file is put in place.
LEMMA UsersPut ==
  ASSUME NEW fs, NEW p, NEW l
  PROVE  UsersOf(Put(fs, p, l)) = IF p = "passwd" THEN parse_passwd(l) ELSE UsersOf(fs)
<1>1. DOMAIN Put(fs, p, l) = DOMAIN fs \cup {p}
  BY Zenon DEF Put
<1>2. \A q \in DOMAIN fs \cup {p} : Put(fs, p, l)[q] = IF q = p THEN l ELSE fs[q]
  BY Zenon DEF Put
<1>. QED
  BY Zenon, <1>1, <1>2 DEF UsersOf

\* No accounts are distinct accounts.
LEMMA UniqueEmpty == Unique(<< >>)
BY DEF Unique

\* The defaults, and what is read over them.
LEMMA SeedTyped == IsFiles(Seed) /\ Unique(UsersOf(Seed)) /\ DOMAIN Seed = {"passwd"}
<1> DEFINE u == User("root", sha256_hex("root"), 0)
           v == User("luc", sha256_hex("luc"), FirstUid)
           l == <<u, v>>
<1>1. u \in UserType /\ v \in UserType
  BY Zenon, UserTypes
<1>2. u.name = "root" /\ v.name = "luc" /\ u.uid = 0 /\ v.uid = FirstUid
  BY DEF User
<1>3. Seed = Put(NoFiles, "passwd", l)
  BY Zenon DEF Seed
<1>. HIDE DEF u, v
<1>4. l \in Seq(UserType) /\ Len(l) = 2 /\ l[1] = u /\ l[2] = v
  BY <1>1
<1>. HIDE DEF l
<1>5. Unique(l)
  <2>1. ASSUME NEW i \in 1 .. Len(l), NEW j \in 1 .. Len(l), i # j
        PROVE  (i = 1 /\ j = 2) \/ (i = 2 /\ j = 1)
    BY <1>4, <2>1
  <2>2. u.name # v.name /\ u.uid # v.uid
    BY <1>2 DEF FirstUid
  <2>. QED
    BY Zenon, <1>4, <2>1, <2>2 DEF Unique
<1>6. IsFiles(Seed)
  BY Zenon, <1>3, <1>4, NoFilesTyped, PutTyped DEF Paths
<1>7. UsersOf(Seed) = parse_passwd(l)
  BY ZenonT(30), <1>3, UsersPut
<1>8. DOMAIN Seed = {"passwd"}
  BY Zenon, <1>3 DEF Put, NoFiles
<1>. QED
  BY ZenonT(30), <1>4, <1>5, <1>6, <1>7, <1>8, ParseTyped

\* What boot restores is files, with distinct accounts if the blob's are.
LEMMA RestoredTyped ==
  ASSUME NEW b, b = NoBlob \/ IsFiles(b)
  PROVE  IsFiles(Restored(b)) /\ ((b = NoBlob \/ Unique(UsersOf(b))) => Unique(UsersOf(Restored(b))))
<1>1. CASE b = NoBlob
  BY Zenon, <1>1, SeedTyped DEF Restored
<1>2. CASE IsFiles(b)
  <2> DEFINE D == DOMAIN Seed \cup DOMAIN b
             R == [p \in D |-> IF p \in DOMAIN b THEN b[p] ELSE Seed[p]]
  <2>1. b # NoBlob
    BY Zenon, <1>2, Domains
  <2>2. Restored(b) = R
    BY Zenon, <2>1 DEF Restored
  <2>3. \A p \in DOMAIN b : p \in Paths /\ b[p] \in Seq(UserType)
    BY Zenon, <1>2, Domains
  <2>4. \A p \in DOMAIN Seed : p \in Paths /\ Seed[p] \in Seq(UserType)
    BY Zenon, SeedTyped, Domains
  <2>5. DOMAIN R = D /\ D \in SUBSET Paths /\ R \in [D -> Seq(UserType)]
    BY Zenon, <2>3, <2>4
  <2>6. IsFiles(R)
    BY Zenon, <2>5 DEF IsFiles
  <2>7. "passwd" \in DOMAIN b => UsersOf(R) = UsersOf(b)
    BY Zenon DEF UsersOf
  <2>8. "passwd" \notin DOMAIN b => UsersOf(R) = UsersOf(Seed)
    BY Zenon, SeedTyped DEF UsersOf
  <2>. HIDE DEF R
  <2>. QED
    BY Zenon, <2>1, <2>2, <2>6, <2>7, <2>8, SeedTyped
<1>. QED
  BY Zenon, <1>1, <1>2

\* The invariant holds before the first boot.
LEMMA InitInv == Init => IInv
<1>. SUFFICES ASSUME Init PROVE IInv
  OBVIOUS
<1>1. IsFiles(files)
  BY Zenon, NoFilesTyped DEF Init
<1>2. TypedRun
  <2>1. 0 \in 0 .. MAX_ATTEMPTS - 1 /\ 0 \in 0 .. MaxCommands
    BY AccountsAssumption DEF MAX_ATTEMPTS
  <2>. QED
    BY Zenon, <2>1, UserTypes DEF Init, TypedRun
<1>3. TypedSave
  <2>1. save = [image |-> << >>, out |-> 0] /\ torn = FALSE /\ maybe = {NoBlob}
    BY Zenon DEF Init
  <2>2. save.out = 0 /\ save.image = << >> /\ save = [image |-> save.image, out |-> save.out]
    BY <2>1
  <2>3. 0 \in 0 .. Sectors
    BY AccountsAssumption
  <2>. QED
    BY Zenon, <2>1, <2>2, <2>3 DEF TypedSave
<1>4. IsRow(BootSector, PerSector) /\ IsRow(Blank, PerSector)
  <2>1. PerSector \in Nat
    BY AccountsAssumption
  <2>2. /\ BootSector \in [1 .. PerSector -> CellType] /\ \A i \in 1 .. PerSector : BootSector[i] = BpbRow
        /\ Blank \in [1 .. PerSector -> CellType] /\ \A i \in 1 .. PerSector : Blank[i] = Zero
    BY Zenon, CellTypes DEF BootSector, Blank, IsCell
  <2>3. BootSector \in Seq(CellType) /\ Len(BootSector) = PerSector
    BY Zenon, <2>1, <2>2, SeqFn
  <2>4. Blank \in Seq(CellType) /\ Len(Blank) = PerSector
    BY Zenon, <2>1, <2>2, SeqFn
  <2>. QED
    BY Zenon, <2>2, <2>3, <2>4, CellTypes DEF IsRow
<1>5. DOMAIN disk = Region \cup {VolumeLba} /\ \A l \in DOMAIN disk : disk[l] = BootSector \/ disk[l] = Blank
  BY Zenon DEF Init
<1>6. TypedDisk
  <2>1. disk = [l \in DOMAIN disk |-> disk[l]]
    BY Zenon DEF Init
  <2>. QED
    BY Zenon, <1>4, <1>5, <2>1 DEF TypedDisk
<1>7. OnDisk[1].kind # "header"
  <2>1. 1 \in 1 .. PerSector /\ 0 \in 0 .. Sectors - 1 /\ PERSIST_LBA + 0 = PERSIST_LBA
    BY AccountsAssumption DEF PERSIST_LBA
  <2>2. OnDisk[1] = disk[PERSIST_LBA][1] /\ PERSIST_LBA \in DOMAIN disk
    <3>1. OnDisk = CellsOf(disk) /\ PERSIST_LBA \in DOMAIN disk
      BY Zenon, <1>6, <2>1, DiskCells
    <3>2. CellsOf(disk)[1] = disk[PERSIST_LBA][1]
      BY Zenon, <2>1, FirstSector
    <3>. QED
      BY Zenon, <3>1, <3>2
  <2>3. BootSector[1] = BpbRow /\ Blank[1] = Zero
    BY Zenon, <2>1 DEF BootSector, Blank
  <2>4. OnDisk[1] = BpbRow \/ OnDisk[1] = Zero
    BY Zenon, <1>5, <2>2, <2>3
  <2>. QED
    BY Zenon, <2>4, CellTypes
<1>8. BlobInv
  <2>1. at # "saving"
    BY DEF Init
  <2>2. maybe = {NoBlob}
    BY Zenon DEF Init
  <2>3. \E fs \in maybe : Shows(OnDisk, fs, IF torn THEN PerSector ELSE RegionSize)
    BY Zenon, <1>7, <2>2 DEF Shows
  <2>. QED
    BY Zenon, <2>1, <2>3 DEF BlobInv
<1>9. UniqueInv
  <2>1. UsersOf(files) = << >>
    BY Zenon DEF Init, UsersOf, NoFiles
  <2>. QED
    BY Zenon, <2>1, UniqueEmpty DEF UniqueInv, Init
<1>. QED
  BY ZenonT(30), <1>1, <1>2, <1>3, <1>6, <1>8, <1>9 DEF IInv, Typed

\* A save of files fs starts, or is refused.
LEMMA SaveStep ==
  ASSUME IInv, NEW fs, IsFiles(fs), files' = fs, StartSave(fs), disk' = disk, spoilt' = spoilt,
         ~spoilt => Unique(UsersOf(fs))
  PROVE  /\ TypedSave' /\ BlobInv' /\ UniqueInv'
         /\ at' \in {"off", "login", "pause", "shell", "saving", "halted"}
<1> DEFINE image == Padded(serialize(fs))
<1>1. PICK gs \in maybe : Shows(OnDisk, gs, IF torn THEN PerSector ELSE RegionSize)
  BY Zenon DEF IInv, BlobInv
<1>2. OnDisk' = OnDisk
  BY Zenon DEF OnDisk
<1>3. CASE Len(image) > RegionSize
  <2>1. at' = "shell" /\ save' = save /\ maybe' = maybe /\ torn' = torn
    BY Zenon, <1>3 DEF StartSave
  <2>2. TypedSave'
    BY Zenon, <2>1 DEF IInv, Typed, TypedSave
  <2>3. BlobInv'
    <3>1. at' # "saving"
      BY <2>1
    <3>. QED
      BY Zenon, <1>1, <1>2, <2>1, <3>1 DEF BlobInv
  <2>4. UniqueInv'
    BY Zenon, <2>1 DEF IInv, UniqueInv
  <2>. QED
    BY Zenon, <2>1, <2>2, <2>3, <2>4
<1>4. CASE ~(Len(image) > RegionSize)
  <2>1. at' = "saving" /\ save' = [image |-> image, out |-> 0] /\ maybe' = maybe \cup {fs} /\ torn' = TRUE
    BY Zenon, <1>4 DEF StartSave
  <2>2. Len(serialize(fs)) <= RegionSize /\ IsRow(image, RegionSize)
    BY Zenon, <1>4, PaddedRow
  <2>. HIDE DEF image
  <2>3. save'.out = 0 /\ save'.image = image /\ save' = [image |-> save'.image, out |-> save'.out]
    BY <2>1
  <2>4. 0 \in 0 .. Sectors
    BY AccountsAssumption
  <2>5. TypedSave'
    BY Zenon, <2>1, <2>2, <2>3, <2>4 DEF IInv, Typed, TypedSave
  <2>6. Shows(OnDisk', gs, PerSector)
    <3>1. CASE torn
      BY Zenon, <1>1, <1>2, <3>1
    <3>2. CASE ~torn
      <4>1. Shows(OnDisk, gs, RegionSize)
        BY Zenon, <1>1, <3>2
      <4>2. IsFiles(gs) /\ Len(serialize(gs)) <= RegionSize
              => \A j \in 1 .. Len(serialize(gs)) : j <= RegionSize
        <5>1. IsFiles(gs) => serialize(gs) \in Seq(CellType)
          BY Zenon, SerializeShape
        <5>2. IsFiles(gs) => Len(serialize(gs)) \in Nat
          BY <5>1
        <5>. QED
          BY <5>2, Places
      <4>. QED
        BY Zenon, <1>2, <4>1, <4>2 DEF Shows
    <3>. QED
      BY Zenon, <3>1, <3>2
  <2>7. Out(disk', save'.image, save'.out)
    <3>1. 0 .. 0 - 1 = {}
      OBVIOUS
    <3>. QED
      BY Zenon, <2>3, <3>1 DEF Out
  <2>8. BlobInv'
    BY ZenonT(30), <2>1, <2>2, <2>3, <2>6, <2>7 DEF BlobInv, image
  <2>9. UniqueInv'
    BY Zenon, <2>1 DEF IInv, UniqueInv
  <2>. QED
    BY Zenon, <2>1, <2>5, <2>8, <2>9
<1>. QED
  BY Zenon, <1>3, <1>4

\* What the invariant says of the accounts in memory.
LEMMA InState ==
  ASSUME IInv
  PROVE  /\ Users = UsersOf(files) /\ Clean(Users) /\ (~spoilt => Unique(Users))
         /\ \A name : find(name) = FindIn(Users, name)
<1>1. Users = UsersOf(files)
  BY Zenon DEF Users, UsersOf
<1>2. Clean(Users) /\ (~spoilt => Unique(Users))
  BY Zenon, <1>1, UsersTyped DEF IInv, Typed, UniqueInv
<1>3. \A name : find(name) = FindIn(Users, name)
  BY Zenon DEF find, FindIn
<1>. QED
  BY Zenon, <1>1, <1>2, <1>3

\* What is found is an account of that name, or None.
LEMMA FoundTyped ==
  ASSUME IInv, NEW name
  PROVE  /\ find(name) \in UserType
         /\ find(name) # None =>
              \E i \in 1 .. Len(Users) : Users[i].name = name /\ find(name) = Users[i]
<1>1. Users \in Seq(UserType) /\ find(name) = FindIn(Users, name)
  BY Zenon, InState DEF Clean
<1>2. find(name) # None =>
        \E i \in 1 .. Len(Users) : Users[i].name = name /\ find(name) = Users[i]
  <2>1. FindIn(Users, name) # None =>
          \E i \in 1 .. Len(Users) : Users[i].name = name /\ FindIn(Users, name) = Users[i]
    BY Zenon, <1>1, FindUnique
  <2>. QED
    BY Zenon, <1>1, <2>1
<1>3. \A i \in 1 .. Len(Users) : Users[i] \in UserType
  BY <1>1
<1>. QED
  BY Zenon, <1>2, <1>3, UserTypes

\* Commands are counted up to their bound.
LEMMA TypesCounts ==
  ASSUME IInv, NEW op, NEW name, Types(op, name)
  PROVE  commands' \in 0 .. MaxCommands
<1>1. commands \in 0 .. MaxCommands /\ commands < MaxCommands /\ commands' = commands + 1
  BY Zenon DEF Types, IInv, Typed, TypedRun
<1>. QED
  BY <1>1, AccountsAssumption

\* users::save of accounts us, typed at the shell, keeps the invariant if it
\* keeps the accounts distinct.
LEMMA AccountsStep ==
  ASSUME IInv, NEW us, Clean(us), ~spoilt => Unique(us), NEW op, NEW name,
         Types(op, name), SaveUsers(us)
  PROVE  IInv' /\ Users' = us
<1>1. files' = Put(files, "passwd", us) /\ StartSave(files')
  BY Zenon DEF SaveUsers
<1>2. UNCHANGED <<session, attempts, disk, mounted, spoilt>>
  BY Zenon DEF SaveUsers
<1>3. IsFiles(files')
  BY Zenon, <1>1, PutTyped DEF Clean, Paths, IInv, Typed
<1>4. UsersOf(files') = us
  <2>1. UsersOf(files') = parse_passwd(us)
    BY ZenonT(30), <1>1, UsersPut
  <2>. QED
    BY Zenon, <2>1, ParseClean
<1>5. /\ TypedSave' /\ BlobInv' /\ UniqueInv'
      /\ at' \in {"off", "login", "pause", "shell", "saving", "halted"}
  BY Zenon, <1>1, <1>2, <1>3, <1>4, SaveStep
<1>6. commands' \in 0 .. MaxCommands
  BY Zenon, TypesCounts
<1>7. TypedRun'
  BY Zenon, <1>2, <1>5, <1>6 DEF TypedRun, IInv, Typed
<1>8. TypedDisk'
  BY Zenon, <1>2 DEF TypedDisk, IInv, Typed
<1>9. Users' = UsersOf(files')
  BY Zenon DEF Users, UsersOf
<1>. QED
  BY ZenonT(30), <1>3, <1>4, <1>5, <1>7, <1>8, <1>9 DEF IInv, Typed

\* The accounts after useradd.
LEMMA AddedUsers ==
  ASSUME NEW us, Clean(us), NEW name \in Names, NEW p \in Passwords, ~(NextUid(us) > MaxUid)
  PROVE  LET u  == User(name, sha256_hex(p), NextUid(us))
             vs == Append(us, u)
         IN /\ Clean(vs)
            /\ \A i \in 1 .. Len(us) : i \in 1 .. Len(vs) /\ vs[i] = us[i]
            /\ \A k \in 1 .. Len(vs) : vs[k] = u \/ \E i \in 1 .. Len(us) : us[i] = vs[k]
            /\ u.name = name
            /\ (Unique(us) /\ \A i \in 1 .. Len(us) : us[i].name # name) => Unique(vs)
<1> DEFINE u  == User(name, sha256_hex(p), NextUid(us))
           vs == Append(us, u)
<1>1. us \in Seq(UserType) /\ \A i \in 1 .. Len(us) : us[i] # Junk
  BY Zenon DEF Clean
<1>2. NextUid(us) \in Nat /\ \A i \in 1 .. Len(us) : us[i].uid # NextUid(us)
  BY Zenon, <1>1, NextUidIsNew
<1>3. NextUid(us) \in 0 .. MaxUid
  BY <1>2, AccountsAssumption
<1>4. u \in UserType /\ u # Junk
  BY Zenon, <1>3, UserTypes
<1>5. u.name = name /\ u.uid = NextUid(us)
  BY DEF User
<1>. HIDE DEF u
<1>6. vs \in Seq(UserType) /\ Len(vs) = Len(us) + 1 /\ vs[Len(us) + 1] = u /\ Len(us) \in Nat
  BY <1>1, <1>4
<1>7. \A i \in 1 .. Len(us) : vs[i] = us[i]
  BY <1>1, <1>4
<1>. HIDE DEF vs
<1>8. \A k \in 1 .. Len(vs) : k = Len(us) + 1 \/ k \in 1 .. Len(us)
  BY <1>6
<1>9. \A i \in 1 .. Len(us) : i \in 1 .. Len(vs)
  BY <1>6
<1>10. Clean(vs)
  BY ZenonT(30), <1>1, <1>4, <1>6, <1>7, <1>8 DEF Clean
<1>11. ASSUME Unique(us), \A i \in 1 .. Len(us) : us[i].name # name PROVE Unique(vs)
  <2>1. ASSUME NEW i \in 1 .. Len(vs), NEW j \in 1 .. Len(vs), i # j
        PROVE  vs[i].name # vs[j].name /\ vs[i].uid # vs[j].uid
    <3>1. CASE i \in 1 .. Len(us) /\ j \in 1 .. Len(us)
      BY ZenonT(30), <1>7, <1>11, <2>1, <3>1 DEF Unique
    <3>2. CASE i \in 1 .. Len(us) /\ j = Len(us) + 1
      BY ZenonT(30), <1>2, <1>5, <1>6, <1>7, <1>11, <3>2
    <3>3. CASE i = Len(us) + 1 /\ j \in 1 .. Len(us)
      BY ZenonT(30), <1>2, <1>5, <1>6, <1>7, <1>11, <3>3
    <3>. QED
      BY ZenonT(30), <1>8, <2>1, <3>1, <3>2, <3>3
  <2>. QED
    BY Zenon, <2>1 DEF Unique
<1>12. \A k \in 1 .. Len(vs) : vs[k] = u \/ \E i \in 1 .. Len(us) : us[i] = vs[k]
  BY Zenon, <1>6, <1>7, <1>8
<1>. QED
  BY Zenon, <1>5, <1>7, <1>9, <1>10, <1>11, <1>12 DEF u, vs

\* vs are the accounts us but for those with the uid.
Deletes(us, uid, vs) ==
  /\ Clean(vs) /\ (Unique(us) => Unique(vs))
  /\ \A i \in 1 .. Len(us) : us[i].uid # uid => \E k \in 1 .. Len(vs) : vs[k] = us[i]
  /\ \A k \in 1 .. Len(vs) : \E i \in 1 .. Len(us) : us[i] = vs[k]

\* The accounts after userdel.
LEMMA DeletedUsers ==
  ASSUME NEW us, Clean(us), NEW uid
  PROVE  Deletes(us, uid, AllBut(us, uid))
<1> DEFINE S  == {i \in 1 .. Len(us) : us[i].uid # uid}
           vs == Retained(us, S)
<1>1. us \in Seq(UserType) /\ \A i \in 1 .. Len(us) : us[i] # Junk
  BY Zenon DEF Clean
<1>2. S \in SUBSET (1 .. Len(us)) /\ \A i \in 1 .. Len(us) : us[i].uid # uid => i \in S
  BY Zenon
<1>3. AllBut(us, uid) = vs
  BY Zenon DEF AllBut
<1>. HIDE DEF S
<1>4. /\ vs \in Seq(UserType) /\ (Unique(us) => Unique(vs))
      /\ \A k \in 1 .. Len(vs) : \E i \in S : vs[k] = us[i]
      /\ \A i \in S : \E k \in 1 .. Len(vs) : vs[k] = us[i]
  BY Zenon, <1>1, <1>2, RetainUnique
<1>. HIDE DEF vs
<1>5. ASSUME NEW k \in 1 .. Len(vs)
      PROVE  vs[k] # Junk /\ \E i \in 1 .. Len(us) : us[i] = vs[k]
  <2>1. PICK i \in S : vs[k] = us[i]
    BY Zenon, <1>4
  <2>2. i \in 1 .. Len(us)
    BY Zenon, <1>2
  <2>. QED
    BY Zenon, <1>1, <2>1, <2>2
<1>6. \A i \in 1 .. Len(us) : us[i].uid # uid => \E k \in 1 .. Len(vs) : vs[k] = us[i]
  BY Zenon, <1>2, <1>4
<1>7. Clean(vs)
  BY Zenon, <1>4, <1>5 DEF Clean
<1>8. Deletes(us, uid, vs)
  BY Zenon, <1>4, <1>5, <1>6, <1>7 DEF Deletes
<1>. QED
  BY Zenon, <1>3, <1>8

\* vs are the accounts us, with another password for the one at f.
Changes(us, f, vs) ==
  /\ Clean(vs) /\ (Unique(us) => Unique(vs)) /\ Len(vs) = Len(us)
  /\ vs[f].name = us[f].name
  /\ \A i \in 1 .. Len(us) : i # f => vs[i] = us[i]

\* The accounts after passwd.
LEMMA ChangedUsers ==
  ASSUME NEW us, Clean(us), NEW f \in 1 .. Len(us), NEW p \in Passwords
  PROVE  Changes(us, f, [us EXCEPT ![f].hash = sha256_hex(p)])
<1> DEFINE w  == [us[f] EXCEPT !.hash = sha256_hex(p)]
           vs == [us EXCEPT ![f] = w]
<1>1. us \in Seq(UserType) /\ \A i \in 1 .. Len(us) : us[i] # Junk
  BY Zenon DEF Clean
<1>2. us[f] \in UserType
  BY <1>1
<1>3. w \in UserType /\ w.name = us[f].name /\ w.uid = us[f].uid /\ w.hash = sha256_hex(p)
  BY <1>2 DEF UserType
<1>4. w # Junk
  <2>1. sha256_hex(p) # << >>
    BY DEF sha256_hex
  <2>2. Junk.hash = << >>
    BY DEF Junk, User
  <2>. HIDE DEF w
  <2>. QED
    BY Zenon, <1>3, <2>1, <2>2
<1>5. [us EXCEPT ![f].hash = sha256_hex(p)] = vs
  BY Zenon
<1>. HIDE DEF w
<1>6. vs \in Seq(UserType) /\ Len(vs) = Len(us) /\ vs[f] = w
  BY <1>1, <1>3
<1>7. \A i \in 1 .. Len(us) : i # f => vs[i] = us[i]
  BY <1>1, <1>3
<1>. HIDE DEF vs
<1>8. Clean(vs)
  BY Zenon, <1>1, <1>4, <1>6, <1>7 DEF Clean
<1>9. \A i \in 1 .. Len(us) : vs[i].name = us[i].name /\ vs[i].uid = us[i].uid
  BY Zenon, <1>3, <1>6, <1>7
<1>10. Unique(us) => Unique(vs)
  BY ZenonT(30), <1>6, <1>9 DEF Unique
<1>. QED
  BY ZenonT(30), <1>3, <1>5, <1>6, <1>7, <1>8, <1>10 DEF Changes

\* Two accounts of different names are found as before.
SameOthers(name) == \A n \in Names \ {name} : find(n)' = find(n)

\* Accounts whose lines stay are found as before.
LEMMA OthersSame ==
  ASSUME IInv, IInv', ~spoilt, spoilt' = spoilt, NEW name,
         \A n \in Names \ {name} :
           /\ \A i \in 1 .. Len(Users) : Users[i].name = n => \E k \in 1 .. Len(Users') : Users'[k] = Users[i]
           /\ \A k \in 1 .. Len(Users') : Users'[k].name = n => \E i \in 1 .. Len(Users) : Users[i] = Users'[k]
  PROVE  SameOthers(name)
<1>1. Users \in Seq(UserType) /\ Unique(Users)
  BY Zenon, InState DEF Clean
<1>2. Users' = UsersOf(files')
  BY Zenon DEF Users, UsersOf
<1>3. Users' \in Seq(UserType) /\ Unique(Users')
  BY Zenon, <1>2, UsersTyped DEF IInv, Typed, UniqueInv, Clean
<1>4. \A n : find(n) = FindIn(Users, n) /\ find(n)' = FindIn(Users', n)
  BY Zenon DEF find, FindIn
<1>5. ASSUME NEW n \in Names \ {name} PROVE find(n)' = find(n)
  <2>1. FindIn(Users', n) = FindIn(Users, n)
    BY Zenon, <1>1, <1>3, SameFound
  <2>. QED
    BY Zenon, <1>4, <2>1
<1>. QED
  BY Zenon, <1>5 DEF SameOthers

\* cmd_useradd preserves the invariant and the other accounts.
LEMMA StepUseradd ==
  ASSUME IInv, NEW name \in Names, NEW p \in Passwords, cmd_useradd(name, p)
  PROVE  IInv' /\ (~spoilt => SameOthers(name))
<1>1. Types("useradd", name) /\ find(name) = None
  BY Zenon DEF cmd_useradd, create_user
<1>2. Clean(Users) /\ (~spoilt => Unique(Users)) /\ find(name) = FindIn(Users, name)
  BY Zenon, InState
<1>3. CASE NextUid(Users) > MaxUid
  <2>1. at' = "halted" /\ UNCHANGED <<files, session, attempts, save, kept>>
    BY Zenon, <1>3 DEF cmd_useradd, create_user
  <2>2. commands' \in 0 .. MaxCommands
    BY Zenon, <1>1, TypesCounts
  <2>3. at' # "saving"
    BY <2>1
  <2>4. OnDisk' = OnDisk
    BY Zenon, <2>1 DEF OnDisk, kept
  <2>5. Typed'
    BY Zenon, <2>1, <2>2 DEF IInv, Typed, TypedRun, TypedSave, TypedDisk, kept
  <2>6. BlobInv'
    BY Zenon, <2>1, <2>3, <2>4 DEF IInv, BlobInv, kept
  <2>7. UniqueInv'
    BY Zenon, <2>1 DEF IInv, UniqueInv, kept
  <2>8. SameOthers(name)
    BY Zenon, <2>1 DEF SameOthers, find, Users
  <2>. QED
    BY ZenonT(30), <2>5, <2>6, <2>7, <2>8 DEF IInv
<1>4. CASE ~(NextUid(Users) > MaxUid)
  <2> DEFINE u  == User(name, sha256_hex(p), NextUid(Users))
             vs == Append(Users, u)
  <2>1. SaveUsers(vs)
    BY Zenon, <1>4 DEF cmd_useradd, create_user
  <2>2. /\ Clean(vs)
        /\ \A i \in 1 .. Len(Users) : i \in 1 .. Len(vs) /\ vs[i] = Users[i]
        /\ \A k \in 1 .. Len(vs) : vs[k] = u \/ \E i \in 1 .. Len(Users) : Users[i] = vs[k]
        /\ u.name = name
        /\ (Unique(Users) /\ \A i \in 1 .. Len(Users) : Users[i].name # name) => Unique(vs)
    BY Zenon, <1>2, <1>4, AddedUsers
  <2>. HIDE DEF u, vs
  <2>3. Unique(Users) => \A i \in 1 .. Len(Users) : Users[i].name # name
    <3>1. ASSUME Unique(Users), NEW i \in 1 .. Len(Users), Users[i].name = name PROVE FALSE
      <4>0. Unique(Users) => \A k \in 1 .. Len(Users) : Users[k].name = name => FindIn(Users, name) = Users[k]
        BY Zenon, <1>2, FindUnique DEF Clean
      <4>1. FindIn(Users, name) = Users[i] /\ Users[i] # Junk
        BY Zenon, <1>2, <3>1, <4>0 DEF Clean
      <4>. QED
        BY Zenon, <1>1, <1>2, <4>1 DEF None
    <3>. QED
      BY Zenon, <3>1
  <2>4. IInv' /\ Users' = vs
    BY ZenonT(30), <1>1, <1>2, <2>1, <2>2, <2>3, AccountsStep
  <2>5. spoilt' = spoilt
    BY Zenon, <2>1 DEF SaveUsers
  <2>6. ~spoilt => SameOthers(name)
    BY ZenonT(30), <2>2, <2>4, <2>5, OthersSame
  <2>. QED
    BY Zenon, <2>4, <2>6
<1>. QED
  BY Zenon, <1>3, <1>4

\* cmd_userdel preserves the invariant and the other accounts.
LEMMA StepUserdel ==
  ASSUME IInv, NEW name \in Names, cmd_userdel(name)
  PROVE  IInv' /\ (~spoilt => SameOthers(name))
<1> DEFINE uid == find(name).uid
           vs  == AllBut(Users, uid)
<1>1. Types("userdel", name) /\ find(name) # None /\ SaveUsers(vs)
  BY Zenon DEF cmd_userdel, delete_user
<1>2. Clean(Users) /\ (~spoilt => Unique(Users))
  BY Zenon, InState
<1>3. PICK j \in 1 .. Len(Users) : Users[j].name = name /\ find(name) = Users[j]
  BY Zenon, <1>1, FoundTyped
<1>4. Users[j].uid = uid
  BY Zenon, <1>3
<1>. HIDE DEF uid
<1>5. /\ Clean(vs) /\ (Unique(Users) => Unique(vs))
      /\ \A i \in 1 .. Len(Users) : Users[i].uid # uid => \E k \in 1 .. Len(vs) : vs[k] = Users[i]
      /\ \A k \in 1 .. Len(vs) : \E i \in 1 .. Len(Users) : Users[i] = vs[k]
  <2>1. Deletes(Users, uid, vs)
    BY Zenon, <1>2, DeletedUsers
  <2>. HIDE DEF vs
  <2>. QED
    BY Zenon, <2>1 DEF Deletes
<1>. HIDE DEF vs
<1>6. IInv' /\ Users' = vs
  BY ZenonT(30), <1>1, <1>2, <1>5, AccountsStep
<1>7. spoilt' = spoilt
  BY Zenon, <1>1 DEF SaveUsers
<1>8. ASSUME ~spoilt, NEW n \in Names \ {name}, NEW i \in 1 .. Len(Users), Users[i].name = n
      PROVE  \E k \in 1 .. Len(Users') : Users'[k] = Users[i]
  <2>1. i # j
    BY Zenon, <1>3, <1>8
  <2>2. Users[i].uid # uid
    BY Zenon, <1>2, <1>4, <1>8, <2>1 DEF Unique
  <2>. QED
    BY Zenon, <1>5, <1>6, <2>2
<1>9. ~spoilt => SameOthers(name)
  BY ZenonT(30), <1>5, <1>6, <1>7, <1>8, OthersSame
<1>. QED
  BY Zenon, <1>6, <1>9

\* cmd_passwd preserves the invariant and the other accounts.
LEMMA StepPasswd ==
  ASSUME IInv, NEW name \in Names, NEW p \in Passwords, cmd_passwd(name, p)
  PROVE  IInv' /\ (~spoilt => SameOthers(name))
<1> DEFINE uid == find(name).uid
           is  == {i \in 1 .. Len(Users) : Users[i].uid = uid}
           f   == Least(is)
           vs  == [Users EXCEPT ![f].hash = sha256_hex(p)]
<1>1. Types("passwd", name) /\ find(name) # None /\ SaveUsers(vs)
  BY Zenon DEF cmd_passwd, set_password
<1>2. Clean(Users) /\ (~spoilt => Unique(Users))
  BY Zenon, InState
<1>3. PICK j \in 1 .. Len(Users) : Users[j].name = name /\ find(name) = Users[j]
  BY Zenon, <1>1, FoundTyped
<1>4. Users[j].uid = uid
  BY Zenon, <1>3
<1>. HIDE DEF uid
<1>5. is \in SUBSET (1 .. Len(Users)) /\ is # {} /\ \A i \in is : Users[i].uid = uid
  BY Zenon, <1>4
<1>. HIDE DEF is
<1>6. f \in is
  <2>1. Len(Users) \in Nat
    BY <1>2 DEF Clean
  <2>. QED
    BY Zenon, <1>5, <2>1, LeastIn
<1>. HIDE DEF f
<1>7. f \in 1 .. Len(Users) /\ Users[f].uid = uid
  BY Zenon, <1>5, <1>6
<1>8. /\ Clean(vs) /\ (Unique(Users) => Unique(vs)) /\ Len(vs) = Len(Users)
      /\ vs[f].name = Users[f].name
      /\ \A i \in 1 .. Len(Users) : i # f => vs[i] = Users[i]
  <2>1. Changes(Users, f, vs)
    BY Zenon, <1>2, <1>7, ChangedUsers
  <2>. HIDE DEF vs
  <2>. QED
    BY Zenon, <2>1 DEF Changes
<1>. HIDE DEF vs
<1>9. IInv' /\ Users' = vs
  BY ZenonT(30), <1>1, <1>2, <1>8, AccountsStep
<1>10. spoilt' = spoilt
  BY Zenon, <1>1 DEF SaveUsers
<1>11. ~spoilt => f = j
  BY Zenon, <1>2, <1>4, <1>7 DEF Unique
<1>12. ASSUME ~spoilt, NEW n \in Names \ {name}
       PROVE  /\ \A i \in 1 .. Len(Users) : Users[i].name = n => \E k \in 1 .. Len(Users') : Users'[k] = Users[i]
              /\ \A k \in 1 .. Len(Users') : Users'[k].name = n => \E i \in 1 .. Len(Users) : Users[i] = Users'[k]
  <2>1. Users[f].name # n /\ vs[f].name # n
    BY ZenonT(30), <1>3, <1>8, <1>11, <1>12
  <2>2. \A i \in 1 .. Len(Users) : Users[i].name = n => vs[i] = Users[i]
    BY Zenon, <1>8, <2>1
  <2>3. \A i \in 1 .. Len(Users) : vs[i].name = n => vs[i] = Users[i]
    BY Zenon, <1>8, <2>1
  <2>. QED
    BY ZenonT(30), <1>8, <1>9, <2>2, <2>3
<1>13. ~spoilt => SameOthers(name)
  BY Zenon, <1>9, <1>10, <1>12, OthersSame
<1>. QED
  BY Zenon, <1>9, <1>13

\* A step that leaves the disk and what is at stake alone, and saves nothing.
LEMMA QuietStep ==
  ASSUME IInv, UNCHANGED <<disk, maybe, torn>>, at' # "saving", IsFiles(files'), TypedRun',
         save' = save \/ save' = [image |-> << >>, out |-> 0],
         ~spoilt' => ~spoilt /\ Unique(UsersOf(files'))
  PROVE  IInv'
<1>1. TypedSave'
  <2>1. CASE save' = save
    BY Zenon, <2>1 DEF IInv, Typed, TypedSave
  <2>2. CASE save' = [image |-> << >>, out |-> 0]
    <3>1. save'.out = 0 /\ save'.image = << >> /\ save' = [image |-> save'.image, out |-> save'.out]
      BY <2>2
    <3>2. 0 \in 0 .. Sectors
      BY AccountsAssumption
    <3>. QED
      BY Zenon, <3>1, <3>2 DEF IInv, Typed, TypedSave
  <2>. QED
    BY Zenon, <2>1, <2>2
<1>2. TypedDisk'
  BY Zenon DEF IInv, Typed, TypedDisk
<1>3. OnDisk' = OnDisk
  BY Zenon DEF OnDisk
<1>4. BlobInv'
  BY Zenon, <1>3 DEF IInv, BlobInv
<1>5. UniqueInv'
  BY Zenon DEF IInv, UniqueInv
<1>. QED
  BY ZenonT(30), <1>1, <1>2, <1>4, <1>5 DEF IInv, Typed

\* boot preserves the invariant.
LEMMA StepBoot ==
  ASSUME IInv, boot
  PROVE  IInv'
<1>1. PICK b \in Found \cup {NoBlob} : files' = Restored(b)
  BY Zenon DEF boot
<1>2. b = NoBlob \/ IsFiles(b)
  <2>1. CASE b = NoBlob
    BY <2>1
  <2>2. CASE b \in Found
    <3>1. PICK lucky \in BOOLEAN : b = deserialize(OnDisk, lucky)
      BY Zenon, <2>2 DEF Found
    <3>2. \A i \in 1 .. RegionSize : IsCell(OnDisk[i])
      BY Zenon, DiskCells DEF IInv, Typed
    <3>. QED
      BY Zenon, <3>1, <3>2, DecodesTyped
  <2>. QED
    BY ZenonT(30), <1>1, <2>1, <2>2
<1>3. IsFiles(files')
  BY Zenon, <1>1, <1>2, RestoredTyped
<1>4. spoilt \in BOOLEAN /\ (spoilt' <=> spoilt \/ ~Whole) /\ spoilt' \in BOOLEAN
  <2>1. spoilt' = (spoilt \/ ~Whole) /\ spoilt \in BOOLEAN
    BY Zenon DEF boot, IInv, Typed, TypedRun
  <2>. QED
    BY Zenon, <2>1
<1>5. ASSUME ~spoilt' PROVE ~spoilt /\ Unique(UsersOf(files'))
  <2>1. ~spoilt /\ Whole
    BY Zenon, <1>4, <1>5
  <2>2. Found \subseteq maybe
    BY Zenon, <2>1, FoundAtStake DEF SavedStateReturns
  <2>3. b = NoBlob \/ Unique(UsersOf(b))
    BY Zenon, <1>1, <2>1, <2>2 DEF IInv, UniqueInv
  <2>. QED
    BY ZenonT(30), <1>1, <1>2, <2>1, <2>3, RestoredTyped
<1>6. TypedRun'
  <2>1. mounted' \in BOOLEAN
    <3>1. PICK reads \in BOOLEAN : mounted' = (reads /\ disk[VolumeLba] = BootSector)
      BY Zenon DEF boot
    <3>. QED
      BY Zenon, <3>1
  <2>2. at' = "login" /\ attempts' = 0 /\ session' = None /\ commands' = commands
    BY Zenon DEF boot
  <2>3. 0 \in 0 .. MAX_ATTEMPTS - 1
    BY DEF MAX_ATTEMPTS
  <2>. QED
    BY ZenonT(30), <1>4, <2>1, <2>2, <2>3, UserTypes DEF IInv, Typed, TypedRun
<1>7. UNCHANGED <<disk, maybe, torn>> /\ save' = save /\ at' = "login" /\ "login" # "saving"
  BY Zenon DEF boot
<1>. QED
  BY ZenonT(30), <1>3, <1>5, <1>6, <1>7, QuietStep

\* A power cut, in a save or not, preserves the invariant.
LEMMA StepPower ==
  ASSUME IInv, power_cut
  PROVE  IInv'
<1>1. /\ at' = "off" /\ files' = NoFiles /\ session' = None
      /\ save' = [image |-> << >>, out |-> 0] /\ mounted' = FALSE /\ attempts' = 0
      /\ UNCHANGED <<disk, commands, maybe, torn, spoilt>>
  BY Zenon DEF power_cut
<1>2. 0 \in 0 .. MAX_ATTEMPTS - 1 /\ "off" # "saving"
  BY DEF MAX_ATTEMPTS
<1>3. TypedRun'
  BY ZenonT(30), <1>1, <1>2, UserTypes DEF IInv, Typed, TypedRun
<1>4. UsersOf(files') = << >>
  BY Zenon, <1>1 DEF UsersOf, NoFiles
<1>. QED
  BY ZenonT(30), <1>1, <1>2, <1>3, <1>4, UniqueEmpty, NoFilesTyped, QuietStep

\* The prompt and the commands that save nothing.
LEMMA StepPrompt ==
  ASSUME IInv,
         \/ \E n \in Names, p \in Passwords : login(n, p) \/ login_fails(n, p)
         \/ pause_over \/ blank_line \/ logout \/ save_fails
  PROVE  IInv'
<1>0. /\ 0 \in 0 .. MAX_ATTEMPTS - 1
      /\ "login" # "saving" /\ "shell" # "saving" /\ "halted" # "saving" /\ "pause" # "saving"
  BY DEF MAX_ATTEMPTS
<1>1. \A n \in Names, p \in Passwords : authenticate(n, p) \in UserType
  BY Zenon, FoundTyped, UserTypes DEF authenticate
<1>2. UNCHANGED <<files, save, kept>>
  BY Zenon DEF login, login_fails, pause_over, blank_line, logout, save_fails
<1>3. session' \in UserType
  BY Zenon, <1>1, UserTypes DEF login, login_fails, pause_over, blank_line, logout, save_fails,
     IInv, Typed, TypedRun
<1>4. attempts' \in 0 .. MAX_ATTEMPTS - 1 /\ at' \in {"login", "pause", "shell", "halted"}
  <2>1. attempts \in 0 .. MAX_ATTEMPTS - 1
    BY Zenon DEF IInv, Typed, TypedRun
  <2>2. ASSUME NEW n \in Names, NEW p \in Passwords, login_fails(n, p)
        PROVE  attempts' \in 0 .. MAX_ATTEMPTS - 1 /\ at' \in {"login", "pause"}
    <3>1. at = "login" /\ IF Exhausted(attempts + 1) THEN at' = "pause" /\ attempts' = 0
                          ELSE attempts' = attempts + 1 /\ at' = at
      BY Zenon, <2>2 DEF login_fails
    <3>2. ~Exhausted(attempts + 1) => attempts + 1 \in 0 .. MAX_ATTEMPTS - 1
      BY <2>1 DEF Exhausted, MAX_ATTEMPTS
    <3>. QED
      BY Zenon, <1>0, <3>1, <3>2
  <2>3. ASSUME \/ \E n \in Names, p \in Passwords : login(n, p)
               \/ pause_over \/ blank_line \/ logout \/ save_fails
        PROVE  (attempts' = 0 \/ attempts' = attempts) /\ at' \in {"login", "shell", "halted"}
    BY Zenon, <2>3 DEF login, pause_over, blank_line, logout, save_fails
  <2>. QED
    BY Zenon, <1>0, <2>1, <2>2, <2>3
<1>5. commands' \in 0 .. MaxCommands
  <2>1. commands' = commands \/ (commands' = commands + 1 /\ commands < MaxCommands)
    BY Zenon DEF login, login_fails, pause_over, blank_line, logout, save_fails, Types
  <2>2. commands \in 0 .. MaxCommands
    BY Zenon DEF IInv, Typed, TypedRun
  <2>. QED
    BY <2>1, <2>2, AccountsAssumption
<1>6. TypedRun'
  BY ZenonT(30), <1>2, <1>3, <1>4, <1>5 DEF IInv, Typed, TypedRun, kept
<1>7. at' # "saving"
  BY Zenon, <1>0, <1>4
<1>8. IsFiles(files') /\ (~spoilt' => ~spoilt /\ Unique(UsersOf(files')))
  BY Zenon, <1>2 DEF IInv, Typed, UniqueInv, kept
<1>9. UNCHANGED <<disk, maybe, torn>>
  BY Zenon, <1>2 DEF kept
<1>. QED
  BY ZenonT(30), <1>2, <1>6, <1>7, <1>8, <1>9, QuietStep

\* write and rm, which change the ramfs only.
LEMMA StepFile ==
  ASSUME IInv, NEW fs, IsFiles(fs), Unique(UsersOf(files)) => Unique(UsersOf(fs)), files' = fs,
         NEW op, NEW name, Types(op, name), UNCHANGED <<session, attempts, at, save, kept>>
  PROVE  IInv'
<1>1. at' = "shell" /\ "shell" # "saving"
  BY Zenon DEF Types
<1>2. commands' \in 0 .. MaxCommands
  BY Zenon, TypesCounts
<1>3. TypedRun'
  BY Zenon, <1>2 DEF IInv, Typed, TypedRun, kept
<1>4. ~spoilt' => ~spoilt /\ Unique(UsersOf(files'))
  BY Zenon DEF IInv, UniqueInv, kept
<1>5. UNCHANGED <<disk, maybe, torn>> /\ IsFiles(files')
  BY Zenon DEF kept
<1>6. save' = save /\ at' # "saving"
  BY Zenon, <1>1
<1>. QED
  BY ZenonT(30), <1>3, <1>4, <1>5, <1>6, QuietStep

\* cmd_write preserves the invariant.
LEMMA StepWrite ==
  ASSUME IInv, NEW p \in Paths, NEW l \in UserType, cmd_write(p, l)
  PROVE  IInv'
<1>1. /\ Types("write", "") /\ files' = Put(files, p, <<l>>)
      /\ UNCHANGED <<session, attempts, at, save, kept>>
  BY Zenon DEF cmd_write
<1>2. <<l>> \in Seq(UserType) /\ Unique(<<l>>)
  <2>1. <<l>> \in Seq(UserType) /\ Len(<<l>>) = 1
    BY Zenon, SeqOne
  <2>2. \A i, j \in 1 .. 1 : i = j
    OBVIOUS
  <2>. QED
    BY Zenon, <2>1, <2>2 DEF Unique
<1>3. IsFiles(Put(files, p, <<l>>))
  BY Zenon, <1>2, PutTyped DEF IInv, Typed
<1>4. Unique(UsersOf(files)) => Unique(UsersOf(Put(files, p, <<l>>)))
  <2>1. UsersOf(Put(files, p, <<l>>)) = IF p = "passwd" THEN parse_passwd(<<l>>) ELSE UsersOf(files)
    BY Zenon, UsersPut
  <2>. QED
    BY Zenon, <1>2, <2>1, ParseTyped
<1>. QED
  BY Zenon, <1>1, <1>3, <1>4, StepFile

\* cmd_rm preserves the invariant.
LEMMA StepRm ==
  ASSUME IInv, NEW p \in Paths, cmd_rm(p)
  PROVE  IInv'
<1>1. /\ Types("rm", "") /\ files' = Without(files, p)
      /\ UNCHANGED <<session, attempts, at, save, kept>>
  BY Zenon DEF cmd_rm
<1>2. IsFiles(Without(files, p))
  BY Zenon, WithoutTyped DEF IInv, Typed
<1>3. Unique(UsersOf(files)) => Unique(UsersOf(Without(files, p)))
  <2>1. UsersOf(Without(files, p)) = UsersOf(files) \/ UsersOf(Without(files, p)) = << >>
    BY Zenon DEF UsersOf, Without
  <2>. QED
    BY Zenon, <2>1, UniqueEmpty
<1>. QED
  BY ZenonT(30), <1>1, <1>2, <1>3, StepFile

\* The start of a save preserves the invariant.
LEMMA StepSave ==
  ASSUME IInv, cmd_save
  PROVE  IInv'
<1>1. /\ Types("save", "") /\ StartSave(files)
      /\ UNCHANGED <<files, session, attempts, disk, mounted, spoilt>>
  BY Zenon DEF cmd_save
<1>2. /\ TypedSave' /\ BlobInv' /\ UniqueInv'
      /\ at' \in {"off", "login", "pause", "shell", "saving", "halted"}
  BY Zenon, <1>1, SaveStep DEF IInv, Typed, UniqueInv
<1>3. commands' \in 0 .. MaxCommands
  BY Zenon, <1>1, TypesCounts
<1>4. TypedRun' /\ TypedDisk' /\ IsFiles(files')
  BY ZenonT(30), <1>1, <1>2, <1>3 DEF IInv, Typed, TypedRun, TypedDisk
<1>. QED
  BY Zenon, <1>2, <1>4 DEF IInv, Typed

\* A sector that is written preserves the invariant.
LEMMA StepSector ==
  ASSUME IInv, write_sector
  PROVE  IInv'
<1> DEFINE o   == save.out
           row == SectorOf(save.image, o + 1)
<1>1. /\ at = "saving" /\ o < Sectors
      /\ save' = [save EXCEPT !.out = o + 1]
      /\ disk' = [disk EXCEPT ![PERSIST_LBA + o] = row]
      /\ UNCHANGED <<files, session, attempts, at, mounted, commands, cmd, maybe, torn, spoilt>>
  BY Zenon DEF write_sector
<1>2. /\ torn /\ files \in maybe /\ save.image = Padded(serialize(files))
      /\ Len(serialize(files)) <= RegionSize /\ Out(disk, save.image, o)
  BY Zenon, <1>1 DEF IInv, BlobInv
<1>3. o \in 0 .. Sectors - 1 /\ o + 1 \in 0 .. Sectors /\ (o + 1) - 1 = o
  <2>1. o \in 0 .. Sectors
    BY Zenon DEF IInv, Typed, TypedSave
  <2>. QED
    BY <1>1, <2>1, AccountsAssumption
<1>4. IsFiles(files) /\ serialize(files) \in Seq(CellType)
  BY Zenon, SerializeShape DEF IInv, Typed
<1>5. /\ IsRow(save.image, RegionSize)
      /\ \A j \in 1 .. Len(serialize(files)) : save.image[j] = serialize(files)[j]
  BY ZenonT(30), <1>2, <1>4, PaddedRow
<1>. HIDE DEF o
<1>6. row \in [1 .. PerSector -> CellType] /\ \A i \in 1 .. PerSector : row[i] = save.image[o * PerSector + i] /\ IsCell(row[i])
  <2>1. ASSUME NEW i \in 1 .. PerSector
        PROVE  o * PerSector + i \in 1 .. RegionSize
    BY Zenon, <1>3, Places
  <2>2. ASSUME NEW i \in 1 .. PerSector
        PROVE  o * PerSector + i <= Len(save.image)
    <3>1. Len(save.image) = RegionSize
      BY Zenon, <1>5 DEF IsRow
    <3>. QED
      BY <2>1, <3>1, Places
  <2>3. row = [i \in 1 .. PerSector |->
                 IF o * PerSector + i <= Len(save.image) THEN save.image[o * PerSector + i]
                 ELSE disk[PERSIST_LBA + (o + 1) - 1][i]]
    BY Zenon, <1>3 DEF SectorOf
  <2>. HIDE DEF row
  <2>4. \A i \in 1 .. PerSector : row[i] = save.image[o * PerSector + i]
    BY Zenon, <2>2, <2>3
  <2>5. \A i \in 1 .. PerSector : IsCell(save.image[o * PerSector + i])
    BY Zenon, <1>5, <2>1 DEF IsRow
  <2>6. \A i \in 1 .. PerSector : row[i] \in CellType
    BY Zenon, <2>4, <2>5 DEF IsCell
  <2>. QED
    BY ZenonT(30), <2>3, <2>4, <2>5, <2>6
<1>. HIDE DEF row
<1>7. IsRow(row, PerSector)
  <2>1. PerSector \in Nat
    BY AccountsAssumption
  <2>2. row \in Seq(CellType) /\ Len(row) = PerSector
    BY Zenon, <1>6, <2>1, SeqFn
  <2>. QED
    BY Zenon, <1>6, <2>2 DEF IsRow
<1>8. TypedDisk
  BY Zenon DEF IInv, Typed
<1>9. PERSIST_LBA + o \in DOMAIN disk
  BY ZenonT(30), <1>3, <1>8, DiskCells
<1>10. DOMAIN disk' = DOMAIN disk /\ disk' = [l \in DOMAIN disk |-> IF l = PERSIST_LBA + o THEN row ELSE disk[l]]
  BY Zenon, <1>1, <1>8 DEF TypedDisk
<1>11. TypedDisk'
  BY Zenon, <1>7, <1>8, <1>10 DEF TypedDisk
<1>12. save'.out = o + 1 /\ save'.image = save.image /\ save' = [image |-> save'.image, out |-> save'.out]
  <2>1. save = [image |-> save.image, out |-> save.out]
    BY Zenon DEF IInv, Typed, TypedSave
  <2>. QED
    BY <1>1, <2>1
<1>13. TypedSave'
  BY ZenonT(30), <1>1, <1>3, <1>5, <1>12 DEF IInv, Typed, TypedSave
<1>14. IsFiles(files') /\ TypedRun' /\ UniqueInv'
  BY Zenon, <1>1 DEF IInv, Typed, TypedRun, UniqueInv
<1>15. Out(disk', save'.image, save'.out)
  <2>1. ASSUME NEW k \in 0 .. (o + 1) - 1, NEW i \in 1 .. PerSector
        PROVE  disk'[PERSIST_LBA + k][i] = save.image[k * PerSector + i]
    <3>1. k = o \/ (k \in 0 .. o - 1 /\ PERSIST_LBA + k # PERSIST_LBA + o)
      BY <1>3 DEF PERSIST_LBA
    <3>2. k \in 0 .. Sectors - 1
      BY <1>3, AccountsAssumption
    <3>3. PERSIST_LBA + k \in DOMAIN disk
      BY ZenonT(30), <1>8, <3>2, DiskCells
    <3>4. CASE k = o
      BY ZenonT(30), <1>6, <1>9, <1>10, <3>4
    <3>5. CASE k \in 0 .. o - 1 /\ PERSIST_LBA + k # PERSIST_LBA + o
      <4>1. disk'[PERSIST_LBA + k] = disk[PERSIST_LBA + k]
        BY ZenonT(30), <1>10, <3>3, <3>5
      <4>. QED
        BY Zenon, <1>2, <3>5, <4>1 DEF Out, o
    <3>. QED
      BY ZenonT(30), <3>1, <3>4, <3>5
  <2>. QED
    BY Zenon, <1>12, <2>1 DEF Out
<1>16. OnDisk = CellsOf(disk) /\ OnDisk' = CellsOf(disk')
  BY Zenon DEF OnDisk, CellsOf
<1>17. \E fs \in maybe : Shows(OnDisk', fs, PerSector)
  <2>0. 0 \in 0 .. Sectors - 1 /\ PERSIST_LBA + 0 = PERSIST_LBA /\ 1 \in 1 .. PerSector
    BY AccountsAssumption DEF PERSIST_LBA
  <2>1. /\ \A j \in 1 .. PerSector : OnDisk[j] = disk[PERSIST_LBA][j]
        /\ \A j \in 1 .. PerSector : OnDisk'[j] = disk'[PERSIST_LBA][j]
    BY Zenon, <1>16, FirstSector
  <2>2. PERSIST_LBA \in DOMAIN disk
    BY Zenon, <1>8, <2>0, DiskCells
  <2>3. \A fs : IsFiles(fs) => \A j \in 1 .. Len(serialize(fs)) : j <= PerSector => j \in 1 .. PerSector
    BY AccountsAssumption
  <2>4. CASE o = 0
    <3>1. disk'[PERSIST_LBA] = row
      BY ZenonT(30), <1>10, <2>0, <2>2, <2>4
    <3>2. \A i \in 1 .. PerSector : o * PerSector + i = i
      BY <2>4, AccountsAssumption
    <3>3. \A j \in 1 .. PerSector : OnDisk'[j] = save.image[j]
      BY ZenonT(30), <1>6, <2>1, <3>1, <3>2
    <3>4. \A j \in 1 .. Len(serialize(files)) : j <= PerSector => OnDisk'[j] = serialize(files)[j]
      BY ZenonT(30), <1>4, <1>5, <2>3, <3>3
    <3>. QED
      BY ZenonT(30), <1>2, <1>4, <3>4 DEF Shows
  <2>5. CASE o # 0
    <3>1. PERSIST_LBA # PERSIST_LBA + o
      BY <1>3, <2>5 DEF PERSIST_LBA
    <3>2. disk'[PERSIST_LBA] = disk[PERSIST_LBA]
      BY ZenonT(30), <1>10, <2>2, <3>1
    <3>3. \A j \in 1 .. PerSector : OnDisk'[j] = OnDisk[j]
      BY Zenon, <2>1, <3>2
    <3>4. PICK fs \in maybe : Shows(OnDisk, fs, PerSector)
      BY Zenon, <1>2 DEF IInv, BlobInv
    <3>5. Shows(OnDisk', fs, PerSector)
      BY ZenonT(30), <2>0, <2>3, <3>3, <3>4 DEF Shows
    <3>. QED
      BY Zenon, <3>5
  <2>. QED
    BY Zenon, <2>4, <2>5
<1>18. BlobInv'
  BY ZenonT(30), <1>1, <1>2, <1>12, <1>15, <1>17 DEF BlobInv
<1>. QED
  BY ZenonT(30), <1>11, <1>13, <1>14, <1>18 DEF IInv, Typed

\* The end of a save preserves the invariant.
LEMMA StepDone ==
  ASSUME IInv, save_done
  PROVE  IInv'
<1>1. /\ at = "saving" /\ save.out = Sectors /\ at' = "shell" /\ maybe' = {files} /\ torn' = FALSE
      /\ UNCHANGED <<files, session, attempts, save, disk, mounted, commands, cmd, spoilt>>
  BY Zenon DEF save_done
<1>2. /\ save.image = Padded(serialize(files)) /\ Len(serialize(files)) <= RegionSize
      /\ Out(disk, save.image, Sectors) /\ IsFiles(files)
  BY Zenon, <1>1 DEF IInv, BlobInv, Typed
<1>3. TypedSave'
  BY Zenon, <1>1, <1>2 DEF IInv, Typed, TypedSave
<1>4. TypedRun' /\ TypedDisk' /\ IsFiles(files')
  BY Zenon, <1>1 DEF IInv, Typed, TypedRun, TypedDisk
<1>5. UniqueInv'
  BY Zenon, <1>1 DEF IInv, UniqueInv
<1>6. OnDisk' = CellsOf(disk)
  BY Zenon, <1>1 DEF OnDisk, CellsOf
<1>7. \A j \in 1 .. RegionSize : OnDisk'[j] = save.image[j]
  BY ZenonT(30), <1>2, <1>6, WholeImage
<1>8. \A j \in 1 .. Len(serialize(files)) : j \in 1 .. RegionSize /\ save.image[j] = serialize(files)[j]
  <2>1. serialize(files) \in Seq(CellType)
    BY Zenon, <1>2, SerializeShape
  <2>2. Len(serialize(files)) \in Nat /\ RegionSize \in Nat
    BY <2>1, Places
  <2>3. \A j \in 1 .. Len(serialize(files)) : j \in 1 .. RegionSize
    BY <1>2, <2>2
  <2>4. \A j \in 1 .. Len(serialize(files)) : save.image[j] = serialize(files)[j]
    BY Zenon, <1>2, PaddedRow
  <2>. QED
    BY Zenon, <2>3, <2>4
<1>9. Shows(OnDisk', files, RegionSize)
  BY Zenon, <1>2, <1>7, <1>8 DEF Shows
<1>10. BlobInv'
  <2>1. at' # "saving" /\ ~torn'
    BY <1>1
  <2>. QED
    BY Zenon, <1>1, <1>9, <2>1 DEF BlobInv
<1>. QED
  BY ZenonT(30), <1>3, <1>4, <1>5, <1>10 DEF IInv, Typed

\* Every step keeps the invariant, and the accounts of other names.
LEMMA NextInv ==
  ASSUME IInv, [Next]_vars
  PROVE  /\ IInv'
         /\ (commands' # commands /\ cmd'.op \in {"useradd", "userdel", "passwd"} /\ ~spoilt)
              => \A n \in Names \ {cmd'.name} : find(n)' = find(n)
<1> DEFINE Others == (commands' # commands /\ cmd'.op \in {"useradd", "userdel", "passwd"} /\ ~spoilt)
                       => \A n \in Names \ {cmd'.name} : find(n)' = find(n)
<1>. SUFFICES IInv' /\ Others
  BY Zenon
<1>0. \A op, name : Types(op, name) => cmd'.op = op /\ cmd'.name = name
  BY DEF Types
<1>. HIDE DEF Others
<1>1. ASSUME NEW n \in Names, NEW p \in Passwords, cmd_useradd(n, p) PROVE IInv' /\ Others
  <2>1. cmd'.name = n
    BY ZenonT(30), <1>0, <1>1 DEF cmd_useradd
  <2>. QED
    BY Zenon, <1>1, <2>1, StepUseradd DEF SameOthers, Others
<1>2. ASSUME NEW n \in Names, NEW p \in Passwords, cmd_passwd(n, p) PROVE IInv' /\ Others
  <2>1. cmd'.name = n
    BY Zenon, <1>0, <1>2 DEF cmd_passwd
  <2>. QED
    BY Zenon, <1>2, <2>1, StepPasswd DEF SameOthers, Others
<1>3. ASSUME NEW n \in Names, cmd_userdel(n) PROVE IInv' /\ Others
  <2>1. cmd'.name = n
    BY Zenon, <1>0, <1>3 DEF cmd_userdel
  <2>. QED
    BY Zenon, <1>3, <2>1, StepUserdel DEF SameOthers, Others
<1>4. ASSUME NEW op \in {"save", "write", "rm", "blank", "logout"}, Types(op, "") PROVE Others
  <2>1. cmd'.op = op
    BY Zenon, <1>0, <1>4
  <2>2. op \notin {"useradd", "userdel", "passwd"}
    BY <1>4
  <2>. QED
    BY Zenon, <2>1, <2>2 DEF Others
<1>5. ASSUME commands' = commands PROVE Others
  BY Zenon, <1>5 DEF Others
<1>6. CASE cmd_save
  BY Zenon, <1>4, <1>6, StepSave DEF cmd_save
<1>7. ASSUME NEW p \in Paths, NEW l \in UserType, cmd_write(p, l) PROVE IInv' /\ Others
  BY Zenon, <1>4, <1>7, StepWrite DEF cmd_write
<1>8. ASSUME NEW p \in Paths, cmd_rm(p) PROVE IInv' /\ Others
  BY Zenon, <1>4, <1>8, StepRm DEF cmd_rm
<1>9. CASE blank_line \/ logout
  BY ZenonT(30), <1>4, <1>9, StepPrompt DEF blank_line, logout
<1>10. CASE Command
  <2>1. \A n \in Names, u \in {0, MaxUid} : User(n, sha256_hex("other"), u) \in UserType
    BY Zenon, UserTypes
  <2>2. "passwd" \in Paths
    BY Zenon DEF Paths
  <2>. QED
    BY ZenonT(30), <1>1, <1>2, <1>3, <1>6, <1>7, <1>8, <1>9, <1>10, <2>1, <2>2, UserTypes DEF Command
<1>11. CASE boot
  <2>1. commands' = commands
    BY ZenonT(30), <1>11 DEF boot
  <2>. QED
    BY ZenonT(30), <1>5, <1>11, <2>1, StepBoot
<1>12. CASE power_cut
  <2>1. commands' = commands
    BY Zenon, <1>12 DEF power_cut
  <2>. QED
    BY Zenon, <1>5, <1>12, <2>1, StepPower
<1>13. CASE (\E n \in Names, p \in Passwords : login(n, p) \/ login_fails(n, p)) \/ pause_over \/ save_fails
  <2>1. commands' = commands
    BY Zenon, <1>13 DEF login, login_fails, pause_over, save_fails
  <2>2. IInv'
    BY ZenonT(30), <1>13, StepPrompt
  <2>. QED
    BY Zenon, <1>5, <2>1, <2>2
<1>14. CASE write_sector
  <2>1. commands' = commands
    BY ZenonT(30), <1>14 DEF write_sector
  <2>. QED
    BY Zenon, <1>5, <1>14, <2>1, StepSector
<1>15. CASE save_done
  <2>1. commands' = commands
    BY Zenon, <1>15 DEF save_done
  <2>. QED
    BY Zenon, <1>5, <1>15, <2>1, StepDone
<1>16. CASE UNCHANGED vars
  <2>1. OnDisk' = OnDisk
    BY Zenon, <1>16 DEF OnDisk, vars
  <2>2. Typed'
    BY Zenon, <1>16 DEF IInv, Typed, TypedRun, TypedSave, TypedDisk, vars
  <2>3. BlobInv'
    BY Zenon, <1>16, <2>1 DEF IInv, BlobInv, vars
  <2>4. UniqueInv' /\ commands' = commands
    BY Zenon, <1>16 DEF IInv, UniqueInv, vars
  <2>. QED
    BY ZenonT(30), <1>5, <2>2, <2>3, <2>4 DEF IInv
<1>. QED
  BY ZenonT(30), <1>10, <1>11, <1>12, <1>13, <1>14, <1>15, <1>16 DEF Next

-----------------------------------------------------------------------------
(* Results *)

\* The inductive invariant holds in every reachable state.
THEOREM Invariance == Spec => []IInv
<1>1. Init => IInv
  BY Zenon, InitInv
<1>2. IInv /\ [Next]_vars => IInv'
  BY Zenon, NextInv
<1>. QED
  BY <1>1, <1>2, PTL DEF Spec

\* Every variable keeps its type, and the login prompt never counts as many
\* failures as MAX_ATTEMPTS without the pause (tty_login.rs, run).
THEOREM TypeCorrectness == Spec => []TypeOK
<1>1. IInv => TypeOK
  <2>. SUFFICES ASSUME IInv PROVE TypeOK
    OBVIOUS
  <2>1. DOMAIN files \subseteq Paths /\ \A p \in DOMAIN files : \A i \in 1 .. Len(files[p]) : files[p][i] \in UserType
    <3>1. DOMAIN files \subseteq Paths /\ \A p \in DOMAIN files : files[p] \in Seq(UserType)
      BY Zenon, Domains DEF IInv, Typed
    <3>. QED
      BY <3>1
  <2>2. Len(save.image) \in {0, RegionSize}
    <3>1. CASE save.image = << >>
      BY <3>1
    <3>2. CASE IsRow(save.image, RegionSize)
      BY Zenon, <3>2 DEF IsRow
    <3>. QED
      BY Zenon, <3>1, <3>2 DEF IInv, Typed, TypedSave
  <2>3. \A l \in DOMAIN disk : Len(disk[l]) = PerSector
    BY ZenonT(30) DEF IInv, Typed, TypedDisk, IsRow
  <2>. QED
    BY ZenonT(30), <2>1, <2>2, <2>3 DEF IInv, Typed, TypedRun, TypedSave, TypeOK
<1>. QED
  BY <1>1, Invariance, PTL

\* What a boot reads back is what the last finished save wrote, or, after saves
\* that were cut short, one of the states at stake, as long as each fits in a
\* sector: whatever the number of sectors, of commands and of power cuts
\* (save_from_ramfs, load_into_ramfs).
THEOREM WhatIsSavedReturns == Spec => []SavedStateReturns
<1>1. IInv => SavedStateReturns
  BY ZenonT(30), FoundAtStake
<1>. QED
  BY <1>1, Invariance, PTL

\* No two accounts share a name or a uid, through additions, deletions, files
\* written by hand and reboots (create_user, delete_user, load_into_ramfs).
THEOREM DistinctAccounts == Spec => []AccountsAreUnique
<1>1. IInv => AccountsAreUnique
  BY Zenon, InState DEF AccountsAreUnique, Unique
<1>. QED
  BY <1>1, Invariance, PTL

\* useradd, userdel and passwd leave the accounts of other names as they are,
\* although the last two change what they looked up by name by its uid
\* (cmd_useradd, cmd_userdel, cmd_passwd).
THEOREM OtherAccountsUntouched == Spec => OthersUntouched
<1> DEFINE Others == (commands' # commands /\ cmd'.op \in {"useradd", "userdel", "passwd"} /\ ~spoilt)
                       => \A n \in Names \ {cmd'.name} : find(n)' = find(n)
<1>1. IInv /\ [Next]_vars => [Others]_vars
  BY Zenon, NextInv
<1>. QED
  BY <1>1, Invariance, PTL DEF Spec, OthersUntouched
=============================================================================
