---------------------------- MODULE Fat32Lemmas -----------------------------
(***************************************************************************)
(* The inductive invariant of the FAT32 driver's write path, lemmas about  *)
(* chains, the steps that write what a cluster or an entry of the FAT or   *)
(* the directory holds, and what the invariant says to a reader.           *)
(***************************************************************************)
EXTENDS Fat32, WellFoundedInduction, TLAPS

\* A leaf that names no prover is Zenon's.
USE Zenon

-----------------------------------------------------------------------------
(* Chains *)

SuccIn(f, c) == IF f[c] \in Cluster THEN f[c] ELSE 0

IsWalk(at, f, c) ==
  at = [k \in 0 .. Last |-> IF k = 0 THEN c
                            ELSE IF at[k - 1] = 0 THEN 0 ELSE SuccIn(f, at[k - 1])]

\* Chain, of any FAT.
ChainIn(f, c) ==
  LET at == CHOOSE w : IsWalk(w, f, c)
  IN [k \in {j \in 1 .. Last : at[j - 1] # 0} |-> at[k - 1]]

\* A path through the FAT f, to the end of a chain, that meets no cluster twice.
Path(f, s) ==
  /\ s \in Seq(Cluster) /\ Len(s) > 0
  /\ \A i, j \in 1 .. Len(s) : s[i] = s[j] => i = j
  /\ \A i \in 1 .. Len(s) - 1 : f[s[i]] = s[i + 1]
  /\ f[s[Len(s)]] = EOC

\* The chain from c on is a path.
Ok(f, c) == Path(f, ChainIn(f, c)) /\ ChainIn(f, c)[1] = c

\* The clusters of the chain from c on.
In(f, c) == {ChainIn(f, c)[i] : i \in 1 .. Len(ChainIn(f, c))}

\* The chains that start at the clusters in H are paths, and no two meet.
Chains(f, H) ==
  /\ H \subseteq Cluster
  /\ \A h \in H : Ok(f, h)
  /\ \A g, h \in H : g # h => In(f, g) \cap In(f, h) = {}

-----------------------------------------------------------------------------
(* What starts a chain *)

Places == Cluster \X (1 .. Slots)

IsFile(d, e)   == d[e[1]][e[2]].kind = "file"

FirstOf(d, e)  == d[e[1]][e[2]].first

SizeOf(d, e)   == d[e[1]][e[2]].size

Called(d, e, n) == IsFile(d, e) /\ d[e[1]][e[2]].name = n

\* The entries of the directory d, but for the one the call p is giving up.
Live(d, p) == {e \in Places : IsFile(d, e) /\ ~(p.freed /\ e = <<p.cur, p.off>>)}

Firsts(d, p) == {FirstOf(d, e) : e \in Live(d, p)} \ {0}

\* What the call p has taken for the new file.
Drawn(p) == IF p.at = "alloc" THEN {p.chain[i] : i \in 1 .. Len(p.chain)}
            ELSE IF p.chain = << >> THEN {} ELSE {p.chain[1]}

\* What the call p has taken for the root, or has still to free.
Loose(p) == IF p.at = "link" \/ (p.at = "free" /\ p.freed) THEN {p.todo} ELSE {}

Heads(d, p) == {Root} \cup Firsts(d, p) \cup Drawn(p) \cup Loose(p)

\* Each head starts one chain.
Apart(d, p) ==
  /\ Root \notin Firsts(d, p) /\ Root \notin Drawn(p) /\ Root \notin Loose(p)
  /\ Firsts(d, p) \cap Drawn(p) = {} /\ Firsts(d, p) \cap Loose(p) = {}
  /\ Drawn(p) \cap Loose(p) = {}
  /\ \A a, b \in Live(d, p) : FirstOf(d, a) = FirstOf(d, b) /\ FirstOf(d, a) # 0 => a = b

-----------------------------------------------------------------------------
(* The inductive invariant *)

SlotType == [kind : {"end", "gone", "long", "file"}, name : Names,
             first : {0} \cup Cluster, size : 0 .. MaxClusters]

AtType   == {"idle", "alloc", "scan", "grow", "link", "zero", "free", "write"}

OpType   == [at : AtType, name : Names, size : 0 .. MaxClusters, chain : Seq(Cluster), cur : Cluster,
             off : 0 .. Slots, todo : {0} \cup Cluster, freed : BOOLEAN, unlinks : BOOLEAN]

FatType  == [Cluster -> {Free, EOC} \cup Cluster]

DirType  == [Cluster -> [1 .. Slots -> SlotType]]

WantType == [Names -> Nat \X (0 .. MaxClusters)]

TypedCall(p) ==
  /\ p \in OpType
  /\ p.at \in {"link", "zero", "free"} => p.todo # 0
  /\ p.at \in {"free", "write"} => p.off # 0
  /\ p.at = "idle" => p = Idle

\* Besides the types: the directory is torn after a failure only, and without
\* one the root grows at its end.
Typed ==
  /\ fat \in FatType /\ dir \in DirType /\ TypedCall(op) /\ want \in WantType
  /\ creates \in 0 .. MaxCreates /\ failed \in BOOLEAN /\ torn \in BOOLEAN
  /\ torn => failed
  /\ op.at \in {"grow", "link"} /\ ~failed => SuccIn(fat, op.cur) = 0

\* Every file has a chain as long as its size.
SizesInv(f, d, p) == \A e \in Live(d, p) :
  IF FirstOf(d, e) = 0 THEN SizeOf(d, e) = 0
  ELSE Len(ChainIn(f, FirstOf(d, e))) = SizeOf(d, e)

\* The directory d is in the clusters R of the root, and nothing follows its end.
DirInv(d, R) ==
  \A c \in Cluster : \A o \in 1 .. Slots :
    /\ c \notin R => d[c][o].kind = "end"
    /\ d[c][o].kind = "end" => \A q \in o .. Slots : d[c][q].kind = "end"

\* Where the call p is with the clusters of the new file.
NewInv(f, b, p, n) ==
  IF p.at = "alloc"
  THEN /\ Len(p.chain) <= p.size /\ p.cur = Root /\ ~p.unlinks
       /\ \A i, j \in 1 .. Len(p.chain) : p.chain[i] = p.chain[j] => i = j
       /\ \A i \in 1 .. Len(p.chain) : f[p.chain[i]] = EOC
  ELSE /\ Len(p.chain) = p.size /\ (p.unlinks => p.chain = << >>)
       /\ p.chain # << >> => ChainIn(f, p.chain[1]) = p.chain
       /\ \A i \in 1 .. p.size : b[p.chain[i]] = <<n, i>>
       /\ p.at = "link" => f[p.todo] = EOC

\* The k-th cluster of the root is where the call p looks, and no cluster before
\* has the name it looks for.
Reached(d, r, p, k) ==
  /\ r[k] = p.cur
  /\ \A j \in 1 .. k - 1 : \A o \in 1 .. Slots : ~Called(d, <<r[j], o>>, p.name)

\* Where the call p is with the directory d, whose clusters are r.
ScanInv(d, r, p) ==
  /\ p.at \in {"idle", "alloc"} => p.cur = Root
  /\ \E k \in 1 .. Len(r) :
       /\ Reached(d, r, p, k)
       /\ p.at = "zero" => k + 1 = Len(r) /\ r[k + 1] = p.todo
  /\ p.at = "zero" => \A o \in 1 .. Slots : d[p.todo][o].kind = "end"
  /\ p.at \in {"grow", "link", "zero"} =>
       ~p.unlinks /\ \A o \in 1 .. Slots : ~Called(d, <<p.cur, o>>, p.name)
  /\ p.freed => p.at \in {"free", "write"}
  /\ p.at \in {"free", "write"} =>
       /\ \A o \in 1 .. Slots : Called(d, <<p.cur, o>>, p.name) => p.off <= o
       /\ \A o \in 1 .. p.off - 1 : d[p.cur][o].kind # "end"
       /\ IsFile(d, <<p.cur, p.off>>) =>
            /\ Called(d, <<p.cur, p.off>>, p.name)
            /\ ~p.freed => FirstOf(d, <<p.cur, p.off>>) = IF p.at = "free" THEN p.todo ELSE 0
       /\ p.at = "free" \/ p.freed \/ p.unlinks => IsFile(d, <<p.cur, p.off>>)

\* The first entry of the name n, in the i-th cluster of r.
FirstEntry(d, r, n, i, o) ==
  /\ Called(d, <<r[i], o>>, n)
  /\ \A q \in 1 .. o - 1 : ~Called(d, <<r[i], q>>, n)
  /\ \A j \in 1 .. i - 1 : \A q \in 1 .. Slots : ~Called(d, <<r[j], q>>, n)

\* It has the data that w says.
Holds(f, b, d, e, w) ==
  /\ FirstOf(d, e) # 0
  /\ SizeOf(d, e) = w[2]
  /\ \A i \in 1 .. w[2] : b[ChainIn(f, FirstOf(d, e))[i]] = <<w[1], i>>

WantInv(f, d, b, p, wt) ==
  \A n \in Names : wt[n][2] > 0 /\ ~(p.freed /\ p.name = n) =>
    \E i \in 1 .. Len(ChainIn(f, Root)), o \in 1 .. Slots :
      /\ FirstEntry(d, ChainIn(f, Root), n, i, o)
      /\ Holds(f, b, d, <<ChainIn(f, Root)[i], o>>, wt[n])

\* What is taken belongs to a chain.
SpaceInv(f, H) == \A c \in Cluster : f[c] # Free => \E h \in H : c \in In(f, h)

FatInv(f, d, p) == Chains(f, Heads(d, p)) /\ Apart(d, p) /\ SizesInv(f, d, p)

InvOf(f, d, b, p, n, wt) ==
  /\ FatInv(f, d, p)
  /\ DirInv(d, In(f, Root))
  /\ NewInv(f, b, p, n)
  /\ ScanInv(d, ChainIn(f, Root), p)
  /\ WantInv(f, d, b, p, wt)

\* The inductive invariant.
IInv ==
  /\ Typed
  /\ ~torn => InvOf(fat, dir, body, op, creates, want)
  /\ ~failed => SpaceInv(fat, Heads(dir, op))

-----------------------------------------------------------------------------
(* Numbers *)

\* A set of natural numbers has a least one.
LEMMA LeastNat ==
  ASSUME NEW S \in SUBSET Nat, S # {}
  PROVE  \E m \in S : \A k \in S : m <= k
<1>1. PICK m \in S : \A k \in S : ~(<<k, m>> \in OpToRel(<, Nat))
  BY NatLessThanWellFounded, WFMin
<1>2. \A k \in S : ~(k < m)
  BY <1>1 DEF OpToRel
<1>. QED
  BY SMT, <1>2

\* The constants, and that marks in the FAT are not clusters.
LEMMA Numbers ==
  /\ Last \in Nat /\ Last > 2 /\ Slots \in Nat /\ Slots > 0
  /\ Root \in Cluster /\ 0 \notin Cluster /\ EOC \notin Cluster /\ Free # EOC
  /\ \A c \in Cluster : c \in Nat /\ c # 0 /\ c # Free /\ c # EOC
BY SMT, Fat32Assumption DEF Cluster, Root, Free, EOC

\* There is no way to put m + 1 things in m places, each in one of its own.
LEMMA Pigeonhole ==
  ASSUME NEW m \in Nat, NEW s \in [1 .. m + 1 -> 1 .. m], \A i, j \in 1 .. m + 1 : s[i] = s[j] => i = j
  PROVE  FALSE
<1> DEFINE Packs(k, t) == t \in [1 .. k + 1 -> 1 .. k] /\ \A i, j \in 1 .. k + 1 : t[i] = t[j] => i = j
           S == {k \in Nat : \E t : Packs(k, t)}
<1>1. S # {}
  OBVIOUS
<1>2. PICK k \in S : \A l \in S : k <= l
  BY <1>1, LeastNat
<1>3. PICK t : Packs(k, t)
  BY <1>2
<1>4. k \in Nat /\ k # 0
  <2>1. k \in Nat /\ t \in [1 .. k + 1 -> 1 .. k]
    BY <1>2, <1>3
  <2>. QED
    BY SMT, <2>1
<1>. HIDE DEF Packs, S
<1> DEFINE u == [i \in 1 .. k |-> IF t[i] = k THEN t[k + 1] ELSE t[i]]
<1>5. /\ t \in [1 .. k + 1 -> 1 .. k] /\ \A i, j \in 1 .. k + 1 : t[i] = t[j] => i = j
  BY <1>3 DEF Packs
<1>6. /\ u \in [1 .. (k - 1) + 1 -> 1 .. k - 1] /\ k - 1 \in Nat
      /\ \A i \in 1 .. k : u[i] = IF t[i] = k THEN t[k + 1] ELSE t[i]
  <2>1. k - 1 \in Nat /\ (k - 1) + 1 = k
    BY SMT, <1>4
  <2>2. ASSUME NEW i \in 1 .. k PROVE (IF t[i] = k THEN t[k + 1] ELSE t[i]) \in 1 .. k - 1
    <3>1. i \in 1 .. k + 1 /\ k + 1 \in 1 .. k + 1 /\ i # k + 1
      BY SMT, <1>4
    <3>2. t[i] \in 1 .. k /\ t[k + 1] \in 1 .. k /\ t[i] # t[k + 1]
      BY <1>5, <3>1
    <3>3. \A a \in 1 .. k : a # k => a \in 1 .. k - 1
      BY SMT, <1>4
    <3>. QED
      BY <3>2, <3>3
  <2>. QED
    BY <2>1, <2>2
<1>. HIDE DEF u
<1>7. \A i, j \in 1 .. (k - 1) + 1 : u[i] = u[j] => i = j
  <2> SUFFICES ASSUME NEW i \in 1 .. (k - 1) + 1, NEW j \in 1 .. (k - 1) + 1, u[i] = u[j] PROVE i = j
    OBVIOUS
  <2>1. /\ i \in 1 .. k + 1 /\ j \in 1 .. k + 1 /\ k + 1 \in 1 .. k + 1 /\ i # k + 1 /\ j # k + 1
        /\ i \in 1 .. k /\ j \in 1 .. k
    BY SMT, <1>4
  <2>2. /\ u[i] = IF t[i] = k THEN t[k + 1] ELSE t[i]
        /\ u[j] = IF t[j] = k THEN t[k + 1] ELSE t[j]
    BY <1>6, <2>1
  <2>3. t[i] # t[k + 1] /\ t[j] # t[k + 1]
    BY <1>5, <2>1
  <2>4. t[i] = t[j]
    BY <2>2, <2>3
  <2>. QED
    BY <1>5, <2>1, <2>4
<1>8. k - 1 \in S
  BY <1>6, <1>7 DEF Packs, S
<1>9. k <= k - 1
  BY <1>2, <1>8
<1>. QED
  BY SMT, <1>4, <1>9

-----------------------------------------------------------------------------
(* Walking a chain *)

\* A path is shorter than the FAT.
LEMMA ShortPath ==
  ASSUME NEW f, NEW s, Path(f, s)
  PROVE  Len(s) \in 1 .. Last /\ s \in Seq(Cluster) /\ \A i \in 1 .. Len(s) : s[i] \in Cluster
<1>1. s \in Seq(Cluster) /\ Len(s) \in Nat /\ Len(s) > 0 /\ \A i \in 1 .. Len(s) : s[i] \in Cluster
  BY SMT DEF Path
<1>2. \A i, j \in 1 .. Len(s) : s[i] = s[j] => i = j
  BY DEF Path
<1>3. ASSUME ~(Len(s) <= Last) PROVE FALSE
  <2> DEFINE t == [i \in 1 .. Last + 1 |-> s[i]]
  <2>1. Last \in Nat /\ t \in [1 .. Last + 1 -> 1 .. Last] /\ \A i \in 1 .. Last + 1 : i \in 1 .. Len(s) /\ t[i] = s[i]
    BY SMT, <1>1, <1>3, Numbers DEF Cluster
  <2>2. \A i, j \in 1 .. Last + 1 : t[i] = t[j] => i = j
    BY <1>2, <2>1
  <2>. HIDE DEF t
  <2>. QED
    BY <2>1, <2>2, Pigeonhole
<1>. QED
  BY SMT, <1>1, <1>3, Numbers

\* A path is what the walk from its first cluster visits.
LEMMA Walk ==
  ASSUME NEW f \in FatType, NEW s, Path(f, s)
  PROVE  ChainIn(f, s[1]) = s
<1> DEFINE n == Len(s)
           w == [k \in 0 .. Last |-> IF k < n THEN s[k + 1] ELSE 0]
<1>1. n \in 1 .. Last /\ (\A i \in 1 .. n : s[i] \in Cluster /\ s[i] # 0) /\ s = [i \in 1 .. n |-> s[i]]
  BY SMT, ShortPath, Numbers
<1>2. /\ \A i \in 1 .. n - 1 : f[s[i]] = s[i + 1]
      /\ f[s[n]] = EOC
  BY DEF Path
<1>. HIDE DEF n
<1>3. ASSUME NEW k \in 0 .. Last
      PROVE  w[k] = IF k = 0 THEN s[1] ELSE IF w[k - 1] = 0 THEN 0 ELSE SuccIn(f, w[k - 1])
  <2>1. CASE k = 0
    BY SMT, <1>1, <2>1
  <2>2. CASE k # 0 /\ k < n
    <3>1. w[k] = s[k + 1] /\ w[k - 1] = s[k] /\ k \in 1 .. n - 1 /\ k + 1 \in 1 .. n /\ k \in 1 .. n
      BY SMT, <1>1, <2>2, Numbers
    <3>. QED
      BY <1>1, <1>2, <2>2, <3>1 DEF SuccIn
  <2>3. CASE k = n
    <3>1. w[k] = 0 /\ w[k - 1] = s[n] /\ n \in 1 .. n /\ k # 0
      BY SMT, <1>1, <2>3, Numbers
    <3>. QED
      BY <1>1, <1>2, <3>1, Numbers DEF SuccIn
  <2>4. CASE k > n
    <3>1. w[k] = 0 /\ w[k - 1] = 0 /\ k # 0
      BY SMT, <1>1, <2>4, Numbers
    <3>. QED
      BY <3>1
  <2>5. k = 0 \/ (k # 0 /\ k < n) \/ k = n \/ k > n
    BY SMT, <1>1
  <2>. QED
    BY <2>1, <2>2, <2>3, <2>4, <2>5
<1>4. w = [k \in 0 .. Last |-> w[k]]
  OBVIOUS
<1>5. \A k \in 0 .. Last : w[k] = IF k < n THEN s[k + 1] ELSE 0
  OBVIOUS
<1>. HIDE DEF w
<1>7. IsWalk(w, f, s[1])
  BY <1>3, <1>4 DEF IsWalk
<1>8. ASSUME NEW v, IsWalk(v, f, s[1]) PROVE v = w
  <2> DEFINE D == {k \in 0 .. Last : v[k] # w[k]}
  <2>1. v = [k \in 0 .. Last |-> v[k]]
    BY <1>8 DEF IsWalk
  <2>2. \A k \in 0 .. Last :
          v[k] = IF k = 0 THEN s[1] ELSE IF v[k - 1] = 0 THEN 0 ELSE SuccIn(f, v[k - 1])
    BY <1>8 DEF IsWalk
  <2>3. D = {}
    <3>1. SUFFICES ASSUME D # {} PROVE FALSE
      BY SMT
    <3>2. D \in SUBSET Nat
      BY SMT, Numbers
    <3>3. PICK m \in D : \A k \in D : m <= k
      BY <3>1, <3>2, LeastNat
    <3>4. m \in 0 .. Last /\ v[m] # w[m]
      BY SMT, <3>3
    <3>5. m # 0
      BY <1>3, <2>2, <3>4
    <3>6. m - 1 \in 0 .. Last /\ ~(m <= m - 1)
      BY SMT, <3>4, <3>5, Numbers
    <3>7. v[m - 1] = w[m - 1]
      BY <3>3, <3>6
    <3>. QED
      BY <1>3, <2>2, <3>4, <3>5, <3>7
  <2>. QED
    <3>1. \A k \in 0 .. Last : v[k] = w[k]
      BY <2>3
    <3>. QED
      BY SMT, <1>4, <2>1, <3>1
<1> DEFINE at == CHOOSE v : IsWalk(v, f, s[1])
<1>9. at = w
  BY <1>7, <1>8
<1>10. ChainIn(f, s[1]) = [k \in {j \in 1 .. Last : at[j - 1] # 0} |-> at[k - 1]]
  BY DEF ChainIn
<1>. HIDE DEF at
<1>11. \A k \in 0 .. Last : at[k] = IF k < n THEN s[k + 1] ELSE 0
  BY <1>5, <1>9
<1>12. \A j \in 1 .. Last : j - 1 \in 0 .. Last /\ (j - 1 < n <=> j \in 1 .. n) /\ (j - 1) + 1 = j
  BY SMT, <1>1, Numbers
<1>13. \A j \in 1 .. n : j \in 1 .. Last
  BY SMT, <1>1, Numbers
<1>14. {j \in 1 .. Last : at[j - 1] # 0} = 1 .. n
  <2>1. ASSUME NEW j \in 1 .. Last PROVE at[j - 1] # 0 <=> j \in 1 .. n
    <3>1. at[j - 1] = IF j \in 1 .. n THEN s[j] ELSE 0
      <4>1. at[j - 1] = IF j - 1 < n THEN s[(j - 1) + 1] ELSE 0
        BY <1>11, <1>12
      <4>2. (j - 1 < n <=> j \in 1 .. n) /\ (j - 1) + 1 = j
        BY <1>12
      <4>. QED
        BY <4>1, <4>2
    <3>. QED
      BY <1>1, <3>1
  <2>. QED
    BY <1>13, <2>1
<1>15. \A k \in 1 .. n : at[k - 1] = s[k]
  BY <1>11, <1>12, <1>13
<1>. QED
  BY <1>1, <1>10, <1>14, <1>15

\* A path is the chain of its first cluster.
LEMMA PathOk ==
  ASSUME NEW f \in FatType, NEW s, Path(f, s)
  PROVE  Ok(f, s[1]) /\ ChainIn(f, s[1]) = s
BY Walk DEF Ok

\* The walk of the model is the walk along its FAT.
LEMMA ChainOf == \A c : Chain(c) = ChainIn(fat, c)
BY DEF Chain, ChainIn, IsWalk, next_cluster, SuccIn

\* What Ok says of the clusters of a chain.
Sound(f, h) ==
  /\ h \in In(f, h) /\ In(f, h) \subseteq Cluster
  /\ \A c \in In(f, h) : f[c] # Free /\ f[c] # 0
  /\ \A c \in In(f, h) : f[c] = EOC \/ (f[c] \in Cluster /\ f[c] \in In(f, h))

\* The clusters of a chain are taken, and each leads to its end or to another of them.
LEMMA Members ==
  ASSUME NEW f \in FatType, NEW h, Ok(f, h)
  PROVE  Sound(f, h)
<1> DEFINE s == ChainIn(f, h)
<1>1. Path(f, s) /\ s[1] = h
  BY DEF Ok
<1>2. In(f, h) = {s[i] : i \in 1 .. Len(s)}
  BY DEF In
<1>. HIDE DEF s
<1>3. Len(s) \in 1 .. Last /\ \A i \in 1 .. Len(s) : s[i] \in Cluster
  BY <1>1, ShortPath
<1>4. (\A i \in 1 .. Len(s) - 1 : f[s[i]] = s[i + 1]) /\ f[s[Len(s)]] = EOC
  BY <1>1 DEF Path
<1>5. 1 \in 1 .. Len(s) /\ \A i \in 1 .. Len(s) : i = Len(s) \/ (i \in 1 .. Len(s) - 1 /\ i + 1 \in 1 .. Len(s))
  BY SMT, <1>3, Numbers
<1>6. ASSUME NEW i \in 1 .. Len(s) PROVE f[s[i]] = EOC \/ (f[s[i]] \in Cluster /\ f[s[i]] \in In(f, h))
  BY <1>2, <1>3, <1>4, <1>5
<1>7. \A c \in In(f, h) : f[c] = EOC \/ (f[c] \in Cluster /\ f[c] \in In(f, h))
  BY <1>2, <1>6
<1>8. EOC # Free /\ EOC # 0 /\ \A c \in Cluster : c # Free /\ c # 0
  BY SMT, Numbers DEF EOC
<1>9. h \in In(f, h) /\ In(f, h) \subseteq Cluster
  BY <1>1, <1>2, <1>3, <1>5
<1>. QED
  BY <1>7, <1>8, <1>9 DEF Sound

\* The ends of an interval.
LEMMA Ends ==
  ASSUME NEW n \in Nat, n >= 1
  PROVE  /\ 1 \in 1 .. n /\ n \in 1 .. n /\ n > 0
         /\ n # 1 => n - 1 \in Nat /\ n - 1 > 0 /\ 1 \in 1 .. n - 1 /\ 1 + 1 \in 1 .. n
         /\ \A i \in 1 .. n - 1 : i \in 1 .. n /\ i # n /\ i + 1 \in 1 .. n
         /\ \A i \in 1 .. n : i = n \/ i \in 1 .. n - 1
BY SMT

\* The chain is the same where the FAT is.
LEMMA Frame ==
  ASSUME NEW f \in FatType, NEW g \in FatType, NEW h, Ok(f, h),
         \A c \in In(f, h) : g[c] = f[c]
  PROVE  Ok(g, h) /\ ChainIn(g, h) = ChainIn(f, h)
<1> DEFINE s == ChainIn(f, h)
<1>1. Path(f, s) /\ s[1] = h
  BY DEF Ok
<1>2. \A i \in 1 .. Len(s) : g[s[i]] = f[s[i]]
  BY DEF In
<1>. HIDE DEF s
<1>3. Len(s) \in 1 .. Last
  BY <1>1, ShortPath
<1>4. Len(s) \in 1 .. Len(s) /\ \A i \in 1 .. Len(s) - 1 : i \in 1 .. Len(s)
  BY SMT, <1>3, Numbers
<1>5. Path(g, s)
  BY <1>1, <1>2, <1>4 DEF Path
<1>6. Ok(g, s[1]) /\ ChainIn(g, s[1]) = s
  BY <1>5, PathOk
<1>. QED
  BY <1>1, <1>6 DEF s

\* The same chain has the same clusters.
LEMMA SameIn ==
  ASSUME NEW f, NEW g, NEW h, ChainIn(g, h) = ChainIn(f, h)
  PROVE  In(g, h) = In(f, h)
BY DEF In

\* The chains that start in H are the same in f and g.
Same(f, g, H) == \A h \in H : ChainIn(g, h) = ChainIn(f, h)

\* Chains whose entries are left alone stay as they are.
LEMMA FrameAll ==
  ASSUME NEW f \in FatType, NEW g \in FatType, NEW H, NEW G \in SUBSET H, Chains(f, H),
         \A h \in G : \A c \in In(f, h) : g[c] = f[c]
  PROVE  Chains(g, G) /\ Same(f, g, G)
<1>1. ASSUME NEW h \in G PROVE Ok(g, h) /\ ChainIn(g, h) = ChainIn(f, h)
  <2>1. Ok(f, h)
    BY DEF Chains
  <2>. QED
    BY <2>1, Frame
<1>2. \A h \in G : In(g, h) = In(f, h)
  BY <1>1, SameIn
<1>3. \A a, b \in G : a # b => In(g, a) \cap In(g, b) = {}
  <2>1. \A a, b \in G : a # b => In(f, a) \cap In(f, b) = {}
    BY DEF Chains
  <2>. QED
    BY <1>2, <2>1
<1>4. G \subseteq Cluster
  BY DEF Chains
<1>. QED
  BY <1>1, <1>3, <1>4 DEF Chains, Same

\* One more chain, that meets none of the others.
LEMMA AddHead ==
  ASSUME NEW f, NEW H, NEW c \in Cluster, Chains(f, H), Ok(f, c),
         \A h \in H : In(f, c) \cap In(f, h) = {}
  PROVE  Chains(f, H \cup {c})
<1>1. \A a, b \in H \cup {c} : a # b => In(f, a) \cap In(f, b) = {}
  <2>1. \A a, b \in H : a # b => In(f, a) \cap In(f, b) = {}
    BY DEF Chains
  <2>2. \A h \in H : In(f, h) \cap In(f, c) = {}
    OBVIOUS
  <2>. QED
    BY <2>1, <2>2
<1>. QED
  BY <1>1 DEF Chains

\* A cluster that ends a chain is a chain.
LEMMA Single ==
  ASSUME NEW f \in FatType, NEW c \in Cluster, f[c] = EOC
  PROVE  Ok(f, c) /\ ChainIn(f, c) = <<c>> /\ In(f, c) = {c}
<1>1. Path(f, <<c>>) /\ <<c>>[1] = c
  BY SMT DEF Path
<1>2. Ok(f, c) /\ ChainIn(f, c) = <<c>>
  BY <1>1, PathOk
<1>3. {<<c>>[i] : i \in 1 .. Len(<<c>>)} = {c}
  BY SMT
<1>. QED
  BY <1>1, <1>2, <1>3 DEF In

-----------------------------------------------------------------------------
(* The call under way *)

\* The types of a call's fields.
LEMMA OpFields ==
  ASSUME NEW p \in OpType
  PROVE  /\ p.at \in AtType /\ p.name \in Names /\ p.size \in 0 .. MaxClusters
         /\ p.chain \in Seq(Cluster) /\ p.cur \in Cluster /\ p.off \in 0 .. Slots
         /\ p.todo \in {0} \cup Cluster /\ p.freed \in BOOLEAN /\ p.unlinks \in BOOLEAN
BY SMT DEF OpType, AtType

\* The fields of no call.
LEMMA IdleFields ==
  /\ Idle \in OpType /\ Idle.at = "idle" /\ Idle.size = 0 /\ Idle.chain = << >> /\ Idle.cur = Root
  /\ Idle.off = 0 /\ Idle.todo = 0 /\ Idle.freed = FALSE /\ Idle.unlinks = FALSE
<1>1. NoName \in Names
  BY Fat32Assumption DEF NoName
<1>. QED
  BY SMT, <1>1, Fat32Assumption, Numbers DEF Idle, OpType, AtType

\* q is p, but for these fields.
Becomes(p, q, at, chain, cur, off, todo, freed) ==
  /\ q \in OpType
  /\ q.name = p.name /\ q.size = p.size /\ q.unlinks = p.unlinks
  /\ q.at = at /\ q.chain = chain /\ q.cur = cur /\ q.off = off /\ q.todo = todo
  /\ q.freed = freed

\* A call that moves on keeps all but its place.
LEMMA SetAt ==
  ASSUME NEW p \in OpType, NEW x \in AtType
  PROVE  Becomes(p, [p EXCEPT !.at = x], x, p.chain, p.cur, p.off, p.todo, p.freed)
BY SMT DEF OpType, AtType, Becomes

\* What a step leaves of the types, when it leaves the directory and the names alone.
TypedRest ==
  /\ want \in WantType /\ creates \in 0 .. MaxCreates /\ failed \in BOOLEAN /\ torn \in BOOLEAN
  /\ torn => failed

\* What Typed says, part by part.
LEMMA TypedParts ==
  ASSUME Typed
  PROVE  /\ fat \in FatType /\ dir \in DirType /\ TypedCall(op) /\ op \in OpType /\ TypedRest
         /\ op.at \in AtType /\ op.name \in Names /\ op.size \in 0 .. MaxClusters
         /\ op.chain \in Seq(Cluster) /\ op.cur \in Cluster /\ op.off \in 0 .. Slots
         /\ op.todo \in {0} \cup Cluster /\ op.freed \in BOOLEAN /\ op.unlinks \in BOOLEAN
<1>1. fat \in FatType /\ dir \in DirType /\ TypedCall(op) /\ op \in OpType /\ TypedRest
  BY DEF Typed, TypedCall, TypedRest
<1>. QED
  BY <1>1, OpFields

\* The slots written by hand are slots.
LEMMA NewSlots ==
  /\ End \in SlotType /\ Gone \in SlotType /\ End.kind = "end" /\ Gone.kind = "gone"
<1>1. NoName \in Names
  BY Fat32Assumption DEF NoName
<1>. QED
  BY SMT, <1>1, Fat32Assumption DEF End, Gone, Slot, SlotType

-----------------------------------------------------------------------------
(* What the invariant says of the root *)

\* The root's clusters r.
IsRoot(f, r) ==
  /\ r = ChainIn(f, Root) /\ Path(f, r) /\ r[1] = Root /\ Sound(f, Root) /\ Ok(f, Root)
  /\ Len(r) \in Nat /\ Len(r) >= 1 /\ \A i \in 1 .. Len(r) : r[i] \in Cluster /\ r[i] \in In(f, Root)
  /\ \A c \in In(f, Root) : \E i \in 1 .. Len(r) : c = r[i]

\* What Chains says of the root.
LEMMA RootFacts ==
  ASSUME NEW f \in FatType, NEW H, Chains(f, H), Root \in H
  PROVE  IsRoot(f, ChainIn(f, Root))
<1> DEFINE r == ChainIn(f, Root)
<1>1. Ok(f, Root) /\ Path(f, r) /\ r[1] = Root
  BY DEF Chains, Ok
<1>2. Sound(f, Root)
  BY <1>1, Members
<1>3. In(f, Root) = {r[i] : i \in 1 .. Len(r)}
  BY DEF In
<1>. HIDE DEF r
<1>4. Len(r) \in 1 .. Last /\ \A i \in 1 .. Len(r) : r[i] \in Cluster
  BY <1>1, ShortPath
<1>5. Len(r) \in Nat /\ Len(r) >= 1
  BY SMT, <1>4, Numbers
<1>. QED
  BY <1>1, <1>2, <1>3, <1>4, <1>5 DEF IsRoot, r

\* The root is a head.
LEMMA RootIsHead == \A d, p : Root \in Heads(d, p)
BY DEF Heads

\* At the first cluster of the root nothing is known of the name yet.
LEMMA ScanStart ==
  ASSUME NEW f, NEW d, NEW r, IsRoot(f, r), NEW q, q.cur = Root, q.freed = FALSE,
         q.at \in {"idle", "alloc", "scan"}
  PROVE  ScanInv(d, r, q)
<1>1. 1 \in 1 .. Len(r)
  BY Ends DEF IsRoot
<1>2. \A j \in 1 .. 1 - 1 : FALSE
  BY SMT
<1>3. Reached(d, r, q, 1)
  BY <1>2 DEF Reached, IsRoot
<1>4. q.at # "zero" /\ q.at \notin {"grow", "link", "zero"} /\ q.at \notin {"free", "write"}
  BY SMT
<1>. QED
  BY <1>1, <1>3, <1>4 DEF ScanInv

\* Nothing follows the end of these slots.
EndsLast(s) == \A o \in 1 .. Slots : s[o].kind = "end" => \A q \in o .. Slots : s[q].kind = "end"

\* In every cluster of the directory nothing follows the end.
LEMMA EndsLastIn ==
  ASSUME NEW d, NEW R, DirInv(d, R), NEW c \in Cluster
  PROVE  EndsLast(d[c])
BY DEF DirInv, EndsLast

InvNow == InvOf(fat, dir, body, op, creates, want)

\* What the invariant says, part by part.
LEMMA NowFacts ==
  ASSUME Typed, InvNow
  PROVE  /\ IsRoot(fat, ChainIn(fat, Root)) /\ EndsLast(dir[op.cur])
         /\ DirInv(dir, In(fat, Root)) /\ NewInv(fat, body, op, creates)
         /\ ScanInv(dir, ChainIn(fat, Root), op) /\ WantInv(fat, dir, body, op, want)
         /\ FatInv(fat, dir, op)
<1>1. IsRoot(fat, ChainIn(fat, Root))
  BY TypedParts, RootFacts, RootIsHead DEF InvNow, InvOf, FatInv
<1>2. DirInv(dir, In(fat, Root))
  BY DEF InvNow, InvOf
<1>3. EndsLast(dir[op.cur])
  BY <1>2, TypedParts, EndsLastIn
<1>. QED
  BY <1>1, <1>2, <1>3 DEF InvNow, InvOf

-----------------------------------------------------------------------------
(* The directory entry is written *)

\* What write_slot puts in the directory.
Written == IF op.unlinks THEN Gone ELSE NewSlot

\* What write_slot writes: a deleted slot, or the new file's.
LEMMA WrittenSlot ==
  ASSUME Typed
  PROVE  /\ Written \in SlotType
         /\ First(op.chain) \in {0} \cup Cluster
         /\ op.unlinks => Written = Gone /\ Written.kind = "gone"
         /\ ~op.unlinks => /\ Written.kind = "file" /\ Written.name = op.name
                           /\ Written.first = First(op.chain) /\ Written.size = op.size
<1>1. First(op.chain) \in {0} \cup Cluster
  <2>1. op.chain # << >> => op.chain[1] \in Cluster
    BY SMT, TypedParts
  <2>. QED
    BY <2>1 DEF First
<1>2. op.name \in Names /\ op.size \in 0 .. MaxClusters /\ op.unlinks \in BOOLEAN
  BY TypedParts
<1>3. Written = IF op.unlinks THEN Gone ELSE Slot("file", op.name, First(op.chain), op.size)
  BY DEF Written, NewSlot
<1>4. CASE op.unlinks
  <2>1. Written = Gone
    BY <1>3, <1>4
  <2>. QED
    BY <1>1, <1>4, <2>1, NewSlots
<1>5. CASE ~op.unlinks
  <2>1. Written = Slot("file", op.name, First(op.chain), op.size)
    BY <1>3, <1>5
  <2> DEFINE z == Slot("file", op.name, First(op.chain), op.size)
  <2>3. /\ z \in SlotType /\ z.kind = "file" /\ z.name = op.name
        /\ z.first = First(op.chain) /\ z.size = op.size
    BY SMT, <1>1, <1>2 DEF Slot, SlotType
  <2>4. Written = z
    BY <2>1
  <2>. HIDE DEF z
  <2>. QED
    BY <1>1, <1>5, <2>3, <2>4
<1>. QED
  BY <1>4, <1>5

\* The invariant, in the next state.
InvNext ==
  /\ InvOf(fat', dir', body', op', creates', want')
  /\ SpaceInv(fat, Heads(dir, op)) => failed' \/ SpaceInv(fat', Heads(dir', op'))

\* The directory e is d but for the slot x, where it has w.
Rewrites(d, e, x, w) ==
  /\ x \in Places
  /\ \A c \in Cluster : \A o \in 1 .. Slots : e[c][o] = IF <<c, o>> = x THEN w ELSE d[c][o]

\* What e has at y, of what d had or w says.
RewrittenAt(d, e, x, w, y) ==
  /\ y # x => /\ IsFile(e, y) <=> IsFile(d, y)
              /\ FirstOf(e, y) = FirstOf(d, y) /\ SizeOf(e, y) = SizeOf(d, y)
              /\ \A n : Called(e, y, n) <=> Called(d, y, n)
  /\ y = x => /\ IsFile(e, y) <=> w.kind = "file"
              /\ FirstOf(e, y) = w.first /\ SizeOf(e, y) = w.size
              /\ \A n : Called(e, y, n) <=> w.kind = "file" /\ w.name = n

\* The call p writes w at x, which it has made its own: what was there has no
\* chain any more, and w gets the new one, if it is a file.
Settles(d, p, x, w) ==
  /\ x = <<p.cur, p.off>>
  /\ ~p.freed /\ IsFile(d, x) => FirstOf(d, x) = 0
  /\ Loose(p) = {}
  /\ w.kind = "file" => Drawn(p) = {w.first} \ {0}
  /\ w.kind # "file" => Drawn(p) = {}

\* The entries that result.
Settled(d, e, x, w, p) ==
  /\ \A y \in Live(e, Idle) : y # x => y \in Live(d, p) /\ FirstOf(e, y) = FirstOf(d, y) /\ SizeOf(e, y) = SizeOf(d, y)
  /\ \A y \in Live(d, p) : y # x => y \in Live(e, Idle) /\ FirstOf(e, y) = FirstOf(d, y)
  /\ x \in Live(e, Idle) <=> w.kind = "file"
  /\ FirstOf(e, x) = w.first /\ SizeOf(e, x) = w.size
  /\ x \in Live(d, p) => FirstOf(d, x) = 0

\* The file that w says has a chain of its size.
Sized(f, w) ==
  w.kind = "file" => IF w.first = 0 THEN w.size = 0 ELSE Len(ChainIn(f, w.first)) = w.size

\* Every chain has the one entry that names it.
Kempt(f, d, e, x, w, p) == FatInv(f, e, Idle) /\ Heads(e, Idle) = Heads(d, p)

\* write_slot, the last write of a call, preserves the invariant.
LEMMA StepWriteSlot == Typed /\ InvNow /\ write_slot => InvNext
<1>RewrittenEntries. ASSUME NEW d, NEW e, NEW x, NEW w, Rewrites(d, e, x, w)
      PROVE  /\ \A y \in Places : RewrittenAt(d, e, x, w, y)
             /\ \A c \in Cluster : \A o \in 1 .. Slots : RewrittenAt(d, e, x, w, <<c, o>>)
  <2>. USE <1>RewrittenEntries
  <2>1. ASSUME NEW c \in Cluster, NEW o \in 1 .. Slots PROVE RewrittenAt(d, e, x, w, <<c, o>>)
    <3>1. CASE <<c, o>> = x
      <4>1. e[c][o] = w
        BY <2>1, <3>1 DEF Rewrites
      <4>2. /\ IsFile(e, <<c, o>>) <=> w.kind = "file"
            /\ FirstOf(e, <<c, o>>) = w.first /\ SizeOf(e, <<c, o>>) = w.size
            /\ \A n : Called(e, <<c, o>>, n) <=> w.kind = "file" /\ w.name = n
        BY SMT, <4>1 DEF IsFile, FirstOf, SizeOf, Called
      <4>. QED
        BY <3>1, <4>2 DEF RewrittenAt
    <3>2. CASE <<c, o>> # x
      <4>1. e[c][o] = d[c][o]
        BY <2>1, <3>2 DEF Rewrites
      <4>2. /\ IsFile(e, <<c, o>>) <=> IsFile(d, <<c, o>>)
            /\ FirstOf(e, <<c, o>>) = FirstOf(d, <<c, o>>) /\ SizeOf(e, <<c, o>>) = SizeOf(d, <<c, o>>)
            /\ \A n : Called(e, <<c, o>>, n) <=> Called(d, <<c, o>>, n)
        BY SMT, <4>1 DEF IsFile, FirstOf, SizeOf, Called
      <4>. QED
        BY <3>2, <4>2 DEF RewrittenAt
    <3>. QED
      BY <3>1, <3>2
  <2>2. \A y \in Places : y = <<y[1], y[2]>> /\ y[1] \in Cluster /\ y[2] \in 1 .. Slots
    BY SMT DEF Places
  <2>. QED
    BY <2>1, <2>2
<1>SettlesLive. ASSUME NEW d, NEW e, NEW x, NEW w, Rewrites(d, e, x, w), NEW p, Settles(d, p, x, w)
      PROVE  Settled(d, e, x, w, p)
  <2>. USE <1>SettlesLive
  <2>1. \A y \in Places : RewrittenAt(d, e, x, w, y)
    BY <1>RewrittenEntries
  <2>2. Idle.freed = FALSE /\ x \in Places
    BY IdleFields DEF Rewrites
  <2>3. \A y : y \in Live(e, Idle) <=> y \in Places /\ IsFile(e, y)
    BY <2>2 DEF Live
  <2>4. \A y : y \in Live(d, p) <=> y \in Places /\ IsFile(d, y) /\ ~(p.freed /\ y = x)
    BY DEF Live, Settles
  <2>5. RewrittenAt(d, e, x, w, x)
    BY <2>1, <2>2
  <2>6. \A y \in Live(e, Idle) : y # x => y \in Live(d, p) /\ FirstOf(e, y) = FirstOf(d, y) /\ SizeOf(e, y) = SizeOf(d, y)
    BY <2>1, <2>3, <2>4 DEF RewrittenAt
  <2>7. \A y \in Live(d, p) : y # x => y \in Live(e, Idle) /\ FirstOf(e, y) = FirstOf(d, y)
    BY <2>1, <2>3, <2>4 DEF RewrittenAt
  <2>8. /\ x \in Live(e, Idle) <=> w.kind = "file"
        /\ FirstOf(e, x) = w.first /\ SizeOf(e, x) = w.size
    BY <2>2, <2>3, <2>5 DEF RewrittenAt
  <2>9. x \in Live(d, p) => FirstOf(d, x) = 0
    BY <2>4 DEF Settles
  <2>. QED
    BY <2>6, <2>7, <2>8, <2>9 DEF Settled
<1>SettlesFat. ASSUME NEW f, NEW d, NEW e, NEW x, NEW w, Rewrites(d, e, x, w), NEW p, Settles(d, p, x, w),
             FatInv(f, d, p), Sized(f, w)
      PROVE  Kempt(f, d, e, x, w, p)
  <2>. USE <1>SettlesFat
  <2>1. /\ \A y \in Live(e, Idle) : y # x => y \in Live(d, p) /\ FirstOf(e, y) = FirstOf(d, y) /\ SizeOf(e, y) = SizeOf(d, y)
        /\ \A y \in Live(d, p) : y # x => y \in Live(e, Idle) /\ FirstOf(e, y) = FirstOf(d, y)
        /\ x \in Live(e, Idle) <=> w.kind = "file"
        /\ FirstOf(e, x) = w.first /\ SizeOf(e, x) = w.size
        /\ x \in Live(d, p) => FirstOf(d, x) = 0
    <3>1. Settled(d, e, x, w, p)
      BY <1>SettlesLive
    <3>. QED
      BY <3>1 DEF Settled
  <2>2. /\ Loose(p) = {} /\ (w.kind = "file" => Drawn(p) = {w.first} \ {0})
        /\ (w.kind # "file" => Drawn(p) = {})
    BY DEF Settles
  <2>3. \A v : v \in Firsts(e, Idle) <=> v # 0 /\ \E y \in Live(e, Idle) : v = FirstOf(e, y)
    BY DEF Firsts
  <2>4. \A v : v \in Firsts(d, p) <=> v # 0 /\ \E y \in Live(d, p) : v = FirstOf(d, y)
    BY DEF Firsts
  <2>5. Firsts(e, Idle) = Firsts(d, p) \cup Drawn(p)
    <3>1. ASSUME NEW v \in Firsts(e, Idle) PROVE v \in Firsts(d, p) \cup Drawn(p)
      <4>1. v # 0
        BY <2>3, <3>1
      <4>2. PICK y \in Live(e, Idle) : v = FirstOf(e, y)
        BY <2>3, <3>1
      <4>3. CASE y # x
        BY <2>1, <2>4, <4>1, <4>2, <4>3
      <4>4. CASE y = x
        BY <2>1, <2>2, <4>1, <4>2, <4>4
      <4>. QED
        BY <4>3, <4>4
    <3>2. ASSUME NEW v \in Firsts(d, p) PROVE v \in Firsts(e, Idle)
      <4>1. v # 0
        BY <2>4, <3>2
      <4>2. PICK y \in Live(d, p) : v = FirstOf(d, y)
        BY <2>4, <3>2
      <4>3. y # x
        BY <2>1, <4>1, <4>2
      <4>. QED
        BY <2>1, <2>3, <4>1, <4>2, <4>3
    <3>3. ASSUME NEW v \in Drawn(p) PROVE v \in Firsts(e, Idle)
      <4>1. w.kind = "file" /\ v = w.first /\ v # 0
        BY <2>2, <3>3
      <4>. QED
        BY <2>1, <2>3, <4>1
    <3>. QED
      BY <3>1, <3>2, <3>3
  <2>6. Drawn(Idle) = {} /\ Loose(Idle) = {}
    <3>1. Idle.at # "alloc" /\ Idle.at # "link" /\ Idle.at # "free" /\ Idle.chain = << >>
      BY SMT, IdleFields
    <3>. QED
      BY <3>1 DEF Drawn, Loose
  <2>7. Heads(e, Idle) = Heads(d, p)
    BY <2>2, <2>5, <2>6 DEF Heads
  <2>8. Chains(f, Heads(d, p)) /\ Apart(d, p) /\ SizesInv(f, d, p)
    BY DEF FatInv
  <2>9. /\ Root \notin Firsts(d, p) /\ Root \notin Drawn(p) /\ Firsts(d, p) \cap Drawn(p) = {}
        /\ \A a, b \in Live(d, p) : FirstOf(d, a) = FirstOf(d, b) /\ FirstOf(d, a) # 0 => a = b
    BY <2>8 DEF Apart
  <2>10. ASSUME NEW a \in Live(e, Idle), a # x, FirstOf(e, a) = FirstOf(e, x), FirstOf(e, a) # 0, x \in Live(e, Idle)
         PROVE  FALSE
    <3>1. FirstOf(e, a) \in Firsts(d, p)
      BY <2>1, <2>4, <2>10
    <3>2. FirstOf(e, a) \in Drawn(p)
      BY <2>1, <2>2, <2>10
    <3>. QED
      BY <2>9, <3>1, <3>2
  <2>11. ASSUME NEW a \in Live(e, Idle), NEW b \in Live(e, Idle), FirstOf(e, a) = FirstOf(e, b), FirstOf(e, a) # 0
         PROVE  a = b
    <3>1. CASE a # x /\ b # x
      BY <2>1, <2>9, <2>11, <3>1
    <3>2. CASE a = x \/ b = x
      BY <2>10, <2>11, <3>2
    <3>. QED
      BY <3>1, <3>2
  <2>12. Apart(e, Idle)
    <3>1. Root \notin Firsts(e, Idle)
      BY <2>5, <2>9
    <3>. QED
      BY <2>6, <2>11, <3>1 DEF Apart
  <2>13. SizesInv(f, e, Idle)
    <3>1. SUFFICES ASSUME NEW y \in Live(e, Idle)
                   PROVE  IF FirstOf(e, y) = 0 THEN SizeOf(e, y) = 0 ELSE Len(ChainIn(f, FirstOf(e, y))) = SizeOf(e, y)
      BY DEF SizesInv
    <3>2. CASE y = x
      BY <2>1, <3>1, <3>2 DEF Sized
    <3>3. CASE y # x
      <4>1. y \in Live(d, p) /\ FirstOf(e, y) = FirstOf(d, y) /\ SizeOf(e, y) = SizeOf(d, y)
        BY <2>1, <3>1, <3>3
      <4>2. IF FirstOf(d, y) = 0 THEN SizeOf(d, y) = 0 ELSE Len(ChainIn(f, FirstOf(d, y))) = SizeOf(d, y)
        BY <2>8, <4>1 DEF SizesInv
      <4>. QED
        BY <4>1, <4>2
    <3>. QED
      BY <3>2, <3>3
  <2>14. FatInv(f, e, Idle)
    BY <2>7, <2>8, <2>12, <2>13 DEF FatInv
  <2>. QED
    BY <2>7, <2>14 DEF Kempt
\* A slot before which nothing ends, in a cluster of the root, may be written.
<1>SettlesDir. ASSUME NEW d, NEW e, NEW c \in Cluster, NEW o \in 1 .. Slots, NEW w, Rewrites(d, e, <<c, o>>, w), NEW R,
             DirInv(d, R), c \in R, \A i \in 1 .. o - 1 : d[c][i].kind # "end", w.kind # "end"
      PROVE  DirInv(e, R)
  <2>. USE <1>SettlesDir
  <2>1. SUFFICES ASSUME NEW a \in Cluster, NEW i \in 1 .. Slots
                 PROVE  /\ a \notin R => e[a][i].kind = "end"
                        /\ e[a][i].kind = "end" => \A q \in i .. Slots : e[a][q].kind = "end"
    BY DEF DirInv
  <2>2. /\ a \notin R => d[a][i].kind = "end"
        /\ d[a][i].kind = "end" => \A q \in i .. Slots : d[a][q].kind = "end"
    BY <2>1 DEF DirInv
  <2>3. \A q \in 1 .. Slots : e[a][q] = IF a = c /\ q = o THEN w ELSE d[a][q]
    <3>1. \A q \in 1 .. Slots : e[a][q] = IF <<a, q>> = <<c, o>> THEN w ELSE d[a][q]
      BY <2>1 DEF Rewrites
    <3>2. \A q \in 1 .. Slots : <<a, q>> = <<c, o>> <=> a = c /\ q = o
      BY SMT
    <3>. QED
      BY <3>1, <3>2
  <2>4. (\A q \in i .. Slots : q \in 1 .. Slots) /\ (o \in i .. Slots => i = o \/ i \in 1 .. o - 1)
    BY SMT, <2>1, Numbers
  <2>5. a \notin R => e[a][i].kind = "end"
    BY <2>1, <2>2, <2>3
  <2>6. ASSUME e[a][i].kind = "end", NEW q \in i .. Slots PROVE e[a][q].kind = "end"
    <3>1. ~(a = c /\ i = o) /\ d[a][i].kind = "end"
      BY <2>1, <2>3, <2>6
    <3>2. d[a][q].kind = "end" /\ q \in 1 .. Slots
      BY <2>2, <2>4, <2>6, <3>1
    <3>3. ~(a = c /\ q = o)
      BY <2>4, <2>6, <3>1
    <3>. QED
      BY <2>3, <3>2, <3>3
  <2>. QED
    BY <2>5, <2>6
\* The entry of another name stays the first one, with its data.
<1>SettlesOther. ASSUME NEW f, NEW r, IsRoot(f, r), NEW d, NEW e, NEW x, NEW w, Rewrites(d, e, x, w), NEW b, NEW v, NEW n,
             ~Called(d, x, n), ~(w.kind = "file" /\ w.name = n),
             NEW i \in 1 .. Len(r), NEW o \in 1 .. Slots, FirstEntry(d, r, n, i, o), Holds(f, b, d, <<r[i], o>>, v)
      PROVE  FirstEntry(e, r, n, i, o) /\ Holds(f, b, e, <<r[i], o>>, v)
  <2>. USE <1>SettlesOther
  <2>1. Len(r) \in Nat /\ Slots \in Nat /\ \A j \in 1 .. Len(r) : r[j] \in Cluster
    BY Numbers DEF IsRoot
  <2>2. (\A j \in 1 .. i - 1 : j \in 1 .. Len(r)) /\ (\A q \in 1 .. o - 1 : q \in 1 .. Slots)
    BY SMT, <2>1
  <2>3. \A j \in 1 .. Len(r) : \A q \in 1 .. Slots : RewrittenAt(d, e, x, w, <<r[j], q>>)
    BY <2>1, <1>RewrittenEntries
  <2>4. ASSUME NEW j \in 1 .. Len(r), NEW q \in 1 .. Slots PROVE Called(e, <<r[j], q>>, n) <=> Called(d, <<r[j], q>>, n)
    <3>1. RewrittenAt(d, e, x, w, <<r[j], q>>)
      BY <2>3, <2>4
    <3>2. CASE <<r[j], q>> = x
      BY <3>1, <3>2 DEF RewrittenAt
    <3>3. CASE <<r[j], q>> # x
      BY <3>1, <3>3 DEF RewrittenAt
    <3>. QED
      BY <3>2, <3>3
  <2>5. FirstEntry(e, r, n, i, o)
    BY <2>2, <2>4 DEF FirstEntry
  <2>6. <<r[i], o>> # x
    BY DEF FirstEntry
  <2>7. FirstOf(e, <<r[i], o>>) = FirstOf(d, <<r[i], o>>) /\ SizeOf(e, <<r[i], o>>) = SizeOf(d, <<r[i], o>>)
    BY <2>3, <2>6 DEF RewrittenAt
  <2>8. Holds(f, b, e, <<r[i], o>>, v)
    BY <2>7 DEF Holds
  <2>. QED
    BY <2>5, <2>8
\* The entry that is written is the first one of its name.
<1>SettlesOwn. ASSUME NEW f, NEW r, IsRoot(f, r), NEW d, NEW e, NEW p, NEW w, NEW k \in 1 .. Len(r), Reached(d, r, p, k),
             p.off \in 1 .. Slots, Rewrites(d, e, <<p.cur, p.off>>, w), w.kind = "file", w.name = p.name,
             \A o \in 1 .. Slots : Called(d, <<p.cur, o>>, p.name) => p.off <= o
      PROVE  FirstEntry(e, r, p.name, k, p.off)
  <2>. USE <1>SettlesOwn
  <2>1. Len(r) \in Nat /\ Slots \in Nat /\ \A j \in 1 .. Len(r) : r[j] \in Cluster
    BY Numbers DEF IsRoot
  <2>2. r[k] = p.cur
    BY DEF Reached
  <2>3. /\ \A j \in 1 .. k - 1 : j \in 1 .. Len(r) /\ j # k
        /\ \A q \in 1 .. p.off - 1 : q \in 1 .. Slots /\ q # p.off /\ ~(p.off <= q)
    BY SMT, <2>1
  <2>4. \A j \in 1 .. k - 1 : r[j] # p.cur
    <3>1. \A i, j \in 1 .. Len(r) : r[i] = r[j] => i = j
      BY DEF IsRoot, Path
    <3>. QED
      BY <2>2, <2>3, <3>1
  <2> DEFINE x == <<p.cur, p.off>>
  <2>5. /\ \A j \in 1 .. k - 1 : \A q \in 1 .. Slots : <<r[j], q>> # x
        /\ \A q \in 1 .. p.off - 1 : <<r[k], q>> # x
    BY SMT, <2>3, <2>4
  <2>6. \A j \in 1 .. Len(r) : \A q \in 1 .. Slots : RewrittenAt(d, e, x, w, <<r[j], q>>)
    BY <2>1, <1>RewrittenEntries
  <2>7. \A j \in 1 .. k - 1 : \A q \in 1 .. Slots : ~Called(e, <<r[j], q>>, p.name)
    BY <2>3, <2>5, <2>6 DEF RewrittenAt, Reached
  <2>8. \A q \in 1 .. p.off - 1 : ~Called(e, <<r[k], q>>, p.name)
    BY <2>2, <2>3, <2>5, <2>6 DEF RewrittenAt
  <2>9. Called(e, <<r[k], p.off>>, p.name)
    BY ZenonT(30), <2>2, <2>6 DEF RewrittenAt
  <2>. QED
    BY <2>7, <2>8, <2>9 DEF FirstEntry
<1>WriteIs. ASSUME Typed, write_slot
      PROVE  /\ op.at = "write" /\ op' = Idle /\ UNCHANGED <<fat, body, creates, failed>>
             /\ op.off \in 1 .. Slots /\ op.cur \in Cluster
             /\ Rewrites(dir, dir', <<op.cur, op.off>>, Written)
             /\ \A n \in Names : n # op.name => want'[n] = want[n]
             /\ want'[op.name] = IF op.unlinks THEN <<0, 0>> ELSE <<creates, op.size>>
  <2>. USE <1>WriteIs
  <2>1. op.at = "write" /\ op' = Idle /\ UNCHANGED <<fat, body, creates, failed>>
    BY DEF write_slot
  <2>2. op.off # 0
    <3>1. op.at \in {"free", "write"}
      BY SMT, <2>1
    <3>2. TypedCall(op)
      BY TypedParts
    <3>. QED
      BY <3>1, <3>2 DEF TypedCall
  <2>3. op.off \in 1 .. Slots /\ op.cur \in Cluster
    BY SMT, <2>2, TypedParts, Numbers
  <2>4. dir' = [dir EXCEPT ![op.cur][op.off] = Written] /\ dir \in DirType
    BY TypedParts DEF write_slot, Written
  <2>5. <<op.cur, op.off>> \in Places
    BY <2>3 DEF Places
  <2>6. ASSUME NEW c \in Cluster, NEW o \in 1 .. Slots
        PROVE  dir'[c][o] = IF <<c, o>> = <<op.cur, op.off>> THEN Written ELSE dir[c][o]
    <3>1. <<c, o>> = <<op.cur, op.off>> <=> c = op.cur /\ o = op.off
      BY SMT
    <3>2. dir'[c] = IF c = op.cur THEN [dir[c] EXCEPT ![op.off] = Written] ELSE dir[c]
      BY <2>4 DEF DirType
    <3>3. dir[c] \in [1 .. Slots -> SlotType]
      BY <2>4 DEF DirType
    <3>. QED
      BY <3>1, <3>2, <3>3
  <2>7. Rewrites(dir, dir', <<op.cur, op.off>>, Written)
    BY <2>5, <2>6 DEF Rewrites
  <2>8. /\ \A n \in Names : n # op.name => want'[n] = want[n]
        /\ want'[op.name] = IF op.unlinks THEN <<0, 0>> ELSE <<creates, op.size>>
    <3>1. want' = [want EXCEPT ![op.name] = IF op.unlinks THEN <<0, 0>> ELSE <<creates, op.size>>]
      BY DEF write_slot
    <3>2. want \in WantType /\ op.name \in Names
      BY TypedParts DEF TypedRest
    <3>. QED
      BY <3>1, <3>2 DEF WantType
  <2>. QED
    BY <2>1, <2>3, <2>7, <2>8
<1> SUFFICES ASSUME Typed, InvNow, write_slot
             PROVE  InvNext
  OBVIOUS
<1> DEFINE r == ChainIn(fat, Root)
           x == <<op.cur, op.off>>
           s == op.chain
           w == Written
<1>1. /\ op.at = "write" /\ op' = Idle /\ UNCHANGED <<fat, body, creates, failed>>
      /\ op.off \in 1 .. Slots /\ op.cur \in Cluster
      /\ Rewrites(dir, dir', x, w)
      /\ \A n \in Names : n # op.name => want'[n] = want[n]
      /\ want'[op.name] = IF op.unlinks THEN <<0, 0>> ELSE <<creates, op.size>>
  BY <1>WriteIs
<1>2. /\ op.at # "alloc" /\ op.at # "link" /\ op.at # "free" /\ op.at \in {"free", "write"}
  BY SMT, <1>1
<1>3. /\ IsRoot(fat, r) /\ ScanInv(dir, r, op) /\ NewInv(fat, body, op, creates) /\ FatInv(fat, dir, op)
      /\ DirInv(dir, In(fat, Root)) /\ WantInv(fat, dir, body, op, want) /\ s \in Seq(Cluster)
      /\ fat \in FatType
  BY NowFacts, TypedParts
<1>4. /\ w.kind # "end" /\ (op.unlinks => w.kind # "file")
      /\ ~op.unlinks => /\ w.kind = "file" /\ w.name = op.name /\ w.first = First(s) /\ w.size = op.size
  BY SMT, WrittenSlot
<1>5. /\ \A o \in 1 .. Slots : Called(dir, <<op.cur, o>>, op.name) => op.off <= o
      /\ \A o \in 1 .. op.off - 1 : dir[op.cur][o].kind # "end"
      /\ IsFile(dir, x) => Called(dir, x, op.name)
      /\ IsFile(dir, x) /\ ~op.freed => FirstOf(dir, x) = 0
  BY <1>2, <1>3 DEF ScanInv
<1>6. PICK k \in 1 .. Len(r) : Reached(dir, r, op, k)
  BY <1>3 DEF ScanInv
<1>7. /\ Len(s) = op.size /\ (op.unlinks => s = << >>) /\ (s # << >> => ChainIn(fat, s[1]) = s)
      /\ \A i \in 1 .. op.size : body[s[i]] = <<creates, i>>
  BY <1>2, <1>3 DEF NewInv
<1>8. (s = << >> <=> Len(s) = 0) /\ (s # << >> => s[1] # 0)
  BY SMT, <1>3, Numbers
<1>9. (s = << >> => First(s) = 0) /\ (s # << >> => First(s) = s[1] /\ First(s) # 0)
  BY <1>8 DEF First
<1>10. Settles(dir, op, x, w)
  <2>1. Loose(op) = {}
    BY <1>2 DEF Loose
  <2>2. Drawn(op) = IF s = << >> THEN {} ELSE {s[1]}
    BY <1>2 DEF Drawn
  <2>3. w.kind = "file" => Drawn(op) = {w.first} \ {0}
    <3>1. CASE s = << >>
      BY <1>4, <1>9, <2>2, <3>1
    <3>2. CASE s # << >>
      BY <1>4, <1>9, <2>2, <3>2
    <3>. QED
      BY <3>1, <3>2
  <2>4. w.kind # "file" => Drawn(op) = {}
    BY <1>4, <1>7, <2>2
  <2>. QED
    BY <1>5, <2>1, <2>3, <2>4 DEF Settles
<1>11. Sized(fat, w)
  BY <1>4, <1>7, <1>8, <1>9 DEF Sized
<1>. HIDE DEF x, w, r, s
<1>12. FatInv(fat, dir', Idle) /\ Heads(dir', Idle) = Heads(dir, op)
  <2>1. Rewrites(dir, dir', x, w) /\ FatInv(fat, dir, op)
    BY <1>1, <1>3
  <2>2. Kempt(fat, dir, dir', x, w, op)
    BY <1>10, <1>11, <2>1, <1>SettlesFat
  <2>. QED
    BY <2>2 DEF Kempt
<1>13. DirInv(dir', In(fat, Root))
  <2>1. op.cur \in In(fat, Root)
    BY <1>3, <1>6 DEF Reached, IsRoot, r
  <2>2. /\ Rewrites(dir, dir', <<op.cur, op.off>>, w) /\ op.cur \in Cluster /\ op.off \in 1 .. Slots
        /\ DirInv(dir, In(fat, Root)) /\ w.kind # "end"
        /\ \A o \in 1 .. op.off - 1 : dir[op.cur][o].kind # "end"
    BY <1>1, <1>3, <1>4, <1>5 DEF x
  <2>. QED
    BY <2>1, <2>2, <1>SettlesDir
<1>14. WantInv(fat, dir', body, Idle, want')
  <2>1. SUFFICES ASSUME NEW n \in Names, want'[n][2] > 0
                 PROVE  \E i \in 1 .. Len(r), o \in 1 .. Slots :
                          FirstEntry(dir', r, n, i, o) /\ Holds(fat, body, dir', <<r[i], o>>, want'[n])
    BY DEF WantInv, r
  <2>2. CASE n = op.name
    <3>1. ~op.unlinks /\ want'[n] = <<creates, op.size>> /\ op.size > 0
      BY SMT, <1>1, <2>1, <2>2
    <3>2. FirstEntry(dir', r, n, k, op.off)
      BY <1>1, <1>3, <1>4, <1>5, <1>6, <2>2, <3>1, <1>SettlesOwn DEF x
    <3>3. r[k] = op.cur
      BY <1>6 DEF Reached
    <3>4. FirstOf(dir', x) = First(s) /\ SizeOf(dir', x) = op.size
      <4>1. Rewrites(dir, dir', x, w)
        BY <1>1
      <4>2. Settled(dir, dir', x, w, op)
        BY <1>10, <4>1, <1>SettlesLive
      <4>3. FirstOf(dir', x) = w.first /\ SizeOf(dir', x) = w.size
        BY <4>2 DEF Settled
      <4>. QED
        BY <1>4, <3>1, <4>3
    <3>5. s # << >>
      BY SMT, <1>7, <1>8, <3>1
    <3>6. Holds(fat, body, dir', x, <<creates, op.size>>)
      <4>1. FirstOf(dir', x) # 0 /\ ChainIn(fat, FirstOf(dir', x)) = s
        BY <1>7, <1>9, <3>4, <3>5
      <4>2. <<creates, op.size>>[1] = creates /\ <<creates, op.size>>[2] = op.size
        BY SMT
      <4>. QED
        BY <1>7, <3>4, <4>1, <4>2 DEF Holds
    <3>. QED
      BY <1>1, <3>1, <3>2, <3>3, <3>6 DEF x
  <2>3. CASE n # op.name
    <3>1. want'[n] = want[n]
      BY <1>1, <2>1, <2>3
    <3>2. PICK i \in 1 .. Len(r), o \in 1 .. Slots :
            FirstEntry(dir, r, n, i, o) /\ Holds(fat, body, dir, <<r[i], o>>, want[n])
      BY <1>3, <2>1, <2>3, <3>1 DEF WantInv, r
    <3>3. ~Called(dir, x, n) /\ ~(w.kind = "file" /\ w.name = n)
      BY <1>4, <1>5, <2>3 DEF Called
    <3>4. FirstEntry(dir', r, n, i, o) /\ Holds(fat, body, dir', <<r[i], o>>, want[n])
      BY <1>1, <1>3, <3>2, <3>3, <1>SettlesOther
    <3>. QED
      BY <3>1, <3>4
  <2>. QED
    BY <2>2, <2>3
<1>15. ScanInv(dir', r, Idle)
  <2>1. Idle.cur = Root /\ Idle.freed = FALSE /\ Idle.at \in {"idle", "alloc", "scan"}
    BY SMT, IdleFields
  <2>. QED
    BY <1>3, <2>1, ScanStart
<1>16. NewInv(fat, body, Idle, creates)
  <2>1. /\ Idle.at # "alloc" /\ Idle.at # "link" /\ Idle.size = 0 /\ Idle.chain = << >>
        /\ Len(Idle.chain) = Idle.size /\ \A i \in 1 .. Idle.size : FALSE
    BY SMT, IdleFields
  <2>. QED
    BY <2>1 DEF NewInv
<1>17. InvOf(fat, dir', body, Idle, creates, want')
  BY <1>12, <1>13, <1>14, <1>15, <1>16 DEF InvOf, r
<1>18. InvOf(fat', dir', body', op', creates', want') /\ Heads(dir', op') = Heads(dir, op) /\ fat' = fat
  BY <1>1, <1>12, <1>17
<1>. QED
  BY <1>18 DEF InvNext

-----------------------------------------------------------------------------
(* The FAT changes and the directory stays *)

\* The first cluster of a live entry is a head.
LEMMA FirstIn ==
  ASSUME NEW d, NEW q, NEW e \in Live(d, q), FirstOf(d, e) # 0
  PROVE  FirstOf(d, e) \in Firsts(d, q)
BY DEF Firsts

\* The sequence s starts with r.
Starts(r, s) == \A i \in 1 .. Len(r) : i \in 1 .. Len(s) /\ s[i] = r[i]

\* What the call p gives up, q gives up too: nothing but an entry of its name.
Yields(d, p, q) ==
  /\ p.freed => q.freed /\ q.name = p.name
  /\ q.freed => Called(d, <<q.cur, q.off>>, q.name)
  /\ Live(d, q) \subseteq Live(d, p)

\* The chains from H have the same clusters with the same data.
Untouched(f, g, b, c, H) ==
  /\ Same(f, g, H)
  /\ \A h \in H : \A i \in 1 .. Len(ChainIn(f, h)) : c[ChainIn(f, h)[i]] = b[ChainIn(f, h)[i]]

\* The FAT f becomes g and the data b becomes c, and the chains stay what they are.
Reforms(f, g, d, b, c, p, q) ==
  /\ Chains(g, Heads(d, q)) /\ Apart(d, q) /\ Yields(d, p, q)
  /\ Untouched(f, g, b, c, Firsts(d, q))
  /\ Starts(ChainIn(f, Root), ChainIn(g, Root))

\* One step of the FAT.
Steps(d, p, q) == Reforms(fat, fat', d, body, body', p, q)

\* A step that leaves the directory alone preserves the invariant, if it does right by the FAT.
LEMMA FatStep ==
  /\ Typed /\ InvNow /\ UNCHANGED <<dir, want>> /\ Steps(dir, op, op')
  /\ NewInv(fat', body', op', creates') /\ ScanInv(dir, ChainIn(fat', Root), op')
  => InvOf(fat', dir', body', op', creates', want')
<1>CarrySizes. ASSUME NEW f, NEW g, NEW d, NEW p, NEW q, SizesInv(f, d, p), Live(d, q) \subseteq Live(d, p),
             Same(f, g, Firsts(d, q))
      PROVE  SizesInv(g, d, q)
  <2>. USE <1>CarrySizes
  <2>1. SUFFICES ASSUME NEW e \in Live(d, q)
                 PROVE  IF FirstOf(d, e) = 0 THEN SizeOf(d, e) = 0
                        ELSE Len(ChainIn(g, FirstOf(d, e))) = SizeOf(d, e)
    BY DEF SizesInv
  <2>2. IF FirstOf(d, e) = 0 THEN SizeOf(d, e) = 0
        ELSE Len(ChainIn(f, FirstOf(d, e))) = SizeOf(d, e)
    BY <2>1 DEF SizesInv
  <2>3. FirstOf(d, e) # 0 => ChainIn(g, FirstOf(d, e)) = ChainIn(f, FirstOf(d, e))
    BY <2>1, FirstIn DEF Same
  <2>. QED
    BY <2>2, <2>3
<1>CarryHolds. ASSUME NEW f, NEW g, NEW d, NEW b, NEW c, NEW p, NEW q, NEW e \in Live(d, q), NEW w,
             SizesInv(f, d, p), Yields(d, p, q), Untouched(f, g, b, c, Firsts(d, q)), Holds(f, b, d, e, w)
      PROVE  Holds(g, c, d, e, w)
  <2>. USE <1>CarryHolds
  <2>1. FirstOf(d, e) # 0 /\ SizeOf(d, e) = w[2]
    BY DEF Holds
  <2>2. FirstOf(d, e) \in Firsts(d, q) /\ e \in Live(d, p)
    BY <2>1, FirstIn DEF Yields
  <2> DEFINE s == ChainIn(f, FirstOf(d, e))
  <2>3. Len(s) = w[2]
    BY <2>1, <2>2 DEF SizesInv
  <2>4. \A i \in 1 .. w[2] : b[s[i]] = <<w[1], i>>
    BY DEF Holds
  <2>5. ChainIn(g, FirstOf(d, e)) = s /\ \A i \in 1 .. Len(s) : c[s[i]] = b[s[i]]
    BY <2>2 DEF Untouched, Same
  <2>6. \A i \in 1 .. w[2] : c[ChainIn(g, FirstOf(d, e))[i]] = <<w[1], i>>
    <3>. HIDE DEF s
    <3>. QED
      BY <2>3, <2>4, <2>5
  <2>. QED
    BY <2>1, <2>6 DEF Holds
<1>CarryEntry. ASSUME NEW d, NEW r, NEW s, Starts(r, s), NEW n, NEW i \in 1 .. Len(r), NEW o, FirstEntry(d, r, n, i, o),
             Len(r) \in Nat
      PROVE  i \in 1 .. Len(s) /\ s[i] = r[i] /\ FirstEntry(d, s, n, i, o)
  <2>. USE <1>CarryEntry
  <2>1. i \in 1 .. Len(s) /\ s[i] = r[i]
    BY DEF Starts
  <2>2. \A j \in 1 .. i - 1 : j \in 1 .. Len(r)
    BY SMT
  <2>3. \A j \in 1 .. i - 1 : s[j] = r[j]
    BY <2>2 DEF Starts
  <2>. QED
    BY <2>1, <2>3 DEF FirstEntry
<1>CarryWant. ASSUME NEW f, NEW g, NEW d, NEW b, NEW c, NEW p, NEW q, NEW wt,
             IsRoot(f, ChainIn(f, Root)), WantInv(f, d, b, p, wt), SizesInv(f, d, p), Yields(d, p, q),
             Untouched(f, g, b, c, Firsts(d, q)), Starts(ChainIn(f, Root), ChainIn(g, Root))
      PROVE  WantInv(g, d, c, q, wt)
  <2>. USE <1>CarryWant
  <2>1. SUFFICES ASSUME NEW n \in Names, wt[n][2] > 0, ~(q.freed /\ q.name = n)
                 PROVE  \E i \in 1 .. Len(ChainIn(g, Root)), o \in 1 .. Slots :
                          /\ FirstEntry(d, ChainIn(g, Root), n, i, o)
                          /\ Holds(g, c, d, <<ChainIn(g, Root)[i], o>>, wt[n])
    BY DEF WantInv
  <2> DEFINE r == ChainIn(f, Root)
             s == ChainIn(g, Root)
  <2>2. ~(p.freed /\ p.name = n)
    BY <2>1 DEF Yields
  <2>3. PICK i \in 1 .. Len(r), o \in 1 .. Slots : FirstEntry(d, r, n, i, o) /\ Holds(f, b, d, <<r[i], o>>, wt[n])
    BY <2>1, <2>2 DEF WantInv
  <2>4. Len(r) \in Nat /\ r[i] \in Cluster
    BY DEF IsRoot
  <2>5. i \in 1 .. Len(s) /\ s[i] = r[i] /\ FirstEntry(d, s, n, i, o)
    BY <2>3, <2>4, <1>CarryEntry
  <2>. HIDE DEF r, s
  <2>6. Called(d, <<r[i], o>>, n)
    BY <2>3 DEF FirstEntry
  <2>7. ~(q.freed /\ <<r[i], o>> = <<q.cur, q.off>>)
    <3>1. SUFFICES ASSUME q.freed, <<r[i], o>> = <<q.cur, q.off>> PROVE q.name = n
      BY <2>1
    <3>2. Called(d, <<r[i], o>>, q.name)
      BY <3>1 DEF Yields
    <3>. QED
      BY <2>6, <3>2 DEF Called
  <2>8. <<r[i], o>> \in Live(d, q)
    BY <2>4, <2>6, <2>7 DEF Live, Places, Called
  <2>9. Holds(g, c, d, <<r[i], o>>, wt[n])
    BY <2>3, <2>8, <1>CarryHolds
  <2>10. Holds(g, c, d, <<s[i], o>>, wt[n])
    BY <2>5, <2>9
  <2>. QED
    BY <2>5, <2>10 DEF s
<1>CarryDir. ASSUME NEW d, NEW R, NEW S, DirInv(d, R), R \subseteq S
      PROVE  DirInv(d, S)
  BY <1>CarryDir DEF DirInv
<1>ReformsTo. ASSUME NEW f, NEW g, NEW d, NEW b, NEW c, NEW p, NEW q, NEW m, NEW wt,
             IsRoot(f, ChainIn(f, Root)), WantInv(f, d, b, p, wt), SizesInv(f, d, p),
             DirInv(d, In(f, Root)), Reforms(f, g, d, b, c, p, q),
             NewInv(g, c, q, m), ScanInv(d, ChainIn(g, Root), q)
      PROVE  InvOf(g, d, c, q, m, wt)
  <2>. USE <1>ReformsTo
  <2>1. /\ Chains(g, Heads(d, q)) /\ Apart(d, q) /\ Yields(d, p, q)
        /\ Untouched(f, g, b, c, Firsts(d, q))
        /\ Starts(ChainIn(f, Root), ChainIn(g, Root))
    BY DEF Reforms
  <2>2. Live(d, q) \subseteq Live(d, p) /\ Same(f, g, Firsts(d, q))
    BY <2>1 DEF Yields, Untouched
  <2>3. SizesInv(g, d, q)
    BY <2>2, <1>CarrySizes
  <2>4. WantInv(g, d, c, q, wt)
    BY <2>1, <1>CarryWant
  <2>5. In(f, Root) \subseteq In(g, Root)
    <3>1. SUFFICES ASSUME NEW i \in 1 .. Len(ChainIn(f, Root)) PROVE ChainIn(f, Root)[i] \in In(g, Root)
      BY DEF In
    <3>2. i \in 1 .. Len(ChainIn(g, Root)) /\ ChainIn(g, Root)[i] = ChainIn(f, Root)[i]
      BY <2>1, <3>1 DEF Starts
    <3>. QED
      BY <3>2 DEF In
  <2>6. DirInv(d, In(g, Root))
    BY <2>5, <1>CarryDir
  <2>. QED
    BY <2>1, <2>3, <2>4, <2>6 DEF InvOf, FatInv
<1> SUFFICES ASSUME Typed, InvNow, UNCHANGED <<dir, want>>, Steps(dir, op, op'),
                    NewInv(fat', body', op', creates'), ScanInv(dir, ChainIn(fat', Root), op')
             PROVE  InvOf(fat', dir', body', op', creates', want')
  OBVIOUS
<1>1. /\ IsRoot(fat, ChainIn(fat, Root)) /\ DirInv(dir, In(fat, Root))
      /\ WantInv(fat, dir, body, op, want) /\ SizesInv(fat, dir, op)
  BY NowFacts DEF FatInv
<1>2. InvOf(fat', dir, body', op', creates', want)
  BY <1>1, <1>ReformsTo DEF Steps
<1>. QED
  BY <1>2

\* Two calls give up the same entry, or none.
GivesUp(p, q) == (p.freed <=> q.freed) /\ (p.freed => p.cur = q.cur /\ p.off = q.off)

\* Calls that give up the same entry have the same live entries.
LEMMA LiveSame ==
  ASSUME NEW d, NEW p, NEW q, GivesUp(p, q)
  PROVE  Live(d, q) = Live(d, p) /\ Firsts(d, q) = Firsts(d, p)
<1>1. ASSUME NEW e \in Places PROVE (p.freed /\ e = <<p.cur, p.off>>) <=> (q.freed /\ e = <<q.cur, q.off>>)
  BY DEF GivesUp
<1>2. Live(d, q) = Live(d, p)
  BY <1>1 DEF Live
<1>. QED
  BY <1>2 DEF Firsts

\* A chain starts as itself.
LEMMA SameStarts ==
  ASSUME NEW r, NEW s, r = s
  PROVE  Starts(r, s)
BY DEF Starts

\* A call that has freed nothing gives nothing up.
LEMMA StillYields ==
  ASSUME NEW d, NEW p, NEW q, ~p.freed, ~q.freed
  PROVE  GivesUp(p, q) /\ Yields(d, p, q)
<1>1. GivesUp(p, q)
  BY DEF GivesUp
<1>. QED
  BY <1>1, LiveSame DEF Yields

\* What is a head.
LEMMA FirstsAreHeads == \A d, p : Firsts(d, p) \subseteq Heads(d, p) /\ Drawn(p) \subseteq Heads(d, p) /\ Loose(p) \subseteq Heads(d, p)
BY DEF Heads

\* A call has freed something only while it frees, or has the slot to write.
LEMMA NotFreed ==
  ASSUME Typed, InvNow, ~(op.at \in {"free", "write"})
  PROVE  ~op.freed
<1>1. ScanInv(dir, ChainIn(fat, Root), op)
  BY NowFacts
<1>. QED
  BY <1>1 DEF ScanInv

-----------------------------------------------------------------------------
(* The clusters are linked into a chain *)

\* What Moves does to the call.
LEMMA DoesMove ==
  ASSUME Typed, NEW x \in AtType, Moves(x)
  PROVE  Becomes(op, op', x, op.chain, op.cur, op.off, op.todo, op.freed)
<1>1. Becomes(op, [op EXCEPT !.at = x], x, op.chain, op.cur, op.off, op.todo, op.freed)
  BY TypedParts, SetAt
<1>. QED
  BY <1>1 DEF Moves

\* What write_chain does to the call.
LEMMA DoesWriteChain ==
  ASSUME Typed, write_chain
  PROVE  /\ Len(op.chain) = op.size
         /\ Becomes(op, op', "scan", op.chain, op.cur, op.off, op.todo, op.freed)
         /\ fat' \in FatType
<1> DEFINE s == op.chain
           w(c) == IF \E i \in 1 .. op.size - 1 : s[i] = c
                   THEN s[1 + CHOOSE i \in 1 .. op.size - 1 : s[i] = c] ELSE fat[c]
<1>1. "scan" \in AtType
  BY DEF AtType
<1>2. Becomes(op, op', "scan", op.chain, op.cur, op.off, op.todo, op.freed)
  BY <1>1, DoesMove DEF write_chain
<1>3. op.size \in Nat /\ Len(s) = op.size /\ s \in Seq(Cluster)
  BY SMT, TypedParts DEF write_chain
<1>4. fat' = [c \in Cluster |-> w(c)]
  BY DEF write_chain
<1>. HIDE DEF s
<1>5. \A i \in 1 .. op.size - 1 : s[1 + i] \in Cluster
  BY SMT, <1>3
<1>6. ASSUME NEW c \in Cluster PROVE w(c) \in {Free, EOC} \cup Cluster
  <2>1. CASE \E i \in 1 .. op.size - 1 : s[i] = c
    <3>1. (CHOOSE i \in 1 .. op.size - 1 : s[i] = c) \in 1 .. op.size - 1
      BY <2>1
    <3>. QED
      BY <1>5, <2>1, <3>1
  <2>2. CASE ~\E i \in 1 .. op.size - 1 : s[i] = c
    BY <2>2, TypedParts DEF FatType
  <2>. QED
    BY <2>1, <2>2
<1>. HIDE DEF w
<1>7. fat' \in FatType
  BY <1>4, <1>6 DEF FatType
<1>. QED
  BY <1>2, <1>3, <1>7 DEF s

\* s are clusters that each end a chain of f that starts in H.
Loosely(f, H, s) ==
  /\ s \in Seq(Cluster) /\ s # << >>
  /\ \A i, j \in 1 .. Len(s) : s[i] = s[j] => i = j
  /\ \A i \in 1 .. Len(s) : s[i] \in H /\ f[s[i]] = EOC

\* g differs from f in that the clusters of s are linked.
Linked(f, g, s) ==
  /\ \A i \in 1 .. Len(s) - 1 : g[s[i]] = s[i + 1]
  /\ \A c \in Cluster : (\A i \in 1 .. Len(s) - 1 : s[i] # c) => g[c] = f[c]

\* The chains from G stay, and the clusters of s form one.
Chained(f, g, G, s, D) ==
  /\ Chains(g, G \cup D) /\ Same(f, g, G) /\ (s # << >> => ChainIn(g, s[1]) = s)

\* The clusters of s, none of which is in G.
Avoids(s, G) == \A i \in 1 .. Len(s) : s[i] \notin G

\* The clusters of s have the data of the create n in c, and all others have that of b.
Stored(b, c, s, n) ==
  /\ \A x \in Cluster : (\A i \in 1 .. Len(s) : s[i] # x) => c[x] = b[x]
  /\ \A i \in 1 .. Len(s) : c[s[i]] = <<n, i>>

\* No cluster twice.
Once(s) == s \in Seq(Cluster) /\ \A i, j \in 1 .. Len(s) : s[i] = s[j] => i = j

\* The call p has drawn the clusters s for a file, and q goes on with a chain of
\* them.
Bound(d, p, q, s) ==
  /\ q.at = "scan" /\ ~q.freed /\ q.chain = s /\ Loose(p) = {} /\ Loose(q) = {}
  /\ Drawn(p) = {s[i] : i \in 1 .. Len(s)} /\ Drawn(q) = IF s = << >> THEN {} ELSE {s[1]}

\* write_chain preserves the invariant.
LEMMA StepWriteChain == Typed /\ InvNow /\ write_chain => InvNext
\* write_chain: the clusters of s, each a chain of its own, become one.
<1>Binding. ASSUME NEW f \in FatType, NEW H, Chains(f, H), NEW s, Loosely(f, H, s),
             NEW g \in FatType, Linked(f, g, s), NEW G \in SUBSET H, Avoids(s, G)
      PROVE  Chained(f, g, G, s, {s[1]})
  <2>. USE <1>Binding
  <2>0. s \in Seq(Cluster) /\ s # << >>
    BY DEF Loosely
  <2>1. Len(s) \in Nat /\ Len(s) >= 1 /\ s \in [1 .. Len(s) -> Cluster]
    BY SMT, <2>0
  <2>2. 1 \in 1 .. Len(s) /\ Len(s) \in 1 .. Len(s) /\ Len(s) > 0
    BY <2>1, Ends
  <2>3. \A i \in 1 .. Len(s) - 1 : i \in 1 .. Len(s) /\ i # Len(s)
    BY <2>1, Ends
  <2>4. g[s[Len(s)]] = EOC
    <3>1. \A i \in 1 .. Len(s) - 1 : s[i] # s[Len(s)]
      BY <2>2, <2>3 DEF Loosely
    <3>2. s[Len(s)] \in Cluster /\ f[s[Len(s)]] = EOC
      BY <2>1, <2>2 DEF Loosely
    <3>. QED
      BY <3>1, <3>2 DEF Linked
  <2>5. Path(g, s)
    BY <2>2, <2>4 DEF Path, Loosely, Linked
  <2>6. Ok(g, s[1]) /\ ChainIn(g, s[1]) = s
    BY <2>5, PathOk
  <2>7. \A h \in G : Sound(f, h) /\ \A i \in 1 .. Len(s) : s[i] \notin In(f, h)
    <3>0. \A i \in 1 .. Len(s) : s[i] \in H
      BY DEF Loosely
    <3>1. \A i \in 1 .. Len(s) : s[i] \in In(f, s[i])
      BY <3>0, Members DEF Chains, Sound
    <3>2. \A h \in G : h \in H /\ \A i \in 1 .. Len(s) : h # s[i]
      BY DEF Avoids
    <3>3. \A h \in G : \A i \in 1 .. Len(s) : In(f, s[i]) \cap In(f, h) = {}
      BY <3>0, <3>2 DEF Chains
    <3>4. \A h \in G : Sound(f, h)
      BY <3>2, Members DEF Chains
    <3>. QED
      BY <3>1, <3>3, <3>4
  <2>8. ASSUME NEW h \in G, NEW x \in In(f, h) PROVE g[x] = f[x]
    <3>1. x \in Cluster /\ \A i \in 1 .. Len(s) - 1 : s[i] # x
      BY <2>3, <2>7 DEF Sound
    <3>. QED
      BY <3>1 DEF Linked
  <2>9. Chains(g, G) /\ Same(f, g, G)
    BY <2>8, FrameAll
  <2>10. \A h \in G : In(g, s[1]) \cap In(g, h) = {}
    <3>1. \A h \in G : In(g, h) = In(f, h)
      BY <2>9, SameIn DEF Same
    <3>2. In(g, s[1]) = {s[i] : i \in 1 .. Len(s)}
      BY <2>6 DEF In
    <3>. QED
      BY <2>7, <3>1, <3>2
  <2>11. s[1] \in Cluster
    BY <2>1, <2>2
  <2>12. Chains(g, G \cup {s[1]})
    BY <2>6, <2>9, <2>10, <2>11, AddHead
  <2>. QED
    BY <2>6, <2>9, <2>12 DEF Chained
<1>Chosens. ASSUME NEW s, Once(s), NEW m, \A k \in 1 .. m : k \in 1 .. Len(s), NEW i \in 1 .. m
      PROVE  (CHOOSE k \in 1 .. m : s[k] = s[i]) = i
  <2>. USE <1>Chosens
  <2> DEFINE k == CHOOSE j \in 1 .. m : s[j] = s[i]
  <2>1. k \in 1 .. m /\ s[k] = s[i]
    OBVIOUS
  <2>. HIDE DEF k
  <2>2. k = i
    BY <2>1 DEF Once
  <2>. QED
    BY <2>2 DEF k
<1>WritesFat. ASSUME Typed, write_chain, Once(op.chain)
      PROVE  Linked(fat, fat', op.chain)
  <2>. USE <1>WritesFat
  <2> DEFINE s == op.chain
             m == op.size - 1
  <2>1. fat' = [c \in Cluster |-> IF \E i \in 1 .. m : s[i] = c
                                  THEN s[1 + CHOOSE i \in 1 .. m : s[i] = c] ELSE fat[c]]
    BY DEF write_chain
  <2>2. Len(s) = op.size
    BY DEF write_chain
  <2>3. s \in Seq(Cluster) /\ (\A i \in 1 .. Len(s) : s[i] \in Cluster) /\ m = Len(s) - 1
    <3>1. s \in Seq(Cluster)
      BY TypedParts
    <3>. QED
      BY SMT, <2>2, <3>1
  <2>4. \A k \in 1 .. m : k \in 1 .. Len(s) /\ 1 + k = k + 1
    BY SMT, <2>3
  <2>. HIDE DEF s, m
  <2>5. ASSUME NEW i \in 1 .. m PROVE fat'[s[i]] = s[i + 1]
    <3>1. (CHOOSE k \in 1 .. m : s[k] = s[i]) = i
      BY <2>4, <2>5, <1>Chosens DEF s
    <3>2. s[i] \in Cluster
      BY <2>3, <2>4, <2>5
    <3>3. fat'[s[i]] = s[1 + CHOOSE k \in 1 .. m : s[k] = s[i]]
      BY <2>1, <2>5, <3>2
    <3>. QED
      BY <2>4, <2>5, <3>1, <3>3
  <2>6. ASSUME NEW c \in Cluster, \A i \in 1 .. m : s[i] # c PROVE fat'[c] = fat[c]
    BY <2>1, <2>6
  <2>. QED
    BY <2>3, <2>5, <2>6 DEF Linked, s
<1>WritesBody. ASSUME Typed, write_chain, Once(op.chain)
      PROVE  Stored(body, body', op.chain, creates)
  <2>. USE <1>WritesBody
  <2> DEFINE s == op.chain
             m == op.size
  <2>1. body' = [c \in Cluster |-> IF c \in Range(s) THEN <<creates, CHOOSE i \in 1 .. m : s[i] = c>> ELSE body[c]]
    BY DEF write_chain
  <2>2. Len(s) = m
    BY DEF write_chain
  <2>3. (\A i \in 1 .. Len(s) : s[i] \in Cluster) /\ DOMAIN s = 1 .. Len(s)
    <3>1. s \in Seq(Cluster)
      BY TypedParts
    <3>. QED
      BY SMT, <3>1
  <2>. HIDE DEF s, m
  <2>4. \A c : c \in Range(s) <=> \E i \in 1 .. Len(s) : s[i] = c
    BY <2>3 DEF Range
  <2>5. ASSUME NEW i \in 1 .. Len(s) PROVE body'[s[i]] = <<creates, i>>
    <3>1. (CHOOSE k \in 1 .. m : s[k] = s[i]) = i
      <4>1. i \in 1 .. m /\ \A k \in 1 .. m : k \in 1 .. Len(s)
        BY <2>2, <2>5
      <4>. QED
        BY <4>1, <1>Chosens DEF s
    <3>2. s[i] \in Cluster /\ s[i] \in Range(s)
      BY <2>3, <2>4, <2>5
    <3>3. body'[s[i]] = <<creates, CHOOSE k \in 1 .. m : s[k] = s[i]>>
      BY <2>1, <3>2
    <3>. QED
      BY <3>1, <3>3
  <2>6. ASSUME NEW c \in Cluster, \A i \in 1 .. Len(s) : s[i] # c PROVE body'[c] = body[c]
    BY <2>1, <2>4, <2>6
  <2>. QED
    BY <2>5, <2>6 DEF Stored, s
<1>BoundHeads. ASSUME NEW d, NEW p, NEW q, NEW s, Apart(d, p), GivesUp(p, q), Bound(d, p, q, s), s # << >> => 1 \in 1 .. Len(s),
             NEW G, G = {Root} \cup Firsts(d, p)
      PROVE  /\ Heads(d, q) = G \cup Drawn(q) /\ Apart(d, q) /\ G \subseteq Heads(d, p)
             /\ \A i \in 1 .. Len(s) : s[i] \in Heads(d, p) /\ s[i] \notin G
  <2>. USE <1>BoundHeads
  <2>1. /\ Loose(p) = {} /\ Loose(q) = {} /\ Drawn(p) = {s[i] : i \in 1 .. Len(s)}
        /\ Drawn(q) = IF s = << >> THEN {} ELSE {s[1]}
    BY DEF Bound
  <2>2. Live(d, q) = Live(d, p) /\ Firsts(d, q) = Firsts(d, p)
    BY LiveSame
  <2>3. /\ Root \notin Firsts(d, p) /\ Root \notin Drawn(p) /\ Firsts(d, p) \cap Drawn(p) = {}
        /\ \A a, b \in Live(d, p) : FirstOf(d, a) = FirstOf(d, b) /\ FirstOf(d, a) # 0 => a = b
    BY DEF Apart
  <2>4. Drawn(q) \subseteq Drawn(p)
    BY <2>1
  <2>5. Heads(d, q) = G \cup Drawn(q) /\ G \subseteq Heads(d, p)
    BY <2>1, <2>2 DEF Heads
  <2>6. Apart(d, q)
    <3>1. Root \notin Drawn(q) /\ Firsts(d, p) \cap Drawn(q) = {}
      BY <2>3, <2>4
    <3>. QED
      BY <2>1, <2>2, <2>3, <3>1 DEF Apart
  <2>7. \A i \in 1 .. Len(s) : s[i] \in Drawn(p)
    BY <2>1
  <2>8. \A x \in Drawn(p) : x \in Heads(d, p) /\ x \notin G
    BY <2>3, FirstsAreHeads
  <2>. QED
    BY <2>5, <2>6, <2>7, <2>8
<1>Chaining. ASSUME NEW f \in FatType, NEW g \in FatType, NEW H, Chains(f, H), NEW s, Once(s), Linked(f, g, s),
             \A i \in 1 .. Len(s) : f[s[i]] = EOC, NEW G \in SUBSET H,
             \A i \in 1 .. Len(s) : s[i] \in H /\ s[i] \notin G,
             NEW D, D = IF s = << >> THEN {} ELSE {s[1]}
      PROVE  Chained(f, g, G, s, D)
  <2>. USE <1>Chaining
  <2>1. CASE s = << >>
    <3>1. \A i \in 1 .. Len(s) - 1 : FALSE
      BY SMT, <2>1
    <3>2. \A h \in G : \A c \in In(f, h) : g[c] = f[c]
      <4>1. \A c \in Cluster : g[c] = f[c]
        BY <3>1 DEF Linked
      <4>2. \A h \in G : In(f, h) \subseteq Cluster
        BY Members DEF Chains, Sound
      <4>. QED
        BY <4>1, <4>2
    <3>3. Chains(g, G) /\ Same(f, g, G)
      BY <3>2, FrameAll
    <3>4. G \cup D = G
      BY <2>1
    <3>. QED
      BY <2>1, <3>3, <3>4 DEF Chained
  <2>2. CASE s # << >>
    <3>1. Loosely(f, H, s)
      BY <2>2 DEF Loosely, Once
    <3>2. Avoids(s, G)
      BY DEF Avoids
    <3>3. Chained(f, g, G, s, {s[1]})
      BY <3>1, <3>2, <1>Binding
    <3>4. D = {s[1]}
      BY <2>2
    <3>. QED
      BY <3>3, <3>4
  <2>. QED
    BY <2>1, <2>2
<1>ChainedSpace. ASSUME NEW f \in FatType, NEW g, NEW H, Chains(f, H), NEW s, Once(s), Linked(f, g, s),
             \A i \in 1 .. Len(s) : f[s[i]] = EOC, NEW G,
             \A h \in H : h \in G \/ \E i \in 1 .. Len(s) : h = s[i],
             NEW D, D = IF s = << >> THEN {} ELSE {s[1]}, Chained(f, g, G, s, D), SpaceInv(f, H)
      PROVE  SpaceInv(g, G \cup D)
  <2>. USE <1>ChainedSpace
  <2>0. Len(s) \in Nat /\ (s # << >> => Len(s) > 0) /\ \A i \in 1 .. Len(s) : s[i] \in Cluster /\ s # << >>
    BY SMT DEF Once
  <2>1. SUFFICES ASSUME NEW x \in Cluster, g[x] # Free PROVE \E h \in G \cup D : x \in In(g, h)
    BY DEF SpaceInv
  <2>2. f[x] # Free
    <3>1. CASE \E i \in 1 .. Len(s) - 1 : s[i] = x
      <4>1. \A i \in 1 .. Len(s) - 1 : i \in 1 .. Len(s)
        BY SMT, <2>0
      <4>. QED
        BY <3>1, <4>1, Numbers
    <3>2. CASE \A i \in 1 .. Len(s) - 1 : s[i] # x
      BY <2>1, <3>2 DEF Linked
    <3>. QED
      BY <3>1, <3>2
  <2>3. PICK h \in H : x \in In(f, h)
    BY <2>2 DEF SpaceInv
  <2>4. CASE h \in G
    <3>1. In(g, h) = In(f, h)
      BY <2>4, SameIn DEF Chained, Same
    <3>. QED
      BY <2>3, <2>4, <3>1
  <2>5. CASE \E i \in 1 .. Len(s) : h = s[i]
    <3>1. PICK i \in 1 .. Len(s) : h = s[i]
      BY <2>5
    <3>2. x = s[i] /\ s # << >>
      <4>1. s[i] \in Cluster /\ f[s[i]] = EOC /\ s # << >>
        BY <2>0
      <4>2. In(f, s[i]) = {s[i]}
        BY <4>1, Single
      <4>. QED
        BY <2>3, <3>1, <4>1, <4>2
    <3>3. x \in In(g, s[1])
      BY <3>2 DEF Chained, In
    <3>. QED
      BY <3>2, <3>3
  <2>. QED
    BY <2>4, <2>5
\* The data of the files is not where the new data goes.
<1>StoredApart. ASSUME NEW f \in FatType, NEW g, NEW b, NEW c, NEW H, Chains(f, H), NEW s, NEW n, Stored(b, c, s, n),
             \A i \in 1 .. Len(s) : s[i] \in H, NEW G \in SUBSET H, \A i \in 1 .. Len(s) : s[i] \notin G,
             Same(f, g, G)
      PROVE  Untouched(f, g, b, c, G)
  <2>. USE <1>StoredApart
  <2>1. SUFFICES ASSUME NEW h \in G, NEW k \in 1 .. Len(ChainIn(f, h))
                 PROVE  c[ChainIn(f, h)[k]] = b[ChainIn(f, h)[k]]
    BY DEF Untouched
  <2> DEFINE x == ChainIn(f, h)[k]
  <2>2. x \in In(f, h)
    BY <2>1 DEF In
  <2>. HIDE DEF x
  <2>3. h \in H /\ Ok(f, h)
    BY <2>1 DEF Chains
  <2>4. x \in Cluster
    BY <2>2, <2>3, Members DEF Sound
  <2>5. ASSUME NEW i \in 1 .. Len(s), s[i] = x PROVE FALSE
    <3>1. s[i] \in H /\ s[i] # h
      BY <2>1, <2>5
    <3>2. s[i] \in In(f, s[i])
      BY <3>1, Members DEF Chains, Sound
    <3>3. In(f, s[i]) \cap In(f, h) = {}
      BY <2>3, <3>1 DEF Chains
    <3>. QED
      BY <2>2, <2>5, <3>2, <3>3
  <2>. QED
    BY <2>4, <2>5 DEF Stored, x
<1> SUFFICES ASSUME Typed, InvNow, write_chain
             PROVE  InvNext
  OBVIOUS
<1> DEFINE s == op.chain
           H == Heads(dir, op)
           G == {Root} \cup Firsts(dir, op)
           D == Drawn(op')
<1>1. op.at = "alloc" /\ UNCHANGED <<dir, creates, want>>
  BY DEF write_chain
<1>2. /\ Len(s) = op.size /\ fat' \in FatType
      /\ Becomes(op, op', "scan", op.chain, op.cur, op.off, op.todo, op.freed)
  BY DoesWriteChain
<1>3. /\ op'.at = "scan" /\ op'.chain = s /\ op'.freed = op.freed /\ op'.name = op.name
      /\ op'.size = op.size /\ op'.unlinks = op.unlinks /\ op'.cur = op.cur
  BY <1>2 DEF Becomes
<1>4. /\ op.at \notin {"free", "write"} /\ op.at # "link" /\ op.at # "free"
      /\ op'.at # "alloc" /\ op'.at # "link" /\ op'.at # "free" /\ op'.at \in {"idle", "alloc", "scan"}
  BY SMT, <1>1, <1>3
<1>5. ~op.freed /\ ~op'.freed
  BY <1>3, <1>4, NotFreed
<1>6. /\ NewInv(fat, body, op, creates) /\ FatInv(fat, dir, op) /\ fat \in FatType /\ Chains(fat, H)
      /\ Apart(dir, op) /\ IsRoot(fat, ChainIn(fat, Root)) /\ s \in Seq(Cluster)
  BY NowFacts, TypedParts DEF FatInv
<1>7. /\ op.cur = Root /\ ~op.unlinks /\ Once(s) /\ \A i \in 1 .. Len(s) : fat[s[i]] = EOC
  BY <1>1, <1>6 DEF NewInv, Once
<1>8. Linked(fat, fat', s) /\ Stored(body, body', s, creates)
  BY <1>7, <1>WritesFat, <1>WritesBody
<1>9. Bound(dir, op, op', s)
  BY <1>1, <1>3, <1>4, <1>5 DEF Bound, Drawn, Loose
<1>10. GivesUp(op, op') /\ Yields(dir, op, op')
  BY <1>5, StillYields
<1>11. s # << >> => 1 \in 1 .. Len(s)
  BY SMT, <1>6
<1>12. /\ Heads(dir, op') = G \cup D /\ Apart(dir, op') /\ G \subseteq H
       /\ \A i \in 1 .. Len(s) : s[i] \in H /\ s[i] \notin G
  BY ZenonT(30), <1>6, <1>9, <1>10, <1>11, <1>BoundHeads
<1>13. D = IF s = << >> THEN {} ELSE {s[1]}
  BY <1>9 DEF Bound
<1>14. \A h \in H : h \in G \/ \E i \in 1 .. Len(s) : h = s[i]
  BY <1>9 DEF Bound, Heads
<1>15. Firsts(dir, op') \subseteq G /\ Root \in G
  BY <1>10, LiveSame
<1>. HIDE DEF s, H, G, D
<1>16. Chained(fat, fat', G, s, D)
  BY <1>2, <1>6, <1>7, <1>8, <1>12, <1>13, <1>Chaining
<1>17. Chains(fat', G \cup D) /\ Same(fat, fat', G) /\ (s # << >> => ChainIn(fat', s[1]) = s)
  BY <1>16 DEF Chained
<1>18. Untouched(fat, fat', body, body', G)
  <2>1. (\A i \in 1 .. Len(s) : s[i] \in H) /\ (\A i \in 1 .. Len(s) : s[i] \notin G) /\ G \in SUBSET H
    BY <1>12
  <2>. QED
    BY <1>6, <1>8, <1>17, <2>1, <1>StoredApart
<1>19. ChainIn(fat', Root) = ChainIn(fat, Root)
  BY <1>15, <1>17 DEF Same
<1>20. Steps(dir, op, op')
  <2>1. Untouched(fat, fat', body, body', Firsts(dir, op'))
    BY <1>15, <1>18 DEF Untouched, Same
  <2>2. Starts(ChainIn(fat, Root), ChainIn(fat', Root))
    BY <1>19, SameStarts
  <2>. QED
    BY <1>10, <1>12, <1>17, <2>1, <2>2 DEF Steps, Reforms
<1>21. NewInv(fat', body', op', creates')
  BY ZenonT(30), <1>1, <1>2, <1>3, <1>4, <1>7, <1>8, <1>17 DEF NewInv, Stored
<1>22. ScanInv(dir, ChainIn(fat', Root), op')
  <2>1. op'.cur = Root /\ op'.freed = FALSE
    BY SMT, <1>3, <1>5, <1>7, TypedParts
  <2>. QED
    BY <1>4, <1>6, <1>19, <2>1, ScanStart
<1>23. InvOf(fat', dir', body', op', creates', want')
  BY <1>1, <1>20, <1>21, <1>22, FatStep
<1>24. SpaceInv(fat, H) => SpaceInv(fat', G \cup D)
  BY ZenonT(30), <1>6, <1>7, <1>8, <1>13, <1>14, <1>16, <1>ChainedSpace
<1>25. SpaceInv(fat, Heads(dir, op)) => SpaceInv(fat', Heads(dir', op'))
  BY <1>1, <1>12, <1>24 DEF H
<1>. QED
  BY <1>23, <1>25 DEF InvNext

-----------------------------------------------------------------------------
(* A cluster is freed *)

\* A call that frees a cluster keeps all but its place and what is left to free.
LEMMA SetFreed ==
  ASSUME NEW p \in OpType, NEW x \in AtType, NEW t \in {0} \cup Cluster
  PROVE  Becomes(p, [p EXCEPT !.freed = TRUE, !.todo = t, !.at = x], x, p.chain, p.cur, p.off, t, TRUE)
BY DEF OpType, AtType, Becomes

\* The next cluster is a cluster or 0.
LEMMA NextIn ==
  ASSUME NEW f \in FatType, NEW c \in Cluster
  PROVE  SuccIn(f, c) \in {0} \cup Cluster
BY DEF SuccIn

\* next_cluster, of any FAT.
LEMMA SuccOf == \A c : next_cluster(c) = SuccIn(fat, c)
BY DEF next_cluster, SuccIn

\* What free_chain does to the FAT and the call.
LEMMA DoesFree ==
  ASSUME Typed, free_chain
  PROVE  LET n == SuccIn(fat, op.todo)
         IN /\ op.todo \in Cluster /\ fat' = [fat EXCEPT ![op.todo] = Free]
            /\ n = 0 => Becomes(op, op', "write", op.chain, op.cur, op.off, 0, TRUE)
            /\ n # 0 => n \in Cluster /\ Becomes(op, op', "free", op.chain, op.cur, op.off, n, TRUE)
<1> DEFINE n == SuccIn(fat, op.todo)
           x == IF n = 0 THEN "write" ELSE "free"
<1>1. op.todo \in Cluster
  BY TypedParts DEF TypedCall, free_chain
<1>2. n \in {0} \cup Cluster
  BY <1>1, TypedParts, NextIn
<1>3. fat' = [fat EXCEPT ![op.todo] = Free] /\ op' = [op EXCEPT !.freed = TRUE, !.todo = n, !.at = x]
  BY SuccOf DEF free_chain, Entered, After
<1>. HIDE DEF n
<1>4. x \in AtType /\ (n = 0 => x = "write") /\ (n # 0 => x = "free")
  BY DEF AtType
<1>. HIDE DEF x
<1>5. Becomes(op, [op EXCEPT !.freed = TRUE, !.todo = n, !.at = x], x, op.chain, op.cur, op.off, n, TRUE)
  BY <1>2, <1>4, TypedParts, SetFreed
<1>. QED
  BY <1>1, <1>2, <1>3, <1>4, <1>5 DEF n

\* What misread_chain does to the FAT and the call.
LEMMA DoesMisread ==
  ASSUME Typed, misread_chain
  PROVE  /\ op.todo \in Cluster /\ fat' = [fat EXCEPT ![op.todo] = Free]
         /\ Becomes(op, op', "write", op.chain, op.cur, op.off, 0, TRUE)
<1>1. op.todo \in Cluster
  BY TypedParts DEF TypedCall, misread_chain
<1>2. fat' = [fat EXCEPT ![op.todo] = Free] /\ op' = [op EXCEPT !.freed = TRUE, !.todo = 0, !.at = "write"]
  BY DEF misread_chain, Entered
<1>3. "write" \in AtType /\ 0 \in {0} \cup Cluster
  BY DEF AtType
<1>4. Becomes(op, [op EXCEPT !.freed = TRUE, !.todo = 0, !.at = "write"], "write", op.chain, op.cur, op.off, 0, TRUE)
  BY <1>3, TypedParts, SetFreed
<1>. QED
  BY <1>1, <1>2, <1>4

\* Chains that stay the same have the same data, if no data is written.
LEMMA SameUntouched ==
  ASSUME NEW f, NEW g, NEW b, NEW H, Same(f, g, H), NEW G \in SUBSET H
  PROVE  Untouched(f, g, b, b, G)
BY DEF Same, Untouched

\* The first cluster of a chain that is linked is a head.
LEMMA ChainFirst ==
  ASSUME NEW p, p.at # "alloc", p.chain # << >>
  PROVE  p.chain[1] \in Drawn(p)
BY DEF Drawn

\* What is written for a new file stays, as long as its chain does.
LEMMA CarryNew ==
  ASSUME NEW f, NEW g, NEW d, NEW b, NEW p, NEW q, NEW n, NewInv(f, b, p, n), p.at # "alloc", q.at # "alloc",
         q.chain = p.chain, q.size = p.size, q.unlinks = p.unlinks, Same(f, g, Drawn(p)),
         q.at = "link" => g[q.todo] = EOC
  PROVE  NewInv(g, b, q, n)
<1>1. p.chain # << >> => ChainIn(g, p.chain[1]) = ChainIn(f, p.chain[1])
  BY ChainFirst DEF Same
<1>. QED
  BY <1>1 DEF NewInv

\* The call p is giving up the chain from t on, of the entry at its place.
Frees(d, p, t) ==
  /\ <<p.cur, p.off>> \in Places /\ IsFile(d, <<p.cur, p.off>>) /\ t # 0
  /\ \/ p.freed /\ Loose(p) = {t}
     \/ ~p.freed /\ Loose(p) = {} /\ FirstOf(d, <<p.cur, p.off>>) = t

\* The call p has the chain from t on to give up; q has the rest of it, or nothing.
Releases(f, d, p, q, t) ==
  /\ Frees(d, p, t) /\ Called(d, <<p.cur, p.off>>, p.name)
  /\ q.cur = p.cur /\ q.off = p.off /\ q.name = p.name /\ q.freed /\ Drawn(q) = Drawn(p)
  /\ Loose(q) = {} \/ (SuccIn(f, t) # 0 /\ Loose(q) = {SuccIn(f, t)})

Released(f, g, d, b, p, q, t) ==
  /\ Reforms(f, g, d, b, b, p, q) /\ Same(f, g, Drawn(p)) /\ ChainIn(g, Root) = ChainIn(f, Root)
  /\ SpaceInv(f, Heads(d, p)) /\ (SuccIn(f, t) # 0 => Loose(q) = {SuccIn(f, t)}) =>
       SpaceInv(g, Heads(d, q))

\* A cluster of the file that is given up is freed.
LEMMA StepRelease == Typed /\ InvNow /\ (free_chain \/ misread_chain) => InvNext
\* free_chain: the chain that starts at t loses t, and starts at the next one.
<1>Cutting. ASSUME NEW f \in FatType, NEW H, Chains(f, H), NEW t \in H
      PROVE  LET g == [f EXCEPT ![t] = Free]
                 n == SuccIn(f, t)
             IN /\ g \in FatType /\ Chains(g, H \ {t}) /\ Same(f, g, H \ {t})
                /\ n = 0 => In(f, t) = {t}
                /\ n # 0 => /\ n \in Cluster /\ n \notin H /\ In(f, t) = {t} \cup In(g, n)
                            /\ Chains(g, (H \ {t}) \cup {n})
  <2>. USE <1>Cutting
  <2> DEFINE g == [f EXCEPT ![t] = Free]
             n == SuccIn(f, t)
             s == ChainIn(f, t)
             z == [i \in 1 .. Len(s) - 1 |-> s[i + 1]]
  <2>1. H \subseteq Cluster /\ \A h \in H : Ok(f, h) /\ Sound(f, h)
    BY Members DEF Chains
  <2>3. g \in FatType /\ g[t] = Free /\ \A x \in Cluster : x # t => g[x] = f[x]
    BY <2>1 DEF FatType
  <2>. HIDE DEF g
  <2>4. \A h \in H : h # t => t \notin In(f, h)
    BY <2>1 DEF Chains, Sound
  <2>5. \A h \in H \ {t} : \A x \in In(f, h) : g[x] = f[x]
    BY <2>1, <2>3, <2>4 DEF Sound
  <2>6. Chains(g, H \ {t}) /\ Same(f, g, H \ {t})
    BY <2>3, <2>5, FrameAll
  <2>7. Path(f, s) /\ s[1] = t
    BY <2>1 DEF Ok
  <2>8. Len(s) \in 1 .. Last /\ s \in Seq(Cluster) /\ \A i \in 1 .. Len(s) : s[i] \in Cluster
    BY <2>7, ShortPath
  <2>9. /\ \A i, j \in 1 .. Len(s) : s[i] = s[j] => i = j
        /\ \A i \in 1 .. Len(s) - 1 : f[s[i]] = s[i + 1]
        /\ f[s[Len(s)]] = EOC
    BY <2>7 DEF Path
  <2>10. In(f, t) = {s[i] : i \in 1 .. Len(s)}
    BY DEF In
  <2>. HIDE DEF s
  <2>11. CASE Len(s) = 1
    <3>1. n = 0
      BY <2>7, <2>9, <2>11, Numbers DEF SuccIn
    <3>2. 1 .. Len(s) = {1}
      BY SMT, <2>11
    <3>3. In(f, t) = {t}
      BY <2>7, <2>10, <3>2
    <3>. QED
      BY <2>3, <2>6, <3>1, <3>3 DEF g
  <2>12. CASE Len(s) # 1
    <3>1. Len(s) - 1 \in Nat /\ Len(s) - 1 > 0 /\ 1 \in 1 .. Len(s) - 1 /\ 1 + 1 \in 1 .. Len(s)
      <4>1. Len(s) \in Nat /\ Len(s) >= 1
        BY SMT, <2>8, Numbers
      <4>. QED
        BY <2>12, <4>1, Ends
    <3>2. n = s[1 + 1] /\ n # 0 /\ n \in Cluster
      BY <2>7, <2>8, <2>9, <3>1, Numbers DEF SuccIn
    <3>. HIDE DEF n
    <3>3. \A i \in 1 .. Len(s) - 1 : i + 1 \in 1 .. Len(s) /\ i \in 1 .. Len(s) /\ i + 1 # 1
      BY SMT, <2>8, Numbers
    <3>4. /\ z \in [1 .. Len(s) - 1 -> Cluster] /\ z[1] = n
          /\ \A i \in 1 .. Len(s) - 1 : z[i] = s[i + 1]
      BY <2>8, <3>1, <3>2, <3>3
    <3>. HIDE DEF z
    <3>5. z \in Seq(Cluster) /\ Len(z) = Len(s) - 1
      BY SMT, <3>1, <3>4
    <3>6. \A i \in 1 .. Len(s) - 1 : s[i + 1] # t
      BY <2>7, <2>9, <3>1, <3>3
    <3>7. Path(g, z)
      <4>1. ASSUME NEW i \in 1 .. Len(z), NEW j \in 1 .. Len(z), z[i] = z[j] PROVE i = j
        <5>1. s[i + 1] = s[j + 1] /\ i + 1 \in 1 .. Len(s) /\ j + 1 \in 1 .. Len(s)
          BY <3>3, <3>4, <3>5, <4>1
        <5>2. i + 1 = j + 1
          BY <2>9, <5>1
        <5>. QED
          BY SMT, <3>5, <5>2
      <4>2. ASSUME NEW i \in 1 .. Len(z) - 1 PROVE g[z[i]] = z[i + 1]
        <5>1. i \in 1 .. Len(s) - 1 /\ i + 1 \in 1 .. Len(s) - 1
          BY SMT, <2>8, <3>5, Numbers
        <5>2. z[i] = s[i + 1] /\ z[i + 1] = s[(i + 1) + 1] /\ f[s[i + 1]] = s[(i + 1) + 1]
          BY <2>9, <3>4, <5>1
        <5>3. s[i + 1] # t /\ s[i + 1] \in Cluster
          BY <2>8, <3>3, <3>6, <5>1
        <5>. QED
          BY <2>3, <5>2, <5>3
      <4>3. g[z[Len(z)]] = EOC
        <5>1. Len(z) \in 1 .. Len(s) - 1 /\ Len(z) + 1 = Len(s)
          BY SMT, <2>8, <3>1, <3>5, Numbers
        <5>2. z[Len(z)] = s[Len(s)] /\ s[Len(s)] # t /\ s[Len(s)] \in Cluster
          BY <2>8, <3>3, <3>4, <3>6, <5>1
        <5>. QED
          BY <2>3, <2>9, <5>2
      <4>4. Len(z) > 0
        BY SMT, <3>1, <3>5
      <4>. QED
        BY <3>5, <4>1, <4>2, <4>3, <4>4 DEF Path
    <3>8. Ok(g, n) /\ ChainIn(g, n) = z
      BY <2>3, <3>4, <3>7, PathOk
    <3>9. In(g, n) = {z[i] : i \in 1 .. Len(s) - 1}
      BY <3>5, <3>8 DEF In
    <3>10. In(f, t) = {t} \cup In(g, n)
      <4>1. \A i \in 1 .. Len(s) : i = 1 \/ (i - 1 \in 1 .. Len(s) - 1 /\ (i - 1) + 1 = i)
        BY SMT, <2>8, Numbers
      <4>2. ASSUME NEW i \in 1 .. Len(s) PROVE s[i] = t \/ s[i] \in In(g, n)
        <5>1. CASE i = 1
          BY <2>7, <5>1
        <5>2. CASE i - 1 \in 1 .. Len(s) - 1 /\ (i - 1) + 1 = i
          <6>1. z[i - 1] = s[i] /\ i - 1 \in 1 .. Len(s) - 1
            BY <3>4, <5>2
          <6>. QED
            BY <3>9, <6>1
        <5>. QED
          BY <4>1, <5>1, <5>2
      <4>3. \A i \in 1 .. Len(s) - 1 : z[i] \in In(f, t)
        BY <2>10, <3>3, <3>4
      <4>4. t \in In(f, t)
        BY <2>1 DEF Sound
      <4>. QED
        BY <2>10, <3>9, <4>2, <4>3, <4>4
    <3>11. n \notin H
      <4>1. n \in In(f, t) /\ n # t
        BY <2>10, <3>1, <3>2, <3>6
      <4>2. n \in H => n \in In(f, n)
        BY <2>1 DEF Sound
      <4>. QED
        BY <4>1, <4>2 DEF Chains
    <3>12. \A h \in H \ {t} : In(g, n) \cap In(g, h) = {}
      <4>1. \A h \in H \ {t} : In(g, h) = In(f, h)
        BY <2>6, SameIn DEF Same
      <4>2. \A h \in H \ {t} : In(f, t) \cap In(f, h) = {}
        BY DEF Chains
      <4>. QED
        BY <3>10, <4>1, <4>2
    <3>13. Chains(g, (H \ {t}) \cup {n})
      BY <2>6, <3>2, <3>8, <3>12, AddHead
    <3>. QED
      BY <2>3, <2>6, <3>2, <3>10, <3>11, <3>13 DEF g, n
  <2>. QED
    BY <2>11, <2>12
<1>FreesFirsts. ASSUME NEW d, NEW p, NEW q, NEW t, Apart(d, p), Frees(d, p, t), q.cur = p.cur, q.off = p.off, q.freed
      PROVE  /\ Live(d, q) = Live(d, p) \ {<<p.cur, p.off>>} /\ Firsts(d, q) = Firsts(d, p) \ {t}
             /\ t \in Heads(d, p) /\ t # Root /\ t \notin Drawn(p) /\ Loose(p) \subseteq {t}
  <2>. USE <1>FreesFirsts
  <2> DEFINE e == <<p.cur, p.off>>
  <2>0. e \in Places /\ IsFile(d, e) /\ t # 0
    BY DEF Frees
  <2>1. Live(d, q) = Live(d, p) \ {e}
    BY DEF Live
  <2>. HIDE DEF e
  <2>2. \A x : x \in Firsts(d, q) <=> x # 0 /\ \E a \in Live(d, q) : x = FirstOf(d, a)
    BY DEF Firsts
  <2>3. \A x : x \in Firsts(d, p) <=> x # 0 /\ \E a \in Live(d, p) : x = FirstOf(d, a)
    BY DEF Firsts
  <2>4. CASE p.freed /\ Loose(p) = {t}
    <3>1. Firsts(d, p) \cap Loose(p) = {} /\ Root \notin Loose(p) /\ Drawn(p) \cap Loose(p) = {}
      BY DEF Apart
    <3>2. t \notin Firsts(d, p) /\ t # Root /\ t \notin Drawn(p) /\ t \in Loose(p)
      BY <2>4, <3>1
    <3>3. Live(d, p) = Live(d, q)
      BY <2>4 DEF Live
    <3>4. Firsts(d, q) = Firsts(d, p) \ {t}
      BY <2>2, <2>3, <3>2, <3>3
    <3>5. t \in Heads(d, p) /\ Loose(p) \subseteq {t}
      BY <2>4, <3>2, FirstsAreHeads
    <3>. QED
      BY <2>1, <3>2, <3>4, <3>5 DEF e
  <2>5. CASE ~p.freed /\ Loose(p) = {} /\ FirstOf(d, e) = t
    <3>1. e \in Live(d, p)
      BY <2>0, <2>5 DEF Live
    <3>2. t \in Firsts(d, p)
      BY <2>0, <2>3, <2>5, <3>1
    <3>3. Root \notin Firsts(d, p) /\ Firsts(d, p) \cap Drawn(p) = {}
      BY DEF Apart
    <3>4. \A a \in Live(d, p) : FirstOf(d, a) = FirstOf(d, e) /\ FirstOf(d, a) # 0 => a = e
      BY <3>1 DEF Apart
    <3>5. Firsts(d, q) = Firsts(d, p) \ {t}
      <4>1. ASSUME NEW x \in Firsts(d, q) PROVE x \in Firsts(d, p) /\ x # t
        <5>1. PICK a \in Live(d, q) : x = FirstOf(d, a)
          BY <2>2, <4>1
        <5>2. a \in Live(d, p) /\ a # e /\ x # 0
          BY <2>1, <2>2, <4>1, <5>1
        <5>. QED
          BY <2>3, <2>5, <3>4, <5>1, <5>2
      <4>2. ASSUME NEW x \in Firsts(d, p), x # t PROVE x \in Firsts(d, q)
        <5>1. PICK a \in Live(d, p) : x = FirstOf(d, a)
          BY <2>3, <4>2
        <5>2. a # e /\ x # 0
          BY <2>3, <2>5, <4>2, <5>1
        <5>. QED
          BY <2>1, <2>2, <5>1, <5>2
      <4>. QED
        BY <4>1, <4>2
    <3>6. t \in Heads(d, p) /\ t # Root /\ t \notin Drawn(p) /\ Loose(p) \subseteq {t}
      BY <2>5, <3>2, <3>3, FirstsAreHeads
    <3>. QED
      BY <2>1, <3>5, <3>6 DEF e
  <2>. QED
    BY <2>4, <2>5 DEF Frees, e
<1>FreesHeads. ASSUME NEW d, NEW p, NEW q, NEW t, Apart(d, p), Frees(d, p, t), q.cur = p.cur, q.off = p.off, q.freed,
             Drawn(q) = Drawn(p), Loose(q) \cap Heads(d, p) = {}
      PROVE  Heads(d, q) = (Heads(d, p) \ {t}) \cup Loose(q) /\ Apart(d, q)
  <2>. USE <1>FreesHeads
  <2>1. /\ Live(d, q) = Live(d, p) \ {<<p.cur, p.off>>} /\ Firsts(d, q) = Firsts(d, p) \ {t}
        /\ t \in Heads(d, p) /\ t # Root /\ t \notin Drawn(p) /\ Loose(p) \subseteq {t}
    BY <1>FreesFirsts
  <2>2. Heads(d, q) = (Heads(d, p) \ {t}) \cup Loose(q)
    BY <2>1 DEF Heads
  <2>3. /\ Root \notin Firsts(d, p) /\ Root \notin Drawn(p) /\ Firsts(d, p) \cap Drawn(p) = {}
        /\ \A a, b \in Live(d, p) : FirstOf(d, a) = FirstOf(d, b) /\ FirstOf(d, a) # 0 => a = b
    BY DEF Apart
  <2>4. /\ Root \notin Loose(q) /\ Firsts(d, p) \cap Loose(q) = {} /\ Drawn(p) \cap Loose(q) = {}
    BY FirstsAreHeads, RootIsHead
  <2>5. /\ Root \notin Firsts(d, q) /\ Firsts(d, q) \cap Drawn(p) = {} /\ Firsts(d, q) \cap Loose(q) = {}
        /\ \A a, b \in Live(d, q) : FirstOf(d, a) = FirstOf(d, b) /\ FirstOf(d, a) # 0 => a = b
    BY <2>1, <2>3, <2>4
  <2>6. Apart(d, q)
    BY <2>3, <2>4, <2>5 DEF Apart
  <2>. QED
    BY <2>2, <2>6
\* The first cluster of a chain is freed.
<1>FreesOne. ASSUME NEW f \in FatType, NEW d, NEW b, NEW p, NEW q, NEW t, FatInv(f, d, p), Releases(f, d, p, q, t),
             NEW g, g = [f EXCEPT ![t] = Free]
      PROVE  Released(f, g, d, b, p, q, t)
  <2>. USE <1>FreesOne
  <2> DEFINE H == Heads(d, p)
             n == SuccIn(f, t)
  <2>0. /\ Frees(d, p, t) /\ Called(d, <<p.cur, p.off>>, p.name)
        /\ q.cur = p.cur /\ q.off = p.off /\ q.name = p.name /\ q.freed /\ Drawn(q) = Drawn(p)
        /\ Loose(q) = {} \/ (n # 0 /\ Loose(q) = {n})
    BY DEF Releases
  <2>1. Chains(f, H) /\ Apart(d, p)
    BY DEF FatInv
  <2>2. /\ Live(d, q) = Live(d, p) \ {<<p.cur, p.off>>} /\ Firsts(d, q) = Firsts(d, p) \ {t}
        /\ t \in H /\ t # Root /\ t \notin Drawn(p) /\ Loose(p) \subseteq {t}
    BY <2>0, <2>1, <1>FreesFirsts
  <2>3. /\ g \in FatType /\ Chains(g, H \ {t}) /\ Same(f, g, H \ {t})
        /\ n = 0 => In(f, t) = {t}
        /\ n # 0 => /\ n \in Cluster /\ n \notin H /\ In(f, t) = {t} \cup In(g, n)
                    /\ Chains(g, (H \ {t}) \cup {n})
    <3> DEFINE k == [f EXCEPT ![t] = Free]
    <3>1. /\ k \in FatType /\ Chains(k, H \ {t}) /\ Same(f, k, H \ {t})
          /\ n = 0 => In(f, t) = {t}
          /\ n # 0 => /\ n \in Cluster /\ n \notin H /\ In(f, t) = {t} \cup In(k, n)
                      /\ Chains(k, (H \ {t}) \cup {n})
      <4>. HIDE DEF H
      <4>. QED
        BY <2>1, <2>2, <1>Cutting
    <3>2. g = k
      BY SMT
    <3>. HIDE DEF k, H, n
    <3>. QED
      BY <3>1, <3>2
  <2>4. Loose(q) \cap H = {}
    BY <2>0, <2>3
  <2>5. Heads(d, q) = (H \ {t}) \cup Loose(q) /\ Apart(d, q)
    BY <2>0, <2>1, <2>4, <1>FreesHeads
  <2>. HIDE DEF n, H
  <2>6. Chains(g, Heads(d, q))
    <3>1. CASE Loose(q) = {}
      <4>1. Heads(d, q) = H \ {t}
        BY <2>5, <3>1
      <4>. QED
        BY <2>3, <4>1
    <3>2. CASE n # 0 /\ Loose(q) = {n}
      BY <2>3, <2>5, <3>2
    <3>. QED
      BY <2>0, <3>1, <3>2
  <2>7. Yields(d, p, q)
    BY <2>0, <2>2 DEF Yields
  <2>8. Firsts(d, q) \in SUBSET (H \ {t}) /\ Drawn(p) \in SUBSET (H \ {t}) /\ Root \in H \ {t}
    BY <2>2, FirstsAreHeads, RootIsHead DEF H
  <2>9. Untouched(f, g, b, b, Firsts(d, q))
    BY <2>3, <2>8, SameUntouched
  <2>10. ChainIn(g, Root) = ChainIn(f, Root) /\ Same(f, g, Drawn(p))
    BY <2>3, <2>8 DEF Same
  <2>11. Starts(ChainIn(f, Root), ChainIn(g, Root))
    BY <2>10, SameStarts
  <2>12. Reforms(f, g, d, b, b, p, q)
    BY <2>5, <2>6, <2>7, <2>9, <2>11 DEF Reforms
  <2>13. SpaceInv(f, H) /\ (n # 0 => Loose(q) = {n}) => SpaceInv(g, Heads(d, q))
    <3>1. SUFFICES ASSUME SpaceInv(f, H), n # 0 => Loose(q) = {n}, NEW x \in Cluster, g[x] # Free
                   PROVE  \E h \in Heads(d, q) : x \in In(g, h)
      BY DEF SpaceInv
    <3>2. x # t
      BY <3>1 DEF FatType
    <3>3. g[x] = f[x]
      BY <3>2 DEF FatType
    <3>4. PICK h \in H : x \in In(f, h)
      BY <3>1, <3>3 DEF SpaceInv
    <3>5. CASE h = t
      <4>1. n # 0
        BY <2>3, <3>2, <3>4, <3>5
      <4>2. x \in In(g, n) /\ n \in Heads(d, q)
        BY ZenonT(30), <2>3, <2>5, <3>1, <3>2, <3>4, <3>5, <4>1
      <4>. QED
        BY <4>2
    <3>6. CASE h # t
      <4>1. h \in H \ {t} /\ h \in Heads(d, q)
        BY <2>5, <3>6
      <4>2. In(g, h) = In(f, h)
        BY <2>3, <4>1, SameIn DEF Same
      <4>. QED
        BY <3>4, <4>1, <4>2
    <3>. QED
      BY <3>5, <3>6
  <2>. QED
    BY <2>10, <2>12, <2>13 DEF n, H, Released
\* A call that frees goes on in the directory where it is.
<1>ScanFrees. ASSUME NEW d, NEW r, NEW p, ScanInv(d, r, p), p.at = "free", NEW q, NEW x \in {"free", "write"}, NEW t,
             Becomes(p, q, x, p.chain, p.cur, p.off, t, TRUE)
      PROVE  ScanInv(d, r, q) /\ Called(d, <<p.cur, p.off>>, p.name)
  <2>. USE <1>ScanFrees
  <2>1. /\ q.at = x /\ q.cur = p.cur /\ q.off = p.off /\ q.name = p.name /\ q.unlinks = p.unlinks /\ q.freed
    BY DEF Becomes
  <2>2. p.at \in {"free", "write"} /\ q.at \in {"free", "write"} /\ q.at \notin {"idle", "alloc"}
        /\ q.at # "zero" /\ q.at \notin {"grow", "link", "zero"}
    BY SMT, <2>1
  <2>3. PICK k \in 1 .. Len(r) : Reached(d, r, p, k)
    BY DEF ScanInv
  <2>4. Reached(d, r, q, k)
    BY <2>1, <2>3 DEF Reached
  <2>5. /\ \A o \in 1 .. Slots : Called(d, <<p.cur, o>>, p.name) => p.off <= o
        /\ \A o \in 1 .. p.off - 1 : d[p.cur][o].kind # "end"
        /\ IsFile(d, <<p.cur, p.off>>) /\ Called(d, <<p.cur, p.off>>, p.name)
    BY <2>2 DEF ScanInv
  <2>6. ScanInv(d, r, q)
    BY <2>1, <2>2, <2>3, <2>4, <2>5 DEF ScanInv
  <2>. QED
    BY <2>5, <2>6
<1>StepFrees. ASSUME Typed, InvNow, op.at = "free", op.todo \in Cluster, UNCHANGED <<dir, body, creates, want>>,
             fat' = [fat EXCEPT ![op.todo] = Free], NEW x, NEW t,
             Becomes(op, op', x, op.chain, op.cur, op.off, t, TRUE),
             (x = "free" /\ t = SuccIn(fat, op.todo) /\ t # 0) \/ (x = "write" /\ t = 0),
             failed' \/ t = SuccIn(fat, op.todo)
      PROVE  InvNext
  <2>. USE <1>StepFrees
  <2>1. /\ op'.at = x /\ op'.chain = op.chain /\ op'.cur = op.cur /\ op'.off = op.off /\ op'.todo = t
        /\ op'.freed /\ op'.name = op.name /\ op'.size = op.size /\ op'.unlinks = op.unlinks
    BY DEF Becomes
  <2>2. /\ op.at # "alloc" /\ op.at # "link" /\ op'.at # "alloc" /\ op'.at # "link" /\ x \in {"free", "write"}
        /\ x = "write" => x # "free"
    BY SMT, <2>1
  <2>3. Drawn(op') = Drawn(op)
    BY <2>1, <2>2 DEF Drawn
  <2> DEFINE n == SuccIn(fat, op.todo)
  <2>4. /\ Loose(op') = {} \/ (n # 0 /\ Loose(op') = {n})
        /\ ~failed' => (n # 0 => Loose(op') = {n})
    <3>1. CASE x = "free" /\ t = n /\ t # 0
      <4>1. Loose(op') = {n}
        BY <2>1, <3>1 DEF Loose
      <4>. QED
        BY <3>1, <4>1
    <3>2. CASE x = "write" /\ t = 0
      <4>1. Loose(op') = {}
        BY <2>1, <2>2, <3>2 DEF Loose
      <4>. QED
        BY <3>2, <4>1
    <3>. QED
      BY <3>1, <3>2
  <2>. HIDE DEF n
  <2>5. /\ ScanInv(dir, ChainIn(fat, Root), op) /\ NewInv(fat, body, op, creates) /\ FatInv(fat, dir, op)
        /\ fat \in FatType
    BY NowFacts, TypedParts
  <2>6. ScanInv(dir, ChainIn(fat, Root), op') /\ Called(dir, <<op.cur, op.off>>, op.name)
    BY <2>2, <2>5, <1>ScanFrees
  <2>7. Frees(dir, op, op.todo)
    <3>1. op.todo # 0
      BY Numbers
    <3>2. <<op.cur, op.off>> \in Places
      <4>1. op.off # 0
        <5>1. op.at \in {"free", "write"}
          BY SMT
        <5>2. TypedCall(op)
          BY TypedParts
        <5>. QED
          BY <5>1, <5>2 DEF TypedCall
      <4>2. op.cur \in Cluster /\ op.off \in 1 .. Slots
        BY SMT, <4>1, TypedParts, Numbers
      <4>. QED
        BY <4>2 DEF Places
    <3>3. IsFile(dir, <<op.cur, op.off>>)
      BY <2>6 DEF Called
    <3>4. op.freed => Loose(op) = {op.todo}
      BY DEF Loose
    <3>5. ~op.freed => Loose(op) = {} /\ FirstOf(dir, <<op.cur, op.off>>) = op.todo
      <4>1. op.at \in {"free", "write"}
        BY SMT
      <4>2. ~op.freed => FirstOf(dir, <<op.cur, op.off>>) = IF op.at = "free" THEN op.todo ELSE 0
        BY <2>5, <3>3, <4>1 DEF ScanInv
      <4>. QED
        BY <2>2, <4>2 DEF Loose
    <3>. QED
      BY <3>1, <3>2, <3>3, <3>4, <3>5 DEF Frees
  <2>8. /\ Reforms(fat, fat', dir, body, body, op, op') /\ Same(fat, fat', Drawn(op))
        /\ ChainIn(fat', Root) = ChainIn(fat, Root)
        /\ SpaceInv(fat, Heads(dir, op)) /\ (n # 0 => Loose(op') = {n}) =>
             SpaceInv(fat', Heads(dir, op'))
    <3>1. Releases(fat, dir, op, op', op.todo)
      BY <2>1, <2>3, <2>4, <2>6, <2>7 DEF Releases, n
    <3>2. Released(fat, fat', dir, body, op, op', op.todo)
      BY <2>5, <3>1, <1>FreesOne
    <3>. QED
      BY <2>5, <3>2 DEF n, Released
  <2>9. Steps(dir, op, op')
    BY <2>8 DEF Steps
  <2>10. NewInv(fat', body', op', creates')
    <3>1. NewInv(fat', body, op', creates)
      BY <2>1, <2>2, <2>5, <2>8, CarryNew
    <3>. QED
      BY <3>1
  <2>11. ScanInv(dir, ChainIn(fat', Root), op')
    BY <2>6, <2>8
  <2>12. InvOf(fat', dir', body', op', creates', want')
    BY <2>9, <2>10, <2>11, FatStep
  <2>. QED
    BY <2>4, <2>8, <2>12 DEF InvNext
<1>StepFree. ASSUME Typed, InvNow, free_chain
      PROVE  InvNext
  <2>. USE <1>StepFree
  <2>1. op.at = "free" /\ UNCHANGED <<dir, body, creates, want>>
    BY DEF free_chain
  <2>2. /\ op.todo \in Cluster /\ fat' = [fat EXCEPT ![op.todo] = Free]
        /\ SuccIn(fat, op.todo) = 0 => Becomes(op, op', "write", op.chain, op.cur, op.off, 0, TRUE)
        /\ SuccIn(fat, op.todo) # 0 =>
             Becomes(op, op', "free", op.chain, op.cur, op.off, SuccIn(fat, op.todo), TRUE)
    BY DoesFree
  <2>3. CASE SuccIn(fat, op.todo) = 0
    BY <2>1, <2>2, <2>3, <1>StepFrees
  <2>4. CASE SuccIn(fat, op.todo) # 0
    BY <2>1, <2>2, <2>4, <1>StepFrees
  <2>. QED
    BY <2>3, <2>4
<1>StepMisreadChain. ASSUME Typed, InvNow, misread_chain
      PROVE  InvNext
  <2>. USE <1>StepMisreadChain
  <2>1. op.at = "free" /\ failed' /\ UNCHANGED <<dir, body, creates, want>>
    BY DEF misread_chain
  <2>2. /\ op.todo \in Cluster /\ fat' = [fat EXCEPT ![op.todo] = Free]
        /\ Becomes(op, op', "write", op.chain, op.cur, op.off, 0, TRUE)
    BY DoesMisread
  <2>. QED
    BY <2>1, <2>2, <1>StepFrees
<1> SUFFICES ASSUME Typed, InvNow, free_chain \/ misread_chain
             PROVE  InvNext
  OBVIOUS
<1>. QED
  BY <1>StepFree, <1>StepMisreadChain

-----------------------------------------------------------------------------
(* The root gets another cluster *)

\* Fewer chains are still disjoint paths.
LEMMA FewerHeads ==
  ASSUME NEW f, NEW H, NEW G \in SUBSET H, Chains(f, H)
  PROVE  Chains(f, G)
BY DEF Chains

\* A call that moves on with a new cluster in hand keeps all else.
LEMMA SetAtTodo ==
  ASSUME NEW p \in OpType, NEW x \in AtType, NEW t \in {0} \cup Cluster
  PROVE  Becomes(p, [p EXCEPT !.at = x, !.todo = t], x, p.chain, p.cur, p.off, t, p.freed)
BY DEF OpType, AtType, Becomes

\* What grow_link does to the FAT, the call and torn.
LEMMA DoesLink ==
  ASSUME Typed, grow_link
  PROVE  /\ op.todo \in Cluster /\ fat' = [fat EXCEPT ![op.cur] = op.todo]
         /\ Becomes(op, op', "zero", op.chain, op.cur, op.off, op.todo, op.freed)
         /\ torn' = (torn \/ SuccIn(fat, op.cur) # 0)
<1>1. op.todo \in Cluster
  BY TypedParts DEF TypedCall, grow_link
<1>2. "zero" \in AtType
  BY DEF AtType
<1>. QED
  BY <1>1, <1>2, DoesMove, SuccOf DEF grow_link, Entered

\* A call that lets go of clusters and of nothing else.
LEMMA Quiet ==
  ASSUME NEW f, NEW d, NEW p, NEW q, FatInv(f, d, p), GivesUp(p, q),
         NEW D \in SUBSET Drawn(p), Drawn(q) = D, NEW L \in SUBSET Loose(p), Loose(q) = L
  PROVE  FatInv(f, d, q) /\ Heads(d, q) \subseteq Heads(d, p)
<1>1. Live(d, q) = Live(d, p) /\ Firsts(d, q) = Firsts(d, p)
  BY LiveSame
<1>2. Heads(d, q) \in SUBSET Heads(d, p)
  BY <1>1 DEF Heads
<1>3. Chains(f, Heads(d, q))
  BY <1>2, FewerHeads DEF FatInv
<1>4. Apart(d, q)
  <2>1. Apart(d, p)
    BY DEF FatInv
  <2>. QED
    BY <1>1, <2>1 DEF Apart
<1>5. SizesInv(f, d, q)
  BY <1>1 DEF FatInv, SizesInv
<1>. QED
  BY <1>2, <1>3, <1>4, <1>5 DEF FatInv

\* What Append does.
LEMMA AppendFacts ==
  ASSUME NEW s \in Seq(Cluster), NEW c
  PROVE  /\ Len(s) \in Nat /\ Len(Append(s, c)) = Len(s) + 1
         /\ \A i \in 1 .. Len(s) : Append(s, c)[i] = s[i] /\ i \in 1 .. Len(Append(s, c))
         /\ Append(s, c)[Len(Append(s, c))] = c
         /\ Len(Append(s, c)) \in 1 .. Len(Append(s, c))
         /\ \A i \in 1 .. Len(Append(s, c)) : i = Len(Append(s, c)) \/ i \in 1 .. Len(s)
BY SMT

\* The chain from t on is joined to the root's, in g.
Joined(f, g, H, t, c) ==
  /\ Chains(g, H \ {t}) /\ Same(f, g, H \ {Root, t})
  /\ ChainIn(g, Root) = Append(ChainIn(f, Root), t)
  /\ c = ChainIn(f, Root)[Len(ChainIn(f, Root))]

\* grow_link at the end of the root preserves the invariant.
LEMMA StepLink == Typed /\ InvNow /\ grow_link /\ ~torn' => InvNext
\* grow_link: t, a chain of one cluster, comes after the chain that starts at a.
<1>Joining. ASSUME NEW f \in FatType, NEW H, Chains(f, H), NEW a \in H, NEW t \in H, a # t,
             f[t] = EOC, NEW c \in In(f, a), f[c] = EOC
      PROVE  LET g == [f EXCEPT ![c] = t]
             IN /\ g \in FatType /\ Chains(g, H \ {t}) /\ Same(f, g, H \ {a, t})
                /\ ChainIn(g, a) = Append(ChainIn(f, a), t)
                /\ c = ChainIn(f, a)[Len(ChainIn(f, a))]
  <2>. USE <1>Joining
  <2> DEFINE g == [f EXCEPT ![c] = t]
             s == ChainIn(f, a)
             z == Append(s, t)
  <2>1. H \subseteq Cluster /\ \A h \in H : Ok(f, h) /\ Sound(f, h)
    BY Members DEF Chains
  <2>2. c \in Cluster
    BY <2>1 DEF Sound
  <2>3. g \in FatType /\ g[c] = t /\ \A x \in Cluster : x # c => g[x] = f[x]
    BY <2>1, <2>2 DEF FatType
  <2>. HIDE DEF g
  <2>4. \A h \in H : h # a => c \notin In(f, h)
    BY DEF Chains
  <2>5. \A h \in H \ {a, t} : \A x \in In(f, h) : g[x] = f[x]
    BY ZenonT(30), <2>1, <2>3, <2>4 DEF Sound
  <2>6. Chains(g, H \ {a, t}) /\ Same(f, g, H \ {a, t})
    BY <2>3, <2>5, FrameAll
  <2>7. Path(f, s) /\ s[1] = a /\ Sound(f, t)
    BY <2>1 DEF Ok
  <2>8. Len(s) \in 1 .. Last /\ s \in Seq(Cluster) /\ \A i \in 1 .. Len(s) : s[i] \in Cluster
    BY <2>7, ShortPath
  <2>9. /\ \A i, j \in 1 .. Len(s) : s[i] = s[j] => i = j
        /\ \A i \in 1 .. Len(s) - 1 : f[s[i]] = s[i + 1]
    BY <2>7 DEF Path
  <2>10. \A i \in 1 .. Len(s) : s[i] # t
    <3>1. \A i \in 1 .. Len(s) : s[i] \in In(f, a)
      BY DEF In
    <3>2. t \notin In(f, a)
      BY <2>7 DEF Chains, Sound
    <3>. QED
      BY <3>1, <3>2
  <2>11. c = s[Len(s)]
    <3>1. PICK i \in 1 .. Len(s) : c = s[i]
      BY DEF In
    <3>2. i = Len(s) \/ (i \in 1 .. Len(s) - 1 /\ i + 1 \in 1 .. Len(s))
      BY SMT, <2>8, Numbers
    <3>. QED
      BY <2>8, <2>9, <3>1, <3>2, Numbers
  <2>. HIDE DEF s
  <2>12. /\ z \in Seq(Cluster) /\ Len(z) = Len(s) + 1 /\ z[1] = s[1] /\ z[Len(z)] = t
         /\ \A i \in 1 .. Len(s) : z[i] = s[i]
    BY SMT, <2>1, <2>8
  <2>. HIDE DEF z
  <2>13. Path(g, z)
    <3>1. \A i, j \in 1 .. Len(z) : z[i] = z[j] => i = j
      <4>1. \A i \in 1 .. Len(z) : i = Len(z) \/ i \in 1 .. Len(s)
        BY SMT, <2>8, <2>12
      <4>2. ASSUME NEW i \in 1 .. Len(z), NEW j \in 1 .. Len(z), z[i] = z[j] PROVE i = j
        <5>1. CASE i \in 1 .. Len(s) /\ j \in 1 .. Len(s)
          <6>1. s[i] = s[j]
            BY <2>12, <4>2, <5>1
          <6>. QED
            BY <2>9, <5>1, <6>1
        <5>2. CASE i = Len(z) /\ j \in 1 .. Len(s)
          BY <2>10, <2>12, <4>2, <5>2
        <5>3. CASE j = Len(z) /\ i \in 1 .. Len(s)
          BY <2>10, <2>12, <4>2, <5>3
        <5>. QED
          BY <4>1, <5>1, <5>2, <5>3
      <4>. QED
        BY <4>2
    <3>2. ASSUME NEW i \in 1 .. Len(z) - 1 PROVE g[z[i]] = z[i + 1]
      <4>1. i = Len(s) \/ (i \in 1 .. Len(s) - 1 /\ i \in 1 .. Len(s) /\ i + 1 \in 1 .. Len(s) /\ i # Len(s))
        BY SMT, <2>8, <2>12, Numbers
      <4>2. Len(s) \in 1 .. Len(s) /\ Len(z) = Len(s) + 1
        BY SMT, <2>8, <2>12, Numbers
      <4>3. CASE i = Len(s)
        BY <2>3, <2>11, <2>12, <4>2, <4>3
      <4>4. CASE i \in 1 .. Len(s) - 1 /\ i \in 1 .. Len(s) /\ i + 1 \in 1 .. Len(s) /\ i # Len(s)
        <5>1. s[i] # c
          BY <2>9, <2>11, <4>2, <4>4
        <5>2. z[i] = s[i] /\ z[i + 1] = s[i + 1] /\ s[i] \in Cluster /\ f[s[i]] = s[i + 1]
          BY <2>8, <2>9, <2>12, <4>4
        <5>. QED
          BY <2>3, <5>1, <5>2
      <4>. QED
        BY <4>1, <4>3, <4>4
    <3>3. g[z[Len(z)]] = EOC
      <4>1. t # c
        <5>1. c \in In(f, a) /\ t \in In(f, t)
          BY <2>7 DEF Sound
        <5>. QED
          BY <2>4, <5>1
      <4>. QED
        BY <2>1, <2>3, <2>12, <4>1
    <3>4. Len(z) > 0
      BY SMT, <2>8, <2>12
    <3>. QED
      BY <2>12, <3>1, <3>2, <3>3, <3>4 DEF Path
  <2>14. Ok(g, a) /\ ChainIn(g, a) = z
    <3>1. Ok(g, z[1]) /\ ChainIn(g, z[1]) = z
      BY <2>3, <2>13, PathOk
    <3>. QED
      BY <2>7, <2>12, <3>1
  <2>15. In(g, a) \subseteq In(f, a) \cup {t}
    <3>1. \A i \in 1 .. Len(z) : i = Len(z) \/ i \in 1 .. Len(s)
      BY SMT, <2>8, <2>12
    <3>2. \A i \in 1 .. Len(z) : z[i] = t \/ z[i] \in In(f, a)
      BY <2>12, <3>1 DEF In, s
    <3>. QED
      BY <2>14, <3>2 DEF In
  <2>16. \A h \in H \ {a, t} : In(g, a) \cap In(g, h) = {}
    <3>1. \A h \in H \ {a, t} : In(g, h) = In(f, h)
      BY <2>6, SameIn DEF Same
    <3>2. \A h \in H \ {a, t} : In(f, a) \cap In(f, h) = {} /\ t \notin In(f, h)
      BY <2>7 DEF Chains, Sound
    <3>. QED
      BY <2>15, <3>1, <3>2
  <2>17. Chains(g, (H \ {a, t}) \cup {a})
    BY <2>1, <2>6, <2>14, <2>16, AddHead
  <2>18. (H \ {a, t}) \cup {a} = H \ {t}
    OBVIOUS
  <2>. QED
    BY <2>3, <2>6, <2>11, <2>14, <2>17, <2>18 DEF g, s, z
<1>JoinsRoot. ASSUME NEW f \in FatType, NEW H, Chains(f, H), Root \in H, NEW t \in H, t # Root,
             f[t] = EOC, NEW c \in In(f, Root), f[c] = EOC, NEW g, g = [f EXCEPT ![c] = t]
      PROVE  Joined(f, g, H, t, c)
  <2>. USE <1>JoinsRoot
  <2> DEFINE k == [f EXCEPT ![c] = t]
  <2>1. /\ k \in FatType /\ Chains(k, H \ {t}) /\ Same(f, k, H \ {Root, t})
        /\ ChainIn(k, Root) = Append(ChainIn(f, Root), t)
        /\ c = ChainIn(f, Root)[Len(ChainIn(f, Root))]
    BY ZenonT(30), <1>Joining
  <2>2. g = k
    BY SMT
  <2>. HIDE DEF k
  <2>. QED
    BY <2>1, <2>2 DEF Joined
\* No cluster is lost by it.
<1>JoinedSpace. ASSUME NEW f \in FatType, NEW H, Chains(f, H), Root \in H, NEW t \in H, t # Root, f[t] = EOC,
             NEW c, f[c] = EOC, NEW g, g = [f EXCEPT ![c] = t], Joined(f, g, H, t, c), SpaceInv(f, H),
             ChainIn(f, Root) \in Seq(Cluster)
      PROVE  SpaceInv(g, H \ {t})
  <2>. USE <1>JoinedSpace
  <2>1. SUFFICES ASSUME NEW x \in Cluster, g[x] # Free PROVE \E h \in H \ {t} : x \in In(g, h)
    BY DEF SpaceInv
  <2>2. f[x] # Free
    <3>1. x # c => g[x] = f[x]
      BY DEF FatType
    <3>. QED
      BY <2>1, <3>1, Numbers
  <2>3. PICK h \in H : x \in In(f, h)
    BY <2>2 DEF SpaceInv
  <2> DEFINE r == ChainIn(f, Root)
             s == Append(r, t)
  <2>4. /\ \A i \in 1 .. Len(r) : s[i] = r[i] /\ i \in 1 .. Len(s)
        /\ s[Len(s)] = t /\ Len(s) \in 1 .. Len(s)
    BY AppendFacts
  <2>5. ChainIn(g, Root) = s
    BY DEF Joined
  <2>. HIDE DEF s
  <2>6. CASE h = t
    <3>1. x = t
      <4>1. t \in Cluster
        BY DEF Chains
      <4>2. In(f, t) = {t}
        BY <4>1, Single
      <4>. QED
        BY <2>3, <2>6, <4>2
    <3>2. x \in In(g, Root)
      BY <2>4, <2>5, <3>1 DEF In
    <3>. QED
      BY <3>2
  <2>7. CASE h = Root
    <3>1. PICK i \in 1 .. Len(r) : x = r[i]
      BY <2>3, <2>7 DEF In
    <3>2. x \in In(g, Root)
      BY <2>4, <2>5, <3>1 DEF In
    <3>. QED
      BY <3>2
  <2>8. CASE h # t /\ h # Root
    <3>1. h \in H \ {Root, t} /\ h \in H \ {t}
      BY <2>8
    <3>2. In(g, h) = In(f, h)
      BY <3>1, SameIn DEF Joined, Same
    <3>. QED
      BY <2>3, <3>1, <3>2
  <2>. QED
    BY <2>6, <2>7, <2>8
\* The call p has linked the root to the cluster t, which is empty.
<1>ScanLinks. ASSUME NEW f, NEW d, NEW r, IsRoot(f, r), NEW p, ScanInv(d, r, p), p.at = "link",
             NEW t, \A o \in 1 .. Slots : d[t][o].kind = "end", p.cur = r[Len(r)],
             NEW q, Becomes(p, q, "zero", p.chain, p.cur, p.off, t, p.freed)
      PROVE  ScanInv(d, Append(r, t), q)
  <2>. USE <1>ScanLinks
  <2>1. /\ q.at = "zero" /\ q.cur = p.cur /\ q.name = p.name /\ q.unlinks = p.unlinks /\ q.freed = p.freed
        /\ q.todo = t
    BY DEF Becomes
  <2>2. /\ q.at \notin {"idle", "alloc"} /\ q.at \notin {"free", "write"} /\ p.at \notin {"free", "write"}
        /\ p.at \in {"grow", "link", "zero"}
    BY SMT, <2>1
  <2>3. ~q.freed
    BY <2>1, <2>2 DEF ScanInv
  <2>4. ~q.unlinks /\ \A o \in 1 .. Slots : ~Called(d, <<q.cur, o>>, q.name)
    BY <2>1, <2>2 DEF ScanInv
  <2>5. r \in Seq(Cluster) /\ Len(r) \in Nat /\ Len(r) >= 1
    BY DEF IsRoot, Path
  <2>6. PICK k \in 1 .. Len(r) : Reached(d, r, p, k)
    BY DEF ScanInv
  <2>7. k = Len(r)
    <3>1. r[k] = r[Len(r)] /\ Len(r) \in 1 .. Len(r)
      BY <2>5, <2>6, Ends DEF Reached
    <3>. QED
      BY <3>1 DEF IsRoot, Path
  <2> DEFINE s == Append(r, t)
  <2>8. /\ Len(s) = Len(r) + 1 /\ s[Len(s)] = t
        /\ \A i \in 1 .. Len(r) : s[i] = r[i] /\ i \in 1 .. Len(s)
    BY ZenonT(30), <2>5, AppendFacts
  <2>. HIDE DEF s
  <2>9. k \in 1 .. Len(s) /\ k + 1 = Len(s) /\ s[k + 1] = t /\ s[k] = r[k]
    BY <2>7, <2>8
  <2>10. Reached(d, s, q, k)
    <3>1. \A j \in 1 .. k - 1 : j \in 1 .. Len(r)
      BY SMT, <2>5
    <3>2. \A j \in 1 .. k - 1 : s[j] = r[j]
      BY <2>8, <3>1
    <3>. QED
      BY <2>1, <2>6, <2>9, <3>2 DEF Reached
  <2>11. ScanInv(d, s, q)
    BY <2>1, <2>2, <2>3, <2>4, <2>9, <2>10 DEF ScanInv
  <2>. QED
    BY <2>11 DEF s
<1> SUFFICES ASSUME Typed, InvNow, grow_link, ~torn'
             PROVE  InvNext
  OBVIOUS
<1> DEFINE t == op.todo
           r == ChainIn(fat, Root)
           H == Heads(dir, op)
<1>1. op.at = "link" /\ UNCHANGED <<dir, body, creates, want>>
  BY DEF grow_link
<1>2. /\ t \in Cluster /\ fat' = [fat EXCEPT ![op.cur] = t]
      /\ Becomes(op, op', "zero", op.chain, op.cur, op.off, t, op.freed)
      /\ SuccIn(fat, op.cur) = 0
  BY DoesLink
<1>3. /\ op'.at = "zero" /\ op'.chain = op.chain /\ op'.freed = op.freed /\ op'.name = op.name
      /\ op'.size = op.size /\ op'.unlinks = op.unlinks
  BY <1>2 DEF Becomes
<1>4. /\ op.at # "alloc" /\ op.at # "free" /\ op'.at # "alloc" /\ op'.at # "link" /\ op'.at # "free"
      /\ op.at \notin {"free", "write"} /\ op.at \in {"grow", "link", "zero"}
  BY SMT, <1>1, <1>3
<1>5. ~op.freed /\ ~op'.freed
  BY <1>3, <1>4, NotFreed
<1>6. /\ IsRoot(fat, r) /\ ScanInv(dir, r, op) /\ NewInv(fat, body, op, creates) /\ FatInv(fat, dir, op)
      /\ fat \in FatType /\ DirInv(dir, In(fat, Root)) /\ Chains(fat, H) /\ Apart(dir, op)
  BY NowFacts, TypedParts DEF FatInv
<1>7. Drawn(op') = Drawn(op) /\ Loose(op') = {} /\ Loose(op) = {t}
  BY <1>1, <1>3, <1>4 DEF Drawn, Loose
<1>8. t \in H /\ t # Root /\ Root \in H
  BY <1>6, <1>7, FirstsAreHeads, RootIsHead DEF Apart
<1>9. fat[t] = EOC
  BY <1>1, <1>4, <1>6 DEF NewInv
<1>10. op.cur \in In(fat, Root)
  BY <1>6 DEF ScanInv, Reached, IsRoot
<1>11. fat[op.cur] = EOC
  <2>1. fat[op.cur] = EOC \/ fat[op.cur] \in Cluster
    BY <1>6, <1>10 DEF IsRoot, Sound
  <2>2. fat[op.cur] \in Cluster => fat[op.cur] = 0
    BY <1>2 DEF SuccIn
  <2>. QED
    BY <2>1, <2>2, Numbers
<1>. HIDE DEF t, r, H
<1>12. Joined(fat, fat', H, t, op.cur)
  BY ZenonT(30), <1>2, <1>6, <1>8, <1>9, <1>10, <1>11, <1>JoinsRoot
<1>13. /\ Chains(fat', H \ {t}) /\ Same(fat, fat', H \ {Root, t})
       /\ ChainIn(fat', Root) = Append(r, t) /\ op.cur = r[Len(r)]
  BY <1>12 DEF Joined, r
<1>14. GivesUp(op, op') /\ Yields(dir, op, op')
  BY <1>5, StillYields
<1>15. Firsts(dir, op') = Firsts(dir, op)
  BY <1>14, LiveSame
<1>16. Apart(dir, op')
  <2>1. Drawn(op) \in SUBSET Drawn(op) /\ {} \in SUBSET Loose(op)
    OBVIOUS
  <2>2. FatInv(fat, dir, op')
    BY <1>6, <1>7, <1>14, <2>1, Quiet
  <2>. QED
    BY <2>2 DEF FatInv
<1>17. /\ Root \notin Firsts(dir, op) /\ Root \notin Drawn(op) /\ t \notin Firsts(dir, op) /\ t \notin Drawn(op)
  BY <1>6, <1>7 DEF Apart
<1>18. Heads(dir, op') = H \ {t}
  BY <1>7, <1>8, <1>15, <1>17 DEF Heads, H
<1>19. Firsts(dir, op') \in SUBSET (H \ {Root, t}) /\ Drawn(op) \in SUBSET (H \ {Root, t})
  BY <1>15, <1>17, FirstsAreHeads DEF H
<1>20. r \in Seq(Cluster) /\ Len(r) \in Nat
  BY <1>6 DEF IsRoot, Path
<1>21. Starts(r, ChainIn(fat', Root))
  <2>1. \A i \in 1 .. Len(r) : Append(r, t)[i] = r[i] /\ i \in 1 .. Len(Append(r, t))
    BY <1>20, AppendFacts
  <2>. QED
    BY <1>13, <2>1 DEF Starts
<1>22. Steps(dir, op, op')
  <2>1. Untouched(fat, fat', body, body, Firsts(dir, op'))
    BY <1>13, <1>19, SameUntouched
  <2>2. Chains(fat', Heads(dir, op'))
    BY <1>13, <1>18
  <2>. QED
    BY ZenonT(30), <1>1, <1>14, <1>16, <1>21, <2>1, <2>2 DEF Steps, Reforms, r
<1>23. NewInv(fat', body', op', creates')
  <2>1. Same(fat, fat', Drawn(op))
    BY <1>13, <1>19 DEF Same
  <2>2. NewInv(fat', body, op', creates)
    BY <1>3, <1>4, <1>6, <2>1, CarryNew
  <2>. QED
    BY <1>1, <2>2
<1>24. ScanInv(dir, ChainIn(fat', Root), op')
  <2>1. t \notin In(fat, Root)
    <3>1. In(fat, t) = {t}
      BY <1>2, <1>6, <1>9, Single DEF t
    <3>2. In(fat, t) \cap In(fat, Root) = {}
      BY <1>6, <1>8 DEF Chains
    <3>. QED
      BY <3>1, <3>2
  <2>2. \A o \in 1 .. Slots : dir[t][o].kind = "end"
    BY <1>2, <1>6, <2>1 DEF DirInv, t
  <2>3. ScanInv(dir, Append(r, t), op')
    BY ZenonT(30), <1>1, <1>2, <1>6, <1>13, <2>2, <1>ScanLinks DEF t
  <2>. QED
    BY <1>13, <2>3
<1>25. InvOf(fat', dir', body', op', creates', want')
  BY <1>1, <1>22, <1>23, <1>24, FatStep
<1>26. SpaceInv(fat, H) => SpaceInv(fat', H \ {t})
  BY ZenonT(30), <1>2, <1>6, <1>8, <1>9, <1>11, <1>12, <1>20, <1>JoinedSpace DEF r
<1>27. SpaceInv(fat, Heads(dir, op)) => SpaceInv(fat', Heads(dir', op'))
  BY <1>1, <1>18, <1>26 DEF H
<1>. QED
  BY <1>25, <1>27 DEF InvNext

-----------------------------------------------------------------------------
(* A new cluster of the root is emptied *)

IsNamed(s, o, n) == s[o].kind = "file" /\ s[o].name = n

\* What is said of an entry, as said of its slot.
LEMMA Cell ==
  ASSUME NEW d, NEW c, NEW o
  PROVE  /\ IsFile(d, <<c, o>>) <=> d[c][o].kind = "file"
         /\ \A n : Called(d, <<c, o>>, n) <=> IsNamed(d[c], o, n)
         /\ FirstOf(d, <<c, o>>) = d[c][o].first /\ SizeOf(d, <<c, o>>) = d[c][o].size
<1>1. <<c, o>>[1] = c /\ <<c, o>>[2] = o
  BY SMT
<1>. QED
  BY <1>1 DEF IsFile, Called, FirstOf, SizeOf, IsNamed

\* A call that moves on to a new cluster of the root keeps all else.
LEMMA SetAtCurTodo ==
  ASSUME NEW p \in OpType, NEW x \in AtType, NEW c \in Cluster, NEW t \in {0} \cup Cluster
  PROVE  Becomes(p, [p EXCEPT !.at = x, !.cur = c, !.todo = t], x, p.chain, c, p.off, t, p.freed)
BY DEF OpType, AtType, Becomes

\* What grow_zero does to the directory and the call.
LEMMA DoesZero ==
  ASSUME Typed, grow_zero
  PROVE  /\ op.todo \in Cluster /\ dir' = [dir EXCEPT ![op.todo] = [o \in 1 .. Slots |-> End]]
         /\ Becomes(op, op', "scan", op.chain, op.todo, op.off, 0, op.freed)
<1>1. op.todo \in Cluster
  BY TypedParts DEF TypedCall, grow_zero
<1>2. "scan" \in AtType /\ 0 \in {0} \cup Cluster
  BY DEF AtType
<1>3. Becomes(op, [op EXCEPT !.at = "scan", !.cur = op.todo, !.todo = 0], "scan", op.chain, op.todo, op.off, 0, op.freed)
  BY <1>1, <1>2, TypedParts, SetAtCurTodo
<1>. QED
  BY <1>1, <1>3 DEF grow_zero

\* What names read back as depends on the call only by what it has freed.
LEMMA WantSame ==
  ASSUME NEW f, NEW d, NEW b, NEW p, NEW q, NEW wt, WantInv(f, d, b, p, wt),
         p.freed => q.freed /\ q.name = p.name
  PROVE  WantInv(f, d, b, q, wt)
<1>1. \A n : ~(q.freed /\ q.name = n) => ~(p.freed /\ p.name = n)
  OBVIOUS
<1>. QED
  BY <1>1 DEF WantInv

\* Calls that hold and give up the same have the same heads.
LEMMA HeadsSame ==
  ASSUME NEW d, NEW p, NEW q, GivesUp(p, q), Drawn(q) = Drawn(p), Loose(q) = Loose(p)
  PROVE  Heads(d, q) = Heads(d, p)
<1>1. Firsts(d, q) = Firsts(d, p)
  BY LiveSame
<1>. QED
  BY <1>1 DEF Heads

\* The directories d and e have the same entries.
Alike(d, e) == \A c \in Cluster : \A o \in 1 .. Slots :
  d[c][o] = e[c][o] \/ (d[c][o].kind = "end" /\ e[c][o].kind = "end")

\* ... as far as anything here asks.
AlikeAt(d, e, x) ==
  /\ IsFile(e, x) <=> IsFile(d, x)
  /\ IsFile(d, x) => FirstOf(e, x) = FirstOf(d, x) /\ SizeOf(e, x) = SizeOf(d, x)
  /\ \A n : Called(e, x, n) <=> Called(d, x, n)

\* grow_zero preserves the invariant.
LEMMA StepZero == Typed /\ InvNow /\ grow_zero => InvNext
<1>AlikeEntries. ASSUME NEW d, NEW e, Alike(d, e)
      PROVE  /\ \A x \in Places : AlikeAt(d, e, x)
             /\ \A c \in Cluster : \A o \in 1 .. Slots : \A n : Called(e, <<c, o>>, n) <=> Called(d, <<c, o>>, n)
  <2>. USE <1>AlikeEntries
  <2>0. "end" # "file"
    BY SMT
  <2>1. ASSUME NEW c \in Cluster, NEW o \in 1 .. Slots PROVE AlikeAt(d, e, <<c, o>>)
    <3>1. CASE d[c][o] = e[c][o]
      <4>1. /\ d[c][o].kind = e[c][o].kind /\ d[c][o].first = e[c][o].first /\ d[c][o].size = e[c][o].size
            /\ d[c][o].name = e[c][o].name
        BY <3>1
      <4>. QED
        BY SMT, <4>1 DEF AlikeAt, IsFile, FirstOf, SizeOf, Called
    <3>2. CASE d[c][o].kind = "end" /\ e[c][o].kind = "end"
      <4>1. ~IsFile(d, <<c, o>>) /\ ~IsFile(e, <<c, o>>)
        BY <2>0, <3>2, Cell
      <4>. QED
        BY <4>1 DEF AlikeAt, Called
    <3>. QED
      BY <2>1, <3>1, <3>2 DEF Alike
  <2>2. \A x \in Places : x = <<x[1], x[2]>> /\ x[1] \in Cluster /\ x[2] \in 1 .. Slots
    BY SMT DEF Places
  <2>3. \A x \in Places : AlikeAt(d, e, x)
    BY <2>1, <2>2
  <2>. QED
    BY <2>1, <2>3 DEF AlikeAt
<1>AlikeInv. ASSUME NEW f, NEW d, NEW e, NEW b, NEW p, NEW wt, Alike(d, e), IsRoot(f, ChainIn(f, Root)),
             FatInv(f, d, p), WantInv(f, d, b, p, wt), DirInv(d, In(f, Root))
      PROVE  /\ FatInv(f, e, p) /\ Heads(e, p) = Heads(d, p) /\ WantInv(f, e, b, p, wt)
             /\ DirInv(e, In(f, Root))
  <2>. USE <1>AlikeInv
  <2>1. \A x \in Places : AlikeAt(d, e, x)
    BY <1>AlikeEntries
  <2>2. Live(e, p) = Live(d, p)
    BY <2>1 DEF Live, AlikeAt
  <2>3. \A x \in Live(d, p) : FirstOf(e, x) = FirstOf(d, x) /\ SizeOf(e, x) = SizeOf(d, x)
    BY <2>1 DEF Live, AlikeAt
  <2>4. Firsts(e, p) = Firsts(d, p)
    BY <2>2, <2>3 DEF Firsts
  <2>5. Heads(e, p) = Heads(d, p)
    BY <2>4 DEF Heads
  <2>6. Apart(e, p)
    <3>1. Apart(d, p)
      BY DEF FatInv
    <3>2. \A x, y \in Live(e, p) : FirstOf(e, x) = FirstOf(e, y) /\ FirstOf(e, x) # 0 => x = y
      BY <2>2, <2>3, <3>1 DEF Apart
    <3>. QED
      BY <2>4, <3>1, <3>2 DEF Apart
  <2>7. SizesInv(f, e, p)
    <3>1. SizesInv(f, d, p)
      BY DEF FatInv
    <3>. QED
      BY <2>2, <2>3, <3>1 DEF SizesInv
  <2>8. FatInv(f, e, p)
    <3>1. Chains(f, Heads(d, p))
      BY DEF FatInv
    <3>. QED
      BY <2>5, <2>6, <2>7, <3>1 DEF FatInv
  <2>9. \A c \in Cluster : \A o \in 1 .. Slots : e[c][o].kind = "end" <=> d[c][o].kind = "end"
    BY DEF Alike
  <2>10. DirInv(e, In(f, Root))
    <3>1. SUFFICES ASSUME NEW c \in Cluster, NEW o \in 1 .. Slots
                   PROVE  /\ c \notin In(f, Root) => e[c][o].kind = "end"
                          /\ e[c][o].kind = "end" => \A q \in o .. Slots : e[c][q].kind = "end"
      BY DEF DirInv
    <3>2. /\ c \notin In(f, Root) => d[c][o].kind = "end"
          /\ d[c][o].kind = "end" => \A q \in o .. Slots : d[c][q].kind = "end"
      BY <3>1 DEF DirInv
    <3>3. \A q \in o .. Slots : q \in 1 .. Slots
      BY SMT, <3>1, Numbers
    <3>. QED
      BY <2>9, <3>1, <3>2, <3>3
  <2>11. WantInv(f, e, b, p, wt)
    <3> DEFINE r == ChainIn(f, Root)
    <3>1. SUFFICES ASSUME NEW n \in Names, wt[n][2] > 0, ~(p.freed /\ p.name = n)
                   PROVE  \E i \in 1 .. Len(r), o \in 1 .. Slots :
                            FirstEntry(e, r, n, i, o) /\ Holds(f, b, e, <<r[i], o>>, wt[n])
      BY DEF WantInv
    <3>2. PICK i \in 1 .. Len(r), o \in 1 .. Slots : FirstEntry(d, r, n, i, o) /\ Holds(f, b, d, <<r[i], o>>, wt[n])
      BY <3>1 DEF WantInv
    <3>3. Len(r) \in Nat /\ Slots \in Nat /\ \A j \in 1 .. Len(r) : r[j] \in Cluster
      BY Numbers DEF IsRoot
    <3>. HIDE DEF r
    <3>4. (\A j \in 1 .. i - 1 : j \in 1 .. Len(r)) /\ (\A q \in 1 .. o - 1 : q \in 1 .. Slots)
      BY SMT, <3>3
    <3>5. \A j \in 1 .. Len(r) : \A q \in 1 .. Slots : Called(e, <<r[j], q>>, n) <=> Called(d, <<r[j], q>>, n)
      BY <3>3, <1>AlikeEntries
    <3>6. FirstEntry(e, r, n, i, o)
      BY <3>2, <3>4, <3>5 DEF FirstEntry
    <3>7. AlikeAt(d, e, <<r[i], o>>) /\ IsFile(d, <<r[i], o>>)
      <4>1. <<r[i], o>> \in Places
        BY <3>3 DEF Places
      <4>. QED
        BY <2>1, <3>2, <4>1 DEF FirstEntry, Called
    <3>8. Holds(f, b, e, <<r[i], o>>, wt[n])
      <4>1. FirstOf(e, <<r[i], o>>) = FirstOf(d, <<r[i], o>>) /\ SizeOf(e, <<r[i], o>>) = SizeOf(d, <<r[i], o>>)
        BY <3>7 DEF AlikeAt
      <4>. QED
        BY <3>2, <4>1 DEF Holds
    <3>. QED
      BY <3>6, <3>8
  <2>. QED
    BY <2>5, <2>8, <2>10, <2>11
\* The call p goes on in the new cluster of the root.
<1>ScanZeroes. ASSUME NEW f, NEW d, NEW e, Alike(d, e), NEW r, IsRoot(f, r), NEW p, ScanInv(d, r, p), p.at = "zero",
             NEW q, Becomes(p, q, "scan", p.chain, p.todo, p.off, 0, p.freed)
      PROVE  ScanInv(e, r, q)
  <2>. USE <1>ScanZeroes
  <2>1. q.at = "scan" /\ q.cur = p.todo /\ q.name = p.name /\ q.freed = p.freed
    BY DEF Becomes
  <2>2. /\ q.at \notin {"idle", "alloc"} /\ q.at # "zero" /\ q.at \notin {"grow", "link", "zero"}
        /\ q.at \notin {"free", "write"} /\ p.at \notin {"free", "write"} /\ p.at \in {"grow", "link", "zero"}
    BY SMT, <2>1
  <2>3. ~q.freed /\ \A o \in 1 .. Slots : ~Called(d, <<p.cur, o>>, p.name)
    BY <2>1, <2>2 DEF ScanInv
  <2>4. PICK k \in 1 .. Len(r) : Reached(d, r, p, k) /\ k + 1 = Len(r) /\ r[k + 1] = p.todo
    BY DEF ScanInv
  <2>5. Len(r) \in Nat /\ Len(r) >= 1 /\ \A i \in 1 .. Len(r) : r[i] \in Cluster
    BY DEF IsRoot
  <2>6. k + 1 \in 1 .. Len(r) /\ \A j \in 1 .. (k + 1) - 1 : (j = k \/ j \in 1 .. k - 1) /\ j \in 1 .. Len(r)
    BY SMT, <2>4, <2>5
  <2>7. \A j \in 1 .. (k + 1) - 1 : \A o \in 1 .. Slots : ~Called(d, <<r[j], o>>, p.name)
    BY <2>3, <2>4, <2>6 DEF Reached
  <2>8. \A j \in 1 .. (k + 1) - 1 : \A o \in 1 .. Slots : ~Called(e, <<r[j], o>>, p.name)
    BY <2>5, <2>6, <2>7, <1>AlikeEntries
  <2>9. Reached(e, r, q, k + 1)
    BY <2>1, <2>4, <2>8 DEF Reached
  <2>. QED
    BY <2>2, <2>3, <2>6, <2>9 DEF ScanInv
<1> SUFFICES ASSUME Typed, InvNow, grow_zero
             PROVE  InvNext
  OBVIOUS
<1> DEFINE r == ChainIn(fat, Root)
<1>1. op.at = "zero" /\ UNCHANGED <<fat, body, creates, want>>
  BY DEF grow_zero
<1>2. /\ op.todo \in Cluster /\ dir' = [dir EXCEPT ![op.todo] = [o \in 1 .. Slots |-> End]]
      /\ Becomes(op, op', "scan", op.chain, op.todo, op.off, 0, op.freed)
  BY DoesZero
<1>3. /\ op'.at = "scan" /\ op'.chain = op.chain /\ op'.freed = op.freed
      /\ op'.size = op.size /\ op'.unlinks = op.unlinks
  BY <1>2 DEF Becomes
<1>4. /\ op.at # "alloc" /\ op.at # "link" /\ op.at # "free" /\ op.at \notin {"free", "write"}
      /\ op'.at # "alloc" /\ op'.at # "link" /\ op'.at # "free"
  BY SMT, <1>1, <1>3
<1>5. ~op.freed /\ ~op'.freed
  BY <1>3, <1>4, NotFreed
<1>6. /\ IsRoot(fat, r) /\ ScanInv(dir, r, op) /\ NewInv(fat, body, op, creates) /\ FatInv(fat, dir, op)
      /\ DirInv(dir, In(fat, Root)) /\ WantInv(fat, dir, body, op, want) /\ dir \in DirType
  BY NowFacts, TypedParts
<1>7. Alike(dir, dir')
  <2>1. \A c \in Cluster : c # op.todo => dir'[c] = dir[c]
    BY <1>2, <1>6 DEF DirType
  <2>2. \A o \in 1 .. Slots : dir'[op.todo][o] = End
    BY <1>2, <1>6 DEF DirType
  <2>3. \A o \in 1 .. Slots : dir[op.todo][o].kind = "end"
    BY <1>1, <1>6 DEF ScanInv
  <2>4. End.kind = "end"
    BY NewSlots
  <2>. QED
    BY <2>1, <2>2, <2>3, <2>4 DEF Alike
<1>8. Drawn(op') = Drawn(op) /\ Loose(op') = Loose(op)
  BY <1>3, <1>4, <1>5 DEF Drawn, Loose
<1>9. GivesUp(op, op')
  BY <1>5 DEF GivesUp
<1>10. FatInv(fat, dir, op') /\ Heads(dir, op') = Heads(dir, op)
  <2>1. Drawn(op) \in SUBSET Drawn(op) /\ Loose(op) \in SUBSET Loose(op)
    OBVIOUS
  <2>2. FatInv(fat, dir, op')
    BY <1>6, <1>8, <1>9, <2>1, Quiet
  <2>3. Heads(dir, op') = Heads(dir, op)
    BY <1>8, <1>9, HeadsSame
  <2>. QED
    BY <2>2, <2>3
<1>11. WantInv(fat, dir, body, op', want)
  BY <1>5, <1>6, WantSame
<1>. HIDE DEF r
<1>12. /\ FatInv(fat, dir', op') /\ Heads(dir', op') = Heads(dir, op') /\ WantInv(fat, dir', body, op', want)
       /\ DirInv(dir', In(fat, Root))
  BY <1>6, <1>7, <1>10, <1>11, <1>AlikeInv DEF r
<1>13. ScanInv(dir', r, op')
  <2>1. op.at = "zero" /\ Becomes(op, op', "scan", op.chain, op.todo, op.off, 0, op.freed)
    BY <1>1, <1>2
  <2>2. IsRoot(fat, r) /\ ScanInv(dir, r, op)
    BY <1>6
  <2>. QED
    BY <1>7, <2>1, <2>2, <1>ScanZeroes
<1>14. NewInv(fat, body, op', creates)
  <2>1. Same(fat, fat, Drawn(op))
    BY DEF Same
  <2>. QED
    BY <1>3, <1>4, <1>6, <2>1, CarryNew
<1>15. InvOf(fat, dir', body, op', creates, want)
  BY <1>12, <1>13, <1>14 DEF InvOf, r
<1>16. Heads(dir', op') = Heads(dir, op)
  BY <1>10, <1>12
<1>. QED
  BY <1>1, <1>15, <1>16 DEF InvNext

-----------------------------------------------------------------------------
(* What a reader of the disk finds *)

\* The entries before the end of the directory are those that are no end.
LEMMA UsedIs ==
  ASSUME NEW s, EndsLast(s)
  PROVE  Used(s) = {o \in 1 .. Slots : s[o].kind # "end"}
<1>1. ASSUME NEW o \in 1 .. Slots, s[o].kind # "end" PROVE \A i \in 1 .. o : s[i].kind # "end"
  <2>1. \A i \in 1 .. o : i \in 1 .. Slots /\ o \in i .. Slots
    BY SMT, Numbers
  <2>. QED
    BY <1>1, <2>1 DEF EndsLast
<1>2. \A o \in 1 .. Slots : o \in 1 .. o
  BY SMT
<1>. QED
  BY <1>1, <1>2 DEF Used

\* The clusters that read_chain visits are those of a path.
LEMMA ChainRange ==
  ASSUME NEW h, Ok(fat, h)
  PROVE  /\ Chain(h) = ChainIn(fat, h) /\ Range(Chain(h)) = In(fat, h)
         /\ DOMAIN Chain(h) = 1 .. Len(ChainIn(fat, h)) /\ Len(ChainIn(fat, h)) \in Nat
<1>1. Chain(h) = ChainIn(fat, h)
  BY ChainOf
<1>2. ChainIn(fat, h) \in Seq(Cluster)
  BY DEF Ok, Path
<1>3. DOMAIN ChainIn(fat, h) = 1 .. Len(ChainIn(fat, h)) /\ Len(ChainIn(fat, h)) \in Nat
  BY SMT, <1>2
<1>4. Range(Chain(h)) = In(fat, h)
  BY <1>1, <1>3 DEF Range, In
<1>. QED
  BY <1>1, <1>3, <1>4

\* The entries that read_file sees are all there are.
LEMMA EntriesAre ==
  ASSUME Typed, InvNow
  PROVE  Entries = Live(dir, op)
<1>1. /\ DirInv(dir, In(fat, Root)) /\ IsRoot(fat, ChainIn(fat, Root))
  BY NowFacts
<1>2. Ok(fat, Root) /\ In(fat, Root) \subseteq Cluster
  BY <1>1 DEF IsRoot, Sound
<1>3. Range(Chain(Root)) = In(fat, Root)
  BY <1>2, ChainRange
<1>4. \A c \in Cluster : Used(dir[c]) = {o \in 1 .. Slots : dir[c][o].kind # "end"}
  BY <1>1, EndsLastIn, UsedIs
<1>5. "file" # "end"
  BY SMT
<1>6. Entries = {e \in In(fat, Root) \X (1 .. Slots) :
                   /\ e[2] \in Used(dir[e[1]]) /\ dir[e[1]][e[2]].kind = "file"
                   /\ ~(op.freed /\ e = <<op.cur, op.off>>)}
  BY <1>3 DEF Entries
<1>7. ASSUME NEW e \in Entries PROVE e \in Live(dir, op)
  <2>1. e \in In(fat, Root) \X (1 .. Slots) /\ dir[e[1]][e[2]].kind = "file" /\ ~(op.freed /\ e = <<op.cur, op.off>>)
    BY <1>6, <1>7
  <2>2. e \in Places
    BY SMT, <1>2, <2>1 DEF Places
  <2>. QED
    BY <2>1, <2>2 DEF Live, IsFile
<1>8. ASSUME NEW e \in Live(dir, op) PROVE e \in Entries
  <2>1. e \in Places /\ dir[e[1]][e[2]].kind = "file" /\ ~(op.freed /\ e = <<op.cur, op.off>>)
    BY <1>8 DEF Live, IsFile
  <2>2. e[1] \in Cluster /\ e[2] \in 1 .. Slots /\ e = <<e[1], e[2]>>
    BY SMT, <2>1 DEF Places
  <2>3. e[1] \in In(fat, Root)
    BY <1>1, <1>5, <2>1, <2>2 DEF DirInv
  <2>4. e[2] \in Used(dir[e[1]])
    BY <1>4, <1>5, <2>1, <2>2
  <2>5. e \in In(fat, Root) \X (1 .. Slots)
    BY SMT, <2>2, <2>3
  <2>. QED
    BY <1>6, <2>1, <2>4, <2>5
<1>. QED
  BY <1>7, <1>8

\* The chain of an entry, and its clusters.
FileIn(e) == IF FirstOf(dir, e) = 0 THEN {} ELSE In(fat, FirstOf(dir, e))

\* The chain of a live entry is that of its head, and as long as its size.
LEMMA FileChainIs ==
  ASSUME Typed, InvNow, NEW e \in Live(dir, op)
  PROVE  /\ Range(FileChain(e)) = FileIn(e) /\ Len(FileChain(e)) = SizeOf(dir, e)
         /\ FirstOf(dir, e) # 0 => /\ FirstOf(dir, e) \in Firsts(dir, op) /\ Ok(fat, FirstOf(dir, e))
                                   /\ FirstOf(dir, e) \in Heads(dir, op)
                                   /\ FileChain(e) = ChainIn(fat, FirstOf(dir, e))
<1>1. FatInv(fat, dir, op)
  BY NowFacts
<1>2. Chains(fat, Heads(dir, op)) /\ SizesInv(fat, dir, op)
  BY <1>1 DEF FatInv
<1>3. FileChain(e) = IF FirstOf(dir, e) = 0 THEN << >> ELSE Chain(FirstOf(dir, e))
  BY DEF FileChain, FirstOf
<1>4. CASE FirstOf(dir, e) = 0
  <2>1. FileChain(e) = << >> /\ SizeOf(dir, e) = 0
    BY <1>2, <1>3, <1>4 DEF SizesInv
  <2>2. Range(<< >>) = {} /\ Len(<< >>) = 0
    BY SMT DEF Range
  <2>. QED
    BY <1>4, <2>1, <2>2 DEF FileIn
<1>5. CASE FirstOf(dir, e) # 0
  <2>1. FirstOf(dir, e) \in Firsts(dir, op) /\ FirstOf(dir, e) \in Heads(dir, op)
    BY <1>5, FirstIn, FirstsAreHeads
  <2>2. Ok(fat, FirstOf(dir, e))
    BY <1>2, <2>1 DEF Chains
  <2>3. FileChain(e) = ChainIn(fat, FirstOf(dir, e)) /\ Range(FileChain(e)) = In(fat, FirstOf(dir, e))
    BY <1>3, <1>5, <2>2, ChainRange
  <2>4. Len(ChainIn(fat, FirstOf(dir, e))) = SizeOf(dir, e)
    BY <1>2, <1>5 DEF SizesInv
  <2>. QED
    BY <1>5, <2>1, <2>2, <2>3, <2>4 DEF FileIn
<1>. QED
  BY <1>4, <1>5

\* Where every long name is followed by the entry of its file, an entry is read
\* under its own name.
LEMMA ReadAsNamed ==
  ASSUME Typed, InvNow, Paired, NEW e \in Entries, NEW n
  PROVE  IsReadAs(e, n) <=> dir[e[1]][e[2]].name = n
<1> DEFINE r == Chain(Root)
           R == Range(Chain(Root)) \X (1 .. Slots)
<1>1. e \in R /\ dir[e[1]][e[2]].kind = "file"
  BY DEF Entries
<1>2. ASSUME NEW d \in Parts(e) PROVE d = <<e[1], e[2] - 1>> /\ dir[d[1]][d[2]].name = dir[e[1]][e[2]].name
  <2>1. /\ d \in R /\ dir[d[1]][d[2]].kind = "long" /\ Before(d, e)
        /\ \A x \in R : ~(dir[x[1]][x[2]].kind = "file" /\ Before(d, x) /\ Before(x, e))
    BY <1>2 DEF Parts
  <2> DEFINE x == <<d[1], d[2] + 1>>
  <2>2. d[1] \in Range(Chain(Root)) /\ d[2] \in 1 .. Slots
    BY SMT, <2>1
  <2>3. d[2] < Slots /\ dir[d[1]][d[2] + 1].kind = "file" /\ dir[d[1]][d[2] + 1].name = dir[d[1]][d[2]].name
    BY <2>1, <2>2 DEF Paired
  <2>4. x \in R /\ x[1] = d[1] /\ x[2] = d[2] + 1 /\ d[2] < d[2] + 1
    BY SMT, <2>2, <2>3, Numbers
  <2>. HIDE DEF x, R
  <2>5. Before(d, x)
    BY <2>4 DEF Before
  <2>6. ~Before(x, e)
    BY <2>1, <2>3, <2>4, <2>5
  <2>7. d[1] = e[1] /\ d[2] < e[2] /\ ~(d[2] + 1 < e[2])
    BY <2>1, <2>4, <2>6 DEF Before
  <2>8. e[2] \in 1 .. Slots /\ d = <<d[1], d[2]>>
    BY SMT, <1>1, <2>1 DEF R
  <2>9. e[2] = d[2] + 1 /\ d[2] = e[2] - 1
    BY SMT, <2>2, <2>7, <2>8, Numbers
  <2>. QED
    BY <2>3, <2>7, <2>8, <2>9
<1>3. Parts(e) = {} \/ \E d : Parts(e) = {d} /\ dir[d[1]][d[2]].name = dir[e[1]][e[2]].name
  BY <1>2
<1>. QED
  BY <1>3 DEF IsReadAs

\* The place x is the first in the directory that is in S.
IsEarliest(S, x) == \A d \in S : d = x \/ Before(x, d)

\* Under the invariant, a reader finds what was written.
LEMMA ReadsBack == IInv => ReadBack
<1>EarliestIs. ASSUME Typed, InvNow, Paired, NEW n, NEW i \in 1 .. Len(ChainIn(fat, Root)), NEW o \in 1 .. Slots,
             FirstEntry(dir, ChainIn(fat, Root), n, i, o), <<ChainIn(fat, Root)[i], o>> \in Found(n)
      PROVE  Earliest(Found(n)) = <<ChainIn(fat, Root)[i], o>>
  <2>. USE <1>EarliestIs
  <2> DEFINE r == ChainIn(fat, Root)
             x == <<r[i], o>>
  <2>1. IsRoot(fat, r)
    BY NowFacts
  <2>2. Ok(fat, Root) /\ In(fat, Root) = {r[k] : k \in 1 .. Len(r)} /\ (\A a, b \in 1 .. Len(r) : r[a] = r[b] => a = b)
    BY <2>1 DEF IsRoot, In, Path
  <2>3. Chain(Root) = r /\ DOMAIN r = 1 .. Len(r) /\ Range(Chain(Root)) = In(fat, Root) /\ Len(r) \in Nat
    BY <2>2, ChainRange
  <2>4. x[1] = r[i] /\ x[2] = o
    BY SMT
  <2>. HIDE DEF r, x
  <2>5. ASSUME NEW d \in Found(n)
        PROVE  \E k \in 1 .. Len(r), q \in 1 .. Slots : d = <<r[k], q>> /\ d[1] = r[k] /\ d[2] = q /\ Called(dir, <<r[k], q>>, n)
    <3>1. d \in Entries /\ dir[d[1]][d[2]].name = n
      BY <2>5, ReadAsNamed DEF Found
    <3>2. d \in In(fat, Root) \X (1 .. Slots) /\ dir[d[1]][d[2]].kind = "file"
      BY <2>3, <3>1 DEF Entries
    <3>3. d[1] \in In(fat, Root) /\ d[2] \in 1 .. Slots /\ d = <<d[1], d[2]>>
      BY SMT, <3>2
    <3>4. PICK k \in 1 .. Len(r) : d[1] = r[k]
      BY <2>2, <3>3
    <3>5. Called(dir, <<d[1], d[2]>>, n)
      <4>1. IsNamed(dir[d[1]], d[2], n)
        BY <3>1, <3>2 DEF IsNamed
      <4>. QED
        BY <4>1, Cell
    <3>. QED
      BY <3>3, <3>4, <3>5
  <2>6. /\ Called(dir, <<r[i], o>>, n)
        /\ \A q \in 1 .. o - 1 : ~Called(dir, <<r[i], q>>, n)
        /\ \A j \in 1 .. i - 1 : \A q \in 1 .. Slots : ~Called(dir, <<r[j], q>>, n)
    BY DEF FirstEntry, r
  <2>7. /\ \A k \in 1 .. Len(r) : k \in 1 .. i - 1 \/ k = i \/ i < k
        /\ \A k \in 1 .. Len(r) : k < i => k \in 1 .. i - 1
        /\ \A q \in 1 .. Slots : (q \in 1 .. o - 1 \/ q = o \/ o < q) /\ (q < o => q \in 1 .. o - 1)
    <3>1. i \in 1 .. Len(r)
      BY DEF r
    <3>. QED
      BY SMT, <2>3, <3>1, Numbers
  <2>8. x \in Found(n) /\ i \in 1 .. Len(r)
    BY DEF r, x
  <2>9. IsEarliest(Found(n), x)
    <3>1. SUFFICES ASSUME NEW d \in Found(n)
                   PROVE  \/ d = x
                          \/ \E a \in 1 .. Len(r), b \in 1 .. Len(r) : a < b /\ r[a] = x[1] /\ r[b] = d[1]
                          \/ x[1] = d[1] /\ x[2] < d[2]
      BY <2>3 DEF IsEarliest, Before
    <3>2. PICK k \in 1 .. Len(r), q \in 1 .. Slots :
            d = <<r[k], q>> /\ d[1] = r[k] /\ d[2] = q /\ Called(dir, <<r[k], q>>, n)
      BY <2>5, <3>1
    <3>3. CASE k = i
      BY <2>4, <2>6, <2>7, <3>2, <3>3 DEF x
    <3>4. CASE i < k
      BY <2>4, <2>8, <3>2, <3>4
    <3>. QED
      BY <2>6, <2>7, <3>2, <3>3, <3>4
  <2>10. ASSUME NEW d \in Found(n), IsEarliest(Found(n), d) PROVE d = x
    <3>1. PICK k \in 1 .. Len(r), q \in 1 .. Slots :
            d = <<r[k], q>> /\ d[1] = r[k] /\ d[2] = q /\ Called(dir, <<r[k], q>>, n)
      BY <2>5, <2>10
    <3>2. \/ \E a \in 1 .. Len(r), b \in 1 .. Len(r) : a < b /\ r[a] = d[1] /\ r[b] = x[1]
          \/ d[1] = x[1] /\ d[2] < x[2]
          \/ d = x
      BY <2>3, <2>8, <2>10 DEF IsEarliest, Before
    <3>3. CASE \E a \in 1 .. Len(r), b \in 1 .. Len(r) : a < b /\ r[a] = d[1] /\ r[b] = x[1]
      <4>1. PICK a \in 1 .. Len(r), b \in 1 .. Len(r) : a < b /\ r[a] = d[1] /\ r[b] = x[1]
        BY <3>3
      <4>2. a = k /\ b = i
        BY ZenonT(30), <2>2, <2>4, <2>8, <3>1, <4>1
      <4>. QED
        BY ZenonT(30), <2>6, <2>7, <3>1, <4>1, <4>2
    <3>4. CASE d[1] = x[1] /\ d[2] < x[2]
      <4>1. r[k] = r[i] /\ q < o
        BY <2>4, <3>1, <3>4
      <4>. QED
        BY <2>6, <2>7, <3>1, <4>1
    <3>. QED
      BY <3>2, <3>3, <3>4
  <2>11. Earliest(Found(n)) = CHOOSE e \in Found(n) : IsEarliest(Found(n), e)
    BY DEF Earliest, IsEarliest
  <2>12. Earliest(Found(n)) = x
    BY <2>8, <2>9, <2>10, <2>11
  <2>. QED
    BY <2>12 DEF x, r
<1>1. ASSUME Typed, InvNow, Paired, op = Idle, NEW n \in Names, want[n][2] > 0
      PROVE  Found(n) # {} /\ Data(n) = [i \in 1 .. want[n][2] |-> <<want[n][1], i>>]
  <2>1. ~op.freed
    BY SMT, <1>1 DEF Idle
  <2>2. PICK i \in 1 .. Len(ChainIn(fat, Root)), o \in 1 .. Slots :
          /\ FirstEntry(dir, ChainIn(fat, Root), n, i, o)
          /\ Holds(fat, body, dir, <<ChainIn(fat, Root)[i], o>>, want[n])
    <3>1. WantInv(fat, dir, body, op, want)
      BY <1>1, NowFacts
    <3>. QED
      BY <1>1, <2>1, <3>1 DEF WantInv
  <2> DEFINE c == ChainIn(fat, Root)[i]
             x == <<c, o>>
  <2>3. Called(dir, x, n) /\ Holds(fat, body, dir, x, want[n])
    BY <2>2 DEF FirstEntry
  <2>4. c \in Cluster
    BY <1>1, <2>2, NowFacts DEF IsRoot
  <2>5. x[1] = c /\ x[2] = o /\ x \in Places
    BY SMT, <2>2, <2>4 DEF Places
  <2>. HIDE DEF c
  <2>6. x \in Live(dir, op)
    <3>. HIDE DEF x
    <3>. QED
      BY <2>1, <2>3, <2>5 DEF Live, Called
  <2>7. x \in Found(n)
    <3>1. x \in Entries
      BY <1>1, <2>6, EntriesAre
    <3>. HIDE DEF x
    <3>. QED
      BY <1>1, <2>3, <3>1, ReadAsNamed DEF Found, Called
  <2>8. Earliest(Found(n)) = x
    BY <1>1, <2>2, <2>7, <1>EarliestIs DEF c
  <2>. HIDE DEF x
  <2> DEFINE s == FileChain(x)
             w == want[n]
  <2>9. s = ChainIn(fat, FirstOf(dir, x)) /\ Len(s) = SizeOf(dir, x) /\ Ok(fat, FirstOf(dir, x))
    BY <1>1, <2>3, <2>6, FileChainIs DEF Holds
  <2>10. DOMAIN s = 1 .. Len(s)
    <3>1. Chain(FirstOf(dir, x)) = ChainIn(fat, FirstOf(dir, x)) /\ DOMAIN Chain(FirstOf(dir, x)) = 1 .. Len(ChainIn(fat, FirstOf(dir, x)))
      BY <2>9, ChainRange
    <3>. HIDE DEF s
    <3>. QED
      BY <2>9, <3>1
  <2>. HIDE DEF s
  <2>11. DOMAIN s = 1 .. w[2] /\ \A k \in 1 .. w[2] : body[s[k]] = <<w[1], k>>
    BY <2>3, <2>9, <2>10 DEF Holds
  <2>12. Data(n) = [k \in DOMAIN s |-> body[s[k]]]
    BY <2>8 DEF Data, s
  <2>. HIDE DEF w
  <2>13. Data(n) = [k \in 1 .. w[2] |-> <<w[1], k>>]
    BY <2>11, <2>12
  <2>. QED
    BY <2>7, <2>13 DEF w
<1>. QED
  BY <1>1 DEF IInv, InvNow, ReadBack

\* What the call has taken for the new file: in chains of their own.
LEMMA NewIn ==
  ASSUME Typed, InvNow
  PROVE  /\ \A c \in Range(op.chain) : \E h \in Drawn(op) : c \in In(fat, h)
         /\ \A h \in Drawn(op) : In(fat, h) \subseteq Range(op.chain)
<1>1. NewInv(fat, body, op, creates) /\ FatInv(fat, dir, op) /\ op.chain \in Seq(Cluster) /\ fat \in FatType
  BY NowFacts, TypedParts
<1> DEFINE s == op.chain
<1>2. /\ DOMAIN s = 1 .. Len(s) /\ (\A i \in 1 .. Len(s) : s[i] \in Cluster)
      /\ (s # << >> => 1 \in 1 .. Len(s)) /\ \A i \in 1 .. Len(s) : s # << >>
  BY SMT, <1>1
<1>3. Range(s) = {s[i] : i \in 1 .. Len(s)}
  BY <1>2 DEF Range
<1>4. CASE op.at = "alloc"
  <2>1. Drawn(op) = {s[i] : i \in 1 .. Len(s)}
    BY <1>4 DEF Drawn
  <2>2. \A i \in 1 .. Len(s) : fat[s[i]] = EOC
    BY <1>1, <1>4 DEF NewInv
  <2>3. \A h \in Drawn(op) : In(fat, h) = {h}
    <3>1. \A h \in Drawn(op) : h \in Cluster /\ fat[h] = EOC
      BY <1>2, <2>1, <2>2
    <3>. QED
      BY <1>1, <3>1, Single
  <2> DEFINE D == {s[i] : i \in 1 .. Len(s)}
  <2>4. Range(op.chain) = D
    BY <1>3
  <2>5. Drawn(op) = D
    BY <2>1
  <2>. HIDE DEF D
  <2>6. \A h \in D : In(fat, h) = {h}
    BY SMT, <2>3, <2>5
  <2>7. \A h \in D : h \in In(fat, h) /\ In(fat, h) \subseteq D
    BY <2>6
  <2>. QED
    BY SMT, <2>4, <2>5, <2>7
<1>5. CASE op.at # "alloc"
  <2>1. Drawn(op) = IF s = << >> THEN {} ELSE {s[1]}
    BY <1>5 DEF Drawn
  <2>2. s # << >> => ChainIn(fat, s[1]) = s
    BY <1>1, <1>5 DEF NewInv
  <2>3. s # << >> => In(fat, s[1]) = Range(s)
    BY <1>3, <2>2 DEF In
  <2>4. \A c \in Range(s) : s # << >>
    BY <1>2, <1>3
  <2>. HIDE DEF s
  <2>. QED
    BY <2>1, <2>3, <2>4 DEF s
<1>. QED
  BY <1>4, <1>5

\* Under the invariant, the chains that a reader follows meet nowhere.
LEMMA SharesNone == IInv => NoCrossLinks
<1>1. ASSUME Typed, InvNow
      PROVE  /\ \A e \in Entries :
                  /\ Len(FileChain(e)) = dir[e[1]][e[2]].size
                  /\ \A c \in Range(FileChain(e)) : fat[c] # Free
                  /\ Range(FileChain(e)) \cap (Range(Chain(Root)) \cup Range(op.chain)) = {}
             /\ \A d, e \in Entries : d # e => Range(FileChain(d)) \cap Range(FileChain(e)) = {}
  <2>1. Entries = Live(dir, op)
    BY <1>1, EntriesAre
  <2>2. /\ Chains(fat, Heads(dir, op)) /\ Apart(dir, op) /\ fat \in FatType /\ IsRoot(fat, ChainIn(fat, Root))
    BY <1>1, NowFacts, TypedParts DEF FatInv
  <2>3. Range(Chain(Root)) = In(fat, Root)
    BY <2>2, ChainRange DEF IsRoot
  <2>4. \A g, h \in Heads(dir, op) : g # h => In(fat, g) \cap In(fat, h) = {}
    BY <2>2 DEF Chains
  <2>5. ASSUME NEW e \in Live(dir, op)
        PROVE  /\ Range(FileChain(e)) = FileIn(e) /\ Len(FileChain(e)) = SizeOf(dir, e)
               /\ FirstOf(dir, e) # 0 => /\ FirstOf(dir, e) \in Firsts(dir, op) /\ Ok(fat, FirstOf(dir, e))
                                         /\ FirstOf(dir, e) \in Heads(dir, op)
    BY <1>1, <2>5, FileChainIs
  <2>6. ASSUME NEW e \in Live(dir, op)
        PROVE  /\ Len(FileChain(e)) = dir[e[1]][e[2]].size
               /\ \A c \in Range(FileChain(e)) : fat[c] # Free
               /\ Range(FileChain(e)) \cap (Range(Chain(Root)) \cup Range(op.chain)) = {}
    <3>1. Len(FileChain(e)) = dir[e[1]][e[2]].size
      BY <2>5, <2>6 DEF SizeOf
    <3>2. CASE FirstOf(dir, e) = 0
      <4>1. Range(FileChain(e)) = {}
        BY <2>5, <2>6, <3>2 DEF FileIn
      <4>. QED
        BY <3>1, <4>1
    <3>3. CASE FirstOf(dir, e) # 0
      <4> DEFINE h == FirstOf(dir, e)
      <4>1. Range(FileChain(e)) = In(fat, h) /\ h \in Firsts(dir, op) /\ h \in Heads(dir, op) /\ Ok(fat, h)
        BY <2>5, <2>6, <3>3 DEF FileIn
      <4>. HIDE DEF h
      <4>2. \A c \in In(fat, h) : fat[c] # Free
        BY <2>2, <4>1, Members DEF Sound
      <4>3. In(fat, h) \cap In(fat, Root) = {}
        <5>1. h # Root
          BY <2>2, <4>1 DEF Apart
        <5>. QED
          BY <2>4, <4>1, <5>1, RootIsHead
      <4>4. ASSUME NEW c \in In(fat, h), c \in Range(op.chain) PROVE FALSE
        <5>1. PICK g \in Drawn(op) : c \in In(fat, g)
          BY <1>1, <4>4, NewIn
        <5>2. g # h /\ g \in Heads(dir, op)
          BY <2>2, <4>1, <5>1, FirstsAreHeads DEF Apart
        <5>. QED
          BY <2>4, <4>1, <4>4, <5>1, <5>2
      <4>. QED
        BY ZenonT(30), <2>3, <3>1, <4>1, <4>2, <4>3, <4>4
    <3>. QED
      BY <3>2, <3>3
  <2>7. ASSUME NEW d \in Live(dir, op), NEW e \in Live(dir, op), d # e
        PROVE  Range(FileChain(d)) \cap Range(FileChain(e)) = {}
    <3>1. CASE FirstOf(dir, d) = 0 \/ FirstOf(dir, e) = 0
      BY <2>5, <2>7, <3>1 DEF FileIn
    <3>2. CASE FirstOf(dir, d) # 0 /\ FirstOf(dir, e) # 0
      <4>1. FirstOf(dir, d) # FirstOf(dir, e)
        BY <2>2, <2>7, <3>2 DEF Apart
      <4>2. In(fat, FirstOf(dir, d)) \cap In(fat, FirstOf(dir, e)) = {}
        BY <2>4, <2>5, <2>7, <3>2, <4>1
      <4>. QED
        BY <2>5, <2>7, <3>2, <4>2 DEF FileIn
    <3>. QED
      BY <3>1, <3>2
  <2>. QED
    BY <2>1, <2>6, <2>7
<1>. QED
  BY <1>1 DEF IInv, InvNow, NoCrossLinks

\* Under the invariant, what is taken is reached from somewhere.
LEMMA LosesNone == IInv => SpaceIsAccounted
<1> DEFINE Hand == IF op.at \in {"link", "free"} THEN Range(Chain(op.todo)) ELSE {}
           All  == Range(Chain(Root)) \cup (UNION {Range(FileChain(e)) : e \in Entries}) \cup Range(op.chain) \cup Hand
<1>1. ASSUME Typed, InvNow, SpaceInv(fat, Heads(dir, op)), NEW x \in Cluster, fat[x] # Free
      PROVE  x \in All
  <2>1. PICK h \in Heads(dir, op) : x \in In(fat, h)
    BY <1>1 DEF SpaceInv
  <2>2. Entries = Live(dir, op) /\ Chains(fat, Heads(dir, op)) /\ Ok(fat, h)
    <3>1. Entries = Live(dir, op)
      BY <1>1, EntriesAre
    <3>2. Chains(fat, Heads(dir, op))
      BY <1>1, NowFacts DEF FatInv
    <3>. QED
      BY <2>1, <3>1, <3>2 DEF Chains
  <2>3. Range(Chain(h)) = In(fat, h)
    BY <2>2, ChainRange
  <2>. HIDE DEF Hand
  <2>4. CASE h = Root
    BY <2>1, <2>3, <2>4
  <2>5. CASE h \in Firsts(dir, op)
    <3>1. PICK e \in Live(dir, op) : h = FirstOf(dir, e) /\ h # 0
      BY <2>5 DEF Firsts
    <3>2. Range(FileChain(e)) = In(fat, h)
      BY <1>1, <3>1, FileChainIs DEF FileIn
    <3>. QED
      BY <2>1, <2>2, <3>2
  <2>6. CASE h \in Drawn(op)
    <3>1. In(fat, h) \subseteq Range(op.chain)
      BY <1>1, <2>6, NewIn
    <3>2. x \in Range(op.chain)
      BY <2>1, <3>1
    <3>. QED
      BY SMT, <3>2
  <2>7. CASE h \in Loose(op)
    <3>1. h = op.todo /\ (op.at = "link" \/ op.at = "free")
      BY <2>7 DEF Loose
    <3>2. op.at \in {"link", "free"}
      BY SMT, <3>1
    <3>3. x \in Hand
      BY <2>1, <2>3, <3>1, <3>2 DEF Hand
    <3>. QED
      BY SMT, <3>3
  <2>. QED
    BY <2>1, <2>4, <2>5, <2>6, <2>7 DEF Heads
<1>. QED
  <2>1. SUFFICES ASSUME IInv, ~failed PROVE Cluster \ FreeClusters \subseteq All
    BY DEF SpaceIsAccounted
  <2>2. Typed /\ InvNow /\ SpaceInv(fat, Heads(dir, op))
    BY <2>1 DEF IInv, InvNow, Typed
  <2>. HIDE DEF All
  <2>. QED
    BY <1>1, <2>2 DEF FreeClusters
=============================================================================
