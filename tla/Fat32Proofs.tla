---------------------------- MODULE Fat32Proofs -----------------------------
(***************************************************************************)
(* Proofs about the FAT32 driver's write path: the other steps, and the    *)
(* theorems.                                                               *)
(***************************************************************************)
EXTENDS Fat32Lemmas

USE Zenon


-----------------------------------------------------------------------------
(* The initial state *)

\* No call is typed.
LEMMA IdleTyped == TypedCall(Idle)
<1>1. Idle \in OpType /\ Idle.at = "idle"
  BY IdleFields
<1>. QED
  BY SMT, <1>1 DEF TypedCall

\* How many files the volume has at the mount, and where they are.
LEMMA ShippedFacts ==
  ASSUME NEW k \in 0 .. Len(Shipped)
  PROVE  /\ k \in 0 .. MaxCreates /\ Root + k \in Cluster /\ Root = 2 /\ k \in Nat
         /\ \A i \in 1 .. k : /\ Shipped[i] \in Names /\ 2 * i \in 1 .. Slots /\ i \in Nat /\ i # 0
                              /\ Root + i \in Cluster /\ Root + i # Root /\ Root + i # 0
         /\ \A i, j \in 1 .. k : /\ Shipped[i] = Shipped[j] => i = j
                                 /\ Root + i = Root + j => i = j
<1>1. Shipped \in Seq(Names) /\ 2 * Len(Shipped) <= Slots /\ Len(Shipped) + 2 <= Last /\ Len(Shipped) <= MaxCreates
  BY ShippedAssumption
<1>2. \A a, b \in DOMAIN Shipped : Shipped[a] = Shipped[b] => a = b
  BY ShippedAssumption DEF IsInjective
<1>3. Len(Shipped) \in Nat /\ DOMAIN Shipped = 1 .. Len(Shipped) /\ \A i \in 1 .. Len(Shipped) : Shipped[i] \in Names
  BY SMT, <1>1
<1>4. \A i \in 1 .. k : i \in 1 .. Len(Shipped)
  BY SMT, <1>3
<1>5. /\ k \in 0 .. MaxCreates /\ Root + k \in Cluster /\ Root = 2 /\ k \in Nat
      /\ \A i \in 1 .. k : /\ 2 * i \in 1 .. Slots /\ i \in Nat /\ i # 0
                           /\ Root + i \in Cluster /\ Root + i # Root /\ Root + i # 0
      /\ \A i, j \in 1 .. k : Root + i = Root + j => i = j
  BY SMT, <1>1, <1>3, Fat32Assumption DEF Root, Cluster
<1>6. \A i \in 1 .. k : Shipped[i] \in Names
  BY <1>3, <1>4
<1>7. \A i, j \in 1 .. k : Shipped[i] = Shipped[j] => i = j
  BY <1>2, <1>3, <1>4
<1>. QED
  BY <1>5, <1>6, <1>7

\* A slot of the root at the mount: behind the files an end, and a file's entry
\* only at the places of the files.
LEMMA ShippedSlots ==
  ASSUME NEW k \in 0 .. Len(Shipped), NEW o \in 1 .. Slots
  PROVE  /\ ShippedSlot(k, o) \in SlotType
         /\ ShippedSlot(k, o).kind = "end" <=> o > 2 * k
         /\ ShippedSlot(k, o).kind = "file" =>
              \E i \in 1 .. k : /\ o = 2 * i /\ ShippedSlot(k, o).name = Shipped[i]
                                /\ ShippedSlot(k, o).first = Root + i /\ ShippedSlot(k, o).size = 1
<1> DEFINE t == ShippedSlot(k, o)
<1>1. k \in Nat /\ o \in Nat /\ o > 0 /\ 1 \in 0 .. MaxClusters /\ 0 \in 0 .. MaxClusters
  BY SMT, ShippedFacts, Numbers, Fat32Assumption
<1>2. CASE o > 2 * k
  <2>1. t = End
    BY <1>2 DEF ShippedSlot
  <2>2. End \in SlotType /\ End.kind = "end" /\ "end" # "file"
    BY SMT, NewSlots
  <2>. HIDE DEF t
  <2>3. t \in SlotType /\ t.kind = "end" /\ t.kind # "file"
    BY <2>1, <2>2
  <2>. QED
    BY <1>2, <2>3 DEF t
<1>3. CASE ~(o > 2 * k) /\ o % 2 = 1
  <2> DEFINE j == (o + 1) \div 2
  <2>1. t = Slot("long", Shipped[j], 0, 0)
    BY <1>3 DEF ShippedSlot
  <2>2. j \in 1 .. k
    BY SMT, <1>1, <1>3
  <2>. HIDE DEF j, t
  <2>3. Shipped[j] \in Names
    BY <2>2, ShippedFacts
  <2>4. t \in SlotType /\ t.kind = "long" /\ t.kind # "file" /\ t.kind # "end"
    BY SMT, <1>1, <2>1, <2>3 DEF Slot, SlotType
  <2>. QED
    BY <1>3, <2>4 DEF t
<1>4. CASE ~(o > 2 * k) /\ o % 2 # 1
  <2> DEFINE j == o \div 2
  <2>1. t = Slot("file", Shipped[j], Root + j, 1)
    BY <1>4 DEF ShippedSlot
  <2>2. j \in 1 .. k /\ o = 2 * j
    BY SMT, <1>1, <1>4
  <2>. HIDE DEF j, t
  <2>3. Shipped[j] \in Names /\ Root + j \in Cluster
    BY <2>2, ShippedFacts
  <2>4. /\ t \in SlotType /\ t.kind = "file" /\ t.kind # "end"
        /\ t.name = Shipped[j] /\ t.first = Root + j /\ t.size = 1
    BY SMT, <1>1, <2>1, <2>3 DEF Slot, SlotType
  <2>. QED
    BY <1>4, <2>2, <2>4 DEF t
<1>. QED
  BY <1>2, <1>3, <1>4

\* ... and at each of them there is one.
LEMMA ShippedFile ==
  ASSUME NEW k \in 0 .. Len(Shipped), NEW i \in 1 .. k
  PROVE  /\ ShippedSlot(k, 2 * i).kind = "file" /\ ShippedSlot(k, 2 * i).name = Shipped[i]
         /\ ShippedSlot(k, 2 * i).first = Root + i /\ ShippedSlot(k, 2 * i).size = 1
<1>1. ~(2 * i > 2 * k) /\ (2 * i) % 2 # 1 /\ (2 * i) \div 2 = i
  BY SMT, ShippedFacts
<1>2. ShippedSlot(k, 2 * i) = Slot("file", Shipped[i], Root + i, 1)
  BY <1>1 DEF ShippedSlot
<1>. QED
  BY SMT, <1>2 DEF Slot

\* The invariant holds at the mount.
LEMMA InitInv == Init => IInv
<1>1. SUFFICES ASSUME Init PROVE IInv
  BY SMT
<1>2. PICK k \in 0 .. Len(Shipped) :
      /\ fat = [c \in Cluster |-> IF c <= Root + k THEN EOC ELSE Free]
      /\ dir = [c \in Cluster |-> [o \in 1 .. Slots |-> IF c = Root THEN ShippedSlot(k, o) ELSE End]]
      /\ body = [c \in Cluster |-> IF c \in Root + 1 .. Root + k THEN <<c - Root, 1>> ELSE <<0, 0>>]
      /\ op = Idle /\ creates = k /\ failed = FALSE /\ torn = FALSE
      /\ want = [n \in Names |-> IF \E i \in 1 .. k : Shipped[i] = n
                                 THEN <<CHOOSE i \in 1 .. k : Shipped[i] = n, 1>> ELSE <<0, 0>>]
  BY <1>1 DEF Init
<1>3. /\ \A o \in 1 .. Slots : dir[Root][o] = ShippedSlot(k, o)
      /\ \A c \in Cluster : c # Root => \A o \in 1 .. Slots : dir[c][o] = End /\ dir[c][o].kind = "end"
  BY <1>2, Numbers, NewSlots
<1>4. fat \in FatType /\ dir \in DirType /\ TypedCall(op)
  <2>1. End \in SlotType /\ \A o \in 1 .. Slots : ShippedSlot(k, o) \in SlotType
    BY NewSlots, ShippedSlots
  <2>2. dir \in DirType
    BY <1>2, <2>1 DEF DirType
  <2>3. fat \in FatType
    BY <1>2 DEF FatType
  <2>4. TypedCall(op)
    BY <1>2, IdleTyped
  <2>. QED
    BY <2>2, <2>3, <2>4
<1>5. ASSUME NEW n \in Names
      PROVE  \/ want[n] = <<0, 0>> /\ ~(want[n][2] > 0)
             \/ \E i \in 1 .. k : Shipped[i] = n /\ want[n] = <<i, 1>> /\ want[n][1] = i /\ want[n][2] = 1
  <2>1. CASE ~\E i \in 1 .. k : Shipped[i] = n
    <3>1. want[n] = <<0, 0>>
      BY <1>2, <2>1
    <3>. QED
      BY SMT, <3>1
  <2>2. CASE \E i \in 1 .. k : Shipped[i] = n
    <3> DEFINE i == CHOOSE i \in 1 .. k : Shipped[i] = n
    <3>1. want[n] = <<i, 1>> /\ i \in 1 .. k /\ Shipped[i] = n
      BY <1>2, <2>2
    <3>. HIDE DEF i
    <3>2. <<i, 1>>[1] = i /\ <<i, 1>>[2] = 1
      BY SMT
    <3>. QED
      BY <3>1, <3>2
  <2>. QED
    BY <2>1, <2>2
<1>6. Typed
  <2>1. want \in WantType
    <3>1. ASSUME NEW n \in Names PROVE want[n] \in Nat \X (0 .. MaxClusters)
      <4>1. <<0, 0>> \in Nat \X (0 .. MaxClusters) /\ \A i \in 1 .. k : <<i, 1>> \in Nat \X (0 .. MaxClusters)
        BY SMT, Fat32Assumption, ShippedFacts
      <4>. QED
        BY <1>5, <4>1
    <3>2. want = [n \in Names |-> want[n]]
      BY <1>2
    <3>. QED
      BY <3>1, <3>2 DEF WantType
  <2>2. creates \in 0 .. MaxCreates
    BY <1>2, ShippedFacts
  <2>3. op.at \notin {"grow", "link"}
    BY SMT, <1>2, IdleFields
  <2>4. failed \in BOOLEAN /\ torn \in BOOLEAN /\ (torn => failed)
    BY <1>2
  <2>. QED
    BY <1>4, <2>1, <2>2, <2>3, <2>4 DEF Typed
<1>7. /\ Idle.at = "idle" /\ Idle.size = 0 /\ Idle.chain = << >> /\ Idle.cur = Root
      /\ Idle.freed = FALSE /\ Idle.at # "alloc" /\ Idle.at # "link" /\ Idle.at # "free"
      /\ Idle.at \in {"idle", "alloc", "scan"}
  BY SMT, IdleFields
<1>8. ASSUME NEW c \in Cluster, c <= Root + k
      PROVE  Ok(fat, c) /\ ChainIn(fat, c) = <<c>> /\ In(fat, c) = {c}
  BY <1>2, <1>4, <1>8, Single
<1>9. /\ Root \in Cluster /\ Root <= Root + k
      /\ \A i \in 1 .. k : Root + i \in Cluster /\ Root + i <= Root + k /\ Root + i # Root /\ Root + i # 0
  <2>1. Root <= Root + k /\ \A i \in 1 .. k : Root + i <= Root + k
    BY SMT, ShippedFacts
  <2>. QED
    BY <2>1, ShippedFacts, Numbers
<1>10. ASSUME NEW e \in Live(dir, Idle)
       PROVE  \E i \in 1 .. k : e = <<Root, 2 * i>> /\ FirstOf(dir, e) = Root + i /\ SizeOf(dir, e) = 1
  <2>1. e \in Places /\ dir[e[1]][e[2]].kind = "file"
    BY <1>10 DEF Live, IsFile
  <2>2. e[1] \in Cluster /\ e[2] \in 1 .. Slots /\ e = <<e[1], e[2]>> /\ "end" # "file"
    BY SMT, <2>1 DEF Places
  <2>3. e[1] = Root
    BY <1>3, <2>1, <2>2
  <2>4. dir[e[1]][e[2]] = ShippedSlot(k, e[2])
    BY <1>3, <2>2, <2>3
  <2>. QED
    BY <2>1, <2>2, <2>3, <2>4, ShippedSlots DEF FirstOf, SizeOf
<1>11. ASSUME NEW i \in 1 .. k
       PROVE  /\ <<Root, 2 * i>> \in Live(dir, Idle) /\ FirstOf(dir, <<Root, 2 * i>>) = Root + i
              /\ SizeOf(dir, <<Root, 2 * i>>) = 1 /\ Called(dir, <<Root, 2 * i>>, Shipped[i])
  <2>1. 2 * i \in 1 .. Slots /\ dir[Root][2 * i] = ShippedSlot(k, 2 * i)
    BY <1>3, ShippedFacts
  <2>2. <<Root, 2 * i>> \in Places
    BY SMT, <2>1, Numbers DEF Places
  <2>3. IsNamed(dir[Root], 2 * i, Shipped[i]) /\ dir[Root][2 * i].first = Root + i /\ dir[Root][2 * i].size = 1
    BY <2>1, ShippedFile DEF IsNamed
  <2>4. FirstOf(dir, <<Root, 2 * i>>) = Root + i /\ SizeOf(dir, <<Root, 2 * i>>) = 1
    <3>1. <<Root, 2 * i>>[1] = Root /\ <<Root, 2 * i>>[2] = 2 * i
      BY SMT
    <3>. QED
      BY <2>3, <3>1 DEF FirstOf, SizeOf
  <2>5. Called(dir, <<Root, 2 * i>>, Shipped[i])
    BY <2>3, Cell
  <2>6. IsFile(dir, <<Root, 2 * i>>)
    BY <2>5 DEF Called
  <2>. QED
    BY <1>7, <2>2, <2>4, <2>5, <2>6 DEF Live
<1>12. Drawn(Idle) = {} /\ Loose(Idle) = {}
  BY <1>7 DEF Drawn, Loose
<1>13. /\ \A h \in Firsts(dir, Idle) : \E i \in 1 .. k : h = Root + i
       /\ \A i \in 1 .. k : Root + i \in Firsts(dir, Idle)
  <2>1. \A h \in Firsts(dir, Idle) : \E i \in 1 .. k : h = Root + i
    BY <1>10 DEF Firsts
  <2>2. \A i \in 1 .. k : Root + i \in Firsts(dir, Idle)
    BY <1>9, <1>11 DEF Firsts
  <2>. QED
    BY <2>1, <2>2
<1>14. Heads(dir, Idle) = {Root} \cup Firsts(dir, Idle)
  BY <1>12 DEF Heads
<1>15. \A h \in Heads(dir, Idle) : h \in Cluster /\ h <= Root + k
  BY <1>9, <1>13, <1>14
<1>16. Chains(fat, Heads(dir, Idle))
  <2>1. \A h \in Heads(dir, Idle) : Ok(fat, h) /\ In(fat, h) = {h}
    BY <1>8, <1>15
  <2>. QED
    BY <1>15, <2>1 DEF Chains
<1>17. FatInv(fat, dir, Idle)
  <2>1. Root \notin Firsts(dir, Idle)
    BY <1>9, <1>13
  <2>2. \A a, b \in Live(dir, Idle) : FirstOf(dir, a) = FirstOf(dir, b) /\ FirstOf(dir, a) # 0 => a = b
    <3>1. SUFFICES ASSUME NEW a \in Live(dir, Idle), NEW b \in Live(dir, Idle), FirstOf(dir, a) = FirstOf(dir, b)
                   PROVE  a = b
      OBVIOUS
    <3>2. PICK i \in 1 .. k : a = <<Root, 2 * i>> /\ FirstOf(dir, a) = Root + i
      BY <1>10
    <3>3. PICK j \in 1 .. k : b = <<Root, 2 * j>> /\ FirstOf(dir, b) = Root + j
      BY <1>10
    <3>4. i = j
      BY <3>1, <3>2, <3>3, ShippedFacts
    <3>. QED
      BY <3>2, <3>3, <3>4
  <2>3. SizesInv(fat, dir, Idle)
    <3>1. SUFFICES ASSUME NEW e \in Live(dir, Idle)
                   PROVE  FirstOf(dir, e) # 0 /\ Len(ChainIn(fat, FirstOf(dir, e))) = SizeOf(dir, e)
      BY DEF SizesInv
    <3>2. PICK i \in 1 .. k : FirstOf(dir, e) = Root + i /\ SizeOf(dir, e) = 1
      BY <1>10
    <3>3. ChainIn(fat, Root + i) = <<Root + i>> /\ Root + i # 0
      BY <1>8, <1>9
    <3>4. Len(<<Root + i>>) = 1
      BY SMT
    <3>. QED
      BY <3>2, <3>3, <3>4
  <2>. QED
    BY <1>12, <1>16, <2>1, <2>2, <2>3 DEF FatInv, Apart
<1>18. DirInv(dir, In(fat, Root))
  <2>1. In(fat, Root) = {Root}
    BY <1>8, <1>9
  <2>2. \A o \in 1 .. Slots : \A q \in o .. Slots : q \in 1 .. Slots /\ (o > 2 * k => q > 2 * k)
    BY SMT, Numbers, ShippedFacts
  <2>3. ASSUME NEW o \in 1 .. Slots PROVE dir[Root][o].kind = "end" <=> o > 2 * k
    <3>1. dir[Root][o] = ShippedSlot(k, o)
      BY <1>3
    <3>2. ShippedSlot(k, o).kind = "end" <=> o > 2 * k
      BY ShippedSlots
    <3>. QED
      BY <3>1, <3>2
  <2>. QED
    BY <1>3, <2>1, <2>2, <2>3 DEF DirInv
<1>19. NewInv(fat, body, Idle, creates)
  <2>1. Len(Idle.chain) = Idle.size /\ \A i \in 1 .. Idle.size : FALSE
    BY SMT, <1>7
  <2>. QED
    BY <1>7, <2>1 DEF NewInv
<1>20. ScanInv(dir, ChainIn(fat, Root), Idle)
  <2>1. IsRoot(fat, ChainIn(fat, Root))
    BY <1>4, <1>16, RootIsHead, RootFacts
  <2>. QED
    BY <1>7, <2>1, ScanStart
<1>21. WantInv(fat, dir, body, Idle, want)
  <2>1. SUFFICES ASSUME NEW n \in Names, want[n][2] > 0
                 PROVE  \E i \in 1 .. Len(ChainIn(fat, Root)), o \in 1 .. Slots :
                          /\ FirstEntry(dir, ChainIn(fat, Root), n, i, o)
                          /\ Holds(fat, body, dir, <<ChainIn(fat, Root)[i], o>>, want[n])
    BY DEF WantInv
  <2>2. PICK i \in 1 .. k : Shipped[i] = n /\ want[n][1] = i /\ want[n][2] = 1
    BY <1>5, <2>1
  <2>3. ChainIn(fat, Root) = <<Root>> /\ ChainIn(fat, Root + i) = <<Root + i>>
    BY <1>8, <1>9
  <2>4. /\ Len(<<Root>>) = 1 /\ 1 \in 1 .. 1 /\ <<Root>>[1] = Root /\ <<Root + i>>[1] = Root + i
        /\ (\A j \in 1 .. 1 - 1 : FALSE) /\ \A j \in 1 .. 1 : j = 1
    BY SMT
  <2>5. 2 * i \in 1 .. Slots /\ \A q \in 1 .. 2 * i - 1 : q \in 1 .. Slots /\ q # 2 * i
    BY SMT, ShippedFacts, Numbers
  <2>6. \A q \in 1 .. 2 * i - 1 : ~Called(dir, <<Root, q>>, n)
    <3>1. SUFFICES ASSUME NEW q \in 1 .. 2 * i - 1, Called(dir, <<Root, q>>, n) PROVE FALSE
      OBVIOUS
    <3>2. q \in 1 .. Slots /\ q # 2 * i
      BY <2>5
    <3>3. dir[Root][q].kind = "file" /\ dir[Root][q].name = n /\ dir[Root][q] = ShippedSlot(k, q)
      <4>1. IsNamed(dir[Root], q, n)
        BY <3>1, Cell
      <4>. QED
        BY <1>3, <3>2, <4>1 DEF IsNamed
    <3>4. PICK j \in 1 .. k : q = 2 * j /\ Shipped[j] = n
      BY <3>2, <3>3, ShippedSlots
    <3>5. i = j
      BY <2>2, <3>4, ShippedFacts
    <3>. QED
      BY <3>2, <3>4, <3>5
  <2>7. FirstEntry(dir, <<Root>>, n, 1, 2 * i)
    BY <1>11, <2>2, <2>4, <2>6 DEF FirstEntry
  <2>8. body[Root + i] = <<i, 1>>
    <3>1. Root + i \in Root + 1 .. Root + k /\ (Root + i) - Root = i
      BY SMT, ShippedFacts
    <3>. QED
      BY <1>2, <1>9, <3>1
  <2>9. Holds(fat, body, dir, <<Root, 2 * i>>, want[n])
    BY <1>9, <1>11, <2>2, <2>3, <2>4, <2>8 DEF Holds
  <2>. QED
    BY <2>3, <2>4, <2>5, <2>7, <2>9
<1>22. InvOf(fat, dir, body, op, creates, want)
  BY <1>2, <1>17, <1>18, <1>19, <1>20, <1>21 DEF InvOf
<1>23. SpaceInv(fat, Heads(dir, op))
  <2>1. SUFFICES ASSUME NEW c \in Cluster, fat[c] # Free PROVE \E h \in Heads(dir, Idle) : c \in In(fat, h)
    BY <1>2 DEF SpaceInv
  <2>2. c <= Root + k
    BY <1>2, <2>1
  <2>3. c = Root \/ \E i \in 1 .. k : c = Root + i
    <3>1. c # Root => c - Root \in 1 .. k /\ c = Root + (c - Root)
      BY SMT, <2>2, ShippedFacts DEF Cluster
    <3>. QED
      BY <3>1
  <2>4. c \in Heads(dir, Idle)
    BY <1>13, <1>14, <2>3
  <2>. QED
    BY <1>8, <2>2, <2>4
<1>. QED
  BY <1>6, <1>22, <1>23 DEF IInv

-----------------------------------------------------------------------------
(* A call begins or stops *)

\* A call that has freed nothing may stop where it is.
LEMMA IdleInv ==
  ASSUME NEW f \in FatType, NEW d, NEW b, NEW p, NEW n, NEW m, NEW wt, InvOf(f, d, b, p, n, wt),
         p.freed = FALSE
  PROVE  InvOf(f, d, b, Idle, m, wt) /\ Heads(d, Idle) \subseteq Heads(d, p)
<1>1. /\ Idle.at = "idle" /\ Idle.size = 0 /\ Idle.chain = << >> /\ Idle.cur = Root
      /\ Idle.off = 0 /\ Idle.todo = 0 /\ Idle.freed = FALSE /\ Idle.unlinks = FALSE
  BY IdleFields
<1>2. Idle.at # "alloc" /\ Idle.at # "link" /\ Idle.at # "free" /\ Idle.at \in {"idle", "alloc", "scan"}
  BY SMT, <1>1
<1>3. Drawn(Idle) = {} /\ Loose(Idle) = {}
  BY <1>1, <1>2 DEF Drawn, Loose
<1>4. {} \in SUBSET Drawn(p) /\ {} \in SUBSET Loose(p) /\ GivesUp(p, Idle)
  BY <1>1 DEF GivesUp
<1>5. FatInv(f, d, Idle) /\ Heads(d, Idle) \subseteq Heads(d, p)
  BY <1>1, <1>3, <1>4, Quiet DEF InvOf
<1>6. IsRoot(f, ChainIn(f, Root))
  BY RootFacts, RootIsHead DEF InvOf, FatInv
<1>7. ScanInv(d, ChainIn(f, Root), Idle)
  BY <1>1, <1>2, <1>6, ScanStart
<1>8. WantInv(f, d, b, Idle, wt)
  BY WantSame DEF InvOf
<1>9. NewInv(f, b, Idle, m)
  <2>1. Len(Idle.chain) = Idle.size /\ \A i \in 1 .. Idle.size : FALSE
    BY SMT, <1>1
  <2>. QED
    BY <1>1, <1>2, <2>1 DEF NewInv
<1>. QED
  BY <1>5, <1>7, <1>8, <1>9 DEF InvOf

\* A call that stops without having given up a file leaves nothing behind but
\* clusters.
LEMMA StepStop ==
  ASSUME Typed, InvNow, op' = Idle, failed', ~op.freed, UNCHANGED <<fat, dir, body, creates, want>>
  PROVE  InvNext
<1>1. op.freed = FALSE
  BY SMT, TypedParts
<1>2. InvOf(fat, dir, body, Idle, creates, want)
  BY <1>1, TypedParts, IdleInv DEF InvNow
<1>. QED
  BY <1>2 DEF InvNext

\* A call that an error or a power cut stops, where it leaves nothing torn.
LEMMA StepInterrupted ==
  ASSUME Typed, InvNow, interrupted, ~torn'
  PROVE  InvNext
<1>1. op' = Idle /\ failed' /\ torn' = (torn \/ Tears) /\ UNCHANGED <<fat, dir, body, creates, want>>
  BY DEF interrupted, disk
<1>2. ~op.freed
  BY <1>1 DEF Tears
<1>. QED
  BY <1>1, <1>2, StepStop

\* A call that has done nothing yet.
Fresh(q) ==
  /\ q.at \in {"alloc", "scan"} /\ q.chain = << >> /\ q.cur = Root /\ q.freed = FALSE
  /\ q.size \in Nat /\ (q.at = "alloc" => q.unlinks = FALSE) /\ (q.at = "scan" => q.size = 0)

\* A call begins.
LEMMA Begins ==
  ASSUME NEW f \in FatType, NEW d, NEW b, NEW n, NEW m, NEW wt, InvOf(f, d, b, Idle, n, wt),
         NEW q, Fresh(q)
  PROVE  InvOf(f, d, b, q, m, wt) /\ Heads(d, q) = Heads(d, Idle)
<1>0. /\ q.at \in {"alloc", "scan"} /\ q.chain = << >> /\ q.cur = Root /\ q.freed = FALSE
      /\ q.size \in Nat /\ (q.at = "alloc" => q.unlinks = FALSE) /\ (q.at = "scan" => q.size = 0)
  BY DEF Fresh
<1>1. Idle.at = "idle" /\ Idle.chain = << >> /\ Idle.freed = FALSE
  BY IdleFields
<1>2. /\ Idle.at # "alloc" /\ Idle.at # "link" /\ Idle.at # "free"
      /\ q.at # "link" /\ q.at # "free" /\ q.at \in {"idle", "alloc", "scan"}
  BY SMT, <1>0, <1>1
<1>3. Drawn(Idle) = {} /\ Loose(Idle) = {} /\ Loose(q) = {}
  BY <1>1, <1>2 DEF Drawn, Loose
<1>4. Len(q.chain) = 0 /\ \A i \in 1 .. 0 : FALSE
  BY SMT, <1>0
<1>5. Drawn(q) = {}
  BY <1>0, <1>4 DEF Drawn
<1>6. GivesUp(Idle, q) /\ Drawn(Idle) \in SUBSET Drawn(Idle) /\ Loose(Idle) \in SUBSET Loose(Idle)
  BY <1>0, <1>1 DEF GivesUp
<1>7. Drawn(q) = Drawn(Idle) /\ Loose(q) = Loose(Idle)
  BY <1>3, <1>5
<1>8. FatInv(f, d, q) /\ Heads(d, q) = Heads(d, Idle)
  BY <1>6, <1>7, Quiet, HeadsSame DEF InvOf
<1>9. IsRoot(f, ChainIn(f, Root))
  BY RootFacts, RootIsHead DEF InvOf, FatInv
<1>10. ScanInv(d, ChainIn(f, Root), q)
  BY <1>0, <1>2, <1>9, ScanStart
<1>11. WantInv(f, d, b, q, wt)
  BY <1>1, WantSame DEF InvOf
<1>12. NewInv(f, b, q, m)
  <2>1. 0 <= q.size
    BY SMT, <1>0
  <2>2. CASE q.at = "alloc"
    BY <1>0, <1>4, <2>1, <2>2 DEF NewInv
  <2>3. CASE q.at = "scan"
    <3>1. q.at # "alloc" /\ q.at # "link" /\ Len(q.chain) = q.size
      BY SMT, <1>0, <1>4, <2>3
    <3>. QED
      BY <1>0, <1>4, <2>3, <3>1 DEF NewInv
  <2>. QED
    BY <1>0, <2>2, <2>3
<1>. QED
  BY <1>8, <1>10, <1>11, <1>12 DEF InvOf

\* The calls that begin.
Starting(n, k) == [Idle EXCEPT !.at = "alloc", !.name = n, !.size = k]

\* The fields of a create that starts.
LEMMA StartFields ==
  ASSUME NEW n \in Names, NEW k \in 0 .. MaxClusters
  PROVE  LET p == Starting(n, k)
         IN /\ p \in OpType /\ p.at = "alloc" /\ p.name = n /\ p.size = k /\ p.chain = << >>
            /\ p.cur = Root /\ p.off = 0 /\ p.todo = 0 /\ p.freed = FALSE /\ p.unlinks = FALSE
BY IdleFields DEF Starting, OpType, AtType

Removing(n)    == [Idle EXCEPT !.at = "scan", !.name = n, !.unlinks = TRUE]

\* The fields of an unlink that starts.
LEMMA RemoveFields ==
  ASSUME NEW n \in Names
  PROVE  LET p == Removing(n)
         IN /\ p \in OpType /\ p.at = "scan" /\ p.name = n /\ p.size = 0 /\ p.chain = << >>
            /\ p.cur = Root /\ p.off = 0 /\ p.todo = 0 /\ p.freed = FALSE /\ p.unlinks = TRUE
BY IdleFields DEF Removing, OpType, AtType

\* The start of create_root_file preserves the invariant.
LEMMA StepCreate ==
  ASSUME Typed, InvNow, NEW n \in Names, NEW k \in 0 .. MaxClusters, create_root_file(n, k)
  PROVE  InvNext
<1> DEFINE q == Starting(n, k)
<1>1. /\ q \in OpType /\ q.at = "alloc" /\ q.name = n /\ q.size = k /\ q.chain = << >>
      /\ q.cur = Root /\ q.off = 0 /\ q.todo = 0 /\ q.freed = FALSE /\ q.unlinks = FALSE
  BY StartFields
<1>2. op' = q /\ op = Idle /\ UNCHANGED <<fat, dir, body, want>>
  BY DEF create_root_file, disk, Starting
<1>. HIDE DEF q
<1>3. Fresh(q)
  BY SMT, <1>1 DEF Fresh
<1>4. InvOf(fat, dir, body, q, creates', want) /\ Heads(dir, q) = Heads(dir, Idle)
  <2>1. InvOf(fat, dir, body, Idle, creates, want)
    BY <1>2 DEF InvNow
  <2>. QED
    BY <1>3, <2>1, TypedParts, Begins
<1>. QED
  BY <1>2, <1>4 DEF InvNext

\* The start of unlink_root preserves the invariant.
LEMMA StepRemove ==
  ASSUME Typed, InvNow, NEW n \in Names, unlink_root(n)
  PROVE  InvNext
<1> DEFINE q == Removing(n)
<1>1. q.at = "scan" /\ q.size = 0 /\ q.chain = << >> /\ q.cur = Root /\ q.freed = FALSE
  BY RemoveFields
<1>2. op' = q /\ op = Idle /\ UNCHANGED <<fat, dir, body, creates, want>>
  BY DEF unlink_root, disk, Removing
<1>. HIDE DEF q
<1>3. Fresh(q)
  BY SMT, <1>1 DEF Fresh
<1>4. InvOf(fat, dir, body, q, creates, want) /\ Heads(dir, q) = Heads(dir, Idle)
  <2>1. InvOf(fat, dir, body, Idle, creates, want)
    BY <1>2 DEF InvNow
  <2>. QED
    BY <1>3, <2>1, TypedParts, Begins
<1>. QED
  BY <1>2, <1>4 DEF InvNext

-----------------------------------------------------------------------------
(* A free cluster is taken *)

\* A call that draws a cluster keeps all else.
LEMMA SetChain ==
  ASSUME NEW p \in OpType, NEW c \in Cluster
  PROVE  Becomes(p, [p EXCEPT !.chain = Append(@, c)], p.at, Append(p.chain, c), p.cur, p.off, p.todo, p.freed)
<1>1. Append(p.chain, c) \in Seq(Cluster)
  BY SMT DEF OpType
<1>. QED
  BY <1>1 DEF OpType, AtType, Becomes

\* Lowest is a least element.
LEMMA LowestIn ==
  ASSUME NEW S \in SUBSET Nat, S # {}
  PROVE  Lowest(S) \in S /\ \A d \in S : Lowest(S) <= d
<1>1. \E m \in S : \A k \in S : m <= k
  BY LeastNat
<1>. QED
  BY <1>1 DEF Lowest

\* The cluster that alloc_cluster takes is free.
LEMMA LowestFree ==
  ASSUME NEW S, S = FreeClusters, S # {}
  PROVE  Lowest(S) \in Cluster /\ fat[Lowest(S)] = Free
<1>1. S \in SUBSET Nat /\ \A c \in S : c \in Cluster /\ fat[c] = Free
  BY SMT, Numbers DEF FreeClusters
<1>. QED
  BY <1>1, LowestIn

\* What alloc_cluster does to the FAT and the call.
LEMMA DoesAlloc ==
  ASSUME Typed, alloc_cluster
  PROVE  \/ op' = Idle /\ failed' = TRUE /\ fat' = fat
         \/ /\ failed' = failed
            /\ \E c \in Cluster :
                 /\ fat[c] = Free /\ fat' = [fat EXCEPT ![c] = EOC]
                 /\ Becomes(op, op', "alloc", Append(op.chain, c), op.cur, op.off, op.todo, op.freed)
<1>1. CASE FreeClusters = {}
  BY <1>1 DEF alloc_cluster, GiveUp
<1>2. CASE FreeClusters # {}
  <2> DEFINE c == Lowest(FreeClusters)
  <2>1. c \in Cluster /\ fat[c] = Free
    BY <1>2, LowestFree
  <2>2. /\ fat' = [fat EXCEPT ![c] = EOC] /\ op' = [op EXCEPT !.chain = Append(@, c)]
        /\ failed' = failed /\ op.at = "alloc"
    BY <1>2 DEF alloc_cluster, Marked, Entered
  <2>. HIDE DEF c
  <2>3. Becomes(op, [op EXCEPT !.chain = Append(@, c)], op.at, Append(op.chain, c), op.cur, op.off, op.todo, op.freed)
    BY <2>1, TypedParts, SetChain
  <2>. QED
    BY <2>1, <2>2, <2>3
<1>. QED
  BY <1>1, <1>2

\* What grow_alloc does to the FAT and the call.
LEMMA DoesGrowAlloc ==
  ASSUME Typed, grow_alloc
  PROVE  \/ op' = Idle /\ failed' = TRUE /\ fat' = fat
         \/ /\ failed' = failed
            /\ \E c \in Cluster :
                 /\ fat[c] = Free /\ fat' = [fat EXCEPT ![c] = EOC]
                 /\ Becomes(op, op', "link", op.chain, op.cur, op.off, c, op.freed)
<1>1. CASE FreeClusters = {}
  BY <1>1 DEF grow_alloc, GiveUp
<1>2. CASE FreeClusters # {}
  <2> DEFINE c == Lowest(FreeClusters)
  <2>1. c \in Cluster /\ fat[c] = Free
    BY <1>2, LowestFree
  <2>2. /\ fat' = [fat EXCEPT ![c] = EOC] /\ op' = [op EXCEPT !.at = "link", !.todo = c]
        /\ failed' = failed
    BY <1>2 DEF grow_alloc, Marked, Entered
  <2>. HIDE DEF c
  <2>3. "link" \in AtType /\ c \in {0} \cup Cluster
    BY <2>1 DEF AtType
  <2>4. Becomes(op, [op EXCEPT !.at = "link", !.todo = c], "link", op.chain, op.cur, op.off, c, op.freed)
    BY <2>3, TypedParts, SetAtTodo
  <2>. QED
    BY <2>1, <2>2, <2>4
<1>. QED
  BY <1>1, <1>2

\* The call q has one cluster more than p.
Draws(p, q, c) ==
  \/ Drawn(q) = Drawn(p) \cup {c} /\ Loose(q) = Loose(p)
  \/ Drawn(q) = Drawn(p) /\ Loose(p) = {} /\ Loose(q) = {c}

\* A free cluster is taken, for the file or for the root.
LEMMA StepDraw == Typed /\ InvNow /\ (alloc_cluster \/ grow_alloc) => InvNext
\* A free cluster starts no chain, and is in none.
<1>FreeIsOutside. ASSUME NEW f \in FatType, NEW H, Chains(f, H), NEW c, f[c] = Free
      PROVE  c \notin H /\ \A h \in H : c \notin In(f, h)
  <2>. USE <1>FreeIsOutside
  <2>1. \A h \in H : Sound(f, h)
    BY Members DEF Chains
  <2>. QED
    BY <2>1 DEF Sound
\* alloc_cluster: a chain of one cluster.
<1>Drawing. ASSUME NEW f \in FatType, NEW H, Chains(f, H), NEW c \in Cluster, f[c] = Free
      PROVE  LET g == [f EXCEPT ![c] = EOC]
             IN g \in FatType /\ Chains(g, H \cup {c}) /\ Same(f, g, H) /\ ChainIn(g, c) = <<c>>
  <2>. USE <1>Drawing
  <2> DEFINE g == [f EXCEPT ![c] = EOC]
  <2>1. g \in FatType /\ g[c] = EOC /\ \A x \in Cluster : x # c => g[x] = f[x]
    BY DEF FatType
  <2>. HIDE DEF g
  <2>2. \A h \in H : Sound(f, h) /\ c \notin In(f, h)
    BY Members, <1>FreeIsOutside DEF Chains
  <2>3. \A h \in H : \A x \in In(f, h) : g[x] = f[x]
    BY <2>1, <2>2 DEF Sound
  <2>4. Chains(g, H) /\ Same(f, g, H)
    BY <2>1, <2>3, FrameAll
  <2>5. Ok(g, c) /\ ChainIn(g, c) = <<c>> /\ In(g, c) = {c}
    BY <2>1, Single
  <2>6. \A h \in H : In(g, c) \cap In(g, h) = {}
    <3>1. \A h \in H : In(g, h) = In(f, h)
      BY <2>4, SameIn DEF Same
    <3>. QED
      BY <2>2, <2>5, <3>1
  <2>7. Chains(g, H \cup {c})
    BY <2>4, <2>5, <2>6, AddHead
  <2>. QED
    BY <2>1, <2>4, <2>5, <2>7 DEF g
<1>DrawsHeads. ASSUME NEW d, NEW p, NEW q, NEW c, GivesUp(p, q), Apart(d, p), c \notin Heads(d, p), Draws(p, q, c)
      PROVE  Heads(d, q) = Heads(d, p) \cup {c} /\ Apart(d, q)
  <2>. USE <1>DrawsHeads
  <2>1. Live(d, q) = Live(d, p) /\ Firsts(d, q) = Firsts(d, p)
    BY LiveSame
  <2>2. Heads(d, q) = Heads(d, p) \cup {c}
    BY <2>1 DEF Heads, Draws
  <2>3. c # Root /\ c \notin Firsts(d, p) /\ c \notin Drawn(p) /\ c \notin Loose(p)
    BY DEF Heads
  <2>4. /\ Root \notin Firsts(d, p) /\ Root \notin Drawn(p) /\ Root \notin Loose(p)
        /\ Firsts(d, p) \cap Drawn(p) = {} /\ Firsts(d, p) \cap Loose(p) = {}
        /\ Drawn(p) \cap Loose(p) = {}
        /\ \A a, b \in Live(d, p) : FirstOf(d, a) = FirstOf(d, b) /\ FirstOf(d, a) # 0 => a = b
    BY DEF Apart
  <2>5. /\ Root \notin Drawn(q) /\ Root \notin Loose(q) /\ Firsts(d, p) \cap Drawn(q) = {}
        /\ Firsts(d, p) \cap Loose(q) = {} /\ Drawn(q) \cap Loose(q) = {}
    <3>1. CASE Drawn(q) = Drawn(p) \cup {c} /\ Loose(q) = Loose(p)
      BY <2>3, <2>4, <3>1
    <3>2. CASE Drawn(q) = Drawn(p) /\ Loose(p) = {} /\ Loose(q) = {c}
      BY <2>3, <2>4, <3>2
    <3>. QED
      BY <3>1, <3>2 DEF Draws
  <2>6. Apart(d, q)
    BY <2>1, <2>4, <2>5 DEF Apart
  <2>. QED
    BY <2>2, <2>6
\* A cluster is taken from the free ones.
<1>DrawsOne. ASSUME NEW f \in FatType, NEW d, NEW b, NEW p, NEW q, NEW c \in Cluster, f[c] = Free,
             FatInv(f, d, p), ~p.freed, ~q.freed, Draws(p, q, c), NEW g, g = [f EXCEPT ![c] = EOC]
      PROVE  /\ Reforms(f, g, d, b, b, p, q) /\ Same(f, g, Heads(d, p)) /\ c \notin Heads(d, p)
             /\ SpaceInv(f, Heads(d, p)) => SpaceInv(g, Heads(d, q))
  <2>. USE <1>DrawsOne
  <2> DEFINE H == Heads(d, p)
  <2>1. Chains(f, H) /\ Apart(d, p)
    BY DEF FatInv
  <2>2. c \notin H
    BY <2>1, <1>FreeIsOutside
  <2>3. Chains(g, H \cup {c}) /\ Same(f, g, H) /\ ChainIn(g, c) = <<c>>
    BY <2>1, <1>Drawing
  <2>4. GivesUp(p, q) /\ Yields(d, p, q)
    BY StillYields
  <2>5. Heads(d, q) = H \cup {c} /\ Apart(d, q)
    BY <2>1, <2>2, <2>4, <1>DrawsHeads
  <2>6. Firsts(d, q) \in SUBSET H
    BY <2>4, LiveSame, FirstsAreHeads
  <2>7. Untouched(f, g, b, b, Firsts(d, q))
    BY <2>3, <2>6, SameUntouched
  <2>8. Starts(ChainIn(f, Root), ChainIn(g, Root))
    BY <2>3, RootIsHead, SameStarts DEF Same
  <2>9. Reforms(f, g, d, b, b, p, q)
    BY <2>3, <2>4, <2>5, <2>7, <2>8 DEF Reforms
  <2>10. SpaceInv(f, H) => SpaceInv(g, H \cup {c})
    <3>1. SUFFICES ASSUME SpaceInv(f, H), NEW x \in Cluster, g[x] # Free
                   PROVE  \E h \in H \cup {c} : x \in In(g, h)
      BY DEF SpaceInv
    <3>2. CASE x = c
      <4>1. Len(ChainIn(g, c)) = 1 /\ ChainIn(g, c)[1] = c /\ 1 \in 1 .. 1
        BY SMT, <2>3
      <4>2. c \in In(g, c)
        BY <4>1 DEF In
      <4>. QED
        BY <3>2, <4>2
    <3>3. CASE x # c
      <4>1. g[x] = f[x]
        BY <3>3 DEF FatType
      <4>2. PICK h \in H : x \in In(f, h)
        BY <3>1, <4>1 DEF SpaceInv
      <4>3. In(g, h) = In(f, h)
        BY <2>3, SameIn DEF Same
      <4>. QED
        BY <4>2, <4>3
    <3>. QED
      BY <3>2, <3>3
  <2>. QED
    BY <2>2, <2>3, <2>5, <2>9, <2>10
<1>StepAlloc. ASSUME Typed, InvNow, alloc_cluster
      PROVE  InvNext
  <2>. USE <1>StepAlloc
  <2>1. op.at = "alloc" /\ Len(op.chain) < op.size /\ UNCHANGED <<dir, body, creates, want>>
    BY DEF alloc_cluster
  <2>2. op.at \notin {"free", "write"} /\ op.at # "link" /\ op.at # "free"
    BY SMT, <2>1
  <2>3. ~op.freed
    BY <2>2, NotFreed
  <2>4. CASE op' = Idle /\ failed' = TRUE /\ fat' = fat
    BY <2>1, <2>3, <2>4, StepStop
  <2>5. CASE /\ failed' = failed
             /\ \E c \in Cluster :
                  /\ fat[c] = Free /\ fat' = [fat EXCEPT ![c] = EOC]
                  /\ Becomes(op, op', "alloc", Append(op.chain, c), op.cur, op.off, op.todo, op.freed)
    <3>1. PICK c \in Cluster :
            /\ fat[c] = Free /\ fat' = [fat EXCEPT ![c] = EOC]
            /\ Becomes(op, op', "alloc", Append(op.chain, c), op.cur, op.off, op.todo, op.freed)
      BY <2>5
    <3> DEFINE s == op.chain
               u == Append(s, c)
    <3>2. /\ op'.at = "alloc" /\ op'.chain = u /\ op'.cur = op.cur /\ op'.freed = op.freed
          /\ op'.size = op.size /\ op'.unlinks = op.unlinks
      BY <3>1 DEF Becomes
    <3>3. s \in Seq(Cluster) /\ op.size \in Nat
      BY SMT, TypedParts
    <3>4. /\ Len(s) \in Nat /\ Len(u) = Len(s) + 1
          /\ \A i \in 1 .. Len(s) : u[i] = s[i] /\ i \in 1 .. Len(u)
          /\ u[Len(u)] = c
          /\ Len(u) \in 1 .. Len(u)
          /\ \A i \in 1 .. Len(u) : i = Len(u) \/ i \in 1 .. Len(s)
      BY <3>3, AppendFacts
    <3>5. Len(u) <= op.size
      <4>. HIDE DEF s, u
      <4>1. Len(s) < op.size
        BY <2>1 DEF s
      <4>. QED
        BY SMT, <3>3, <3>4, <4>1
    <3>. HIDE DEF s, u
    <3>6. Drawn(op') = Drawn(op) \cup {c}
      <4>1. Drawn(op) = {s[i] : i \in 1 .. Len(s)}
        BY <2>1 DEF Drawn, s
      <4>2. Drawn(op') = {u[i] : i \in 1 .. Len(u)}
        BY <3>2 DEF Drawn
      <4>. QED
        BY <3>4, <4>1, <4>2
    <3>7. Loose(op') = Loose(op) /\ ~op'.freed
      BY <2>1, <2>2, <2>3, <3>2 DEF Loose
    <3>8. FatInv(fat, dir, op) /\ fat \in FatType /\ Draws(op, op', c)
      BY <3>6, <3>7, NowFacts, TypedParts DEF Draws
    <3>9. /\ Reforms(fat, fat', dir, body, body, op, op') /\ Same(fat, fat', Heads(dir, op))
          /\ c \notin Heads(dir, op)
          /\ SpaceInv(fat, Heads(dir, op)) => SpaceInv(fat', Heads(dir, op'))
      BY <2>3, <3>1, <3>7, <3>8, <1>DrawsOne
    <3>10. Steps(dir, op, op')
      BY <2>1, <3>9 DEF Steps
    <3>11. /\ Len(s) <= op.size /\ op.cur = Root /\ ~op.unlinks
           /\ \A i, j \in 1 .. Len(s) : s[i] = s[j] => i = j
           /\ \A i \in 1 .. Len(s) : fat[s[i]] = EOC
      BY <2>1, NowFacts DEF NewInv, s
    <3>12. \A i \in 1 .. Len(s) : s[i] # c /\ s[i] \in Cluster
      <4>1. \A i \in 1 .. Len(s) : s[i] \in Drawn(op)
        BY <2>1 DEF Drawn, s
      <4>2. \A i \in 1 .. Len(s) : s[i] \in Cluster
        BY SMT, <3>3
      <4>. QED
        BY <3>9, <4>1, <4>2, FirstsAreHeads
    <3>13. NewInv(fat', body', op', creates')
      <4>1. ASSUME NEW i \in 1 .. Len(u), NEW j \in 1 .. Len(u), u[i] = u[j] PROVE i = j
        <5>1. (i = Len(u) \/ i \in 1 .. Len(s)) /\ (j = Len(u) \/ j \in 1 .. Len(s)) /\ u[Len(u)] = c
          BY <3>4
        <5>2. \A k \in 1 .. Len(s) : u[k] = s[k] /\ u[k] # c
          BY <3>4, <3>12
        <5>. QED
          BY <3>11, <4>1, <5>1, <5>2
      <4>2. fat'[c] = EOC /\ \A x \in Cluster : x # c => fat'[x] = fat[x]
        BY <3>1, <3>8 DEF FatType
      <4>3. ASSUME NEW i \in 1 .. Len(u) PROVE fat'[u[i]] = EOC
        <5>1. (i = Len(u) \/ i \in 1 .. Len(s)) /\ u[Len(u)] = c
          BY <3>4
        <5>2. CASE i \in 1 .. Len(s)
          <6>1. u[i] = s[i] /\ s[i] # c /\ s[i] \in Cluster /\ fat[s[i]] = EOC
            BY <3>4, <3>11, <3>12, <5>2
          <6>. QED
            BY <4>2, <6>1
        <5>. QED
          BY <4>2, <5>1, <5>2
      <4>. QED
        BY <3>2, <3>5, <3>11, <4>1, <4>3 DEF NewInv
    <3>14. ScanInv(dir, ChainIn(fat', Root), op')
      <4>1. ChainIn(fat', Root) = ChainIn(fat, Root)
        BY <3>9, RootIsHead DEF Same
      <4>2. IsRoot(fat, ChainIn(fat, Root)) /\ op'.cur = Root
        BY <3>2, <3>11, NowFacts
      <4>3. op'.freed = FALSE /\ op'.at \in {"idle", "alloc", "scan"}
        BY SMT, <2>3, <3>2, TypedParts
      <4>. QED
        BY <4>1, <4>2, <4>3, ScanStart
    <3>15. InvOf(fat', dir', body', op', creates', want')
      BY <2>1, <3>10, <3>13, <3>14, FatStep
    <3>. QED
      BY <2>1, <3>9, <3>15 DEF InvNext
  <2>. QED
    BY <2>4, <2>5, DoesAlloc
<1>StepGrowAlloc. ASSUME Typed, InvNow, grow_alloc
      PROVE  InvNext
  <2>. USE <1>StepGrowAlloc
  <2>1. op.at = "grow" /\ UNCHANGED <<dir, body, creates, want>>
    BY DEF grow_alloc
  <2>2. op.at \notin {"free", "write"} /\ op.at # "link" /\ op.at # "free" /\ op.at # "alloc" /\ op.at # "zero"
    BY SMT, <2>1
  <2>3. ~op.freed
    BY <2>2, NotFreed
  <2>4. CASE op' = Idle /\ failed' = TRUE /\ fat' = fat
    BY <2>1, <2>3, <2>4, StepStop
  <2>5. CASE /\ failed' = failed
             /\ \E c \in Cluster :
                  /\ fat[c] = Free /\ fat' = [fat EXCEPT ![c] = EOC]
                  /\ Becomes(op, op', "link", op.chain, op.cur, op.off, c, op.freed)
    <3>1. PICK c \in Cluster :
            /\ fat[c] = Free /\ fat' = [fat EXCEPT ![c] = EOC]
            /\ Becomes(op, op', "link", op.chain, op.cur, op.off, c, op.freed)
      BY <2>5
    <3>2. /\ op'.at = "link" /\ op'.chain = op.chain /\ op'.cur = op.cur /\ op'.freed = op.freed
          /\ op'.size = op.size /\ op'.unlinks = op.unlinks /\ op'.todo = c /\ op'.name = op.name
      BY <3>1 DEF Becomes
    <3>3. op'.at # "alloc" /\ op'.at # "zero" /\ op'.at \notin {"idle", "alloc"} /\ op'.at \notin {"free", "write"}
      BY SMT, <3>2
    <3>4. Drawn(op') = Drawn(op)
      BY <2>2, <3>2, <3>3 DEF Drawn
    <3>5. Loose(op) = {} /\ Loose(op') = {c} /\ ~op'.freed
      BY <2>2, <2>3, <3>2 DEF Loose
    <3>6. FatInv(fat, dir, op) /\ fat \in FatType /\ Draws(op, op', c)
      BY <3>4, <3>5, NowFacts, TypedParts DEF Draws
    <3>7. /\ Reforms(fat, fat', dir, body, body, op, op') /\ Same(fat, fat', Heads(dir, op))
          /\ c \notin Heads(dir, op)
          /\ SpaceInv(fat, Heads(dir, op)) => SpaceInv(fat', Heads(dir, op'))
      BY <2>3, <3>1, <3>5, <3>6, <1>DrawsOne
    <3>8. Steps(dir, op, op')
      BY <2>1, <3>7 DEF Steps
    <3>9. NewInv(fat', body', op', creates')
      <4>1. fat'[c] = EOC
        BY <3>1, <3>6 DEF FatType
      <4>2. Same(fat, fat', Drawn(op))
        BY <3>7, FirstsAreHeads DEF Same
      <4>3. NewInv(fat, body, op, creates)
        BY NowFacts
      <4>4. NewInv(fat', body, op', creates)
        BY ZenonT(30), <2>2, <3>2, <3>3, <4>1, <4>2, <4>3, CarryNew
      <4>. QED
        BY <2>1, <4>4
    <3>10. ScanInv(dir, ChainIn(fat', Root), op')
      <4>1. ChainIn(fat', Root) = ChainIn(fat, Root)
        BY <3>7, RootIsHead DEF Same
      <4> DEFINE r == ChainIn(fat, Root)
      <4>2. ScanInv(dir, r, op)
        BY NowFacts
      <4>. HIDE DEF r
      <4>3. PICK k \in 1 .. Len(r) : Reached(dir, r, op, k)
        BY <4>2 DEF ScanInv
      <4>4. Reached(dir, r, op', k)
        BY <3>2, <4>3 DEF Reached
      <4>5. ~op.unlinks /\ \A o \in 1 .. Slots : ~Called(dir, <<op.cur, o>>, op.name)
        BY <2>1, <4>2 DEF ScanInv
      <4>6. ScanInv(dir, r, op')
        BY ZenonT(30), <3>2, <3>3, <3>5, <4>3, <4>4, <4>5 DEF ScanInv
      <4>. QED
        BY <4>1, <4>6 DEF r
    <3>11. InvOf(fat', dir', body', op', creates', want')
      BY <2>1, <3>8, <3>9, <3>10, FatStep
    <3>. QED
      BY <2>1, <3>7, <3>11 DEF InvNext
  <2>. QED
    BY <2>4, <2>5, DoesGrowAlloc
<1> SUFFICES ASSUME Typed, InvNow, alloc_cluster \/ grow_alloc
             PROVE  InvNext
  OBVIOUS
<1>. QED
  BY <1>StepAlloc, <1>StepGrowAlloc

-----------------------------------------------------------------------------
(* The root is scanned *)

\* A call that takes a slot keeps its chain and its cluster.
LEMMA SetSlot ==
  ASSUME NEW p \in OpType, NEW x \in AtType, NEW o \in 0 .. Slots, NEW t \in {0} \cup Cluster
  PROVE  Becomes(p, [p EXCEPT !.off = o, !.todo = t, !.at = x], x, p.chain, p.cur, o, t, p.freed)
BY DEF OpType, AtType, Becomes

\* A call that goes to the next cluster of the root keeps all else.
LEMMA SetCur ==
  ASSUME NEW p \in OpType, NEW c \in Cluster
  PROVE  Becomes(p, [p EXCEPT !.cur = c], p.at, p.chain, c, p.off, p.todo, p.freed)
BY SMT DEF OpType, AtType, Becomes

\* Match finds every slot of the name: none lies behind the end.
LEMMA MatchIs ==
  ASSUME NEW s, EndsLast(s), NEW n
  PROVE  Match(s, n) = {o \in 1 .. Slots : IsNamed(s, o, n)}
<1>1. \A o \in 1 .. Slots : o \in Used(s) <=> s[o].kind # "end"
  BY UsedIs
<1>2. Match(s, n) = {o \in Used(s) : IsNamed(s, o, n)} /\ Used(s) \subseteq 1 .. Slots
  BY DEF Match, Used, IsNamed
<1>3. \A o : IsNamed(s, o, n) => s[o].kind # "end"
  BY SMT DEF IsNamed
<1>. QED
  BY <1>1, <1>2, <1>3

\* The slots a call may take: none of the name comes earlier, nor does the end.
Fits(s, o, n) ==
  /\ \A i \in 1 .. Slots : IsNamed(s, i, n) => o <= i
  /\ \A i \in 1 .. o - 1 : s[i].kind # "end"
  /\ s[o].kind = "file" => IsNamed(s, o, n)

\* The slot that unlink_scan takes is one an entry of the name may have.
LEMMA MatchFits ==
  ASSUME NEW s, EndsLast(s), NEW n, Match(s, n) # {}
  PROVE  LET o == Lowest(Match(s, n)) IN o \in 1 .. Slots /\ IsNamed(s, o, n) /\ Fits(s, o, n)
<1> DEFINE M == Match(s, n)
           o == Lowest(M)
<1>1. M = {i \in 1 .. Slots : IsNamed(s, i, n)}
  BY MatchIs
<1>2. M \in SUBSET Nat
  BY SMT, <1>1, Numbers
<1>. HIDE DEF M
<1>3. o \in M /\ \A i \in M : o <= i
  BY <1>2, LowestIn DEF M
<1>. HIDE DEF o
<1>4. o \in 1 .. Slots /\ IsNamed(s, o, n) /\ \A i \in 1 .. Slots : IsNamed(s, i, n) => o <= i
  BY <1>1, <1>3
<1>5. \A i \in 1 .. o - 1 : i \in 1 .. Slots /\ o \in i .. Slots
  BY SMT, <1>4, Numbers
<1>6. s[o].kind # "end"
  BY SMT, <1>4 DEF IsNamed
<1>7. \A i \in 1 .. o - 1 : s[i].kind # "end"
  BY <1>5, <1>6 DEF EndsLast
<1>. QED
  BY <1>4, <1>7 DEF Fits, o, M

\* The slot that upsert_root_dir_entry takes is one the name may have; if there is none,
\* the cluster does not have the name.
LEMMA ChosenFits ==
  ASSUME NEW s, EndsLast(s), NEW n
  PROVE  LET o == Chosen(s, n)
         IN /\ o \in 0 .. Slots
            /\ o = 0 => \A i \in 1 .. Slots : ~IsNamed(s, i, n)
            /\ o # 0 => o \in 1 .. Slots /\ Fits(s, o, n)
<1> DEFINE o == Chosen(s, n)
           M == Match(s, n)
           E == {i \in 1 .. Slots : s[i].kind = "end"}
           G == {i \in Used(s) : s[i].kind = "gone"}
<1>1. M = {i \in 1 .. Slots : IsNamed(s, i, n)} /\ Used(s) = {i \in 1 .. Slots : s[i].kind # "end"}
  BY MatchIs, UsedIs
<1>2. E \in SUBSET Nat /\ G \in SUBSET Nat
  BY SMT, <1>1, Numbers
<1>3. o = IF M # {} THEN Lowest(M) ELSE IF E # {} THEN Lowest(E) ELSE IF G # {} THEN Lowest(G) ELSE 0
  BY DEF Chosen
<1>4. \A i \in 1 .. Slots : i \in 0 .. Slots /\ i # 0
  BY SMT, Numbers
<1>5. 0 \in 0 .. Slots
  BY SMT, Numbers
<1>6. \A i \in 1 .. Slots : \A j \in 1 .. i - 1 : j \in 1 .. Slots /\ i \in j .. Slots /\ ~(i <= j)
  BY SMT, Numbers
<1>7. CASE M # {}
  <2>1. o = Lowest(M)
    BY <1>3, <1>7
  <2>2. o \in 1 .. Slots /\ Fits(s, o, n)
    BY <1>7, <2>1, MatchFits
  <2>. QED
    BY <1>4, <2>2
<1>8. CASE M = {} /\ E # {}
  <2>1. o = Lowest(E)
    BY <1>3, <1>8
  <2>. HIDE DEF o
  <2>2. o \in E /\ \A i \in E : o <= i
    BY <1>2, <1>8, <2>1, LowestIn
  <2>3. o \in 1 .. Slots /\ s[o].kind = "end" /\ \A i \in 1 .. Slots : ~IsNamed(s, i, n)
    BY <1>1, <1>8, <2>2
  <2>4. \A i \in 1 .. o - 1 : s[i].kind # "end"
    BY <1>6, <2>2, <2>3
  <2>5. s[o].kind # "file"
    BY SMT, <2>3
  <2>. QED
    BY <1>4, <2>3, <2>4, <2>5 DEF Fits, o
<1>9. CASE M = {} /\ E = {} /\ G # {}
  <2>1. o = Lowest(G)
    BY <1>3, <1>9
  <2>. HIDE DEF o
  <2>2. o \in G
    BY <1>2, <1>9, <2>1, LowestIn
  <2>3. o \in 1 .. Slots /\ s[o].kind = "gone" /\ \A i \in 1 .. Slots : ~IsNamed(s, i, n) /\ s[i].kind # "end"
    BY <1>1, <1>9, <2>2
  <2>4. s[o].kind # "file"
    BY SMT, <2>3
  <2>. QED
    BY <1>4, <1>6, <2>3, <2>4 DEF Fits, o
<1>10. CASE M = {} /\ E = {} /\ G = {}
  <2>1. o = 0
    BY <1>3, <1>10
  <2>. QED
    BY <1>1, <1>5, <1>10, <2>1
<1>. QED
  BY <1>7, <1>8, <1>9, <1>10

\* Whatever the slots hold, one of them is chosen or none is.
LEMMA ChosenTyped ==
  ASSUME NEW s, NEW n
  PROVE  /\ Chosen(s, n) \in 0 .. Slots
         /\ Match(s, n) # {} => Lowest(Match(s, n)) \in 1 .. Slots
<1> DEFINE M == Match(s, n)
           E == {i \in 1 .. Slots : s[i].kind = "end"}
           G == {i \in Used(s) : s[i].kind = "gone"}
<1>1. M \in SUBSET (1 .. Slots) /\ E \in SUBSET (1 .. Slots) /\ G \in SUBSET (1 .. Slots)
  BY DEF Match, Used
<1>2. \A i \in 1 .. Slots : i \in 0 .. Slots /\ i \in Nat
  BY SMT, Numbers
<1>3. 0 \in 0 .. Slots
  BY SMT, Numbers
<1>4. Chosen(s, n) = IF M # {} THEN Lowest(M) ELSE IF E # {} THEN Lowest(E)
                     ELSE IF G # {} THEN Lowest(G) ELSE 0
  BY DEF Chosen
<1>. HIDE DEF M, E, G
<1>5. ASSUME NEW S \in SUBSET (1 .. Slots), S # {} PROVE Lowest(S) \in 1 .. Slots
  <2>1. S \in SUBSET Nat
    BY <1>2
  <2>. QED
    BY <1>5, <2>1, LowestIn
<1>. QED
  BY <1>1, <1>2, <1>3, <1>4, <1>5 DEF M

\* The types of a slot's fields.
LEMMA SlotIn ==
  ASSUME NEW d \in DirType, NEW c \in Cluster, NEW o \in 1 .. Slots
  PROVE  /\ d[c][o] \in SlotType
         /\ d[c][o].kind \in {"end", "gone", "long", "file"} /\ d[c][o].name \in Names
         /\ d[c][o].first \in {0} \cup Cluster /\ d[c][o].size \in 0 .. MaxClusters
<1>1. d[c][o] \in SlotType
  BY DEF DirType
<1>. QED
  BY SMT, <1>1 DEF SlotType

\* The slot o of the cluster is taken.
Takes(o) ==
  LET slot == dir[op.cur][o]
  IN IF slot.kind = "file" /\ slot.first # 0
     THEN Becomes(op, op', "free", op.chain, op.cur, o, slot.first, op.freed)
     ELSE Becomes(op, op', "write", op.chain, op.cur, o, 0, op.freed)

\* Both scans take a slot in the same way.
LEMMA DoesTake ==
  ASSUME Typed, NEW o \in 1 .. Slots,
         LET slot == dir[op.cur][o]
         IN op' = [op EXCEPT !.off = o,
                     !.todo = IF slot.kind = "file" THEN slot.first ELSE 0,
                     !.at = IF slot.kind = "file" /\ slot.first # 0 THEN "free" ELSE "write"]
  PROVE  Takes(o)
<1> DEFINE slot == dir[op.cur][o]
           t == IF slot.kind = "file" THEN slot.first ELSE 0
           x == IF slot.kind = "file" /\ slot.first # 0 THEN "free" ELSE "write"
<1>1. slot.first \in {0} \cup Cluster
  BY TypedParts, SlotIn
<1>2. op' = [op EXCEPT !.off = o, !.todo = t, !.at = x]
  OBVIOUS
<1>. HIDE DEF slot
<1>3. x \in AtType
  BY DEF AtType
<1>4. t \in {0} \cup Cluster
  BY <1>1
<1>5. /\ slot.kind = "file" /\ slot.first # 0 => x = "free" /\ t = slot.first
      /\ ~(slot.kind = "file" /\ slot.first # 0) => x = "write" /\ t = 0
  OBVIOUS
<1>6. o \in 0 .. Slots
  BY SMT, Numbers
<1>. HIDE DEF x, t
<1>7. Becomes(op, [op EXCEPT !.off = o, !.todo = t, !.at = x], x, op.chain, op.cur, o, t, op.freed)
  BY <1>3, <1>4, <1>6, TypedParts, SetSlot
<1>. QED
  BY <1>2, <1>5, <1>7 DEF Takes, slot

\* What upsert_root_dir_entry does to the call.
LEMMA DoesUpsert ==
  ASSUME Typed, upsert_root_dir_entry
  PROVE  LET o == Chosen(dir[op.cur], op.name)
             c == SuccIn(fat, op.cur)
         IN /\ o # 0 => Takes(o)
            /\ o = 0 /\ c # 0 => /\ c \in Cluster
                                 /\ Becomes(op, op', "scan", op.chain, c, op.off, op.todo, op.freed)
            /\ o = 0 /\ c = 0 => Becomes(op, op', "grow", op.chain, op.cur, op.off, op.todo, op.freed)
<1> DEFINE o == Chosen(dir[op.cur], op.name)
           c == SuccIn(fat, op.cur)
<1>0. o \in 0 .. Slots
  BY ChosenTyped
<1>1. CASE o # 0
  <2>1. o \in 1 .. Slots
    BY SMT, <1>0, <1>1, Numbers
  <2>2. LET slot == dir[op.cur][o]
        IN op' = [op EXCEPT !.off = o,
                    !.todo = IF slot.kind = "file" THEN slot.first ELSE 0,
                    !.at = IF slot.kind = "file" /\ slot.first # 0 THEN "free" ELSE "write"]
    BY <1>1 DEF upsert_root_dir_entry
  <2>. HIDE DEF o
  <2>3. Takes(o)
    BY <2>1, <2>2, DoesTake
  <2>. QED
    BY <1>1, <2>3 DEF o
<1>2. CASE o = 0 /\ c # 0
  <2>1. op' = [op EXCEPT !.cur = c] /\ op.at = "scan"
    BY <1>2, SuccOf DEF upsert_root_dir_entry
  <2>2. c \in Cluster
    BY <1>2, TypedParts, NextIn
  <2>. HIDE DEF c
  <2>3. Becomes(op, [op EXCEPT !.cur = c], op.at, op.chain, c, op.off, op.todo, op.freed)
    BY <2>2, TypedParts, SetCur
  <2>. QED
    BY <1>2, <2>1, <2>2, <2>3 DEF c
<1>3. CASE o = 0 /\ c = 0
  <2>1. Moves("grow")
    BY <1>3, SuccOf DEF upsert_root_dir_entry
  <2>2. "grow" \in AtType
    BY DEF AtType
  <2>. QED
    BY <1>3, <2>1, <2>2, DoesMove
<1>. QED
  BY <1>1, <1>2, <1>3

\* What unlink_scan does to the call.
LEMMA DoesUnlinkScan ==
  ASSUME Typed, unlink_scan
  PROVE  LET M == Match(dir[op.cur], op.name)
             c == SuccIn(fat, op.cur)
         IN \/ M # {} /\ dir[op.cur][Lowest(M)].kind = "file" /\ Takes(Lowest(M))
            \/ /\ M = {} /\ c # 0 /\ c \in Cluster
               /\ Becomes(op, op', "scan", op.chain, c, op.off, op.todo, op.freed)
            \/ op' = Idle
<1> DEFINE M == Match(dir[op.cur], op.name)
           o == Lowest(M)
           slot == dir[op.cur][o]
           c == SuccIn(fat, op.cur)
<1>1. CASE M # {}
  <2>1. o \in 1 .. Slots
    BY <1>1, ChosenTyped
  <2>2. slot.kind = "file"
    <3>1. M \in SUBSET (1 .. Slots) /\ \A i \in M : dir[op.cur][i].kind = "file"
      BY DEF Match, Used
    <3>2. M \in SUBSET Nat
      BY SMT, <3>1, Numbers
    <3>3. o \in M
      BY <1>1, <3>2, LowestIn
    <3>. QED
      BY <3>1, <3>3
  <2>3. op' = [op EXCEPT !.off = o, !.todo = slot.first,
                 !.at = IF slot.first # 0 THEN "free" ELSE "write"]
    BY <1>1 DEF unlink_scan
  <2>. HIDE DEF o
  <2>4. op' = [op EXCEPT !.off = o,
                 !.todo = IF slot.kind = "file" THEN slot.first ELSE 0,
                 !.at = IF slot.kind = "file" /\ slot.first # 0 THEN "free" ELSE "write"]
    <3>. HIDE DEF slot
    <3>1. (IF slot.kind = "file" THEN slot.first ELSE 0) = slot.first
      BY <2>2
    <3>2. (IF slot.kind = "file" /\ slot.first # 0 THEN "free" ELSE "write")
            = IF slot.first # 0 THEN "free" ELSE "write"
      BY <2>2
    <3>. QED
      BY <2>3, <3>1, <3>2
  <2>5. Takes(o)
    BY <2>1, <2>4, DoesTake
  <2>. QED
    BY <1>1, <2>2, <2>5 DEF o
<1>2. CASE M = {} /\ Used(dir[op.cur]) = 1 .. Slots /\ c # 0
  <2>1. op' = [op EXCEPT !.cur = c] /\ op.at = "scan"
    BY <1>2, SuccOf DEF unlink_scan
  <2>2. c \in Cluster
    BY <1>2, TypedParts, NextIn
  <2>. HIDE DEF c
  <2>3. Becomes(op, [op EXCEPT !.cur = c], op.at, op.chain, c, op.off, op.todo, op.freed)
    BY <2>2, TypedParts, SetCur
  <2>. QED
    BY <1>2, <2>1, <2>2, <2>3 DEF c
<1>3. CASE M = {} /\ ~(Used(dir[op.cur]) = 1 .. Slots /\ c # 0)
  BY <1>3, SuccOf DEF unlink_scan
<1>. QED
  BY <1>1, <1>2, <1>3

Looking(x) == x \in {"scan", "grow", "free", "write"}

\* The call p looks at the directory, and goes on as q.
Looks(p, q, x, c, o, t) ==
  p.at = "scan" /\ Looking(x) /\ Becomes(p, q, x, p.chain, c, o, t, p.freed)

\* The call p goes on as q, and nothing else changes.
Goes(f, d, b, p, q, n, wt) == InvOf(f, d, b, q, n, wt) /\ Heads(d, q) = Heads(d, p)

\* Only the call moves on.
Kept(q) == Goes(fat, dir, body, op, q, creates, want)

\* The scan of the root for the name, in one cluster.
LEMMA StepScan == Typed /\ InvNow /\ (upsert_root_dir_entry \/ misread_root \/ unlink_scan) => InvNext
\* A call looks on in the directory.
<1>LooksOn. ASSUME NEW f, NEW d, NEW b, NEW n, NEW wt, NEW p, InvOf(f, d, b, p, n, wt),
             NEW q, NEW x, NEW c, NEW o, NEW t, Looks(p, q, x, c, o, t), ScanInv(d, ChainIn(f, Root), q)
      PROVE  Goes(f, d, b, p, q, n, wt)
  <2>. USE <1>LooksOn
  <2>0. p.at = "scan" /\ Looking(x) /\ Becomes(p, q, x, p.chain, c, o, t, p.freed)
    BY DEF Looks
  <2>1. p.freed => p.at \in {"free", "write"}
    BY DEF InvOf, ScanInv
  <2>2. ~p.freed
    BY SMT, <2>0, <2>1
  <2>3. q.freed = p.freed /\ q.at = x /\ q.chain = p.chain /\ q.size = p.size /\ q.name = p.name /\ q.unlinks = p.unlinks
    BY <2>0 DEF Becomes
  <2>4. /\ p.at # "alloc" /\ p.at # "link" /\ p.at # "free"
        /\ q.at # "alloc" /\ q.at # "link"
    BY SMT, <2>0, <2>3 DEF Looking
  <2>5. Drawn(q) = Drawn(p)
    BY <2>3, <2>4 DEF Drawn
  <2>6. ~q.freed
    BY <2>2, <2>3
  <2>7. Loose(q) = {} /\ Loose(p) = {}
    BY <2>2, <2>4, <2>6 DEF Loose
  <2>8. GivesUp(p, q) /\ Drawn(p) \in SUBSET Drawn(p) /\ Loose(p) \in SUBSET Loose(p) /\ Loose(q) = Loose(p)
    BY <2>2, <2>6, <2>7 DEF GivesUp
  <2>9. FatInv(f, d, q) /\ Heads(d, q) = Heads(d, p)
    BY <2>5, <2>8, Quiet, HeadsSame DEF InvOf
  <2>10. WantInv(f, d, b, q, wt)
    BY <2>2, WantSame DEF InvOf
  <2>11. NewInv(f, b, q, n)
    BY <2>3, <2>4 DEF InvOf, NewInv
  <2>. QED
    BY <2>9, <2>10, <2>11 DEF InvOf, Goes
\* ... and takes the slot o.
<1>ScanTake. ASSUME NEW f, NEW d, NEW r, NEW p, ScanInv(d, r, p), p.at = "scan",
             NEW o, Fits(d[p.cur], o, p.name),
             NEW q, NEW x \in {"free", "write"}, NEW t,
             Becomes(p, q, x, p.chain, p.cur, o, t, p.freed),
             d[p.cur][o].kind = "file" => t = d[p.cur][o].first,
             p.unlinks \/ x = "free" => d[p.cur][o].kind = "file", x = "write" => t = 0
      PROVE  ScanInv(d, r, q)
  <2>. USE <1>ScanTake
  <2>1. p.freed => p.at \in {"free", "write"}
    BY DEF ScanInv
  <2>2. ~p.freed
    BY SMT, <2>1
  <2>3. /\ q.freed = p.freed /\ q.at = x /\ q.cur = p.cur /\ q.off = o /\ q.todo = t
        /\ q.name = p.name /\ q.unlinks = p.unlinks
    BY DEF Becomes
  <2>4. ~q.freed
    BY <2>2, <2>3
  <2>5. q.at \notin {"idle", "alloc"} /\ q.at # "zero" /\ q.at \notin {"grow", "link", "zero"}
    BY SMT, <2>3
  <2>6. \E k \in 1 .. Len(r) : Reached(d, r, q, k)
    <3>1. \E k \in 1 .. Len(r) : Reached(d, r, p, k)
      BY DEF ScanInv
    <3>. QED
      BY <2>3, <3>1 DEF Reached
  <2>7. /\ \A i \in 1 .. Slots : Called(d, <<q.cur, i>>, q.name) => q.off <= i
        /\ \A i \in 1 .. q.off - 1 : d[q.cur][i].kind # "end"
    <3>1. \A i \in 1 .. Slots : Called(d, <<p.cur, i>>, p.name) => o <= i
      BY Cell DEF Fits
    <3>2. \A i \in 1 .. o - 1 : d[p.cur][i].kind # "end"
      BY DEF Fits
    <3>. QED
      BY <2>3, <3>1, <3>2
  <2>8. /\ IsFile(d, <<q.cur, q.off>>) <=> d[p.cur][o].kind = "file"
        /\ FirstOf(d, <<q.cur, q.off>>) = d[p.cur][o].first
        /\ Called(d, <<q.cur, q.off>>, q.name) <=> IsNamed(d[p.cur], o, p.name)
    <3>1. /\ IsFile(d, <<p.cur, o>>) <=> d[p.cur][o].kind = "file"
          /\ FirstOf(d, <<p.cur, o>>) = d[p.cur][o].first
          /\ Called(d, <<p.cur, o>>, p.name) <=> IsNamed(d[p.cur], o, p.name)
      BY SMT, Cell
    <3>. QED
      BY ZenonT(30), <2>3, <3>1
  <2>9. IsFile(d, <<q.cur, q.off>>) =>
          /\ Called(d, <<q.cur, q.off>>, q.name)
          /\ FirstOf(d, <<q.cur, q.off>>) = IF q.at = "free" THEN q.todo ELSE 0
    <3>1. CASE x = "free"
      BY <2>3, <2>8, <3>1 DEF Fits
    <3>2. CASE x = "write"
      <4>1. q.at # "free"
        BY SMT, <2>3, <3>2
      <4>. QED
        BY ZenonT(30), <2>3, <2>8, <3>2, <4>1 DEF Fits
    <3>. QED
      BY <3>1, <3>2
  <2>10. q.at = "free" \/ q.freed \/ q.unlinks => IsFile(d, <<q.cur, q.off>>)
    BY <2>3, <2>4, <2>8
  <2>. QED
    BY ZenonT(30), <2>4, <2>5, <2>6, <2>7, <2>9, <2>10 DEF ScanInv
\* ... or finds nothing in this cluster.
<1>ScanMiss. ASSUME NEW f \in FatType, NEW d, NEW r, IsRoot(f, r), NEW p, ScanInv(d, r, p), p.at = "scan",
             \A i \in 1 .. Slots : ~IsNamed(d[p.cur], i, p.name),
             NEW q, NEW x \in {"scan", "grow"}, NEW c, Becomes(p, q, x, p.chain, c, p.off, p.todo, p.freed),
             x = "scan" => c = SuccIn(f, p.cur) /\ c # 0,
             x = "grow" => c = p.cur /\ ~p.unlinks
      PROVE  ScanInv(d, r, q)
  <2>. USE <1>ScanMiss
  <2>1. p.freed => p.at \in {"free", "write"}
    BY DEF ScanInv
  <2>2. ~p.freed
    BY SMT, <2>1
  <2>3. /\ q.freed = p.freed /\ q.at = x /\ q.cur = c /\ q.name = p.name /\ q.unlinks = p.unlinks
    BY DEF Becomes
  <2>4. ~q.freed
    BY <2>2, <2>3
  <2>5. q.at \notin {"idle", "alloc"} /\ q.at # "zero" /\ q.at \notin {"free", "write"}
    BY SMT, <2>3
  <2>6. \A i \in 1 .. Slots : ~Called(d, <<p.cur, i>>, p.name)
    BY Cell
  <2>7. PICK k \in 1 .. Len(r) : Reached(d, r, p, k)
    BY DEF ScanInv
  <2>8. CASE x = "grow"
    <3>1. Reached(d, r, q, k)
      BY <2>3, <2>7, <2>8 DEF Reached
    <3>2. q.at \in {"grow", "link", "zero"} => ~q.unlinks /\ \A o \in 1 .. Slots : ~Called(d, <<q.cur, o>>, q.name)
      BY <2>3, <2>6, <2>8
    <3>. QED
      BY <2>4, <2>5, <3>1, <3>2 DEF ScanInv
  <2>9. CASE x = "scan"
    <3>1. q.at \notin {"grow", "link", "zero"}
      BY SMT, <2>3, <2>9
    <3>2. r[k] = p.cur
      BY <2>7 DEF Reached
    <3>3. k # Len(r)
      BY <2>9, <3>2, Numbers DEF IsRoot, Path, SuccIn
    <3>4. k \in 1 .. Len(r) - 1
      BY <3>3, Ends DEF IsRoot
    <3>5. k + 1 \in 1 .. Len(r) /\ k \in Nat
      <4>1. Len(r) \in Nat /\ Len(r) >= 1
        BY DEF IsRoot
      <4>. QED
        BY SMT, <3>4, <4>1
    <3>6. r[k + 1] = c
      <4>1. f[p.cur] = r[k + 1] /\ r[k + 1] \in Cluster
        BY ZenonT(30), <3>2, <3>4, <3>5 DEF IsRoot, Path
      <4>. QED
        BY <2>9, <4>1 DEF SuccIn
    <3>7. \A j \in 1 .. (k + 1) - 1 : j = k \/ j \in 1 .. k - 1
      BY SMT, <3>5
    <3>8. Reached(d, r, q, k + 1)
      BY ZenonT(30), <2>3, <2>6, <2>7, <3>2, <3>6, <3>7 DEF Reached
    <3>. QED
      BY ZenonT(30), <2>4, <2>5, <3>1, <3>5, <3>8 DEF ScanInv
  <2>. QED
    BY <2>8, <2>9
<1>LooksHere. ASSUME InvNow, NEW q, NEW x, NEW c, NEW o, NEW t, Looks(op, q, x, c, o, t),
             ScanInv(dir, ChainIn(fat, Root), q)
      PROVE  Kept(q)
  <2>. USE <1>LooksHere
  <2>1. InvOf(fat, dir, body, op, creates, want)
    BY DEF InvNow
  <2>. QED
    BY <2>1, <1>LooksOn DEF Kept
<1>KeptNext. ASSUME Kept(op'), UNCHANGED <<fat, dir, body, creates, want>>
      PROVE  InvNext
  BY <1>KeptNext DEF Kept, Goes, InvNext
<1>StepTake. ASSUME Typed, InvNow, op.at = "scan", NEW o \in 1 .. Slots, Fits(dir[op.cur], o, op.name),
             op.unlinks => dir[op.cur][o].kind = "file", Takes(o)
      PROVE  Kept(op')
  <2>. USE <1>StepTake
  <2> DEFINE slot == dir[op.cur][o]
  <2>1. ScanInv(dir, ChainIn(fat, Root), op) /\ InvOf(fat, dir, body, op, creates, want)
    BY DEF InvNow, InvOf
  <2>2. CASE slot.kind = "file" /\ slot.first # 0
    <3>1. "free" \in {"free", "write"} /\ "free" # "write" /\ Looking("free")
      BY SMT DEF Looking
    <3>2. Becomes(op, op', "free", op.chain, op.cur, o, slot.first, op.freed)
      BY <2>2 DEF Takes
    <3>3. ScanInv(dir, ChainIn(fat, Root), op')
      BY ZenonT(30), <2>1, <2>2, <3>1, <3>2, <1>ScanTake
    <3>4. Looks(op, op', "free", op.cur, o, slot.first)
      BY <3>1, <3>2 DEF Looks
    <3>. QED
      BY <3>3, <3>4, <1>LooksHere
  <2>3. CASE ~(slot.kind = "file" /\ slot.first # 0)
    <3>1. "write" \in {"free", "write"} /\ "free" # "write" /\ Looking("write")
      BY SMT DEF Looking
    <3>2. Becomes(op, op', "write", op.chain, op.cur, o, 0, op.freed)
      BY <2>3 DEF Takes
    <3>3. slot.kind = "file" => 0 = slot.first
      BY <2>3
    <3>4. ScanInv(dir, ChainIn(fat, Root), op')
      BY ZenonT(30), <2>1, <3>1, <3>2, <3>3, <1>ScanTake
    <3>5. Looks(op, op', "write", op.cur, o, 0)
      BY <3>1, <3>2 DEF Looks
    <3>. QED
      BY <3>4, <3>5, <1>LooksHere
  <2>. QED
    BY <2>2, <2>3
<1>StepMiss. ASSUME Typed, InvNow, op.at = "scan", \A i \in 1 .. Slots : ~IsNamed(dir[op.cur], i, op.name),
             NEW x \in {"scan", "grow"}, NEW c, Becomes(op, op', x, op.chain, c, op.off, op.todo, op.freed),
             x = "scan" => c = SuccIn(fat, op.cur) /\ c # 0,
             x = "grow" => c = op.cur /\ ~op.unlinks
      PROVE  Kept(op')
  <2>. USE <1>StepMiss
  <2>1. ScanInv(dir, ChainIn(fat, Root), op) /\ IsRoot(fat, ChainIn(fat, Root))
    BY NowFacts
  <2>2. ScanInv(dir, ChainIn(fat, Root), op')
    BY <2>1, TypedParts, <1>ScanMiss
  <2>3. Looking(x)
    BY SMT DEF Looking
  <2>4. Looks(op, op', x, c, op.off, op.todo)
    BY <2>3 DEF Looks
  <2>. QED
    BY <2>2, <2>4, <1>LooksHere
<1>StepUpsert. ASSUME Typed, InvNow, upsert_root_dir_entry
      PROVE  InvNext
  <2>. USE <1>StepUpsert
  <2> DEFINE o == Chosen(dir[op.cur], op.name)
             c == SuccIn(fat, op.cur)
  <2>1. /\ o # 0 => Takes(o)
        /\ o = 0 /\ c # 0 => /\ c \in Cluster
                             /\ Becomes(op, op', "scan", op.chain, c, op.off, op.todo, op.freed)
        /\ o = 0 /\ c = 0 => Becomes(op, op', "grow", op.chain, op.cur, op.off, op.todo, op.freed)
    BY DoesUpsert
  <2>2. EndsLast(dir[op.cur])
    BY NowFacts
  <2>3. /\ o = 0 => \A i \in 1 .. Slots : ~IsNamed(dir[op.cur], i, op.name)
        /\ o # 0 => o \in 1 .. Slots /\ Fits(dir[op.cur], o, op.name)
    BY <2>2, ChosenFits
  <2>4. op.at = "scan" /\ ~op.unlinks /\ UNCHANGED <<fat, dir, body, creates, want>>
    BY DEF upsert_root_dir_entry, disk
  <2>. HIDE DEF o, c
  <2>5. CASE o # 0
    <3>1. Kept(op')
      BY ZenonT(30), <2>1, <2>3, <2>4, <2>5, <1>StepTake
    <3>. QED
      BY <2>4, <3>1, <1>KeptNext
  <2>6. CASE o = 0 /\ c # 0
    <3>1. "scan" \in {"scan", "grow"} /\ "scan" # "grow"
      BY SMT
    <3>2. Kept(op')
      BY ZenonT(30), <2>1, <2>3, <2>4, <2>6, <3>1, <1>StepMiss DEF c
    <3>. QED
      BY <2>4, <3>2, <1>KeptNext
  <2>7. CASE o = 0 /\ c = 0
    <3>1. "grow" \in {"scan", "grow"} /\ "scan" # "grow"
      BY SMT
    <3>2. Kept(op')
      BY ZenonT(30), <2>1, <2>3, <2>4, <2>7, <3>1, <1>StepMiss
    <3>. QED
      BY <2>4, <3>2, <1>KeptNext
  <2>. QED
    BY <2>5, <2>6, <2>7
<1>StepMisreadRoot. ASSUME Typed, InvNow, misread_root
      PROVE  InvNext
  <2>. USE <1>StepMisreadRoot
  <2>1. op.at = "scan" /\ ~op.unlinks /\ Moves("grow") /\ UNCHANGED <<fat, dir, body, creates, want>>
    BY DEF misread_root, disk
  <2>2. \A i \in 1 .. Slots : ~IsNamed(dir[op.cur], i, op.name)
    <3>1. Chosen(dir[op.cur], op.name) = 0
      BY DEF misread_root
    <3>2. EndsLast(dir[op.cur])
      BY NowFacts
    <3>. QED
      BY <3>1, <3>2, ChosenFits
  <2>3. "grow" \in {"scan", "grow"} /\ "grow" \in AtType /\ "scan" # "grow"
    BY SMT DEF AtType
  <2>4. Becomes(op, op', "grow", op.chain, op.cur, op.off, op.todo, op.freed)
    BY <2>1, <2>3, DoesMove
  <2>5. Kept(op')
    BY ZenonT(30), <2>1, <2>2, <2>3, <2>4, <1>StepMiss
  <2>. QED
    BY <2>1, <2>5, <1>KeptNext
<1>StepUnlinkScan. ASSUME Typed, InvNow, unlink_scan
      PROVE  InvNext
  <2>. USE <1>StepUnlinkScan
  <2> DEFINE M == Match(dir[op.cur], op.name)
             c == SuccIn(fat, op.cur)
  <2>1. \/ M # {} /\ dir[op.cur][Lowest(M)].kind = "file" /\ Takes(Lowest(M))
        \/ /\ M = {} /\ c # 0 /\ c \in Cluster
           /\ Becomes(op, op', "scan", op.chain, c, op.off, op.todo, op.freed)
        \/ op' = Idle
    BY DoesUnlinkScan
  <2>2. EndsLast(dir[op.cur])
    BY NowFacts
  <2>3. /\ M = {} => \A i \in 1 .. Slots : ~IsNamed(dir[op.cur], i, op.name)
        /\ M # {} => Lowest(M) \in 1 .. Slots /\ Fits(dir[op.cur], Lowest(M), op.name)
    BY <2>2, MatchFits, MatchIs
  <2>4. op.at = "scan" /\ op.unlinks /\ UNCHANGED <<fat, dir, body, creates, want>>
    BY DEF unlink_scan, disk
  <2>. HIDE DEF M, c
  <2>5. CASE M # {} /\ dir[op.cur][Lowest(M)].kind = "file" /\ Takes(Lowest(M))
    <3>1. Kept(op')
      BY ZenonT(30), <2>3, <2>4, <2>5, <1>StepTake
    <3>. QED
      BY <2>4, <3>1, <1>KeptNext
  <2>6. CASE /\ M = {} /\ c # 0 /\ c \in Cluster
             /\ Becomes(op, op', "scan", op.chain, c, op.off, op.todo, op.freed)
    <3>1. "scan" \in {"scan", "grow"} /\ "scan" # "grow"
      BY SMT
    <3>2. Kept(op')
      BY ZenonT(30), <2>3, <2>4, <2>6, <3>1, <1>StepMiss DEF c
    <3>. QED
      BY <2>4, <3>2, <1>KeptNext
  <2>7. CASE op' = Idle
    <3>1. NewInv(fat, body, op, creates) /\ ScanInv(dir, ChainIn(fat, Root), op)
      BY NowFacts
    <3>2. op.at # "alloc" /\ op.at # "link" /\ op.at # "free" /\ op.at \notin {"free", "write"}
      BY SMT, <2>4
    <3>3. ~op.freed
      BY <3>1, <3>2 DEF ScanInv
    <3>4. op.freed = FALSE
      BY SMT, <3>3, TypedParts
    <3>5. op.chain = << >>
      BY <2>4, <3>1, <3>2 DEF NewInv
    <3>6. Drawn(op) = {} /\ Loose(op) = {}
      BY <3>2, <3>5 DEF Drawn, Loose
    <3>7. /\ Idle.at # "alloc" /\ Idle.at # "link" /\ Idle.at # "free" /\ Idle.chain = << >>
          /\ Idle.freed = FALSE
      BY SMT, IdleFields
    <3>8. Drawn(Idle) = {} /\ Loose(Idle) = {}
      BY <3>7 DEF Drawn, Loose
    <3>9. Heads(dir, Idle) = Heads(dir, op)
      <4>1. GivesUp(op, Idle) /\ Drawn(Idle) = Drawn(op) /\ Loose(Idle) = Loose(op)
        BY <3>3, <3>6, <3>7, <3>8 DEF GivesUp
      <4>. QED
        BY <4>1, HeadsSame
    <3>10. InvOf(fat, dir, body, Idle, creates, want)
      BY <3>4, TypedParts, IdleInv DEF InvNow
    <3>11. Kept(op')
      BY <2>7, <3>9, <3>10 DEF Kept, Goes
    <3>. QED
      BY <2>4, <3>11, <1>KeptNext
  <2>. QED
    BY ZenonT(30), <2>1, <2>5, <2>6, <2>7
<1> SUFFICES ASSUME Typed, InvNow, upsert_root_dir_entry \/ misread_root \/ unlink_scan
             PROVE  InvNext
  OBVIOUS
<1>. QED
  BY <1>StepUpsert, <1>StepMisreadRoot, <1>StepUnlinkScan

-----------------------------------------------------------------------------
(* Types *)

\* The invariant has the types.
LEMMA HasTypes == IInv => TypeOK
<1>1. Typed => TypeOK
  <2>1. SUFFICES ASSUME Typed PROVE TypeOK
    BY SMT
  <2>2. \A c \in Cluster : \A o \in 1 .. Slots :
          /\ dir[c][o].kind \in {"end", "gone", "long", "file"} /\ dir[c][o].name \in Names
          /\ dir[c][o].first \in {0} \cup Cluster /\ dir[c][o].size \in 0 .. MaxClusters
    BY <2>1, TypedParts, SlotIn
  <2>3. fat \in [Cluster -> {Free, EOC} \cup Cluster]
    BY <2>1, TypedParts DEF FatType
  <2>4. op.at \in {"idle", "alloc", "scan", "grow", "link", "zero", "free", "write"}
    BY <2>1, TypedParts DEF AtType
  <2>5. creates \in 0 .. MaxCreates /\ failed \in BOOLEAN /\ torn \in BOOLEAN
    BY <2>1, TypedParts DEF TypedRest
  <2>. QED
    BY <2>2, <2>3, <2>4, <2>5 DEF TypeOK
<1>. QED
  BY <1>1 DEF IInv

\* Every step preserves the types.
LEMMA TypedNext == Typed /\ Next => Typed'
\* The call goes on, and stays typed.
<1>GoesOn. ASSUME NEW p, NEW q, NEW x, NEW s, NEW c, NEW o, NEW t, NEW fr, Becomes(p, q, x, s, c, o, t, fr),
             x # "idle", x \in {"link", "zero", "free"} => t # 0, x \in {"free", "write"} => o # 0
      PROVE  TypedCall(q)
  BY <1>GoesOn DEF Becomes, TypedCall
<1>TypesCreate. ASSUME Typed, NEW n \in Names, NEW k \in 0 .. MaxClusters, create_root_file(n, k)
      PROVE  Typed'
  <2>. USE <1>TypesCreate
  <2> DEFINE q == Starting(n, k)
  <2>1. q \in OpType /\ q.at = "alloc"
    BY StartFields
  <2>2. op' = q
    BY DEF create_root_file, Starting
  <2>. HIDE DEF q
  <2>3. TypedCall(op')
    BY SMT, <2>1, <2>2 DEF TypedCall
  <2>4. creates' \in 0 .. MaxCreates
    BY SMT, Fat32Assumption DEF create_root_file, Typed
  <2>. QED
    <3>1. op'.at \notin {"grow", "link"}
      BY SMT, <2>1, <2>2
    <3>. QED
      BY <2>3, <2>4, <3>1 DEF Typed, create_root_file, disk
<1>TypesRemove. ASSUME Typed, NEW n \in Names, unlink_root(n)
      PROVE  Typed'
  <2>. USE <1>TypesRemove
  <2> DEFINE q == Removing(n)
  <2>1. q \in OpType /\ q.at = "scan"
    BY RemoveFields
  <2>2. op' = q
    BY DEF unlink_root, Removing
  <2>. HIDE DEF q
  <2>3. TypedCall(op')
    BY SMT, <2>1, <2>2 DEF TypedCall
  <2>. QED
    <3>1. op'.at \notin {"grow", "link"}
      BY SMT, <2>1, <2>2
    <3>. QED
      BY <2>3, <3>1 DEF Typed, unlink_root, disk
\* The call stops.
<1>TypesStop. ASSUME Typed, op' = Idle, fat' \in FatType, UNCHANGED <<dir, creates, want>>,
             failed' \in BOOLEAN, torn' \in BOOLEAN, torn' => failed'
      PROVE  Typed'
  <2>. USE <1>TypesStop
  <2>1. TypedCall(op')
    BY IdleTyped
  <2>2. op'.at \notin {"grow", "link"}
    BY SMT, IdleFields
  <2>. QED
    BY <2>1, <2>2 DEF Typed
<1>TypesOn. ASSUME Typed, TypedCall(op'), fat' \in FatType, dir' \in DirType, UNCHANGED <<creates, want>>,
             failed' = failed \/ failed' = TRUE, torn' = torn,
             op'.at \in {"grow", "link"} /\ ~failed' => SuccIn(fat', op'.cur) = 0
      PROVE  Typed'
  BY <1>TypesOn DEF Typed
<1>TypesTake. ASSUME Typed, NEW o \in 1 .. Slots, Takes(o)
      PROVE  TypedCall(op')
  <2>. USE <1>TypesTake
  <2>1. o # 0 /\ "free" # "idle" /\ "write" # "idle" /\ "write" \notin {"link", "zero", "free"}
    BY SMT, Numbers
  <2>. QED
    <3>1. ASSUME NEW t, t # 0, Becomes(op, op', "free", op.chain, op.cur, o, t, op.freed) PROVE TypedCall(op')
      BY <2>1, <3>1, <1>GoesOn
    <3>2. ASSUME Becomes(op, op', "write", op.chain, op.cur, o, 0, op.freed) PROVE TypedCall(op')
      BY SMT, <2>1, <3>2 DEF Becomes, TypedCall
    <3>. QED
      BY <3>1, <3>2 DEF Takes
<1>TypesDraw. ASSUME Typed, alloc_cluster \/ grow_alloc
      PROVE  Typed'
  <2>. USE <1>TypesDraw
  <2>1. UNCHANGED <<dir, creates, want, torn>> /\ (grow_alloc => op.at = "grow")
    BY DEF alloc_cluster, grow_alloc
  <2>2. CASE op' = Idle /\ failed' = TRUE /\ fat' = fat
    <3>1. fat' \in FatType /\ failed' \in BOOLEAN /\ torn' \in BOOLEAN /\ (torn' => failed')
      BY <2>1, <2>2 DEF Typed
    <3>. QED
      BY <2>1, <2>2, <3>1, <1>TypesStop
  <2>3. ASSUME failed' = failed, NEW c \in Cluster, fat' = [fat EXCEPT ![c] = EOC],
               NEW x \in {"alloc", "link"}, NEW s, NEW t, x = "link" => t # 0 /\ op.at = "grow",
               Becomes(op, op', x, s, op.cur, op.off, t, op.freed)
        PROVE  Typed'
    <3>1. x # "idle" /\ (x \in {"link", "zero", "free"} => t # 0) /\ (x \in {"free", "write"} => op.off # 0)
      BY SMT, <2>3
    <3>2. TypedCall(op')
      BY <2>3, <3>1, <1>GoesOn
    <3>5. op'.at \in {"grow", "link"} /\ ~failed' => SuccIn(fat', op'.cur) = 0
      <4>1. SUFFICES ASSUME op'.at \in {"grow", "link"}, ~failed PROVE SuccIn(fat', op.cur) = 0
        BY <2>3 DEF Becomes
      <4>2. op'.at = x
        BY <2>3 DEF Becomes
      <4>3. op.at = "grow"
        BY SMT, <2>3, <4>1, <4>2
      <4>4. SuccIn(fat, op.cur) = 0
        BY <4>1, <4>3 DEF Typed
      <4>5. fat'[op.cur] = fat[op.cur] \/ fat'[op.cur] = EOC
        BY <2>3, TypedParts DEF FatType
      <4>. QED
        BY <4>4, <4>5, Numbers DEF SuccIn
    <3>3. fat' \in FatType
      BY <2>3 DEF Typed, FatType
    <3>4. dir' \in DirType
      BY <2>1 DEF Typed
    <3>. QED
      BY ZenonT(30), <2>1, <2>3, <3>2, <3>3, <3>4, <3>5, <1>TypesOn
  <2>4. CASE alloc_cluster
    <3>1. "alloc" \in {"alloc", "link"} /\ "alloc" # "link"
      BY SMT
    <3>. QED
      BY ZenonT(30), <2>2, <2>3, <2>4, <3>1, DoesAlloc
  <2>5. CASE grow_alloc
    <3>1. "link" \in {"alloc", "link"} /\ \A c \in Cluster : c # 0
      BY SMT, Numbers
    <3>. QED
      BY ZenonT(30), <2>1, <2>2, <2>3, <2>5, <3>1, DoesGrowAlloc
  <2>. QED
    BY <2>4, <2>5
<1>TypesScan. ASSUME Typed, upsert_root_dir_entry \/ misread_root \/ unlink_scan
      PROVE  Typed'
  <2>. USE <1>TypesScan
  <2>1. UNCHANGED <<fat, dir, creates, want, torn>> /\ (failed' = failed \/ failed' = TRUE)
    BY DEF upsert_root_dir_entry, misread_root, unlink_scan, disk
  <2>2. fat' \in FatType /\ dir' \in DirType
    BY <2>1 DEF Typed
  <2>3. ASSUME TypedCall(op'), op'.at = "grow" => failed' \/ (SuccIn(fat, op.cur) = 0 /\ op'.cur = op.cur),
               op'.at # "link"
        PROVE  Typed'
    BY <2>1, <2>2, <2>3, <1>TypesOn
  <2>4. ASSUME NEW x \in {"scan", "grow"}, NEW c, Becomes(op, op', x, op.chain, c, op.off, op.todo, op.freed)
        PROVE  TypedCall(op') /\ op'.at = x /\ op'.at # "link" /\ op'.cur = c
    <3>1. x # "idle" /\ x \notin {"link", "zero", "free"} /\ x \notin {"free", "write"}
      BY SMT, <2>4
    <3>2. TypedCall(op')
      BY <2>4, <3>1, <1>GoesOn
    <3>. QED
      BY <2>4, <3>1, <3>2 DEF Becomes
  <2>5. ASSUME NEW o \in 1 .. Slots, Takes(o) PROVE Typed'
    <3>1. op'.at = "free" \/ op'.at = "write"
      BY <2>5 DEF Takes, Becomes
    <3>2. op'.at # "grow" /\ op'.at # "link"
      BY SMT, <3>1
    <3>. QED
      BY <2>3, <2>5, <3>2, <1>TypesTake
  <2>6. ASSUME NEW c, Becomes(op, op', "scan", op.chain, c, op.off, op.todo, op.freed) PROVE Typed'
    <3>1. "scan" \in {"scan", "grow"} /\ "scan" # "grow"
      BY SMT
    <3>. QED
      BY <2>3, <2>4, <2>6, <3>1
  <2>7. ASSUME Becomes(op, op', "grow", op.chain, op.cur, op.off, op.todo, op.freed),
               failed' \/ SuccIn(fat, op.cur) = 0
        PROVE  Typed'
    BY <2>3, <2>4, <2>7
  <2>8. CASE upsert_root_dir_entry
    <3> DEFINE o == Chosen(dir[op.cur], op.name)
    <3>1. o \in 0 .. Slots
      BY ChosenTyped
    <3>2. o # 0 => o \in 1 .. Slots
      <4>. HIDE DEF o
      <4>. QED
        BY SMT, <3>1, Numbers
    <3>3. o # 0 => Typed'
      BY <2>5, <2>8, <3>2, DoesUpsert
    <3>4. o = 0 => Typed'
      BY <2>6, <2>7, <2>8, DoesUpsert
    <3>. QED
      BY <3>3, <3>4
  <2>9. CASE misread_root
    <3>1. "grow" \in AtType
      BY DEF AtType
    <3>2. Becomes(op, op', "grow", op.chain, op.cur, op.off, op.todo, op.freed) /\ failed'
      BY <2>9, <3>1, DoesMove DEF misread_root
    <3>. QED
      BY <2>7, <3>2
  <2>10. CASE unlink_scan
    <3>1. CASE op' = Idle
      <4>1. op'.at # "grow" /\ op'.at # "link"
        BY SMT, <3>1, IdleFields
      <4>. QED
        BY <2>3, <3>1, <4>1, IdleTyped
    <3>2. CASE op' # Idle
      BY ZenonT(30), <2>5, <2>6, <2>10, <3>2, DoesUnlinkScan, ChosenTyped
    <3>. QED
      BY <3>1, <3>2
  <2>. QED
    BY <2>8, <2>9, <2>10
<1>TypesFree. ASSUME Typed, free_chain \/ misread_chain
      PROVE  Typed'
  <2>. USE <1>TypesFree
  <2>1. /\ UNCHANGED <<dir, creates, want, torn>> /\ (failed' = failed \/ failed' = TRUE)
        /\ op.off # 0
    BY TypedParts DEF free_chain, misread_chain, TypedCall
  <2>2. fat' = [fat EXCEPT ![op.todo] = Free]
    BY DoesFree, DoesMisread
  <2>3. fat' \in FatType /\ dir' \in DirType
    BY <2>1, <2>2 DEF Typed, FatType
  <2>4. "free" # "idle" /\ "write" # "idle" /\ "write" \notin {"link", "zero", "free"}
    BY SMT
  <2>5. TypedCall(op')
    <3>1. ASSUME Becomes(op, op', "write", op.chain, op.cur, op.off, 0, TRUE) PROVE TypedCall(op')
      BY <2>1, <2>4, <3>1, <1>GoesOn
    <3>2. ASSUME NEW n, n # 0, Becomes(op, op', "free", op.chain, op.cur, op.off, n, TRUE) PROVE TypedCall(op')
      BY <2>1, <2>4, <3>2, <1>GoesOn
    <3>. QED
      BY <3>1, <3>2, DoesFree, DoesMisread
  <2>6. op'.at = "free" \/ op'.at = "write"
    BY DoesFree, DoesMisread DEF Becomes
  <2>7. op'.at \notin {"grow", "link"}
    BY SMT, <2>6
  <2>. QED
    BY ZenonT(30), <2>1, <2>3, <2>5, <2>7, <1>TypesOn
<1>TypesWriteChain. ASSUME Typed, write_chain
      PROVE  Typed'
  <2>. USE <1>TypesWriteChain
  <2>1. UNCHANGED <<dir, creates, want, torn, failed>> /\ fat' \in FatType
        /\ Becomes(op, op', "scan", op.chain, op.cur, op.off, op.todo, op.freed)
    BY DoesWriteChain DEF write_chain
  <2>2. "scan" # "idle" /\ "scan" \notin {"link", "zero", "free"} /\ "scan" \notin {"free", "write"}
    BY SMT
  <2>3. TypedCall(op')
    BY <2>1, <2>2, <1>GoesOn
  <2>4. op'.at = "scan" /\ dir' \in DirType
    BY <2>1 DEF Becomes, Typed
  <2>5. op'.at \notin {"grow", "link"}
    BY SMT, <2>4
  <2>. QED
    BY ZenonT(30), <2>1, <2>3, <2>4, <2>5, <1>TypesOn
<1>TypesLink. ASSUME Typed, grow_link
      PROVE  Typed'
  <2>. USE <1>TypesLink
  <2>1. UNCHANGED <<dir, creates, want, failed>> /\ op.at = "link"
    BY DEF grow_link
  <2>2. /\ op.todo \in Cluster /\ fat' = [fat EXCEPT ![op.cur] = op.todo]
        /\ Becomes(op, op', "zero", op.chain, op.cur, op.off, op.todo, op.freed)
        /\ torn' = (torn \/ SuccIn(fat, op.cur) # 0)
    BY DoesLink
  <2>3. /\ "zero" # "idle" /\ ("zero" \in {"link", "zero", "free"} => op.todo # 0)
        /\ "zero" \in {"free", "write"} => op.off # 0
    BY SMT, <2>2, Numbers
  <2>4. TypedCall(op')
    BY <2>2, <2>3, <1>GoesOn
  <2>5. fat' \in FatType
    BY <2>2, TypedParts DEF FatType
  <2>6. torn' \in BOOLEAN /\ (torn' => failed')
    <3>1. torn => failed
      BY DEF Typed
    <3>2. ~failed => SuccIn(fat, op.cur) = 0
      BY <2>1 DEF Typed
    <3>3. torn' <=> (torn \/ SuccIn(fat, op.cur) # 0)
      BY <2>2
    <3>4. torn' \in BOOLEAN
      BY SMT, <2>2
    <3>. QED
      BY ZenonT(30), <2>1, <3>1, <3>2, <3>3, <3>4
  <2>7. op'.at = "zero"
    BY <2>2 DEF Becomes
  <2>8. op'.at \notin {"grow", "link"}
    BY SMT, <2>7
  <2>. QED
    BY ZenonT(30), <2>1, <2>4, <2>5, <2>6, <2>8 DEF Typed
<1>TypesZero. ASSUME Typed, grow_zero
      PROVE  Typed'
  <2>. USE <1>TypesZero
  <2>1. UNCHANGED <<fat, creates, want, failed, torn>>
    BY DEF grow_zero
  <2>2. /\ op.todo \in Cluster /\ dir' = [dir EXCEPT ![op.todo] = [o \in 1 .. Slots |-> End]]
        /\ Becomes(op, op', "scan", op.chain, op.todo, op.off, 0, op.freed)
    BY DoesZero
  <2>3. "scan" # "idle" /\ "scan" \notin {"link", "zero", "free"} /\ "scan" \notin {"free", "write"}
    BY SMT
  <2>4. TypedCall(op')
    BY <2>2, <2>3, <1>GoesOn
  <2>5. [o \in 1 .. Slots |-> End] \in [1 .. Slots -> SlotType]
    BY NewSlots
  <2>6. dir' \in DirType /\ fat' \in FatType
    BY <2>1, <2>2, <2>5, TypedParts DEF DirType
  <2>7. op'.at = "scan"
    BY <2>2 DEF Becomes
  <2>8. op'.at \notin {"grow", "link"}
    BY SMT, <2>7
  <2>. QED
    BY ZenonT(30), <2>1, <2>4, <2>6, <2>8, <1>TypesOn
<1>TypesWriteSlot. ASSUME Typed, write_slot
      PROVE  Typed'
  <2>. USE <1>TypesWriteSlot
  <2>1. UNCHANGED <<fat, creates, failed, torn>> /\ op' = Idle /\ op.at = "write"
    BY DEF write_slot
  <2>2. op.off \in 1 .. Slots
    <3>1. op.off # 0 /\ op.off \in 0 .. Slots
      BY <2>1, TypedParts DEF TypedCall
    <3>. QED
      BY SMT, <3>1, Numbers
  <2>3. dir' = [dir EXCEPT ![op.cur][op.off] = Written]
    BY DEF write_slot, Written
  <2>4. dir' \in DirType
    BY <2>2, <2>3, WrittenSlot, TypedParts DEF DirType
  <2>5. want' \in WantType
    <3>1. <<0, 0>> \in Nat \X (0 .. MaxClusters) /\ <<creates, op.size>> \in Nat \X (0 .. MaxClusters)
      BY SMT, Fat32Assumption, TypedParts DEF TypedRest
    <3>2. want' = [want EXCEPT ![op.name] = IF op.unlinks THEN <<0, 0>> ELSE <<creates, op.size>>]
      BY DEF write_slot
    <3>. QED
      BY <3>1, <3>2, TypedParts DEF TypedRest, WantType
  <2>6. TypedCall(op')
    BY <2>1, IdleTyped
  <2>7. op'.at \notin {"grow", "link"}
    BY SMT, <2>1, IdleFields
  <2>. QED
    BY ZenonT(30), <2>1, <2>4, <2>5, <2>6, <2>7 DEF Typed
<1> SUFFICES ASSUME Typed, Next
             PROVE  Typed'
  OBVIOUS
<1>1. CASE interrupted
  <2>1. /\ op' = Idle /\ failed' = TRUE /\ torn' = (torn \/ Tears)
        /\ UNCHANGED <<fat, dir, creates, want>>
    BY <1>1 DEF interrupted, disk
  <2>2. fat' \in FatType /\ failed' \in BOOLEAN /\ torn' \in BOOLEAN
    BY SMT, <2>1, TypedParts
  <2>. QED
    BY <2>1, <2>2, <1>TypesStop
<1>. QED
  BY ZenonT(30), <1>1, <1>TypesRemove, <1>TypesCreate, <1>TypesDraw, <1>TypesWriteChain, <1>TypesScan, <1>TypesLink,
     <1>TypesZero, <1>TypesFree, <1>TypesWriteSlot DEF Next

-----------------------------------------------------------------------------
(* The invariant is inductive *)

\* What is torn or has failed stays so.
LEMMA Sticky ==
  ASSUME Typed, Next
  PROVE  (torn => torn') /\ (failed => failed')
<1>1. ASSUME NEW n \in Names, unlink_root(n) \/ \E k \in 0 .. MaxClusters : create_root_file(n, k)
      PROVE  torn' = torn /\ failed' = failed
  BY <1>1 DEF unlink_root, create_root_file
<1>2. alloc_cluster \/ grow_alloc => torn' = torn /\ (failed' = failed \/ failed' = TRUE)
  BY DEF alloc_cluster, grow_alloc, GiveUp
<1>3. write_chain \/ upsert_root_dir_entry \/ grow_zero \/ free_chain \/ write_slot \/ unlink_scan =>
        torn' = torn /\ failed' = failed
  BY DEF write_chain, upsert_root_dir_entry, grow_zero, free_chain, write_slot, unlink_scan
<1>4. misread_root \/ misread_chain => torn' = torn /\ failed' = TRUE
  BY DEF misread_root, misread_chain
<1>5. interrupted => (torn => torn') /\ failed' = TRUE
  BY DEF interrupted
<1>6. grow_link => (torn => torn') /\ failed' = failed
  BY DEF grow_link
<1>7. (torn' = torn \/ (torn => torn')) /\ (failed' = failed \/ failed' = TRUE)
  BY ZenonT(30), <1>1, <1>2, <1>3, <1>4, <1>5, <1>6 DEF Next
<1>. QED
  BY SMT, <1>7

\* Every step that does not tear the directory preserves what holds until then.
LEMMA NextStep ==
  ASSUME Typed, InvNow, Next, ~torn'
  PROVE  InvNext
<1>1. CASE \E n \in Names : unlink_root(n) \/ \E k \in 0 .. MaxClusters : create_root_file(n, k)
  BY <1>1, StepCreate, StepRemove
<1>2. CASE alloc_cluster
  BY <1>2, StepDraw
<1>3. CASE write_chain
  BY <1>3, StepWriteChain
<1>4. CASE upsert_root_dir_entry
  BY <1>4, StepScan
<1>5. CASE misread_root
  BY <1>5, StepScan
<1>6. CASE grow_alloc
  BY <1>6, StepDraw
<1>7. CASE grow_link
  BY ZenonT(30), <1>7, StepLink
<1>8. CASE grow_zero
  BY <1>8, StepZero
<1>9. CASE free_chain
  BY <1>9, StepRelease
<1>10. CASE misread_chain
  BY <1>10, StepRelease
<1>11. CASE write_slot
  BY <1>11, StepWriteSlot
<1>12. CASE unlink_scan
  BY <1>12, StepScan
<1>13. CASE interrupted
  BY <1>13, StepInterrupted
<1>. QED
  BY ZenonT(30), <1>1, <1>2, <1>3, <1>4, <1>5, <1>6, <1>7, <1>8, <1>9, <1>10, <1>11, <1>12, <1>13 DEF Next

\* IInv is inductive.
LEMMA NextInv == IInv /\ [Next]_vars => IInv'
<1>1. SUFFICES ASSUME IInv, [Next]_vars PROVE IInv'
  BY SMT
<1>2. Typed /\ (~torn => InvNow) /\ (~failed => SpaceInv(fat, Heads(dir, op))) /\ (torn => failed)
  BY <1>1 DEF IInv, InvNow, Typed
<1>3. CASE Next
  <2>1. Typed' /\ (torn => torn') /\ (failed => failed')
    BY <1>2, <1>3, TypedNext, Sticky
  <2>2. ~torn' => InvNext
    BY <1>2, <1>3, <2>1, NextStep
  <2>3. torn' => failed'
    BY <2>1 DEF Typed
  <2>4. ~torn' => InvOf(fat', dir', body', op', creates', want')
    BY <2>2 DEF InvNext
  <2>5. ~failed' => SpaceInv(fat', Heads(dir', op'))
    BY <1>2, <2>1, <2>2, <2>3 DEF InvNext
  <2>. QED
    BY <2>1, <2>4, <2>5 DEF IInv
<1>4. CASE UNCHANGED vars
  BY <1>1, <1>4 DEF vars, IInv, Typed
<1>. QED
  BY <1>1, <1>3, <1>4

-----------------------------------------------------------------------------
(* Theorems *)

\* The invariant of the write path: the FAT's chains meet nowhere, every entry
\* has the chain its size says, and every name its data.
THEOREM Invariance == Spec => []IInv
<1>. QED
  BY InitInv, NextInv, PTL DEF Spec

\* TypeOK: the FAT, the directory's slots, and the call under way have their types.
THEOREM TypeCorrectness == Spec => []TypeOK
BY Invariance, HasTypes, PTL

\* NoCrossLinks: unless a call was stopped where the order of its writes leaves
\* the directory inconsistent, no cluster belongs to two owners, every file has
\* as many clusters as its size, and none of them is free.
THEOREM FilesAreDisjoint == Spec => []NoCrossLinks
BY Invariance, SharesNone, PTL

\* SpaceIsAccounted: without a failed transfer, every cluster that the FAT calls
\* taken is in the root, in a file, or in the hands of the call under way.
THEOREM NoClusterIsLost == Spec => []SpaceIsAccounted
BY Invariance, LosesNone, PTL

\* ReadBack: with no call under way and no torn write, each file is found and
\* reads back the data of the last call that said it wrote it.
THEOREM WhatIsWrittenReadsBack == Spec => []ReadBack
BY Invariance, ReadsBack, PTL
=============================================================================
