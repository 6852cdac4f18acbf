---------------------------- MODULE MemoryProofs ----------------------------
(***************************************************************************)
(* Proofs about memory.  First the books of Ipc, for any number of         *)
(* processes, regions, pages and frames: references, address ranges, the   *)
(* owner of the framebuffer, and the frames that are lent.  The inductive  *)
(* invariant and what giving up mappings does to it come first, then one   *)
(* lemma per kind of step, then the theorems.  The second half is the      *)
(* bitmap frame allocator, for every frame size, bitmap size, memory map   *)
(* and set of reserved ranges.                                             *)
(***************************************************************************)
EXTENDS Ipc, FrameAllocator, FiniteSetTheorems, TLAPS

-----------------------------------------------------------------------------
(* Shared memory, mailboxes and the framebuffer *)

\* Every address a mapping covers was handed out before the next one.
MappingsBelowNext == \A m \in SHM_MAPPINGS : m.base + m.pages <= SHM_VA_NEXT[m.pid]

\* The books of shared memory.
BooksAgree == /\ IsFiniteSet(SHM_MAPPINGS)
              /\ RefsAreMappings
              /\ MappingsBelowNext
              /\ MappingsAreDisjoint

\* A page that process p has mapped at va shows a region that p has a mapping of
\* there.
ShownBy(m, p, va) == /\ m.pid = p /\ va \in m.base .. m.base + m.pages - 1
                     /\ mapped_pages[p][va] \in Lent(m.handle)

\* A live process that was never party to a fork sees, apart from frames a destroy
\* has given back, the backbuffer and the regions it has mappings of.
PagesAreShown ==
  \A p \in Alone : procs[p] = "live" => \A va \in DOMAIN mapped_pages[p] :
    \/ mapped_pages[p][va] \in destroyed \cup FB_BACKBUF_FRAMES
    \/ \E m \in SHM_MAPPINGS : ShownBy(m, p, va)

\* A process that is not born has no page and no parent.
UnbornIsBlank ==
  \A p \in Pid : procs[p] = "unborn" => DOMAIN mapped_pages[p] = {} /\ parent[p] = None

\* The framebuffer has a live owner, for whom the backbuffer was allocated, or
\* none and is exposed to nobody.
OwnerLives == /\ FB_OWNER # None => procs[FB_OWNER] = "live"
              /\ FB_OWNER # None /\ HasFb => FB_BACKBUF_FRAMES # {}
              /\ FB_BACKBUF_VA => FB_OWNER # None

\* The inductive invariant.
IInv == /\ TypeOK /\ BooksAgree /\ OwnerLives
        /\ LentFramesStay /\ PagesAreShown /\ UnbornIsBlank

-----------------------------------------------------------------------------
(* Giving up mappings *)

\* The references of a region split into those that are given up and the rest.
LEMMA RefsSplit ==
  ASSUME BooksAgree, NEW gone \in SUBSET SHM_MAPPINGS, NEW h \in Known
  PROVE  /\ Cardinality(MappingsOf(gone, h)) \in Nat
         /\ Cardinality(MappingsOf(SHM_MAPPINGS \ gone, h)) \in Nat
         /\ SHM_TABLE[h].refs = Cardinality(MappingsOf(gone, h))
                                + Cardinality(MappingsOf(SHM_MAPPINGS \ gone, h))
         /\ Cardinality(MappingsOf(SHM_MAPPINGS \ gone, h)) = 0
              <=> MappingsOf(SHM_MAPPINGS \ gone, h) = {}
<1> DEFINE S == MappingsOf(SHM_MAPPINGS, h)
           G == MappingsOf(gone, h)
           R == MappingsOf(SHM_MAPPINGS \ gone, h)
<1>1. IsFiniteSet(S)
  BY FS_Subset DEF BooksAgree, MappingsOf
<1>2. R = S \ G /\ G = S \cap G /\ R \in SUBSET S /\ G \in SUBSET S
  BY DEF MappingsOf
<1>3. SHM_TABLE[h].refs = Cardinality(S)
  BY DEF BooksAgree, RefsAreMappings
<1> HIDE DEF S, G, R
<1>4. IsFiniteSet(R) /\ IsFiniteSet(G)
  BY <1>1, <1>2, FS_Subset
<1>5. Cardinality(S \ G) = Cardinality(S) - Cardinality(S \cap G)
  BY Zenon, <1>1, FS_Difference
<1>6. Cardinality(R) = Cardinality(S) - Cardinality(G)
  BY <1>2, <1>5
<1>7. Cardinality(R) \in Nat /\ Cardinality(G) \in Nat /\ Cardinality(S) \in Nat
  BY <1>1, <1>4, FS_CardinalityType
<1>8. Cardinality(R) = 0 <=> R = {}
  BY <1>4, FS_EmptySet
<1>9. /\ Cardinality(G) \in Nat /\ Cardinality(R) \in Nat
      /\ SHM_TABLE[h].refs = Cardinality(G) + Cardinality(R)
      /\ Cardinality(R) = 0 <=> R = {}
  BY <1>3, <1>6, <1>7, <1>8
<1>. QED
  BY Zenon, <1>9 DEF R, G

\* What Dropped leaves: the regions with a mapping left, or with none before,
\* their frames untouched and their references counting the mappings left.
LEMMA DroppedTable ==
  ASSUME TypeOK, BooksAgree, NEW gone \in SUBSET SHM_MAPPINGS
  PROVE  /\ DOMAIN Dropped(gone) \subseteq Known
         /\ Dropped(gone) \in [DOMAIN Dropped(gone) -> [frames : Seq(Frames), refs : Nat]]
         /\ \A h \in DOMAIN Dropped(gone) :
              /\ Dropped(gone)[h].frames = SHM_TABLE[h].frames
              /\ Dropped(gone)[h].refs = Cardinality(MappingsOf(SHM_MAPPINGS \ gone, h))
         /\ \A m \in SHM_MAPPINGS \ gone : m.handle \in DOMAIN Dropped(gone)
         /\ \A h \in Known \ DOMAIN Dropped(gone) : MappingsOf(SHM_MAPPINGS \ gone, h) = {}
<1> DEFINE n(h) == Cardinality(MappingsOf(gone, h))
           r(h) == Cardinality(MappingsOf(SHM_MAPPINGS \ gone, h))
           D == {h \in Known : ~Orphan(SHM_TABLE[h], n(h))}
<1>1. Dropped(gone) = [h \in D |-> [SHM_TABLE[h] EXCEPT !.refs = @ - n(h)]]
  BY DEF Dropped
<1>2. \A h \in Known : /\ n(h) \in Nat /\ r(h) \in Nat /\ SHM_TABLE[h].refs = n(h) + r(h)
                       /\ r(h) = 0 <=> MappingsOf(SHM_MAPPINGS \ gone, h) = {}
  BY Zenon, RefsSplit
<1>3. SHM_TABLE \in [Known -> [frames : Seq(Frames), refs : Nat]]
  BY DEF TypeOK
<1>4. \A m \in SHM_MAPPINGS \ gone : /\ m.handle \in Known
                                      /\ MappingsOf(SHM_MAPPINGS \ gone, m.handle) # {}
  BY DEF BooksAgree, RefsAreMappings, MappingsOf
<1> HIDE DEF n, r
<1>5. \A h \in Known : Orphan(SHM_TABLE[h], n(h)) <=> n(h) > 0 /\ r(h) = 0
  BY <1>2 DEF Orphan
<1>6. \A h \in D : /\ [SHM_TABLE[h] EXCEPT !.refs = @ - n(h)] \in [frames : Seq(Frames), refs : Nat]
                   /\ [SHM_TABLE[h] EXCEPT !.refs = @ - n(h)].frames = SHM_TABLE[h].frames
                   /\ [SHM_TABLE[h] EXCEPT !.refs = @ - n(h)].refs = r(h)
  BY SMTT(30), <1>2, <1>3
<1>7. DOMAIN Dropped(gone) = D /\ D \subseteq Known
  BY <1>1
<1>8. \A m \in SHM_MAPPINGS \ gone : m.handle \in D
  BY Zenon, <1>2, <1>4, <1>5
<1>9. \A h \in Known \ D : MappingsOf(SHM_MAPPINGS \ gone, h) = {}
  BY <1>2, <1>5
<1> HIDE DEF D
<1>10. \A h \in D : /\ Dropped(gone)[h] \in [frames : Seq(Frames), refs : Nat]
                    /\ Dropped(gone)[h].frames = SHM_TABLE[h].frames
                    /\ Dropped(gone)[h].refs = r(h)
  BY <1>1, <1>6
<1>11. Dropped(gone) \in [D -> [frames : Seq(Frames), refs : Nat]]
  BY ZenonT(30), <1>1, <1>6
<1>. QED
  BY Zenon, <1>7, <1>8, <1>9, <1>10, <1>11 DEF r

-----------------------------------------------------------------------------
(* The lent frames *)

\* A step that changes the frames of no region.
LEMMA LentSame ==
  ASSUME NEW h, SHM_TABLE'[h].frames = SHM_TABLE[h].frames
  PROVE  Lent(h)' = Lent(h)
BY DEF Lent, Image

\* The frames given back with the mappings in gone belong to regions without a
\* mapping left.
LEMMA FreedFrames ==
  ASSUME TypeOK, BooksAgree, NEW gone \in SUBSET SHM_MAPPINGS, NEW f \in Freed(gone)
  PROVE  \E h \in Known \ DOMAIN Dropped(gone) :
           f \in Lent(h) /\ MappingsOf(SHM_MAPPINGS \ gone, h) = {}
<1>1. PICK h \in Known \ DOMAIN Dropped(gone) : f \in Lent(h)
  BY DEF Freed, Lent
<1>. QED
  BY Zenon, <1>1, DroppedTable

\* Mappings are given up, by an unmap or by an exit: what the processes that live
\* on still see has a mapping left.
LEMMA DropStep ==
  ASSUME IInv, NEW gone \in SUBSET SHM_MAPPINGS,
         SHM_MAPPINGS' = SHM_MAPPINGS \ gone,
         SHM_TABLE' = Dropped(gone), free' = free \cup Freed(gone),
         destroyed' = destroyed, FB_BACKBUF_FRAMES' = FB_BACKBUF_FRAMES, Alone' = Alone,
         \A m \in SHM_MAPPINGS \ gone :
           procs'[m.pid] = "live" /\ SHM_VA_NEXT'[m.pid] = SHM_VA_NEXT[m.pid],
         \A q \in Alone : procs'[q] = "live" =>
           /\ procs[q] = "live"
           /\ \A va \in DOMAIN mapped_pages'[q] :
                /\ va \in DOMAIN mapped_pages[q] /\ mapped_pages'[q][va] = mapped_pages[q][va]
                /\ \A m \in gone : ~(m.pid = q /\ va \in m.base .. m.base + m.pages - 1)
  PROVE  BooksAgree' /\ LentFramesStay' /\ PagesAreShown'
<1>1. /\ Known' \subseteq Known
      /\ \A h \in Known' : /\ SHM_TABLE'[h].frames = SHM_TABLE[h].frames
                           /\ SHM_TABLE'[h].refs = Cardinality(MappingsOf(SHM_MAPPINGS', h))
      /\ \A m \in SHM_MAPPINGS' : m.handle \in Known'
      /\ \A h \in Known \ Known' : MappingsOf(SHM_MAPPINGS', h) = {}
  BY ZenonT(30), DroppedTable DEF IInv, Known
<1>2. \A h \in Known' : Lent(h)' = Lent(h)
  BY <1>1, LentSame
<1>3. BooksAgree'
  <2>1. IsFiniteSet(SHM_MAPPINGS')
    BY FS_Subset DEF IInv, BooksAgree
  <2>2. RefsAreMappings'
    BY <1>1 DEF RefsAreMappings, MappingsOf
  <2>3. MappingsBelowNext'
    BY DEF IInv, BooksAgree, MappingsBelowNext
  <2>4. MappingsAreDisjoint'
    BY DEF IInv, BooksAgree, MappingsAreDisjoint
  <2>. QED
    BY Zenon, <2>1, <2>2, <2>3, <2>4 DEF BooksAgree
<1>4. ASSUME NEW f \in free', f \notin destroyed
      PROVE  /\ f \notin FB_BACKBUF_FRAMES
             /\ \A h \in Known' : f \notin Lent(h)
  <2>1. CASE f \in free
    BY Zenon, <1>1, <1>4, <2>1 DEF IInv, LentFramesStay
  <2>2. CASE f \in Freed(gone)
    <3>1. PICK k \in Known \ Known' : f \in Lent(k)
      BY Zenon, <2>2, FreedFrames DEF IInv, Known
    <3>. QED
      BY <1>1, <1>4, <3>1 DEF IInv, LentFramesStay
  <2>. QED
    BY Zenon, <1>4, <2>1, <2>2
<1>5. PagesAreShown'
  <2>1. ASSUME NEW q \in Alone, procs'[q] = "live", NEW va \in DOMAIN mapped_pages'[q],
               mapped_pages'[q][va] \notin destroyed \cup FB_BACKBUF_FRAMES
        PROVE  \E m \in SHM_MAPPINGS' : ShownBy(m, q, va)'
    <3>1. PICK m \in SHM_MAPPINGS : ShownBy(m, q, va)
      BY <2>1 DEF IInv, PagesAreShown
    <3>2. m \in SHM_MAPPINGS'
      BY Zenon, <2>1, <3>1 DEF ShownBy
    <3>3. Lent(m.handle)' = Lent(m.handle)
      BY Zenon, <1>1, <1>2, <3>2
    <3>4. ShownBy(m, q, va)'
      BY <2>1, <3>1, <3>3 DEF ShownBy
    <3>. QED
      BY Zenon, <3>2, <3>4
  <2>. QED
    BY <2>1 DEF PagesAreShown
<1>6. LentFramesStay'
  <2>1. \A h \in Known' : Lent(h)' \cap (free' \cup FB_BACKBUF_FRAMES') \subseteq destroyed'
    BY <1>1, <1>2, <1>4 DEF IInv, LentFramesStay
  <2>2. \A h, k \in Known' : h # k => Lent(h)' \cap Lent(k)' \subseteq destroyed'
    BY <1>1, <1>2 DEF IInv, LentFramesStay
  <2>3. FB_BACKBUF_FRAMES' \cap free' \subseteq destroyed'
    BY <1>4
  <2>4. ASSUME NEW q \in Alone, procs'[q] = "live", NEW f \in Image(mapped_pages'[q]) \cap free',
               f \notin destroyed
        PROVE  FALSE
    <3>1. PICK va \in DOMAIN mapped_pages'[q] : f = mapped_pages'[q][va]
      BY <2>4 DEF Image
    <3>2. PICK m \in SHM_MAPPINGS' : ShownBy(m, q, va)'
      BY Zenon, <1>4, <1>5, <2>4, <3>1 DEF PagesAreShown
    <3>3. m.handle \in Known' /\ f \in Lent(m.handle)'
      BY <1>1, <3>1, <3>2 DEF ShownBy
    <3>. QED
      BY <1>2, <1>4, <2>4, <3>3
  <2>. QED
    BY Zenon, <2>1, <2>2, <2>3, <2>4 DEF LentFramesStay, Image
<1>. QED
  BY <1>3, <1>5, <1>6

-----------------------------------------------------------------------------
(* The steps that take a process, a region or a mapping *)

\* A step that leaves processes, regions, framebuffer and memory alone.
LEMMA QuietStep ==
  ASSUME IInv, TypeOK', UNCHANGED <<procs, parent, shm, fb, memory>>
  PROVE  IInv'
<1>1. /\ procs' = procs /\ parent' = parent /\ Alone' = Alone
      /\ SHM_TABLE' = SHM_TABLE /\ SHM_MAPPINGS' = SHM_MAPPINGS
      /\ SHM_VA_NEXT' = SHM_VA_NEXT /\ FB_OWNER' = FB_OWNER
      /\ FB_BACKBUF_FRAMES' = FB_BACKBUF_FRAMES /\ FB_BACKBUF_VA' = FB_BACKBUF_VA
      /\ mapped_pages' = mapped_pages /\ free' = free /\ destroyed' = destroyed
  BY Zenon DEF shm, fb, memory, Alone
<1>2. BooksAgree'
  BY <1>1 DEF IInv, BooksAgree, RefsAreMappings, MappingsBelowNext, MappingsAreDisjoint,
              Known, MappingsOf
<1>3. OwnerLives'
  BY <1>1 DEF IInv, OwnerLives
<1>4. \A h : Lent(h)' = Lent(h)
  BY <1>1 DEF Lent
<1>5. LentFramesStay'
  BY ZenonT(30), <1>1, <1>4 DEF IInv, LentFramesStay, Known
<1>6. PagesAreShown'
  BY <1>1, <1>4 DEF IInv, PagesAreShown, ShownBy
<1>7. UnbornIsBlank'
  BY <1>1 DEF IInv, UnbornIsBlank
<1>. QED
  BY <1>2, <1>3, <1>5, <1>6, <1>7 DEF IInv

\* No process, no region, no page, and every frame free.
LEMMA InitIInv == Init => IInv
<1> SUFFICES ASSUME Init PROVE IInv
  OBVIOUS
<1>1. Known = {} /\ SHM_MAPPINGS = {} /\ destroyed = {} /\ FB_BACKBUF_FRAMES = {}
  BY DEF Init, Known
<1>2. TypeOK
  <2>1. SHM_TABLE \in [Known -> [frames : Seq(Frames), refs : Nat]]
    BY DEF Init, Known
  <2>2. \A p \in Pid : Image(mapped_pages[p]) = {} /\ DOMAIN mapped_pages[p] = {}
    BY DEF Init, Image
  <2>3. MAILBOXES \in [Pid -> Seq(Pid)]
    BY DEF Init
  <2>4. FB_BACKBUF_VA \in BOOLEAN /\ DOMAIN mapped_pages = Pid
    BY Zenon DEF Init
  <2>5. NEXT_HANDLE \in 1 .. MaxHandle + 1 /\ SHM_VA_NEXT \in [Pid -> 0 .. MaxVa]
    BY IpcAssumption DEF Init
  <2>6. /\ procs \in [Pid -> {"unborn", "live", "zombie", "reaped"}]
        /\ parent \in [Pid -> Pid \cup {None}]
        /\ FB_OWNER \in Pid \cup {None} /\ spinning \in Pid \cup {None} /\ free = Frames
    BY DEF Init
  <2>7. counts \in [Frames -> 0 .. 255]
    BY DEF Init
  <2>. QED
    BY ZenonT(30), <1>1, <2>1, <2>2, <2>3, <2>4, <2>5, <2>6, <2>7 DEF TypeOK
<1>3. BooksAgree
  BY <1>1, FS_EmptySet DEF BooksAgree, RefsAreMappings, MappingsBelowNext, MappingsAreDisjoint
<1>4. OwnerLives
  BY DEF Init, OwnerLives
<1>5. LentFramesStay
  BY <1>1 DEF Init, LentFramesStay, Image, Alone
<1>6. PagesAreShown
  BY DEF Init, PagesAreShown, Alone
<1>7. UnbornIsBlank
  BY DEF Init, UnbornIsBlank
<1>. QED
  BY <1>2, <1>3, <1>4, <1>5, <1>6, <1>7 DEF IInv

\* A process that starts has mapped nothing.
LEMMA StartStep ==
  ASSUME IInv, NEW p \in Pid, start(p)
  PROVE  IInv'
<1>1. /\ procs[p] = "unborn" /\ procs' = [procs EXCEPT ![p] = "live"]
      /\ parent' = parent /\ Alone' = Alone /\ counts' = counts
      /\ SHM_TABLE' = SHM_TABLE /\ SHM_MAPPINGS' = SHM_MAPPINGS
      /\ SHM_VA_NEXT' = SHM_VA_NEXT /\ NEXT_HANDLE' = NEXT_HANDLE
      /\ MAILBOXES' = MAILBOXES /\ spinning' = spinning /\ FB_OWNER' = FB_OWNER
      /\ FB_BACKBUF_FRAMES' = FB_BACKBUF_FRAMES /\ FB_BACKBUF_VA' = FB_BACKBUF_VA
      /\ mapped_pages' = mapped_pages /\ free' = free /\ destroyed' = destroyed
  BY DEF start, shm, fb, memory, Alone
<1>2. procs \in [Pid -> {"unborn", "live", "zombie", "reaped"}] /\ SHM_MAPPINGS \subseteq Mapping
      /\ FB_OWNER \in Pid \cup {None}
  BY DEF IInv, TypeOK
<1>3. \A q \in Pid : procs'[q] = IF q = p THEN "live" ELSE procs[q]
  BY <1>1, <1>2
<1>4. TypeOK'
  BY Zenon, <1>1, <1>2 DEF IInv, TypeOK, Known, Pages
<1>5. BooksAgree'
  BY Zenon, <1>1, <1>2, <1>3 DEF IInv, BooksAgree, RefsAreMappings, MappingsBelowNext,
                          MappingsAreDisjoint, Known, MappingsOf, Mapping
<1>6. OwnerLives'
  BY <1>1, <1>2, <1>3 DEF IInv, OwnerLives
<1>7. \A h : Lent(h)' = Lent(h)
  BY <1>1 DEF Lent
<1>8. DOMAIN mapped_pages[p] = {} /\ Image(mapped_pages[p]) = {}
  BY <1>1 DEF IInv, UnbornIsBlank, Image
<1>9. LentFramesStay'
  BY ZenonT(30), <1>1, <1>3, <1>7, <1>8 DEF IInv, LentFramesStay, Known, Alone
<1>10. PagesAreShown'
  BY <1>1, <1>3, <1>7, <1>8 DEF IInv, PagesAreShown, ShownBy, Alone
<1>11. UnbornIsBlank'
  BY <1>1, <1>3 DEF IInv, UnbornIsBlank
<1>. QED
  BY Zenon, <1>4, <1>5, <1>6, <1>9, <1>10, <1>11 DEF IInv

\* A new region takes frames that were free, and nobody maps it yet.
LEMMA CreateStep ==
  ASSUME IInv, NEW p \in Pid, sys_shm_create(p)
  PROVE  IInv'
<1>0. PICK n \in 1 .. MaxPages : \E fs \in [1 .. n -> free] :
        /\ SHM_TABLE' = [h \in Known \cup {NEXT_HANDLE} |->
             IF h = NEXT_HANDLE THEN [frames |-> fs, refs |-> 0] ELSE SHM_TABLE[h]]
        /\ free' = free \ Image(fs)
  BY DEF sys_shm_create
<1>1. PICK fs \in [1 .. n -> free] :
        /\ SHM_TABLE' = [h \in Known \cup {NEXT_HANDLE} |->
             IF h = NEXT_HANDLE THEN [frames |-> fs, refs |-> 0] ELSE SHM_TABLE[h]]
        /\ free' = free \ Image(fs)
  BY <1>0
<1>2. /\ procs' = procs /\ parent' = parent /\ Alone' = Alone /\ counts' = counts
      /\ SHM_MAPPINGS' = SHM_MAPPINGS /\ SHM_VA_NEXT' = SHM_VA_NEXT
      /\ NEXT_HANDLE \in Handle /\ NEXT_HANDLE' = NEXT_HANDLE + 1
      /\ MAILBOXES' = MAILBOXES /\ spinning' = spinning /\ FB_OWNER' = FB_OWNER
      /\ FB_BACKBUF_FRAMES' = FB_BACKBUF_FRAMES /\ FB_BACKBUF_VA' = FB_BACKBUF_VA
      /\ mapped_pages' = mapped_pages /\ destroyed' = destroyed
  BY DEF sys_shm_create, fb, Alone
<1>3. /\ Known \subseteq 1 .. NEXT_HANDLE - 1 /\ free \subseteq Frames
      /\ SHM_TABLE \in [Known -> [frames : Seq(Frames), refs : Nat]]
      /\ NEXT_HANDLE \in 1 .. MaxHandle + 1
  BY Zenon DEF IInv, TypeOK
<1>4. fs \in Seq(Frames) /\ Len(fs) = n
  BY <1>3, IpcAssumption
<1>12. PICK new : new = NEXT_HANDLE
  OBVIOUS
<1>5. /\ Known' = Known \cup {new} /\ new \notin Known
      /\ SHM_TABLE'[new] = [frames |-> fs, refs |-> 0]
      /\ \A h \in Known : SHM_TABLE'[h] = SHM_TABLE[h]
  BY SMTT(30), <1>1, <1>2, <1>3, <1>12, IpcAssumption DEF Known, Handle
<1>6. TypeOK'
  <2>1. SHM_TABLE' \in [Known' -> [frames : Seq(Frames), refs : Nat]]
    BY ZenonT(30), <1>1, <1>3, <1>4, <1>5, <1>12
  <2>2. \A h \in Known' : Len(SHM_TABLE'[h].frames) \in 1 .. MaxPages
    BY <1>4, <1>5 DEF IInv, TypeOK, Pages
  <2>3. Known' \subseteq 1 .. NEXT_HANDLE' - 1 /\ NEXT_HANDLE' \in 1 .. MaxHandle + 1
    <3>1. new \in 1 .. MaxHandle /\ NEXT_HANDLE' = new + 1 /\ Known \subseteq 1 .. new - 1
      BY Zenon, <1>2, <1>3, <1>12 DEF Handle
    <3>. QED
      BY <1>5, <3>1, IpcAssumption
  <2>4. free' \subseteq Frames
    BY Zenon, <1>1, <1>3
  <2>. QED
    BY ZenonT(30), <1>2, <2>1, <2>2, <2>3, <2>4 DEF IInv, TypeOK, Pages
<1>7. BooksAgree'
  <2>1. MappingsOf(SHM_MAPPINGS, new) = {}
    BY <1>5 DEF IInv, BooksAgree, RefsAreMappings, MappingsOf
  <2>3. SHM_TABLE'[new].refs = Cardinality(MappingsOf(SHM_MAPPINGS, new))
    BY <1>5, <2>1, FS_EmptySet
  <2>4. \A h \in Known : SHM_TABLE'[h].refs = Cardinality(MappingsOf(SHM_MAPPINGS, h))
    BY <1>5 DEF IInv, BooksAgree, RefsAreMappings
  <2>5. \A h : MappingsOf(SHM_MAPPINGS, h)' = MappingsOf(SHM_MAPPINGS, h)
    BY Zenon, <1>2 DEF MappingsOf
  <2>2. RefsAreMappings'
    BY ZenonT(30), <1>2, <1>5, <2>3, <2>4, <2>5 DEF IInv, BooksAgree, RefsAreMappings
  <2>. QED
    BY Zenon, <1>2, <2>2 DEF IInv, BooksAgree, MappingsBelowNext, MappingsAreDisjoint
<1>8. OwnerLives'
  BY <1>2 DEF IInv, OwnerLives
<1>9. /\ \A h \in Known : Lent(h)' = Lent(h)
      /\ Lent(new)' = Image(fs) /\ Image(fs) \subseteq free
  <2>1. \A h \in Known : Lent(h)' = Lent(h)
    BY Zenon, <1>5, LentSame
  <2>2. SHM_TABLE'[new].frames = fs
    BY <1>5
  <2>3. Lent(new)' = Image(fs)
    BY Zenon, <2>2 DEF Lent
  <2>4. Image(fs) \subseteq free
    BY Zenon DEF Image
  <2>. QED
    BY Zenon, <2>1, <2>3, <2>4
<1>10. LentFramesStay'
  <2>1. \A h \in Known' : Lent(h)' \cap (free' \cup FB_BACKBUF_FRAMES') \subseteq destroyed'
    BY SMTT(30), <1>1, <1>2, <1>5, <1>9 DEF IInv, LentFramesStay
  <2>2. \A h, k \in Known' : h # k => Lent(h)' \cap Lent(k)' \subseteq destroyed'
    BY SMTT(30), <1>2, <1>5, <1>9 DEF IInv, LentFramesStay
  <2>. QED
    BY ZenonT(30), <1>1, <1>2, <2>1, <2>2 DEF IInv, LentFramesStay
<1>11. PagesAreShown'
  <2>1. \A m \in SHM_MAPPINGS : Lent(m.handle)' = Lent(m.handle)
    BY <1>9 DEF IInv, BooksAgree, RefsAreMappings
  <2>. QED
    BY SMTT(30), <1>2, <2>1 DEF IInv, PagesAreShown, ShownBy
<1>13. UnbornIsBlank'
  BY <1>2 DEF IInv, UnbornIsBlank
<1>. QED
  BY ZenonT(30), <1>6, <1>7, <1>8, <1>10, <1>11, <1>13 DEF IInv

\* A mapping takes addresses nobody has, one reference, and shows the frames of
\* its region; one that fails only consumes the addresses.
LEMMA MapStep ==
  ASSUME IInv, NEW p \in Pid, NEW h \in Handle, sys_shm_map(p, h)
  PROVE  IInv'
<1> DEFINE frames == SHM_TABLE[h].frames
           base == SHM_VA_NEXT[p]
           new == [pid |-> p, handle |-> h, base |-> base, pages |-> Pages(h)]
<1>1. /\ procs[p] = "live" /\ h \in Known /\ base + Pages(h) <= MaxVa
      /\ procs' = procs /\ parent' = parent /\ Alone' = Alone /\ counts' = counts
      /\ NEXT_HANDLE' = NEXT_HANDLE
      /\ SHM_VA_NEXT' = [SHM_VA_NEXT EXCEPT ![p] = base + Pages(h)]
      /\ MAILBOXES' = MAILBOXES /\ spinning' = spinning /\ FB_OWNER' = FB_OWNER
      /\ FB_BACKBUF_FRAMES' = FB_BACKBUF_FRAMES /\ FB_BACKBUF_VA' = FB_BACKBUF_VA
      /\ free' = free /\ destroyed' = destroyed
  BY Zenon DEF sys_shm_map, Runs, Bump, fb, Alone
<1>2. /\ SHM_TABLE \in [Known -> [frames : Seq(Frames), refs : Nat]]
      /\ SHM_VA_NEXT \in [Pid -> 0 .. MaxVa] /\ SHM_MAPPINGS \subseteq Mapping
      /\ \A k \in Known : Pages(k) \in 1 .. MaxPages
      /\ DOMAIN mapped_pages = Pid /\ Known \subseteq 1 .. NEXT_HANDLE - 1
  BY Zenon DEF IInv, TypeOK
<1>3. /\ base \in 0 .. MaxVa /\ Pages(h) \in 1 .. MaxPages /\ frames \in Seq(Frames)
      /\ Pages(h) = Len(frames) /\ new \in Mapping
  <2>1. base \in 0 .. MaxVa /\ Pages(h) \in 1 .. MaxPages /\ frames \in Seq(Frames)
    BY ZenonT(30), <1>1, <1>2
  <2>. QED
    BY <2>1 DEF Mapping, Pages
<1>4. /\ \A q \in Pid : SHM_VA_NEXT'[q] = IF q = p THEN base + Pages(h) ELSE SHM_VA_NEXT[q]
      /\ SHM_VA_NEXT' \in [Pid -> 0 .. MaxVa]
  BY <1>1, <1>2, <1>3, IpcAssumption
<1>5. OwnerLives'
  BY <1>1 DEF IInv, OwnerLives
<1>9. \A q \in Pid : /\ SHM_VA_NEXT[q] \in Int /\ SHM_VA_NEXT'[q] \in Int
                    /\ SHM_VA_NEXT[q] <= SHM_VA_NEXT'[q]
  <2>1. \A q \in Pid : SHM_VA_NEXT[q] \in Int
    BY <1>2, IpcAssumption
  <2>2. base \in Int /\ Pages(h) \in Int /\ base <= base + Pages(h)
    BY <1>3, IpcAssumption
  <2>. QED
    BY <1>4, <2>1, <2>2
<1> HIDE DEF base, frames
<1>6. CASE SHM_TABLE' = SHM_TABLE /\ UNCHANGED <<SHM_MAPPINGS, mapped_pages>>
  <2>1. TypeOK'
    <3>1. Known' = Known /\ \A k : Pages(k)' = Pages(k)
      BY Zenon, <1>6 DEF Known, Pages
    <3>2. mapped_pages' = mapped_pages /\ SHM_MAPPINGS' = SHM_MAPPINGS
      BY Zenon, <1>6
    <3>3. /\ procs' \in [Pid -> {"unborn", "live", "zombie", "reaped"}]
          /\ parent' \in [Pid -> Pid \cup {None}] /\ counts' \in [Frames -> 0 .. 255]
          /\ NEXT_HANDLE' \in 1 .. MaxHandle + 1 /\ SHM_MAPPINGS' \subseteq Mapping
          /\ MAILBOXES' \in [Pid -> Seq(Pid)]
          /\ FB_OWNER' \in Pid \cup {None} /\ FB_BACKBUF_FRAMES' \subseteq Frames
          /\ FB_BACKBUF_VA' \in BOOLEAN /\ spinning' \in Pid \cup {None}
          /\ free' \subseteq Frames /\ destroyed' \subseteq Frames
      BY Zenon, <1>1, <3>2 DEF IInv, TypeOK
    <3>4. /\ SHM_TABLE' \in [Known' -> [frames : Seq(Frames), refs : Nat]]
          /\ Known' \subseteq 1 .. NEXT_HANDLE' - 1
          /\ \A k \in Known' : Pages(k)' \in 1 .. MaxPages
      BY Zenon, <1>1, <1>6, <3>1 DEF IInv, TypeOK
    <3>5. /\ DOMAIN mapped_pages' = Pid
          /\ \A q \in Pid : /\ DOMAIN mapped_pages'[q] \subseteq 0 .. MaxVa
                            /\ Image(mapped_pages'[q]) \subseteq Frames
      BY ZenonT(30), <3>2 DEF IInv, TypeOK
    <3>. QED
      BY Zenon, <1>4, <3>3, <3>4, <3>5 DEF TypeOK
  <2>2. RefsAreMappings' /\ MappingsAreDisjoint'
    BY <1>1, <1>6 DEF IInv, BooksAgree, RefsAreMappings, MappingsAreDisjoint, Known, MappingsOf
  <2>3. MappingsBelowNext'
    <3>1. ASSUME NEW m \in SHM_MAPPINGS
          PROVE  m.base + m.pages <= SHM_VA_NEXT'[m.pid]
      <4>1. /\ m.pid \in Pid /\ m.base \in 0 .. MaxVa /\ m.pages \in 1 .. MaxPages
            /\ m.base + m.pages <= SHM_VA_NEXT[m.pid]
        BY <1>2 DEF IInv, BooksAgree, MappingsBelowNext, Mapping
      <4>. QED
        BY <1>9, <4>1
    <3>. QED
      BY Zenon, <1>6, <3>1 DEF MappingsBelowNext
  <2>4. \A k : Lent(k)' = Lent(k)
    BY ZenonT(30), <1>6 DEF Lent
  <2>7. LentFramesStay'
    BY ZenonT(30), <1>1, <1>6, <2>4 DEF IInv, LentFramesStay, Known
  <2>5. LentFramesStay' /\ PagesAreShown'
    BY SMTT(30), <1>1, <1>6, <2>4, <2>7 DEF IInv, PagesAreShown, ShownBy
  <2>6. UnbornIsBlank'
    BY <1>1, <1>6 DEF IInv, UnbornIsBlank
  <2>. QED
    BY Zenon, <1>5, <1>6, <2>1, <2>2, <2>3, <2>5, <2>6 DEF IInv, BooksAgree
<1>7. CASE /\ SHM_TABLE' = [SHM_TABLE EXCEPT ![h].refs = @ + 1]
           /\ SHM_MAPPINGS' = SHM_MAPPINGS \cup {new}
           /\ mapped_pages' = [mapped_pages EXCEPT ![p] = Mapped(@, base, frames)]
  <2>1. /\ Known' = Known
        /\ \A k \in Known : /\ SHM_TABLE'[k].frames = SHM_TABLE[k].frames
                            /\ SHM_TABLE'[k].refs = SHM_TABLE[k].refs + (IF k = h THEN 1 ELSE 0)
        /\ SHM_TABLE' \in [Known -> [frames : Seq(Frames), refs : Nat]]
    <3>1. Known' = Known
      BY <1>7 DEF Known
    <3>2. \A k \in Known : k # h => SHM_TABLE'[k] = SHM_TABLE[k]
      BY <1>2, <1>7
    <3>3. SHM_TABLE'[h] = [SHM_TABLE[h] EXCEPT !.refs = @ + 1]
      BY <1>1, <1>2, <1>7
    <3>4. SHM_TABLE[h] \in [frames : Seq(Frames), refs : Nat]
      BY <1>1, <1>2
    <3>5. /\ SHM_TABLE'[h] \in [frames : Seq(Frames), refs : Nat]
          /\ SHM_TABLE'[h].frames = SHM_TABLE[h].frames
          /\ SHM_TABLE'[h].refs = SHM_TABLE[h].refs + 1
      BY <3>3, <3>4
    <3>6. SHM_TABLE' = [k \in Known |-> SHM_TABLE'[k]]
      BY Zenon, <1>2, <1>7
    <3>7. \A k \in Known : SHM_TABLE[k] \in [frames : Seq(Frames), refs : Nat]
      BY <1>2
    <3>8. \A k \in Known : SHM_TABLE[k].refs + 0 = SHM_TABLE[k].refs
      BY <3>7
    <3>9. \A k \in Known : SHM_TABLE'[k] \in [frames : Seq(Frames), refs : Nat]
      BY <3>2, <3>5, <3>7
    <3>10. SHM_TABLE' \in [Known -> [frames : Seq(Frames), refs : Nat]]
      BY Zenon, <3>6, <3>9
    <3>. QED
      BY Zenon, <3>1, <3>2, <3>5, <3>8, <3>10
  <2>2. \A k \in Known : Lent(k)' = Lent(k)
    BY Zenon, <2>1, LentSame
  <2> DEFINE covered == base .. base + Len(frames) - 1
  <2>3. /\ covered \subseteq 0 .. MaxVa
        /\ \A va \in covered : va - base + 1 \in 1 .. Len(frames)
    BY <1>1, <1>3, IpcAssumption
  <2>4. /\ mapped_pages'[p] = [va \in DOMAIN mapped_pages[p] \cup covered |->
                IF va \in covered THEN frames[va - base + 1] ELSE mapped_pages[p][va]]
        /\ \A q \in Pid \ {p} : mapped_pages'[q] = mapped_pages[q]
        /\ DOMAIN mapped_pages' = Pid
    BY Zenon, <1>2, <1>7 DEF Mapped
  <2> HIDE DEF covered
  <2>5. /\ DOMAIN mapped_pages'[p] = DOMAIN mapped_pages[p] \cup covered
        /\ \A va \in covered : mapped_pages'[p][va] \in Lent(h)
        /\ \A va \in DOMAIN mapped_pages[p] \ covered : mapped_pages'[p][va] = mapped_pages[p][va]
    <3>1. \A i \in 1 .. Len(frames) : frames[i] \in Lent(h)
      BY SMTT(30), <1>3 DEF Lent, Image, frames
    <3>. QED
      BY ZenonT(30), <2>3, <2>4, <3>1
  <2>6. Lent(h) \subseteq Frames
    BY SMTT(30), <1>3 DEF Lent, Image, frames
  <2>7. TypeOK'
    <3>1. \A q \in Pid : /\ DOMAIN mapped_pages'[q] \subseteq 0 .. MaxVa
                         /\ Image(mapped_pages'[q]) \subseteq Frames
      <4>1. \A q \in Pid : /\ DOMAIN mapped_pages[q] \subseteq 0 .. MaxVa
                           /\ \A va \in DOMAIN mapped_pages[q] : mapped_pages[q][va] \in Frames
        BY DEF IInv, TypeOK, Image
      <4>2. \A q \in Pid : /\ DOMAIN mapped_pages'[q] \subseteq 0 .. MaxVa
                           /\ \A va \in DOMAIN mapped_pages'[q] : mapped_pages'[q][va] \in Frames
        BY ZenonT(30), <2>3, <2>4, <2>5, <2>6, <4>1
      <4>. QED
        BY Zenon, <4>2 DEF Image
    <3>2. SHM_MAPPINGS' \subseteq Mapping
      BY <1>2, <1>3, <1>7
    <3>3. \A k \in Known' : Pages(k)' \in 1 .. MaxPages
      BY <1>2, <2>1 DEF Pages
    <3>. QED
      BY ZenonT(30), <1>1, <1>4, <2>1, <2>4, <3>1, <3>2, <3>3 DEF IInv, TypeOK
  <2>8. BooksAgree'
    <3>1. new \notin SHM_MAPPINGS
      BY <1>3, IpcAssumption DEF IInv, BooksAgree, MappingsBelowNext, base
    <3>2. IsFiniteSet(SHM_MAPPINGS')
      BY Zenon, <1>7, FS_AddElement DEF IInv, BooksAgree
    <3>3. \A k \in Known : k # h => MappingsOf(SHM_MAPPINGS', k) = MappingsOf(SHM_MAPPINGS, k)
      BY <1>7 DEF MappingsOf
    <3>4. /\ MappingsOf(SHM_MAPPINGS', h) = MappingsOf(SHM_MAPPINGS, h) \cup {new}
          /\ new \notin MappingsOf(SHM_MAPPINGS, h)
      BY <1>7, <3>1 DEF MappingsOf
    <3>5. IsFiniteSet(MappingsOf(SHM_MAPPINGS, h))
      BY FS_Subset DEF IInv, BooksAgree, MappingsOf
    <3>6. Cardinality(MappingsOf(SHM_MAPPINGS', h)) = Cardinality(MappingsOf(SHM_MAPPINGS, h)) + 1
      BY Zenon, <3>4, <3>5, FS_AddElement
    <3>7. RefsAreMappings'
      <4>1. \A k \in Known : SHM_TABLE'[k].refs = Cardinality(MappingsOf(SHM_MAPPINGS', k))
        <5>1. \A k \in Known : /\ SHM_TABLE[k].refs \in Nat
                                /\ SHM_TABLE[k].refs = Cardinality(MappingsOf(SHM_MAPPINGS, k))
          BY Zenon, <1>2 DEF IInv, BooksAgree, RefsAreMappings
        <5>. QED
          BY SMTT(30), <2>1, <3>3, <3>6, <5>1
      <4>2. \A m \in SHM_MAPPINGS' : m.handle \in Known /\ procs'[m.pid] = "live"
        BY SMTT(30), <1>1, <1>7 DEF IInv, BooksAgree, RefsAreMappings
      <4>. QED
        BY ZenonT(30), <2>1, <4>1, <4>2 DEF RefsAreMappings, MappingsOf
    <3>8. \A m \in SHM_MAPPINGS : /\ m.pid \in Pid /\ m.base \in Nat /\ m.pages \in Nat \ {0}
                                  /\ m.base + m.pages <= SHM_VA_NEXT[m.pid]
      BY <1>2, IpcAssumption DEF IInv, BooksAgree, MappingsBelowNext, Mapping
    <3>9. MappingsBelowNext'
      <4>1. \A m \in SHM_MAPPINGS : m.base + m.pages <= SHM_VA_NEXT'[m.pid]
        BY SMTT(30), <1>9, <3>8
      <4>2. new.base + new.pages <= SHM_VA_NEXT'[new.pid]
        <5>1. base + Pages(h) \in Int /\ new.pid = p /\ new.base = base /\ new.pages = Pages(h)
          BY <1>3
        <5>2. SHM_VA_NEXT'[p] = base + Pages(h)
          BY <1>4
        <5>. QED
          BY SMTT(30), <5>1, <5>2
      <4>. QED
        BY ZenonT(30), <1>7, <4>1, <4>2 DEF MappingsBelowNext
    <3>10. MappingsAreDisjoint'
      <4>1. \A m \in SHM_MAPPINGS : m.pid = p => m.base + m.pages <= new.base
        BY ZenonT(30), <3>8 DEF base
      <4>. QED
        BY SMTT(30), <1>7, <4>1 DEF IInv, BooksAgree, MappingsAreDisjoint
    <3>. QED
      BY ZenonT(30), <3>2, <3>7, <3>9, <3>10 DEF BooksAgree
  <2>9. LentFramesStay'
    <3>1. /\ \A k \in Known : Lent(k) \cap (free \cup FB_BACKBUF_FRAMES) \subseteq destroyed
          /\ \A k, l \in Known : k # l => Lent(k) \cap Lent(l) \subseteq destroyed
          /\ FB_BACKBUF_FRAMES \cap free \subseteq destroyed
          /\ \A q \in Alone : procs[q] = "live" =>
               \A va \in DOMAIN mapped_pages[q] : mapped_pages[q][va] \in free
                  => mapped_pages[q][va] \in destroyed
      BY ZenonT(30) DEF IInv, LentFramesStay, Image
    <3>2. \A q \in Alone : procs[q] = "live" =>
            \A va \in DOMAIN mapped_pages'[q] : mapped_pages'[q][va] \in free
               => mapped_pages'[q][va] \in destroyed
      BY SMTT(30), <1>1, <2>4, <2>5, <3>1 DEF Alone
    <3>. QED
      BY SMTT(30), <1>1, <2>1, <2>2, <3>1, <3>2 DEF LentFramesStay, Image
  <2>10. PagesAreShown'
    <3>1. \A m \in SHM_MAPPINGS : m.handle \in Known
      BY Zenon DEF IInv, BooksAgree, RefsAreMappings
    <3>2. ASSUME NEW q \in Alone, procs[q] = "live", NEW va \in DOMAIN mapped_pages'[q],
                 ~(q = p /\ va \in covered)
          PROVE  \/ mapped_pages'[q][va] \in destroyed \cup FB_BACKBUF_FRAMES
                 \/ \E m \in SHM_MAPPINGS' : ShownBy(m, q, va)'
      <4>1. va \in DOMAIN mapped_pages[q] /\ mapped_pages'[q][va] = mapped_pages[q][va]
        BY Zenon, <2>4, <2>5, <3>2 DEF Alone
      <4>2. CASE mapped_pages[q][va] \in destroyed \cup FB_BACKBUF_FRAMES
        BY <4>1, <4>2
      <4>3. CASE \E m \in SHM_MAPPINGS : ShownBy(m, q, va)
        <5>1. PICK m \in SHM_MAPPINGS : ShownBy(m, q, va)
          BY <4>3
        <5>. QED
          BY Zenon, <1>7, <2>2, <3>1, <4>1, <5>1 DEF ShownBy
      <4>. QED
        BY Zenon, <3>2, <4>1, <4>2, <4>3 DEF IInv, PagesAreShown
    <3>3. ASSUME NEW va \in covered
          PROVE  \E m \in SHM_MAPPINGS' : ShownBy(m, p, va)'
      <4>1. new.pid = p /\ new.handle = h /\ new.base = base /\ new.pages = Len(frames)
        BY <1>3
      <4>2. Lent(new.handle)' = Lent(h)
        BY ZenonT(30), <1>1, <2>2, <4>1
      <4>. QED
        BY ZenonT(30), <1>7, <2>5, <3>3, <4>1, <4>2 DEF ShownBy, covered
    <3>. QED
      BY Zenon, <1>1, <3>2, <3>3 DEF PagesAreShown
  <2>11. UnbornIsBlank'
    BY <1>1, <2>4 DEF IInv, UnbornIsBlank
  <2>. QED
    BY Zenon, <1>5, <2>7, <2>8, <2>9, <2>10, <2>11 DEF IInv
<1>8. \/ SHM_TABLE' = SHM_TABLE /\ UNCHANGED <<SHM_MAPPINGS, mapped_pages>>
      \/ /\ SHM_TABLE' = [SHM_TABLE EXCEPT ![h].refs = @ + 1]
         /\ SHM_MAPPINGS' = SHM_MAPPINGS \cup {new}
         /\ mapped_pages' = [mapped_pages EXCEPT ![p] = Mapped(@, base, frames)]
  <2>1. PICK ok \in BOOLEAN :
          /\ SHM_TABLE' = [SHM_TABLE EXCEPT ![h] = Taken(@, ok)]
          /\ IF ok
             THEN /\ SHM_MAPPINGS' = SHM_MAPPINGS \cup {new}
                  /\ mapped_pages' = [mapped_pages EXCEPT ![p] = Mapped(@, base, frames)]
             ELSE UNCHANGED <<SHM_MAPPINGS, mapped_pages>>
    BY Zenon DEF sys_shm_map, base, frames
  <2>2. CASE ok
    BY Zenon, <2>1, <2>2 DEF Taken
  <2>3. CASE ~ok
    BY Zenon, <1>2, <2>1, <2>3 DEF Taken
  <2>. QED
    BY <2>2, <2>3
<1>. QED
  BY Zenon, <1>6, <1>7, <1>8

-----------------------------------------------------------------------------
(* The steps that give back, the framebuffer and the mailboxes *)

\* The type of a table from which mappings are dropped, and of the free frames.
LEMMA DropTypes ==
  ASSUME IInv, NEW gone \in SUBSET SHM_MAPPINGS, SHM_TABLE' = Dropped(gone),
         free' = free \cup Freed(gone), NEXT_HANDLE' = NEXT_HANDLE
  PROVE  /\ Known' \subseteq 1 .. NEXT_HANDLE' - 1
         /\ SHM_TABLE' \in [Known' -> [frames : Seq(Frames), refs : Nat]]
         /\ \A h \in Known' : Pages(h)' \in 1 .. MaxPages
         /\ free' \subseteq Frames
<1>1. /\ Known \subseteq 1 .. NEXT_HANDLE - 1 /\ free \subseteq Frames
      /\ SHM_TABLE \in [Known -> [frames : Seq(Frames), refs : Nat]]
      /\ \A h \in Known : Pages(h) \in 1 .. MaxPages
  BY DEF IInv, TypeOK
<1>2. /\ Known' \subseteq Known
      /\ SHM_TABLE' \in [Known' -> [frames : Seq(Frames), refs : Nat]]
      /\ \A h \in Known' : SHM_TABLE'[h].frames = SHM_TABLE[h].frames
  BY Zenon, DroppedTable DEF IInv, Known
<1>3. \A h \in Known : Lent(h) \subseteq Frames
  BY <1>1 DEF Lent, Image
<1>4. Freed(gone) \subseteq Frames
  BY Zenon, <1>3, FreedFrames DEF IInv
<1>5. \A h \in Known' : Pages(h)' = Pages(h)
  BY <1>2 DEF Pages
<1>6. Known' \subseteq 1 .. NEXT_HANDLE' - 1
  BY Zenon, <1>1, <1>2
<1>7. \A h \in Known' : Pages(h)' \in 1 .. MaxPages
  <2> SUFFICES ASSUME NEW h \in Known' PROVE Pages(h)' \in 1 .. MaxPages
    OBVIOUS
  <2>1. h \in Known /\ Pages(h)' = Pages(h)
    BY Zenon, <1>2, <1>5
  <2>. QED
    BY Zenon, <1>1, <2>1
<1>8. free' \subseteq Frames
  BY Zenon, <1>1, <1>4
<1>. QED
  BY ZenonT(30), <1>2, <1>6, <1>7, <1>8

\* An unmap gives up one mapping with all its pages.
LEMMA UnmapStep ==
  ASSUME IInv, NEW p \in Pid, sys_shm_unmap(p)
  PROVE  IInv'
<1>1. PICK m \in SHM_MAPPINGS :
        /\ m.pid = p
        /\ SHM_MAPPINGS' = SHM_MAPPINGS \ {m}
        /\ SHM_TABLE' = Dropped({m}) /\ free' = free \cup Freed({m})
        /\ mapped_pages' = [mapped_pages EXCEPT ![p] = Unmapped(@, m)]
  BY ZenonT(30) DEF sys_shm_unmap
<1>2. /\ procs' = procs /\ parent' = parent /\ Alone' = Alone /\ counts' = counts
      /\ SHM_VA_NEXT' = SHM_VA_NEXT /\ NEXT_HANDLE' = NEXT_HANDLE
      /\ MAILBOXES' = MAILBOXES /\ spinning' = spinning /\ FB_OWNER' = FB_OWNER
      /\ FB_BACKBUF_FRAMES' = FB_BACKBUF_FRAMES /\ FB_BACKBUF_VA' = FB_BACKBUF_VA
      /\ destroyed' = destroyed
  BY DEF sys_shm_unmap, fb, Alone
<1>3. /\ DOMAIN mapped_pages = Pid /\ SHM_MAPPINGS \subseteq Mapping
      /\ \A q \in Pid : /\ DOMAIN mapped_pages[q] \subseteq 0 .. MaxVa
                        /\ \A va \in DOMAIN mapped_pages[q] : mapped_pages[q][va] \in Frames
  BY Zenon DEF IInv, TypeOK, Image
<1>4. /\ DOMAIN mapped_pages' = Pid
      /\ \A q \in Pid \ {p} : mapped_pages'[q] = mapped_pages[q]
      /\ mapped_pages'[p] = Unmapped(mapped_pages[p], m)
  BY <1>1, <1>3
<1>5. \A q \in Pid : \A va \in DOMAIN mapped_pages'[q] :
        /\ va \in DOMAIN mapped_pages[q] /\ mapped_pages'[q][va] = mapped_pages[q][va]
        /\ ~(m.pid = q /\ va \in m.base .. m.base + m.pages - 1)
  BY <1>1, <1>4 DEF Unmapped
<1>6. TypeOK'
  <2>1. \A q \in Pid : /\ DOMAIN mapped_pages'[q] \subseteq 0 .. MaxVa
                       /\ Image(mapped_pages'[q]) \subseteq Frames
    BY SMTT(30), <1>3, <1>5 DEF Image
  <2>2. /\ Known' \subseteq 1 .. NEXT_HANDLE' - 1
        /\ SHM_TABLE' \in [Known' -> [frames : Seq(Frames), refs : Nat]]
        /\ \A h \in Known' : Pages(h)' \in 1 .. MaxPages
        /\ free' \subseteq Frames
    BY ZenonT(30), <1>1, <1>2, {m} \in SUBSET SHM_MAPPINGS, DropTypes
  <2>3. SHM_MAPPINGS' \subseteq Mapping
    BY <1>1, <1>3
  <2>. QED
    BY ZenonT(30), <1>2, <1>4, <2>1, <2>2, <2>3 DEF IInv, TypeOK
<1>7. OwnerLives'
  BY <1>2 DEF IInv, OwnerLives
<1>8. \A n \in SHM_MAPPINGS : procs[n.pid] = "live"
  BY DEF IInv, BooksAgree, RefsAreMappings
<1>9. UnbornIsBlank'
  BY <1>2, <1>5 DEF IInv, UnbornIsBlank
<1>10. BooksAgree' /\ LentFramesStay' /\ PagesAreShown'
  <2> DEFINE gone == {m}
  <2>1. /\ gone \in SUBSET SHM_MAPPINGS /\ SHM_MAPPINGS' = SHM_MAPPINGS \ gone
        /\ SHM_TABLE' = Dropped(gone) /\ free' = free \cup Freed(gone)
    BY <1>1
  <2>2. \A n \in SHM_MAPPINGS \ gone :
          procs'[n.pid] = "live" /\ SHM_VA_NEXT'[n.pid] = SHM_VA_NEXT[n.pid]
    BY <1>2, <1>8
  <2>3. \A n \in gone : n = m
    OBVIOUS
  <2> HIDE DEF gone
  <2>4. \A q \in Alone : procs'[q] = "live" =>
          /\ procs[q] = "live"
          /\ \A va \in DOMAIN mapped_pages'[q] :
               /\ va \in DOMAIN mapped_pages[q] /\ mapped_pages'[q][va] = mapped_pages[q][va]
               /\ \A n \in gone : ~(n.pid = q /\ va \in n.base .. n.base + n.pages - 1)
    BY ZenonT(30), <1>2, <1>5, <2>3 DEF Alone
  <2>. QED
    BY ZenonT(30), <1>2, <2>1, <2>2, <2>4, DropStep
<1>. QED
  BY <1>6, <1>7, <1>9, <1>10 DEF IInv

\* An exit gives up all mappings of the process and leaves its pages mapped.
LEMMA ExitStep ==
  ASSUME IInv, NEW p \in Pid, exit_current(p)
  PROVE  IInv'
<1> DEFINE gone == Owned(p)
<1>1. /\ procs[p] # "unborn"
      /\ procs' = [procs EXCEPT ![p] = IF @ = "live" THEN "zombie" ELSE @]
      /\ spinning' = spinning /\ parent' = parent /\ Alone' = Alone
  BY DEF exit_current, Alone
<1>2. /\ IF FB_OWNER = p THEN FB_OWNER' = None /\ FB_BACKBUF_VA' = FALSE
         ELSE FB_OWNER' = FB_OWNER /\ FB_BACKBUF_VA' = FB_BACKBUF_VA
      /\ FB_BACKBUF_FRAMES' = FB_BACKBUF_FRAMES
  BY DEF exit_current, release_if_owner
<1>3. /\ MAILBOXES' = [MAILBOXES EXCEPT ![p] = << >>]
      /\ SHM_MAPPINGS' = SHM_MAPPINGS \ gone
      /\ SHM_TABLE' = Dropped(gone) /\ free' = free \cup Freed(gone)
      /\ SHM_VA_NEXT' = [SHM_VA_NEXT EXCEPT ![p] = 0]
      /\ NEXT_HANDLE' = NEXT_HANDLE /\ mapped_pages' = mapped_pages /\ destroyed' = destroyed
      /\ counts' = counts
  BY DEF exit_current, cleanup_pid
<1>4. gone \in SUBSET SHM_MAPPINGS /\ \A n \in SHM_MAPPINGS : n \in gone <=> n.pid = p
  BY Zenon DEF Owned
<1> HIDE DEF gone
<1>5. /\ procs \in [Pid -> {"unborn", "live", "zombie", "reaped"}] /\ SHM_MAPPINGS \subseteq Mapping
      /\ SHM_VA_NEXT \in [Pid -> 0 .. MaxVa] /\ MAILBOXES \in [Pid -> Seq(Pid)]
      /\ FB_OWNER \in Pid \cup {None} /\ FB_BACKBUF_VA \in BOOLEAN
  BY Zenon DEF IInv, TypeOK
<1>6. \A q \in Pid : procs'[q] = IF q = p THEN (IF procs[p] = "live" THEN "zombie" ELSE procs[p])
                                 ELSE procs[q]
  BY Zenon, <1>1, <1>5
<1>7. TypeOK'
  <2>1. /\ Known' \subseteq 1 .. NEXT_HANDLE' - 1
        /\ SHM_TABLE' \in [Known' -> [frames : Seq(Frames), refs : Nat]]
        /\ \A h \in Known' : Pages(h)' \in 1 .. MaxPages
        /\ free' \subseteq Frames
    BY ZenonT(30), <1>3, <1>4, DropTypes
  <2>2. /\ procs' \in [Pid -> {"unborn", "live", "zombie", "reaped"}]
        /\ SHM_VA_NEXT' \in [Pid -> 0 .. MaxVa] /\ SHM_MAPPINGS' \subseteq Mapping
    BY <1>1, <1>3, <1>5, IpcAssumption
  <2>3. MAILBOXES' \in [Pid -> Seq(Pid)]
    BY <1>3, <1>5
  <2>4. FB_OWNER' \in Pid \cup {None} /\ FB_BACKBUF_VA' \in BOOLEAN
    BY Zenon, <1>2, <1>5
  <2>. QED
    BY ZenonT(30), <1>1, <1>2, <1>3, <2>1, <2>2, <2>3, <2>4 DEF IInv, TypeOK
<1>8. OwnerLives'
  <2>1. CASE FB_OWNER = p
    BY Zenon, <1>2, <2>1 DEF OwnerLives
  <2>2. CASE FB_OWNER # p
    BY Zenon, <1>2, <1>5, <1>6, <2>2 DEF IInv, OwnerLives
  <2>. QED
    BY <2>1, <2>2
<1>9. \A n \in SHM_MAPPINGS \ gone :
        procs'[n.pid] = "live" /\ SHM_VA_NEXT'[n.pid] = SHM_VA_NEXT[n.pid]
  BY Zenon, <1>3, <1>4, <1>5, <1>6 DEF IInv, BooksAgree, RefsAreMappings, Mapping
<1>10. \A q \in Alone : procs'[q] = "live" =>
         /\ procs[q] = "live"
         /\ \A va \in DOMAIN mapped_pages'[q] :
              /\ va \in DOMAIN mapped_pages[q] /\ mapped_pages'[q][va] = mapped_pages[q][va]
              /\ \A n \in gone : ~(n.pid = q /\ va \in n.base .. n.base + n.pages - 1)
  <2>1. \A q \in Pid : procs'[q] = "live" => procs[q] = "live" /\ q # p
    BY <1>6
  <2>2. \A n \in gone : n.pid = p
    BY ZenonT(30), <1>4
  <2>. QED
    BY ZenonT(30), <1>3, <2>1, <2>2 DEF Alone
<1>11. UnbornIsBlank'
  <2>1. UnbornIsBlank
    BY Zenon DEF IInv
  <2>2. \A q \in Pid : procs'[q] = "unborn" => procs[q] = "unborn"
    BY <1>6
  <2>3. parent' = parent /\ mapped_pages' = mapped_pages
    BY Zenon, <1>1, <1>3
  <2>. QED
    BY Zenon, <2>1, <2>2, <2>3 DEF UnbornIsBlank
<1>12. BooksAgree' /\ LentFramesStay' /\ PagesAreShown'
  BY ZenonT(30), <1>1, <1>2, <1>3, <1>4, <1>9, <1>10, DropStep
<1>. QED
  BY <1>7, <1>8, <1>11, <1>12 DEF IInv

\* The pages that show a frame can be counted.
LEMMA PagesCounted ==
  ASSUME TypeOK, NEW p \in Pid
  PROVE  \A f : PagesOf(p, f) \in Nat
<1>1. IsFiniteSet(0 .. MaxVa)
  BY FS_Interval, IpcAssumption
<1>2. IsFiniteSet(DOMAIN mapped_pages[p])
  BY <1>1, FS_Subset DEF TypeOK
<1>3. \A f : IsFiniteSet({va \in DOMAIN mapped_pages[p] : mapped_pages[p][va] = f})
  BY <1>2, FS_Subset
<1>. QED
  BY <1>3, FS_CardinalityType DEF PagesOf

\* A fork copies pages, and from then on neither process is alone.
LEMMA ForkStep ==
  ASSUME IInv, NEW q \in Pid, NEW p \in Pid, fork(q, p)
  PROVE  IInv'
<1>1. /\ procs[q] = "live" /\ procs[p] = "unborn" /\ procs' = [procs EXCEPT ![p] = "live"]
      /\ parent' = [parent EXCEPT ![p] = q]
      /\ mapped_pages' = [mapped_pages EXCEPT ![p] = mapped_pages[q]]
      /\ counts' = [f \in Frames |-> inc(counts[f], PagesOf(q, f))]
      /\ SHM_TABLE' = SHM_TABLE /\ SHM_MAPPINGS' = SHM_MAPPINGS
      /\ SHM_VA_NEXT' = SHM_VA_NEXT /\ NEXT_HANDLE' = NEXT_HANDLE
      /\ MAILBOXES' = MAILBOXES /\ spinning' = spinning /\ FB_OWNER' = FB_OWNER
      /\ FB_BACKBUF_FRAMES' = FB_BACKBUF_FRAMES /\ FB_BACKBUF_VA' = FB_BACKBUF_VA
      /\ free' = free /\ destroyed' = destroyed
  BY ZenonT(30) DEF fork, Runs, shm, fb
<1>2. /\ procs \in [Pid -> {"unborn", "live", "zombie", "reaped"}] /\ SHM_MAPPINGS \subseteq Mapping
      /\ parent \in [Pid -> Pid \cup {None}] /\ DOMAIN mapped_pages = Pid
      /\ FB_OWNER \in Pid \cup {None} /\ None \notin Pid
  BY Zenon, IpcAssumption DEF IInv, TypeOK
<1>3. \A r \in Pid : /\ procs'[r] = IF r = p THEN "live" ELSE procs[r]
                     /\ parent'[r] = IF r = p THEN q ELSE parent[r]
                     /\ mapped_pages'[r] = mapped_pages[IF r = p THEN q ELSE r]
  BY Zenon, <1>1, <1>2
<1>4. parent[p] = None
  BY <1>1 DEF IInv, UnbornIsBlank
<1>5. Alone' \subseteq Alone \ {p, q}
  <2> SUFFICES ASSUME NEW r \in Alone' PROVE r \in Alone \ {p, q}
    BY Zenon
  <2>1. r \in Pid /\ parent'[r] = None /\ \A c \in Pid : parent'[c] # r
    BY Zenon DEF Alone
  <2>2. r # p /\ r # q /\ parent[r] = None
    BY <1>2, <1>3, <2>1
  <2>3. \A c \in Pid : parent[c] # r
    BY <1>2, <1>3, <1>4, <2>1
  <2>. QED
    BY Zenon, <2>1, <2>2, <2>3 DEF Alone
<1>6. Known' = Known /\ \A h : Pages(h)' = Pages(h) /\ Lent(h)' = Lent(h)
  BY Zenon, <1>1 DEF Known, Pages, Lent
<1>7. TypeOK'
  <2>1. counts' \in [Frames -> 0 .. 255]
    <3>1. \A f \in Frames : PagesOf(q, f) \in Nat
      BY PagesCounted DEF IInv
    <3>3. \A f \in Frames : counts[f] \in 0 .. 255
      BY Zenon DEF IInv, TypeOK
    <3>4. \A c \in 0 .. 255, n \in Nat : inc(c, n) \in 0 .. 255
      BY DEF inc
    <3>2. \A f \in Frames : inc(counts[f], PagesOf(q, f)) \in 0 .. 255
      BY Zenon, <3>1, <3>3, <3>4
    <3>. QED
      BY Zenon, <1>1, <3>2
  <2>2. \A r \in Pid : /\ DOMAIN mapped_pages'[r] \subseteq 0 .. MaxVa
                       /\ Image(mapped_pages'[r]) \subseteq Frames
    BY Zenon, <1>3 DEF IInv, TypeOK
  <2>3. /\ procs' \in [Pid -> {"unborn", "live", "zombie", "reaped"}]
        /\ parent' \in [Pid -> Pid \cup {None}]
    BY <1>1, <1>2
  <2>4. DOMAIN mapped_pages' = Pid
    BY Zenon, <1>1, <1>2
  <2>. QED
    BY ZenonT(30), <1>1, <1>6, <2>1, <2>2, <2>3, <2>4 DEF IInv, TypeOK
<1>8. BooksAgree'
  BY Zenon, <1>1, <1>2, <1>3, <1>6 DEF IInv, BooksAgree, RefsAreMappings, MappingsBelowNext,
                          MappingsAreDisjoint, MappingsOf, Mapping
<1>9. OwnerLives'
  BY <1>1, <1>2, <1>3 DEF IInv, OwnerLives
<1>10. \A r \in Alone' : /\ r \in Alone /\ procs'[r] = procs[r]
                         /\ mapped_pages'[r] = mapped_pages[r]
  BY Zenon, <1>3, <1>5 DEF Alone
<1>11. LentFramesStay'
  BY ZenonT(30), <1>1, <1>6, <1>10 DEF IInv, LentFramesStay
<1>12. PagesAreShown'
  BY SMTT(30), <1>1, <1>6, <1>10 DEF IInv, PagesAreShown, ShownBy
<1>13. UnbornIsBlank'
  BY <1>3 DEF IInv, UnbornIsBlank
<1>. QED
  BY Zenon, <1>7, <1>8, <1>9, <1>11, <1>12, <1>13 DEF IInv

\* A copy-on-write fault takes a free frame for a process that is not alone.
LEMMA CowStep ==
  ASSUME IInv, NEW p \in Pid, try_resolve_cow(p)
  PROVE  IInv'
<1>1. /\ procs[p] = "live" /\ p \notin Alone
      /\ procs' = procs /\ parent' = parent /\ Alone' = Alone
      /\ SHM_TABLE' = SHM_TABLE /\ SHM_MAPPINGS' = SHM_MAPPINGS
      /\ SHM_VA_NEXT' = SHM_VA_NEXT /\ NEXT_HANDLE' = NEXT_HANDLE
      /\ MAILBOXES' = MAILBOXES /\ spinning' = spinning /\ FB_OWNER' = FB_OWNER
      /\ FB_BACKBUF_FRAMES' = FB_BACKBUF_FRAMES /\ FB_BACKBUF_VA' = FB_BACKBUF_VA
      /\ destroyed' = destroyed
  BY ZenonT(30) DEF try_resolve_cow, Runs, shm, fb, Kin, Alone
<1>2. PICK q \in Kin : \E va \in DOMAIN mapped_pages[q], f \in free :
        /\ mapped_pages' = [mapped_pages EXCEPT ![p] = Mapped(@, va, <<f>>)]
        /\ counts' = [counts EXCEPT ![mapped_pages[q][va]] = dec(@, 1), ![f] = 1]
        /\ free' = free \ {f}
  BY ZenonT(30) DEF try_resolve_cow
<1>3. PICK va \in DOMAIN mapped_pages[q], f \in free :
        /\ mapped_pages' = [mapped_pages EXCEPT ![p] = Mapped(@, va, <<f>>)]
        /\ counts' = [counts EXCEPT ![mapped_pages[q][va]] = dec(@, 1), ![f] = 1]
        /\ free' = free \ {f}
  BY Zenon, <1>2
<1>4. /\ DOMAIN mapped_pages = Pid /\ free \subseteq Frames
      /\ \A r \in Pid : /\ DOMAIN mapped_pages[r] \subseteq 0 .. MaxVa
                        /\ \A v \in DOMAIN mapped_pages[r] : mapped_pages[r][v] \in Frames
      /\ counts \in [Frames -> 0 .. 255]
  BY Zenon DEF IInv, TypeOK, Image
<1>5. va \in 0 .. MaxVa /\ va \in Nat
  BY <1>4, IpcAssumption DEF Kin
<1>6. /\ DOMAIN mapped_pages' = Pid
      /\ \A r \in Pid \ {p} : mapped_pages'[r] = mapped_pages[r]
      /\ mapped_pages'[p] = Mapped(mapped_pages[p], va, <<f>>)
  BY Zenon, <1>3, <1>4
<1>7. /\ DOMAIN mapped_pages'[p] = DOMAIN mapped_pages[p] \cup {va}
      /\ \A v \in DOMAIN mapped_pages'[p] :
           mapped_pages'[p][v] = IF v = va THEN f ELSE mapped_pages[p][v]
  <2>1. va .. va + Len(<<f>>) - 1 = {va}
    BY <1>5
  <2>2. \A v \in {va} : <<f>>[v - va + 1] = f
    BY SMTT(30), <1>5
  <2>. QED
    BY Zenon, <1>6, <2>1, <2>2 DEF Mapped
<1>8. counts' \in [Frames -> 0 .. 255]
  <2> DEFINE old == mapped_pages[q][va]
  <2>1. old \in Frames
    BY Zenon, <1>4 DEF Kin
  <2>2. \A c \in 0 .. 255 : dec(c, 1) \in 0 .. 255
    BY DEF dec
  <2>3. counts' = [counts EXCEPT ![old] = dec(@, 1), ![f] = 1]
    BY Zenon, <1>3
  <2> HIDE DEF old
  <2>4. counts[old] \in 0 .. 255
    BY Zenon, <1>4, <2>1
  <2>6. 1 \in 0 .. 255
    OBVIOUS
  <2>5. [counts EXCEPT ![old] = dec(@, 1)] \in [Frames -> 0 .. 255]
    BY Zenon, <1>4, <2>1, <2>2, <2>4
  <2>. QED
    BY Zenon, <1>4, <2>3, <2>5, <2>6
<1>9. Known' = Known /\ \A h : Pages(h)' = Pages(h) /\ Lent(h)' = Lent(h)
  BY Zenon, <1>1 DEF Known, Pages, Lent
<1>10. TypeOK'
  <2>1. \A r \in Pid : /\ DOMAIN mapped_pages'[r] \subseteq 0 .. MaxVa
                       /\ Image(mapped_pages'[r]) \subseteq Frames
    BY SMTT(30), <1>4, <1>5, <1>6, <1>7 DEF Image
  <2>2. free' \subseteq Frames
    BY Zenon, <1>3, <1>4
  <2>. QED
    BY ZenonT(30), <1>1, <1>6, <1>8, <1>9, <2>1, <2>2 DEF IInv, TypeOK
<1>11. BooksAgree'
  BY ZenonT(30), <1>1, <1>9 DEF IInv, BooksAgree, RefsAreMappings, MappingsBelowNext,
                          MappingsAreDisjoint, MappingsOf
<1>12. OwnerLives'
  BY <1>1 DEF IInv, OwnerLives
<1>13. \A r \in Alone : mapped_pages'[r] = mapped_pages[r]
  BY Zenon, <1>1, <1>6 DEF Alone
<1>14. free' \subseteq free
  BY Zenon, <1>3
<1>15. LentFramesStay'
  BY ZenonT(30), <1>1, <1>9, <1>13, <1>14 DEF IInv, LentFramesStay
<1>16. PagesAreShown'
  BY ZenonT(30), <1>1, <1>9, <1>13 DEF IInv, PagesAreShown, ShownBy
<1>17. UnbornIsBlank'
  <2>1. UnbornIsBlank
    BY Zenon DEF IInv
  <2>2. procs[p] # "unborn" /\ procs' = procs /\ parent' = parent
    BY Zenon, <1>1
  <2>. QED
    BY Zenon, <1>6, <2>1, <2>2 DEF UnbornIsBlank
<1>. QED
  BY Zenon, <1>10, <1>11, <1>12, <1>15, <1>16, <1>17 DEF IInv

\* A wait gives back the frames of the dead process that are counted no more.
LEMMA WaitStep ==
  ASSUME IInv, NEW q \in Pid, NEW p \in Pid, wait_any(q, p)
  PROVE  IInv'
<1> DEFINE X == {f \in Image(mapped_pages[p]) : counts'[f] = 0}
<1>1. /\ procs[p] = "zombie" /\ procs' = [procs EXCEPT ![p] = "reaped"]
      /\ parent' = parent /\ Alone' = Alone
      /\ mapped_pages' = [mapped_pages EXCEPT ![p] = << >>]
      /\ free' = free \cup X /\ destroyed' = destroyed \cup X
      /\ SHM_TABLE' = SHM_TABLE /\ SHM_MAPPINGS' = SHM_MAPPINGS
      /\ SHM_VA_NEXT' = SHM_VA_NEXT /\ NEXT_HANDLE' = NEXT_HANDLE
      /\ MAILBOXES' = MAILBOXES /\ spinning' = spinning /\ FB_OWNER' = FB_OWNER
      /\ FB_BACKBUF_FRAMES' = FB_BACKBUF_FRAMES /\ FB_BACKBUF_VA' = FB_BACKBUF_VA
  BY ZenonT(30) DEF wait_any, shm, fb, Alone
<1>2. X \subseteq Frames
  BY DEF IInv, TypeOK
<1>14. counts' \in [Frames -> 0 .. 255]
  <2>1. counts' = [f \in Frames |-> dec(counts[f], PagesOf(p, f))]
    BY Zenon DEF wait_any
  <2>2. \A f \in Frames : PagesOf(p, f) \in Nat
    BY PagesCounted DEF IInv
  <2>4. \A f \in Frames : counts[f] \in 0 .. 255
    BY Zenon DEF IInv, TypeOK
  <2>5. \A c \in 0 .. 255, n \in Nat : dec(c, n) \in 0 .. 255
    BY DEF dec
  <2>3. \A f \in Frames : dec(counts[f], PagesOf(p, f)) \in 0 .. 255
    BY Zenon, <2>2, <2>4, <2>5
  <2>. QED
    BY Zenon, <2>1, <2>3
<1> HIDE DEF X
<1>3. /\ procs \in [Pid -> {"unborn", "live", "zombie", "reaped"}]
      /\ DOMAIN mapped_pages = Pid
  BY DEF IInv, TypeOK
<1>4. /\ DOMAIN mapped_pages' = Pid /\ mapped_pages'[p] = << >>
      /\ \A r \in Pid \ {p} : mapped_pages'[r] = mapped_pages[r]
      /\ procs'[p] = "reaped" /\ \A r \in Pid \ {p} : procs'[r] = procs[r]
  BY ZenonT(30), <1>1, <1>3
<1>5. DOMAIN mapped_pages'[p] = {} /\ Image(mapped_pages'[p]) = {}
  BY <1>4 DEF Image
<1>6. Known' = Known /\ \A h \in Known : Pages(h)' = Pages(h) /\ Lent(h)' = Lent(h)
  BY Zenon, <1>1 DEF Known, Pages, Lent
<1>7. TypeOK'
  <2>1. \A r \in Pid : /\ DOMAIN mapped_pages'[r] \subseteq 0 .. MaxVa
                       /\ Image(mapped_pages'[r]) \subseteq Frames
    BY ZenonT(30), <1>4, <1>5 DEF IInv, TypeOK
  <2>2. procs' \in [Pid -> {"unborn", "live", "zombie", "reaped"}]
    BY <1>1, <1>3
  <2>3. /\ SHM_TABLE' \in [Known' -> [frames : Seq(Frames), refs : Nat]]
        /\ Known' \subseteq 1 .. NEXT_HANDLE' - 1
        /\ \A h \in Known' : Pages(h)' \in 1 .. MaxPages
    BY ZenonT(30), <1>1, <1>6 DEF IInv, TypeOK
  <2>4. free \subseteq Frames /\ destroyed \subseteq Frames
    BY Zenon DEF IInv, TypeOK
  <2>5. free' \subseteq Frames /\ destroyed' \subseteq Frames
    BY Zenon, <1>1, <1>2, <2>4
  <2>6. /\ NEXT_HANDLE' \in 1 .. MaxHandle + 1 /\ SHM_MAPPINGS' \subseteq Mapping
        /\ SHM_VA_NEXT' \in [Pid -> 0 .. MaxVa] /\ MAILBOXES' \in [Pid -> Seq(Pid)]
        /\ FB_OWNER' \in Pid \cup {None} /\ FB_BACKBUF_FRAMES' \subseteq Frames
        /\ FB_BACKBUF_VA' \in BOOLEAN /\ spinning' \in Pid \cup {None}
        /\ parent' \in [Pid -> Pid \cup {None}]
    BY Zenon, <1>1 DEF IInv, TypeOK
  <2>. QED
    BY ZenonT(30), <1>4, <1>14, <2>1, <2>2, <2>3, <2>5, <2>6 DEF TypeOK
<1>8. \A r \in Pid : procs[r] = "live" <=> procs'[r] = "live"
  BY <1>1, <1>4
<1>9. BooksAgree'
  <2>1. \A m \in SHM_MAPPINGS : m.pid \in Pid
    BY DEF IInv, TypeOK, Mapping
  <2>2. RefsAreMappings'
    BY Zenon, <1>1, <1>6, <1>8, <2>1 DEF IInv, BooksAgree, RefsAreMappings
  <2>. QED
    BY ZenonT(30), <1>1, <2>2 DEF IInv, BooksAgree, MappingsBelowNext, MappingsAreDisjoint
<1>10. OwnerLives'
  <2>1. FB_OWNER \in Pid \cup {None}
    BY ZenonT(30) DEF IInv, TypeOK
  <2>. QED
    BY Zenon, <1>1, <1>8, <2>1 DEF IInv, OwnerLives
<1>11. LentFramesStay'
  <2>1. \A r \in Alone : procs'[r] = "live" =>
          procs[r] = "live" /\ mapped_pages'[r] = mapped_pages[r]
    BY Zenon, <1>4, <1>8 DEF Alone
  <2>2. \A r \in Alone : procs'[r] = "live" => Image(mapped_pages'[r]) \cap free' \subseteq destroyed'
    BY Zenon, <1>1, <2>1 DEF IInv, LentFramesStay
  <2>. QED
    BY SMTT(30), <1>1, <1>6, <2>2 DEF IInv, LentFramesStay
<1>12. PagesAreShown'
  <2>1. \A m \in SHM_MAPPINGS : m.handle \in Known
    BY Zenon DEF IInv, BooksAgree, RefsAreMappings
  <2> SUFFICES ASSUME NEW r \in Alone
               PROVE procs'[r] = "live" => \A va \in DOMAIN mapped_pages'[r] :
                       \/ mapped_pages'[r][va] \in destroyed' \cup FB_BACKBUF_FRAMES'
                       \/ \E m \in SHM_MAPPINGS' : ShownBy(m, r, va)'
    BY ZenonT(30), <1>1 DEF PagesAreShown
  <2>2. CASE r = p
    BY ZenonT(30), <1>4, <2>2
  <2>3. CASE r # p
    <3>1. mapped_pages'[r] = mapped_pages[r] /\ procs'[r] = procs[r]
      BY Zenon, <1>4, <2>3 DEF Alone
    <3>2. \A m \in SHM_MAPPINGS, va \in DOMAIN mapped_pages[r] :
            ShownBy(m, r, va)' <=> ShownBy(m, r, va)
      BY ZenonT(30), <1>6, <2>1, <3>1 DEF ShownBy
    <3>3. procs[r] = "live" => \A va \in DOMAIN mapped_pages[r] :
            \/ mapped_pages[r][va] \in destroyed \cup FB_BACKBUF_FRAMES
            \/ \E m \in SHM_MAPPINGS : ShownBy(m, r, va)
      BY ZenonT(30) DEF IInv, PagesAreShown
    <3>4. \A f : f \in destroyed \cup FB_BACKBUF_FRAMES => f \in destroyed' \cup FB_BACKBUF_FRAMES'
      BY ZenonT(30), <1>1
    <3>. QED
      BY Zenon, <1>1, <3>1, <3>2, <3>3, <3>4
  <2>. QED
    BY Zenon, <2>2, <2>3
<1>13. UnbornIsBlank'
  BY <1>1, <1>4 DEF IInv, UnbornIsBlank
<1>. QED
  BY ZenonT(30), <1>7, <1>9, <1>10, <1>11, <1>12, <1>13 DEF IInv

\* The framebuffer is taken, with or without a backbuffer, or the claim is undone.
LEMMA AcquireStep ==
  ASSUME IInv, NEW p \in Pid, sys_fb_acquire(p)
  PROVE  IInv'
<1>1. /\ procs[p] = "live" /\ FB_OWNER \in {None, p}
      /\ procs' = procs /\ parent' = parent /\ Alone' = Alone /\ counts' = counts
      /\ SHM_TABLE' = SHM_TABLE /\ SHM_MAPPINGS' = SHM_MAPPINGS
      /\ SHM_VA_NEXT' = SHM_VA_NEXT /\ NEXT_HANDLE' = NEXT_HANDLE
      /\ MAILBOXES' = MAILBOXES /\ spinning' = spinning /\ destroyed' = destroyed
  BY ZenonT(30) DEF sys_fb_acquire, Runs, MayAcquire, shm, Alone
<1>2. /\ DOMAIN mapped_pages = Pid /\ free \subseteq Frames /\ FB_BACKBUF_FRAMES \subseteq Frames
      /\ \A r \in Pid : /\ DOMAIN mapped_pages[r] \subseteq 0 .. MaxVa
                        /\ \A va \in DOMAIN mapped_pages[r] : mapped_pages[r][va] \in Frames
  BY DEF IInv, TypeOK, Image
<1>3. Known' = Known /\ \A h \in Known : Pages(h)' = Pages(h) /\ Lent(h)' = Lent(h)
  BY <1>1 DEF Known, Pages, Lent
<1>4. /\ free' \subseteq free
      /\ \/ FB_BACKBUF_FRAMES' = FB_BACKBUF_FRAMES /\ free' = free
         \/ /\ FB_BACKBUF_FRAMES = {} /\ FB_BACKBUF_FRAMES' \subseteq free
            /\ FB_BACKBUF_FRAMES' \cap free' = {}
  BY DEF sys_fb_acquire
<1>5. /\ DOMAIN mapped_pages' = Pid
      /\ \A r \in Pid \ {p} : mapped_pages'[r] = mapped_pages[r]
      /\ \A va \in DOMAIN mapped_pages'[p] :
           \/ va \in DOMAIN mapped_pages[p] /\ mapped_pages'[p][va] = mapped_pages[p][va]
           \/ va = MaxVa /\ mapped_pages'[p][va] \in FB_BACKBUF_FRAMES'
  <2>1. CASE mapped_pages' = mapped_pages
    BY Zenon, <1>2, <2>1
  <2>2. CASE \E pages \in WindowMapped(mapped_pages[p], FB_BACKBUF_FRAMES') :
               mapped_pages' = [mapped_pages EXCEPT ![p] = pages]
    <3>1. PICK pages \in WindowMapped(mapped_pages[p], FB_BACKBUF_FRAMES') :
            mapped_pages' = [mapped_pages EXCEPT ![p] = pages]
      BY Zenon, <2>2
    <3>2. CASE pages = mapped_pages[p]
      BY Zenon, <1>2, <3>1, <3>2
    <3>3. CASE pages # mapped_pages[p]
      <4>1. PICK f \in FB_BACKBUF_FRAMES' : pages = Mapped(mapped_pages[p], MaxVa, <<f>>)
        BY Zenon, <3>3 DEF WindowMapped, FB_USER_VA
      <4>2. /\ DOMAIN pages = DOMAIN mapped_pages[p] \cup {MaxVa}
            /\ \A va \in DOMAIN pages : pages[va] = IF va = MaxVa THEN f ELSE mapped_pages[p][va]
        <5>1. MaxVa .. MaxVa + Len(<<f>>) - 1 = {MaxVa}
          BY IpcAssumption
        <5>2. \A va \in {MaxVa} : <<f>>[va - MaxVa + 1] = f
          BY SMTT(30), IpcAssumption
        <5>. QED
          BY Zenon, <4>1, <5>1, <5>2 DEF Mapped
      <4>. QED
        BY Zenon, <1>2, <3>1, <4>2
    <3>. QED
      BY Zenon, <3>2, <3>3
  <2>. QED
    BY Zenon, <2>1, <2>2 DEF sys_fb_acquire
<1>6. TypeOK'
  <2>1. FB_BACKBUF_FRAMES' \subseteq Frames /\ free' \subseteq Frames
    BY Zenon, <1>2, <1>4
  <2>2. \A r \in Pid : /\ DOMAIN mapped_pages'[r] \subseteq 0 .. MaxVa
                       /\ Image(mapped_pages'[r]) \subseteq Frames
    BY SMTT(30), <1>2, <1>5, <2>1, IpcAssumption DEF Image
  <2>3. FB_OWNER' \in Pid \cup {None}
    BY DEF sys_fb_acquire
  <2>4. FB_BACKBUF_VA' \in BOOLEAN
    BY ZenonT(30) DEF IInv, TypeOK, sys_fb_acquire
  <2>. QED
    BY Zenon, <1>1, <1>3, <1>5, <2>1, <2>2, <2>3, <2>4 DEF IInv, TypeOK
<1>7. BooksAgree'
  BY ZenonT(30), <1>1, <1>3 DEF IInv, BooksAgree, RefsAreMappings, MappingsBelowNext, MappingsAreDisjoint
<1>8. OwnerLives'
  <2>1. CASE ~HasFb
    BY Zenon, <1>1, <2>1, IpcAssumption DEF sys_fb_acquire, OwnerLives
  <2>2. CASE HasFb /\ FB_OWNER' = p /\ FB_BACKBUF_FRAMES' # {}
    BY Zenon, <1>1, <2>2, IpcAssumption DEF OwnerLives
  <2>3. CASE HasFb /\ FB_BACKBUF_FRAMES = {} /\ FB_OWNER' = None /\ FB_BACKBUF_VA' = FB_BACKBUF_VA
    BY Zenon, <1>1, <2>3 DEF IInv, OwnerLives
  <2>4. HasFb => \/ FB_OWNER' = p /\ FB_BACKBUF_FRAMES' # {}
                 \/ FB_BACKBUF_FRAMES = {} /\ FB_OWNER' = None /\ FB_BACKBUF_VA' = FB_BACKBUF_VA
    BY Zenon DEF sys_fb_acquire
  <2>. QED
    BY Zenon, <2>1, <2>2, <2>3, <2>4
<1>9. LentFramesStay'
  <2>1. \A h \in Known : Lent(h) \cap (free' \cup FB_BACKBUF_FRAMES') \subseteq destroyed
    BY <1>4 DEF IInv, LentFramesStay
  <2>2. FB_BACKBUF_FRAMES' \cap free' \subseteq destroyed
    BY Zenon, <1>4 DEF IInv, LentFramesStay
  <2>3. \A r \in Alone : procs[r] = "live" => Image(mapped_pages'[r]) \cap free' \subseteq destroyed
    <3>1. \A r \in Pid :
            Image(mapped_pages'[r]) \subseteq Image(mapped_pages[r]) \cup FB_BACKBUF_FRAMES'
      BY Zenon, <1>5 DEF Image
    <3>. QED
      BY Zenon, <1>4, <2>2, <3>1 DEF IInv, LentFramesStay, Alone
  <2>. QED
    BY ZenonT(30), <1>1, <1>3, <2>1, <2>2, <2>3 DEF IInv, LentFramesStay
<1>10. PagesAreShown'
  <2>1. \A m \in SHM_MAPPINGS : m.handle \in Known
    BY Zenon DEF IInv, BooksAgree, RefsAreMappings
  <2>2. \A r \in Pid : \A va \in DOMAIN mapped_pages'[r] :
          \/ va \in DOMAIN mapped_pages[r] /\ mapped_pages'[r][va] = mapped_pages[r][va]
          \/ r = p /\ mapped_pages'[r][va] \in FB_BACKBUF_FRAMES'
    BY <1>5
  <2>3. FB_BACKBUF_FRAMES \subseteq FB_BACKBUF_FRAMES'
    BY <1>4
  <2>4. \A r \in Alone : procs[r] = "live" => \A va \in DOMAIN mapped_pages'[r] :
          \/ mapped_pages'[r][va] \in destroyed \cup FB_BACKBUF_FRAMES'
          \/ \E m \in SHM_MAPPINGS : ShownBy(m, r, va)'
    <3> SUFFICES ASSUME NEW r \in Alone, procs[r] = "live", NEW va \in DOMAIN mapped_pages'[r],
                        mapped_pages'[r][va] \notin destroyed \cup FB_BACKBUF_FRAMES'
                 PROVE  \E m \in SHM_MAPPINGS : ShownBy(m, r, va)'
      OBVIOUS
    <3>1. va \in DOMAIN mapped_pages[r] /\ mapped_pages'[r][va] = mapped_pages[r][va]
      BY Zenon, <2>2 DEF Alone
    <3>2. PICK m \in SHM_MAPPINGS : ShownBy(m, r, va)
      BY Zenon, <2>3, <3>1 DEF IInv, PagesAreShown
    <3>3. ShownBy(m, r, va)'
      BY ZenonT(30), <1>3, <2>1, <3>1, <3>2 DEF ShownBy
    <3>. QED
      BY Zenon, <3>3
  <2>. QED
    BY Zenon, <1>1, <2>4 DEF PagesAreShown
<1>11. UnbornIsBlank'
  BY <1>1, <1>5 DEF IInv, UnbornIsBlank
<1>. QED
  BY Zenon, <1>6, <1>7, <1>8, <1>9, <1>10, <1>11 DEF IInv

-----------------------------------------------------------------------------
(* The theorems *)

\* A message sent or taken, or a receive that waits, touches mailboxes only.
LEMMA MailStep ==
  ASSUME IInv, NEW p \in Pid,
         (\E target \in Pid : sys_ipc_send(p, target)) \/ sys_ipc_recv(p) \/ recv_spins(p)
  PROVE  IInv'
<1>1. UNCHANGED <<procs, parent, shm, fb, memory>>
  BY DEF sys_ipc_send, sys_ipc_recv, recv_spins
<1>2. MAILBOXES' \in [Pid -> Seq(Pid)]
  <2>1. MAILBOXES \in [Pid -> Seq(Pid)]
    BY DEF IInv, TypeOK
  <2>2. CASE \E target \in Pid : sys_ipc_send(p, target)
    <3>1. PICK target \in Pid : MAILBOXES' = [MAILBOXES EXCEPT ![target] = Append(@, p)]
      BY ZenonT(30), <2>2 DEF sys_ipc_send
    <3>2. Append(MAILBOXES[target], p) \in Seq(Pid)
      BY <2>1
    <3>. QED
      BY Zenon, <2>1, <3>1, <3>2
  <2>3. CASE sys_ipc_recv(p)
    <3>1. MAILBOXES[p] # << >> /\ MAILBOXES' = [MAILBOXES EXCEPT ![p] = Tail(@)]
      BY Zenon, <2>3 DEF sys_ipc_recv
    <3>2. Tail(MAILBOXES[p]) \in Seq(Pid)
      BY <2>1, <3>1
    <3>. QED
      BY Zenon, <2>1, <3>1, <3>2
  <2>4. CASE recv_spins(p)
    BY <2>1, <2>4 DEF recv_spins
  <2>. QED
    BY ZenonT(30), <2>2, <2>3, <2>4
<1>3. spinning' \in Pid \cup {None}
  BY Zenon DEF sys_ipc_send, sys_ipc_recv, recv_spins, IInv, TypeOK
<1>4. TypeOK'
  BY Zenon, <1>1, <1>2, <1>3 DEF IInv, TypeOK, shm, fb, memory, Known, Pages
<1>. QED
  BY Zenon, <1>1, <1>4, QuietStep

\* Every step keeps the invariant.
LEMMA NextIInv == IInv /\ [Next]_vars => IInv'
<1> SUFFICES ASSUME IInv, [Next]_vars PROVE IInv'
  OBVIOUS
<1>1. CASE UNCHANGED vars
  <2>1. UNCHANGED <<procs, parent, shm, fb, memory>> /\ UNCHANGED <<MAILBOXES, spinning>>
    BY <1>1 DEF vars, shm, fb, memory
  <2>2. TypeOK'
    BY Zenon, <2>1 DEF IInv, TypeOK, shm, fb, memory, Known, Pages
  <2>. QED
    BY Zenon, <2>1, <2>2, QuietStep
<1>2. CASE Next
  <2>1. PICK p \in Pid :
          \/ start(p) \/ exit_current(p) \/ try_resolve_cow(p)
          \/ (\E q \in Pid : fork(p, q) \/ wait_any(p, q))
          \/ sys_shm_create(p) \/ (\E h \in Handle : sys_shm_map(p, h)) \/ sys_shm_unmap(p)
          \/ (\E target \in Pid : sys_ipc_send(p, target)) \/ sys_ipc_recv(p) \/ recv_spins(p)
          \/ sys_fb_acquire(p)
    BY <1>2 DEF Next
  <2>. QED
    BY SMTT(30), <2>1, StartStep, ExitStep, WaitStep, ForkStep, CowStep, CreateStep, MapStep, UnmapStep,
       MailStep, AcquireStep
<1>. QED
  BY <1>1, <1>2

\* The invariant holds in every reachable state.
LEMMA Invariance == Spec => []IInv
BY InitIInv, NextIInv, PTL DEF Spec

\* Every variable keeps its type: no reference count of sys_shm_map and
\* drop_region goes below zero, and the table has no handle that was not given out.
THEOREM TypeCorrectness == Spec => []TypeOK
<1>1. IInv => TypeOK
  BY DEF IInv
<1>. QED
  BY <1>1, Invariance, PTL

\* The reference count of a region is the number of its mappings, all of them in
\* live processes, whatever the order of failed maps, unmaps and exits.
THEOREM ExactReferences == Spec => []RefsAreMappings
<1>1. IInv => RefsAreMappings
  BY Zenon DEF IInv, BooksAgree
<1>. QED
  BY <1>1, Invariance, PTL

\* The mappings sys_shm_map gives one process never overlap.
THEOREM DisjointMappings == Spec => []MappingsAreDisjoint
<1>1. IInv => MappingsAreDisjoint
  BY DEF IInv, BooksAgree
<1>. QED
  BY <1>1, Invariance, PTL

\* A lent frame becomes free, or is lent twice, only when AddressSpace::destroy
\* gives it back for a forked child that was reaped; a process that was never party
\* to a fork has no freed frame mapped otherwise.
THEOREM LentFrames == Spec => []LentFramesStay
<1>1. IInv => LentFramesStay
  BY DEF IInv
<1>. QED
  BY <1>1, Invariance, PTL

\* One step of the owner of the framebuffer: it leaves by exit_current only.
LEMMA OwnerStep ==
  ASSUME IInv, [Next]_vars, FB_OWNER # None, FB_OWNER' # FB_OWNER
  PROVE  procs'[FB_OWNER] = "zombie"
<1>1. Next
  BY Zenon DEF vars
<1>2. PICK p \in Pid : exit_current(p) \/ sys_fb_acquire(p)
  BY ZenonT(30), <1>1 DEF Next, start, fork, try_resolve_cow, wait_any, sys_shm_create, sys_shm_map, sys_shm_unmap,
                         sys_ipc_send, sys_ipc_recv, recv_spins, fb
<1>3. CASE exit_current(p)
  <2>1. FB_OWNER = p
    BY Zenon, <1>3 DEF exit_current, release_if_owner
  <2>2. procs[p] = "live" /\ procs \in [Pid -> {"unborn", "live", "zombie", "reaped"}]
    BY Zenon, <2>1 DEF IInv, OwnerLives, TypeOK
  <2>. QED
    BY Zenon, <1>3, <2>1, <2>2 DEF exit_current
<1>4. CASE sys_fb_acquire(p)
  <2>1. FB_OWNER = p
    BY <1>4 DEF sys_fb_acquire, MayAcquire
  <2>2. HasFb => FB_BACKBUF_FRAMES # {}
    BY DEF IInv, OwnerLives
  <2>3. FB_OWNER' = p
    BY Zenon, <1>4, <2>2 DEF sys_fb_acquire
  <2>. QED
    BY Zenon, <2>1, <2>3
<1>. QED
  BY <1>2, <1>3, <1>4

\* The framebuffer that sys_fb_acquire gives away changes hands through the death
\* of its owner only, has a live owner, and is exposed only while it has one.
THEOREM FramebufferIsExclusive == Spec => FbIsExclusive
<1> DEFINE A == /\ FB_OWNER # None /\ FB_OWNER' # FB_OWNER => procs'[FB_OWNER] = "zombie"
                /\ FB_OWNER' # None => procs'[FB_OWNER'] = "live"
                /\ FB_BACKBUF_VA' => FB_OWNER' # None
<1>1. IInv /\ [Next]_vars => A
  <2> SUFFICES ASSUME IInv, [Next]_vars PROVE A
    OBVIOUS
  <2>1. OwnerLives'
    BY NextIInv DEF IInv
  <2>. QED
    BY Zenon, <2>1, OwnerStep DEF OwnerLives
<1>2. IInv /\ [Next]_vars => [A]_vars
  BY <1>1
<1> HIDE DEF A
<1>3. Spec => [][A]_vars
  BY <1>2, Invariance, PTL DEF Spec
<1>. QED
  BY <1>3 DEF FbIsExclusive, A

-----------------------------------------------------------------------------
(* The frame allocator *)

\* The strengthening that makes the properties inductive: a clear bit belongs
\* to a managed frame, every managed frame is below the frame count (so a
\* released frame is found again), the hint bounds the clear bits,
\* and the counter follows the bitmap.
FrameInv == /\ FrameTypeOK
            /\ FreeFrames \subseteq Managed
            /\ \A f \in Managed : f < num_frames
            /\ SearchCoversAllFree
            /\ UsedIsExact

\* There are finitely many frames: the bitmap has BITMAP_BITS bits.
LEMMA FrameFinite == IsFiniteSet(Frame)
  BY FrameAllocatorAssumption, FS_Interval DEF Frame

\* BitmapFrameAllocator::new clears bits of the bitmap only.
LEMMA ClearedFrames == \A areas : Cleared(areas) \subseteq Frame
  BY DEF Cleared, AreaFrames

\* The frames it clears can be counted, as `used` does.
LEMMA ClearedFinite == \A areas : IsFiniteSet(Cleared(areas))
  BY ClearedFrames, FrameFinite, FS_Subset

\* After BitmapFrameAllocator::new the clear bits are exactly the managed
\* frames, and the inductive invariant holds.
LEMMA FrameInitInv == FrameInit => FrameInv
<1> SUFFICES ASSUME FrameInit PROVE FrameInv
  OBVIOUS
<1> DEFINE cleared == Cleared(memory_areas)
<1>1. cleared \subseteq Frame
  BY ClearedFrames
<1>2. FrameTypeOK
  <2>1. IsFiniteSet(cleared \cap Reserved(modules))
    BY ClearedFinite, FS_Subset, cleared \cap Reserved(modules) \subseteq cleared
  <2>2. used \in Nat
    BY <2>1, FS_CardinalityType DEF FrameInit, BootUsed
  <2>. QED
    BY <2>2, FrameAllocatorAssumption DEF FrameInit, FrameTypeOK
<1>3. FreeFrames = Managed
  BY Zenon, <1>1 DEF FrameInit, FreeFrames, Managed
<1>4. SearchCoversAllFree
  BY <1>1, <1>3, FrameAllocatorAssumption
     DEF FrameInit, SearchCoversAllFree, IsFrameCount, Managed, Frame
<1>5. UsedIsExact
  <2>1. cleared \ FreeFrames = cleared \cap Reserved(modules)
    BY <1>3 DEF Managed
  <2>. QED
    BY <2>1 DEF FrameInit, UsedIsExact, BootUsed
<1>6. \A f \in Managed : f < num_frames
  BY DEF FrameInit, IsFrameCount, Managed
<1>. QED
  BY <1>2, <1>3, <1>4, <1>5, <1>6 DEF FrameInv

\* allocate_frame keeps the invariant: the frame it takes was free, and
\* everything between the old hint and that frame was occupied.
LEMMA AllocateFrameInv == FrameInv /\ allocate_frame => FrameInv'
<1> SUFFICES ASSUME FrameInv, allocate_frame PROVE FrameInv'
  OBVIOUS
<1> DEFINE cleared == Cleared(memory_areas)
<1>1. ASSUME NEW f \in Frame,
             FirstFree(f),
             bitmap' = [bitmap EXCEPT ![f] = TRUE],
             next_free' = HintPast(f),
             used' = used + 1,
             ret' = f,
             UNCHANGED <<memory_areas, modules, num_frames>>
      PROVE  FrameInv'
  <2>1. FrameTypeOK'
    BY <1>1, FrameAllocatorAssumption DEF FrameInv, FrameTypeOK, Frame, HintPast
  <2>2. /\ FreeFrames' = FreeFrames \ {f}
        /\ f \in FreeFrames
    BY <1>1 DEF FrameInv, FrameTypeOK, FreeFrames, FirstFree
  <2>3. (FreeFrames \subseteq Managed)'
    BY <1>1, <2>2 DEF FrameInv, Managed
  <2>4. SearchCoversAllFree'
    BY <1>1, <2>2, FrameAllocatorAssumption
       DEF FrameInv, SearchCoversAllFree, FirstFree, HintPast, FrameTypeOK, Frame, FreeFrames
  <2>5. UsedIsExact'
    <3>1. /\ f \in cleared
          /\ f \notin cleared \ FreeFrames
          /\ cleared \ FreeFrames' = (cleared \ FreeFrames) \cup {f}
      BY <2>2 DEF FrameInv, Managed
    <3>2. IsFiniteSet(cleared \ FreeFrames)
      BY ClearedFinite, FS_Subset, cleared \ FreeFrames \subseteq cleared
    <3>3. Cardinality(cleared \ FreeFrames') = Cardinality(cleared \ FreeFrames) + 1
      BY Zenon, <3>1, <3>2, FS_AddElement
    <3>. QED
      BY <1>1, <3>3 DEF FrameInv, UsedIsExact
  <2>. QED
    BY <1>1, <2>1, <2>3, <2>4, <2>5 DEF FrameInv, Managed
<1>2. ASSUME ret' = NoFrame,
             UNCHANGED <<memory_areas, modules, bitmap, num_frames, next_free, used>>
      PROVE  FrameInv'
  BY <1>2 DEF FrameInv, FrameTypeOK, FreeFrames, Managed, SearchCoversAllFree, UsedIsExact
<1>. QED
  BY <1>1, <1>2 DEF allocate_frame

\* deallocate_frame keeps the invariant, also when the frame was free already.
LEMMA DeallocateFrameInv ==
  ASSUME FrameInv, NEW f \in Managed, deallocate_frame(f)
  PROVE  FrameInv'
<1> DEFINE cleared == Cleared(memory_areas)
<1>1. f \in Frame /\ f \in cleared
  BY ClearedFrames DEF Managed
<1>2. CASE ~bitmap[f]
  BY <1>2 DEF deallocate_frame, FrameInv, FrameTypeOK, FreeFrames, Managed,
              SearchCoversAllFree, UsedIsExact
<1>3. CASE bitmap[f]
  <2>1. FrameTypeOK'
    <3>1. bitmap' \in [Frame -> BOOLEAN]
      BY Zenon, <1>1, <1>3 DEF deallocate_frame, FrameInv, FrameTypeOK
    <3>2. next_free' \in 0 .. BITMAP_BITS /\ used' \in Int
      BY <1>1, <1>3, FrameAllocatorAssumption
         DEF deallocate_frame, FrameInv, FrameTypeOK, Frame, HintBack
    <3>. QED
      BY <3>1, <3>2 DEF deallocate_frame, FrameInv, FrameTypeOK
  <2>2. FreeFrames' = FreeFrames \cup {f} /\ f \notin FreeFrames
    BY <1>1, <1>3 DEF deallocate_frame, FrameInv, FrameTypeOK, FreeFrames
  <2>3. (FreeFrames \subseteq Managed)'
    BY <1>3, <2>2 DEF deallocate_frame, FrameInv, Managed
  <2>4. SearchCoversAllFree'
    <3>1. f < num_frames
      BY DEF FrameInv
    <3>. QED
      BY <1>1, <1>3, <2>2, <3>1, FrameAllocatorAssumption
         DEF deallocate_frame, FrameInv, SearchCoversAllFree, HintBack, FrameTypeOK, Frame
  <2>5. UsedIsExact'
    <3>1. /\ f \in cleared \ FreeFrames
          /\ cleared \ FreeFrames' = (cleared \ FreeFrames) \ {f}
      BY <1>1, <2>2
    <3>2. IsFiniteSet(cleared \ FreeFrames)
      BY ClearedFinite, FS_Subset, cleared \ FreeFrames \subseteq cleared
    <3>3. Cardinality(cleared \ FreeFrames') = Cardinality(cleared \ FreeFrames) - 1
      BY ZenonT(30), <3>1, <3>2, FS_RemoveElement
    <3>. QED
      BY <1>3, <3>3 DEF deallocate_frame, FrameInv, UsedIsExact
  <2>. QED
    BY <1>3, <2>1, <2>3, <2>4, <2>5 DEF FrameInv, Managed, deallocate_frame
<1>. QED
  BY <1>2, <1>3

\* Every step of the allocator keeps the inductive invariant.
LEMMA FrameStepInv == FrameInv /\ [FrameNext]_frame_vars => FrameInv'
<1> SUFFICES ASSUME FrameInv, [FrameNext]_frame_vars PROVE FrameInv'
  OBVIOUS
<1>1. CASE allocate_frame
  BY <1>1, AllocateFrameInv
<1>2. CASE \E f \in Managed : deallocate_frame(f)
  BY <1>2, DeallocateFrameInv
<1>3. CASE UNCHANGED frame_vars
  BY <1>3 DEF frame_vars, FrameInv, FrameTypeOK, FreeFrames, Managed, SearchCoversAllFree, UsedIsExact
<1>. QED
  BY <1>1, <1>2, <1>3 DEF FrameNext

-----------------------------------------------------------------------------
\* The inductive invariant holds throughout.
THEOREM FrameInvariance == FrameSpec => []FrameInv
  BY FrameInitInv, FrameStepInv, PTL DEF FrameSpec

\* The bitmap, the frame count, the hint and the frame returned stay in range.
THEOREM FrameTypeCorrectness == FrameSpec => []FrameTypeOK
<1>1. FrameInv => FrameTypeOK
  BY DEF FrameInv
<1>. QED
  BY <1>1, FrameInvariance, PTL

\* next_free and num_frames always enclose every free frame, so find_free
\* (which scans only that interval) misses none.
THEOREM SearchCoverage == FrameSpec => []SearchCoversAllFree
<1>1. FrameInv => SearchCoversAllFree
  BY DEF FrameInv
<1>. QED
  BY <1>1, FrameInvariance, PTL

\* The `used` statistic is exact after every sequence of operations.
THEOREM UsedAccounting == FrameSpec => []UsedIsExact
<1>1. FrameInv => UsedIsExact
  BY DEF FrameInv
<1>. QED
  BY <1>1, FrameInvariance, PTL

\* The bitmap allocator implements the abstract frame pool.
THEOREM Refinement == FrameSpec => ImplementsPool
<1>1. FrameInit => Pool!PoolInit
  <2> SUFFICES ASSUME FrameInit PROVE Pool!PoolInit
    OBVIOUS
  <2>1. FreeFrames = Managed
    BY Zenon, ClearedFrames DEF FrameInit, FreeFrames, Managed
  <2>. QED
    BY <2>1 DEF FrameInit, Pool!PoolInit, FreeFrames
<1>2. FrameInv /\ [FrameNext]_frame_vars => [Pool!PoolNext]_(Pool!poolVars)
  <2> SUFFICES ASSUME FrameInv, [FrameNext]_frame_vars
               PROVE  Pool!PoolNext \/ UNCHANGED Pool!poolVars
    OBVIOUS
  <2>1. CASE allocate_frame
    <3>1. ASSUME NEW f \in Frame, FirstFree(f),
                 bitmap' = [bitmap EXCEPT ![f] = TRUE], ret' = f,
                 UNCHANGED <<memory_areas, modules, num_frames>>
          PROVE  Pool!Alloc
      <4>1. f \in FreeFrames /\ FreeFrames' = FreeFrames \ {f}
        BY <3>1 DEF FrameInv, FrameTypeOK, FreeFrames, FirstFree
      <4>. QED
        BY <3>1, <4>1 DEF Pool!Alloc, Managed
    <3>2. ASSUME \A f \in next_free .. num_frames - 1 : bitmap[f], ret' = NoFrame,
                 UNCHANGED <<memory_areas, modules, bitmap, num_frames, next_free, used>>
          PROVE  Pool!Alloc
      <4>1. FreeFrames = {}
        BY <3>2, FrameAllocatorAssumption
           DEF FrameInv, FrameTypeOK, SearchCoversAllFree, FreeFrames, Frame
      <4>. QED
        BY <3>2, <4>1 DEF Pool!Alloc, Managed, FreeFrames
    <3>. QED
      BY <2>1, <3>1, <3>2 DEF allocate_frame, Pool!PoolNext
  <2>2. ASSUME NEW f \in Managed, deallocate_frame(f)
        PROVE  Pool!Release
    <3>1. f \in Frame
      BY ClearedFrames DEF Managed
    <3>2. FreeFrames' = FreeFrames \cup {f}
      BY <2>2, <3>1 DEF deallocate_frame, FrameInv, FrameTypeOK, FreeFrames
    <3>. QED
      BY <2>2, <3>2 DEF Pool!Release, deallocate_frame, Managed
  <2>3. CASE UNCHANGED frame_vars
    BY <2>3 DEF frame_vars, Pool!poolVars, Managed, FreeFrames
  <2>. QED
    BY <2>1, <2>2, <2>3 DEF FrameNext, Pool!PoolNext
<1>. QED
  BY <1>1, <1>2, FrameInvariance, PTL DEF FrameSpec, ImplementsPool, Pool!PoolSpec

-----------------------------------------------------------------------------
(* Rounding *)

\* Integer division, as the conversions from bytes to frames use it.
LEMMA DivFacts ==
  ASSUME NEW d \in Nat \ {0}, NEW a \in Nat
  PROVE  /\ a \div d \in Nat
         /\ d * (a \div d) <= a
         /\ a < d * (a \div d) + d
  OBVIOUS

\* A later frame starts at least one frame further on.
LEMMA MulStrict ==
  ASSUME NEW d \in Nat \ {0}, NEW p \in Nat, NEW q \in Nat, p < q
  PROVE  d * p + d <= d * q
<1>1. PICK k \in Nat : q = p + 1 + k
  OBVIOUS
<1>2. d * q = d * p + d + d * k
  BY <1>1
<1>3. d * k >= 0
  OBVIOUS
<1>. QED
  BY <1>2, <1>3

\* A later frame starts no earlier.
LEMMA MulMonotone ==
  ASSUME NEW d \in Nat \ {0}, NEW p \in Nat, NEW q \in Nat, p <= q
  PROVE  d * p <= d * q
<1>1. CASE p = q
  BY <1>1
<1>2. CASE p < q
  BY <1>2, MulStrict
<1>. QED
  BY <1>1, <1>2

\* A frame before the one that holds an address ends at or before the address.
LEMMA FrameBelow ==
  ASSUME NEW d \in Nat \ {0}, NEW p \in Nat, NEW a \in Nat, p < a \div d
  PROVE  d * p + d <= a
<1> DEFINE q == a \div d
<1>1. q \in Nat /\ d * q <= a
  BY DivFacts
<1>2. p < q
  OBVIOUS
<1>. HIDE DEF q
<1>3. d * p + d <= d * q
  BY <1>1, <1>2, MulStrict
<1>4. d * p \in Nat /\ d * q \in Nat
  BY <1>1
<1>. QED
  BY <1>1, <1>3, <1>4

\* The frame number of an aligned-up address starts at or after the address.
LEMMA AlignUpFacts ==
  ASSUME NEW a \in Nat
  PROVE  /\ align_up(a) \div FRAME_SIZE \in Nat
         /\ a <= FRAME_SIZE * (align_up(a) \div FRAME_SIZE)
<1> DEFINE d == FRAME_SIZE
<1> DEFINE q == (a + d - 1) \div d
<1>1. d \in Nat \ {0}
  BY FrameAllocatorAssumption
<1>2. q \in Nat /\ a + d - 1 < d * q + d
  <2>1. a + d - 1 \in Nat
    BY <1>1
  <2>. HIDE DEF d
  <2>. QED
    BY <1>1, <2>1, DivFacts
<1>3. align_up(a) = d * q
  BY <1>1, <1>2 DEF align_up
<1>4. (d * q) \div d = q
  <2>. HIDE DEF q, d
  <2>. QED
    BY <1>1, <1>2
<1>5. a <= d * q
  <2>. HIDE DEF q, d
  <2>. QED
    BY <1>1, <1>2
<1>. QED
  BY <1>2, <1>3, <1>4, <1>5

\* Every free frame is made of usable memory and avoids every reserved byte,
\* whatever the alignment of areas, kernel ranges and modules.
THEOREM FreeFramesSafety == FrameSpec => []FreeFramesAreSafe
<1>1. FrameInv => FreeFramesAreSafe
  <2> SUFFICES ASSUME FrameInv, NEW f \in FreeFrames,
                      NEW b \in f * FRAME_SIZE .. f * FRAME_SIZE + FRAME_SIZE - 1
               PROVE  /\ \E a \in memory_areas : a.usable /\ ByteIn(b, a.base, a.base + a.length)
                      /\ \A r \in KernelRanges \cup modules : ~ByteIn(b, r.start, r.end)
    BY DEF FreeFramesAreSafe
  <2> DEFINE d == FRAME_SIZE
  <2>1. d \in Nat \ {0} /\ f \in Nat /\ f \in Managed
    BY FrameAllocatorAssumption DEF FrameInv, FreeFrames, Frame
  <2>2. b \in Nat /\ d * f <= b /\ b < d * f + d
    BY <2>1
  <2>3. PICK a \in memory_areas : f \in AreaFrames(a)
    BY <2>1 DEF Managed, Cleared
  <2>4. a.usable /\ a.base \in Nat /\ a.length \in Nat
    BY <2>3, FrameAllocatorAssumption DEF AreaFrames, FrameInv, FrameTypeOK, Area
  <2>5. a.base <= b
    <3>1. align_up(a.base) \div d <= f
      BY <2>3 DEF AreaFrames
    <3>. QED
      BY <2>1, <2>2, <2>4, <3>1, AlignUpFacts, MulMonotone
  <2>6. b < a.base + a.length
    <3>1. f < (a.base + a.length) \div d
      BY <2>3 DEF AreaFrames
    <3>2. a.base + a.length \in Nat
      BY <2>4
    <3>3. d * f + d <= a.base + a.length
      <4>. HIDE DEF d
      <4>. QED
        BY <2>1, <3>1, <3>2, FrameBelow
    <3>. QED
      BY <2>1, <2>2, <3>2, <3>3
  <2>7. ASSUME NEW r \in KernelRanges \cup modules, ByteIn(b, r.start, r.end)
        PROVE  FALSE
    <3>1. r.start \in Nat /\ r.end \in Nat
      BY FrameAllocatorAssumption DEF FrameInv, FrameTypeOK, ByteRange
    <3>2. f \notin RangeFrames(r)
      BY <2>1 DEF Managed, Reserved
    <3>3. CASE f < r.start \div d
      <4>1. d * f + d <= r.start
        <5>. HIDE DEF d
        <5>. QED
          BY <2>1, <3>1, <3>3, FrameBelow
      <4>. QED
        BY <2>1, <2>2, <2>7, <3>1, <4>1 DEF ByteIn
    <3>4. CASE align_up(r.end) \div d <= f
      <4>1. r.end <= d * f
        BY <2>1, <3>1, <3>4, AlignUpFacts, MulMonotone
      <4>. QED
        BY <2>1, <2>2, <2>7, <3>1, <4>1 DEF ByteIn
    <3>5. r.start \div d \in Nat /\ align_up(r.end) \div d \in Nat
      BY <2>1, <3>1, DivFacts, AlignUpFacts
    <3>. QED
      BY <2>1, <3>2, <3>3, <3>4, <3>5 DEF RangeFrames, FreeFrames
  <2>. QED
    BY <2>3, <2>4, <2>5, <2>6, <2>7 DEF ByteIn
<1>. QED
  BY <1>1, FrameInvariance, PTL
=============================================================================
