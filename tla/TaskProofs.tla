----------------------------- MODULE TaskProofs -----------------------------
(***************************************************************************)
(* Proofs about what runs inside the kernel, for any number of threads,    *)
(* tasks, timers and keys.  The table of kernel threads and the processor  *)
(* agree, and neither panic of thread.rs is reached.  The ready queue of   *)
(* the executor is exact, and no wakeup is lost as long as there are no    *)
(* more tasks than places in the queue, wherever the two interrupts fall.  *)
(* Both rest on what retain leaves of a vector, which comes first.         *)
(***************************************************************************)
EXTENDS KThreads, Executor, FiniteSetTheorems, WellFoundedInduction, TLAPS

\* A set of natural numbers has a least one.
LEMMA LeastNat ==
  ASSUME NEW S \in SUBSET Nat, S # {}
  PROVE  \E m \in S : \A k \in S : m <= k
<1>1. PICK m \in S : \A k \in S : ~(<<k, m>> \in OpToRel(<, Nat))
  BY Zenon, NatLessThanWellFounded, WFMin
<1>2. \A k \in S : ~(k < m)
  BY Zenon, <1>1 DEF OpToRel
<1>. QED
  BY <1>2

\* The ranks of a finite set of numbers are 1 up to its size, each taken once.
LEMMA RankBijection ==
  ASSUME NEW S \in SUBSET Nat, IsFiniteSet(S)
  PROVE  /\ Cardinality(S) \in Nat
         /\ \A i \in S : Rank(S, i) \in 1 .. Cardinality(S)
         /\ \A i, j \in S : Rank(S, i) = Rank(S, j) => i = j
         /\ \A k \in 1 .. Cardinality(S) : \E i \in S : Rank(S, i) = k
<1> DEFINE Upto(i) == {j \in S : j <= i}
           n == Cardinality(S)
<1>1. \A i : IsFiniteSet(Upto(i)) /\ Cardinality(Upto(i)) \in Nat /\ Cardinality(Upto(i)) <= n
  <2>1. \A i : Upto(i) \in SUBSET S
    OBVIOUS
  <2>. HIDE DEF Upto
  <2>. QED
    BY <2>1, FS_Subset, FS_CardinalityType
<1>2. n \in Nat
  BY FS_CardinalityType
<1>3. ASSUME NEW i \in S, Cardinality(Upto(i)) = 0 PROVE FALSE
  <2>1. i \in Upto(i)
    OBVIOUS
  <2>. HIDE DEF Upto
  <2>. QED
    BY <1>1, <1>3, <2>1, FS_EmptySet
<1>4. ASSUME NEW i \in S, NEW j \in S, i < j PROVE Cardinality(Upto(i)) # Cardinality(Upto(j))
  <2>1. Upto(i) \in SUBSET Upto(j) /\ j \in Upto(j) /\ j \notin Upto(i)
    <3>1. i \in Nat /\ j \in Nat /\ \A k \in S : k \in Nat
      OBVIOUS
    <3>2. \A k \in S : k <= i => k <= j
      BY <1>4, <3>1
    <3>3. j <= j /\ ~(j <= i)
      BY <1>4, <3>1
    <3>. QED
      BY Zenon, <3>2, <3>3
  <2>. HIDE DEF Upto
  <2>2. Cardinality(Upto(i)) = Cardinality(Upto(j)) => Upto(i) = Upto(j)
    BY <1>1, <2>1, FS_Subset
  <2>. QED
    BY Zenon, <2>1, <2>2
<1>5. \A i \in S : Cardinality(Upto(i)) \in 1 .. n
  <2>. HIDE DEF Upto, n
  <2>. QED
    BY <1>1, <1>2, <1>3
<1>6. \A i, j \in S : Cardinality(Upto(i)) = Cardinality(Upto(j)) => i = j
  <2>1. \A i, j \in S : i = j \/ i < j \/ j < i
    OBVIOUS
  <2>. HIDE DEF Upto
  <2>. QED
    BY Zenon, <1>4, <2>1
<1> DEFINE f == [i \in S |-> Cardinality(Upto(i))]
<1>7. f \in Injection(S, 1 .. n)
  <2>. HIDE DEF Upto, n
  <2>. QED
    BY Zenon, <1>5, <1>6 DEF Injection, IsInjective
<1>8. f \in Surjection(S, 1 .. n)
  <2>1. IsFiniteSet(1 .. n) /\ Cardinality(1 .. n) = n
    BY <1>2, FS_Interval
  <2>. HIDE DEF f
  <2>. QED
    BY Zenon, <1>7, <2>1, FS_Injection
<1>9. \A k \in 1 .. n : \E i \in S : Cardinality(Upto(i)) = k
  <2>. HIDE DEF Upto, n
  <2>. QED
    BY Zenon, <1>8 DEF Surjection
<1>. QED
  BY Zenon, <1>2, <1>5, <1>6, <1>9 DEF Rank

\* An index moves down by what was removed below it.
LEMMA RankShift ==
  ASSUME NEW n \in Nat, NEW S \in SUBSET (1 .. n), NEW c \in S
  PROVE  Rank(S, c) = c - Cardinality({i \in (1 .. n) \ S : i < c})
<1> DEFINE low  == {j \in S : j <= c}
           gone == {i \in (1 .. n) \ S : i < c}
<1>1. low \cup gone = 1 .. c /\ low \cap gone = {}
  <2>0. c \in 1 .. n /\ \A k \in S : k \in 1 .. n
    OBVIOUS
  <2>1. ASSUME NEW k \in low \cup gone PROVE k \in 1 .. c
    <3>1. k \in 1 .. n /\ (k <= c \/ k < c)
      BY Zenon, <2>0, <2>1
    <3>. QED
      BY <2>0, <3>1
  <2>2. ASSUME NEW k \in 1 .. c PROVE k \in low \cup gone
    <3>1. k \in 1 .. n /\ k <= c /\ (k = c \/ k < c)
      BY <2>0
    <3>. QED
      BY Zenon, <3>1
  <2>. QED
    BY Zenon, <2>1, <2>2
<1>2. c \in Nat /\ c >= 1
  OBVIOUS
<1>3. IsFiniteSet(1 .. c) /\ Cardinality(1 .. c) = c
  BY <1>2, FS_Interval
<1>. HIDE DEF low, gone
<1>4. IsFiniteSet(low) /\ IsFiniteSet(gone)
  BY <1>1, <1>3, FS_Subset
<1>5. Cardinality(low) \in Nat /\ Cardinality(gone) \in Nat
  BY <1>4, FS_CardinalityType
<1>6. c = Cardinality(low) + Cardinality(gone) - 0
  <2>1. Cardinality(low \cup gone) = Cardinality(low) + Cardinality(gone) - Cardinality(low \cap gone)
    BY Zenon, <1>4, FS_Union
  <2>. QED
    BY Zenon, <1>1, <1>3, <2>1, FS_EmptySet
<1>7. Cardinality(low) = c - Cardinality(gone)
  BY <1>2, <1>5, <1>6
<1>. QED
  BY Zenon, <1>7 DEF Rank, low, gone
\* What retain leaves are the elements it is told to keep, each at its rank.
LEMMA RetainedElements ==
  ASSUME NEW T, NEW s \in Seq(T), NEW S \in SUBSET DOMAIN s
  PROVE  \E e \in [DOMAIN Retained(s, S) -> S] :
           /\ Retained(s, S) \in Seq(T)
           /\ \A k \in DOMAIN Retained(s, S) : Retained(s, S)[k] = s[e[k]] /\ Rank(S, e[k]) = k
           /\ \A i \in S : Rank(S, i) \in DOMAIN Retained(s, S) /\ e[Rank(S, i)] = i
<1> DEFINE m == Cardinality(S)
           r == Retained(s, S)
           e == [k \in 1 .. m |-> CHOOSE i \in S : Rank(S, i) = k]
<1>1. S \in SUBSET Nat /\ IsFiniteSet(S)
  <2>1. Len(s) \in Nat /\ DOMAIN s = 1 .. Len(s)
    OBVIOUS
  <2>2. IsFiniteSet(1 .. Len(s))
    BY <2>1, FS_Interval
  <2>3. IsFiniteSet(S)
    BY Zenon, <2>1, <2>2, FS_Subset
  <2>. QED
    BY <2>1, <2>3
<1>2. /\ m \in Nat
      /\ \A i \in S : Rank(S, i) \in 1 .. m
      /\ \A i, j \in S : Rank(S, i) = Rank(S, j) => i = j
      /\ \A k \in 1 .. m : \E i \in S : Rank(S, i) = k
  BY Zenon, <1>1, RankBijection
<1>3. r = [k \in 1 .. m |-> s[CHOOSE i \in S : Rank(S, i) = k]]
  BY Zenon DEF Retained
<1>. HIDE DEF m, r
<1>4. DOMAIN r = 1 .. m
  BY Zenon, <1>3
<1>5. \A k \in 1 .. m : e[k] \in S /\ Rank(S, e[k]) = k
  BY Zenon, <1>2
<1>6. e \in [1 .. m -> S] /\ \A k \in 1 .. m : r[k] = s[e[k]]
  BY Zenon, <1>3, <1>5
<1>. HIDE DEF e
<1>7. \A i \in S : Rank(S, i) \in 1 .. m /\ e[Rank(S, i)] = i
  BY ZenonT(30), <1>2, <1>5
<1>8. r \in Seq(T)
  <2>1. \A i \in S : s[i] \in T
    OBVIOUS
  <2>2. r \in [1 .. m -> T]
    BY Zenon, <1>3, <1>5, <1>6, <2>1
  <2>. QED
    BY <1>2, <2>2
<1>. QED
  BY Zenon, <1>4, <1>5, <1>6, <1>7, <1>8 DEF r

-----------------------------------------------------------------------------
(***************************************************************************)
(* Kernel threads                                                          *)
(***************************************************************************)

\* No two threads have one id, and NEXT_ID is ahead of them all.
UniqueIds ==
  /\ \A i, j \in DOMAIN threads : threads[i].id = threads[j].id => i = j
  /\ \A i \in DOMAIN threads : threads[i].id < next_id

\* The main thread is in the table and has not finished: exit() finds it.
MainLives ==
  \E m \in DOMAIN threads : threads[m].id = Main /\ threads[m].state # "Finished"

\* A thread that has yet to start has its entry function registered.
Registered ==
  \A i \in DOMAIN threads : threads[i].rsp.at = "bootstrap" => threads[i].id \in entry_points

\* The inductive invariant.
ThreadsInv == ThreadsTypeOK /\ TableMatchesCpu /\ NoPanic /\ UniqueIds /\ MainLives /\ Registered

-----------------------------------------------------------------------------
(* The table *)

\* The vector is never empty, and `current` indexes it.
LEMMA TableShape ==
  ASSUME ThreadsTypeOK
  PROVE  /\ Len(threads) \in Nat \ {0} /\ DOMAIN threads = 1 .. Len(threads)
         /\ current \in 1 .. Len(threads)
         /\ \A i \in DOMAIN threads : threads[i] \in Thread
<1>1. threads \in Seq(Thread) /\ current \in DOMAIN threads
  BY Zenon DEF ThreadsTypeOK
<1>. QED
  BY <1>1

\* What reap makes of the vector: the threads it keeps, each once, and `current`
\* still designates the thread that runs.
LEMMA ReapMoves ==
  ASSUME ThreadsTypeOK, reap
  PROVE  \E e \in [DOMAIN threads' -> Kept] :
           /\ threads' \in Seq(Thread)
           /\ \A k \in DOMAIN threads' : threads'[k] = threads[e[k]]
           /\ \A k, l \in DOMAIN threads' : e[k] = e[l] => k = l
           /\ \A i \in Kept : \E k \in DOMAIN threads' : e[k] = i
           /\ current' \in DOMAIN threads' /\ e[current'] = current
<1> DEFINE n == Len(threads)
<1>1. /\ n \in Nat /\ DOMAIN threads = 1 .. n /\ current \in 1 .. n
      /\ threads \in Seq(Thread)
  BY Zenon, TableShape DEF ThreadsTypeOK
<1>2. Kept \in SUBSET (1 .. n) /\ current \in Kept
  BY Zenon, <1>1 DEF Kept
<1>3. threads' = Retained(threads, Kept)
  BY Zenon DEF reap
<1>4. current' = Rank(Kept, current)
  <2>1. Rank(Kept, current) = current - Cardinality({i \in (1 .. n) \ Kept : i < current})
    BY Zenon, <1>1, <1>2, RankShift
  <2>. QED
    BY Zenon, <1>1, <2>1 DEF reap, RemovedBefore
<1>5. PICK e \in [DOMAIN threads' -> Kept] :
        /\ threads' \in Seq(Thread)
        /\ \A k \in DOMAIN threads' : threads'[k] = threads[e[k]] /\ Rank(Kept, e[k]) = k
        /\ \A i \in Kept : Rank(Kept, i) \in DOMAIN threads' /\ e[Rank(Kept, i)] = i
  <2>1. Kept \in SUBSET DOMAIN threads
    BY Zenon, <1>1, <1>2
  <2>. QED
    BY <1>1, <1>3, <2>1, RetainedElements
<1>6. \A k, l \in DOMAIN threads' : e[k] = e[l] => k = l
  BY Zenon, <1>5
<1>7. current' \in DOMAIN threads' /\ e[current'] = current
  BY Zenon, <1>2, <1>4, <1>5
<1>8. \A i \in Kept : \E k \in DOMAIN threads' : e[k] = i
  BY Zenon, <1>5
<1>. QED
  BY Zenon, <1>5, <1>6, <1>7, <1>8

-----------------------------------------------------------------------------
(* What pick_next finds *)

\* The scan meets every index at a distance that is a number.
LEMMA DistanceNat ==
  ASSUME ThreadsTypeOK
  PROVE  \A i \in DOMAIN threads : Distance(i) \in Nat
<1> DEFINE n == Len(threads)
<1>1. n \in Nat \ {0} /\ DOMAIN threads = 1 .. n /\ current \in 1 .. n
  BY TableShape
<1>. HIDE DEF n
<1>2. \A a \in Int : a % n \in 0 .. n - 1
  BY <1>1
<1>3. \A i \in 1 .. n : (i - current + n) % n \in 0 .. n - 1
  <2>1. \A i \in 1 .. n : i - current + n \in Int
    BY <1>1
  <2>. QED
    BY Zenon, <1>2, <2>1
<1>4. \A i \in 1 .. n : (IF (i - current + n) % n = 0 THEN n ELSE (i - current + n) % n) \in Nat
  BY <1>1, <1>3
<1>. QED
  BY Zenon, <1>1, <1>4 DEF Distance, n

\* Whenever two threads are in the table and one is Runnable, the scan ends at one.
LEMMA PickExists ==
  ASSUME ThreadsTypeOK, NEW ts \in Seq(Thread), DOMAIN ts = DOMAIN threads, Len(ts) >= 2,
         NEW r \in DOMAIN ts, ts[r].state = "Runnable"
  PROVE  \E i \in DOMAIN ts : Picked(ts, i)
<1> DEFINE R == {i \in DOMAIN ts : ts[i].state = "Runnable"}
           D == {Distance(i) : i \in R}
<1>1. D \in SUBSET Nat /\ D # {}
  BY Zenon, DistanceNat
<1>2. PICK d \in D : \A k \in D : d <= k
  <2>. HIDE DEF D
  <2>. QED
    BY Zenon, <1>1, LeastNat
<1>3. PICK i \in R : d = Distance(i)
  BY Zenon
<1>. QED
  BY Zenon, <1>2, <1>3 DEF Picked
-----------------------------------------------------------------------------
(* The steps *)

\* A switch to a Runnable thread, from the running one or from one that has just
\* finished.
LEMMA SwitchStep ==
  ASSUME ThreadsInv, NEW ts \in Seq(Thread), DOMAIN ts = DOMAIN threads,
         \A j \in DOMAIN threads \ {current} : ts[j] = threads[j],
         ts[current].id = threads[current].id, ts[current].rsp = threads[current].rsp,
         ts[current].state \in {"Running", "Finished"},
         cpu = Main => ts[current].state = "Running",
         NEW i \in DOMAIN ts, ts[i].state = "Runnable", SwitchTo(ts, i),
         UNCHANGED <<entry_points, next_id>>
  PROVE  ThreadsInv'
<1> DEFINE D  == DOMAIN threads
           st == IF ts[current].state = "Running" THEN "Runnable" ELSE ts[current].state
           here == [of |-> cpu, at |-> "yield"]
           old == [ts[current] EXCEPT !.state = st, !.rsp = here]
           new == [ts[i] EXCEPT !.state = "Running"]
<1>1. /\ current \in D /\ i \in D /\ i # current
      /\ ts[i] = threads[i] /\ ts[current] \in Thread /\ ts[i] \in Thread
      /\ cpu \in Id /\ st \in {"Runnable", "Finished"} /\ here \in Rsp
  <2>1. current \in D /\ cpu \in Id
    BY Zenon DEF ThreadsInv, ThreadsTypeOK
  <2>2. i # current
    BY Zenon
  <2>3. ts[current] \in Thread /\ ts[i] \in Thread
    BY <2>1
  <2>4. here \in Rsp
    BY <2>1 DEF Rsp
  <2>. QED
    BY Zenon, <2>1, <2>2, <2>3, <2>4
<1>2. /\ threads' = [ts EXCEPT ![current].state = st, ![current].rsp = here, ![i].state = "Running"]
      /\ current' = i /\ cpu' = ts[i].rsp.of /\ entry_points' = entry_points /\ next_id' = next_id
      /\ panic' = IF ts[i].rsp.at = "bootstrap" /\ ts[i].id \notin entry_points
                  THEN "entry manquante" ELSE panic
  BY Zenon DEF SwitchTo
<1>. HIDE DEF st, here
<1>3. /\ old \in Thread /\ old.id = threads[current].id /\ old.state = st /\ old.rsp = here
      /\ new \in Thread /\ new.id = threads[i].id /\ new.state = "Running"
      /\ new.rsp = threads[i].rsp
  BY <1>1 DEF Thread
<1>4. /\ DOMAIN threads' = D /\ threads'[current] = old /\ threads'[i] = new
      /\ \A j \in D \ {current, i} : threads'[j] = threads[j]
      /\ threads' \in Seq(Thread)
  <2>1. ts \in [D -> Thread]
    OBVIOUS
  <2>2. threads' = [ts EXCEPT ![current] = old, ![i] = new]
    BY <1>1, <1>2, <2>1 DEF Thread
  <2>. HIDE DEF old, new
  <2>3. DOMAIN threads' = D /\ threads'[current] = old /\ threads'[i] = new
    BY <1>1, <2>1, <2>2
  <2>4. \A j \in D \ {current, i} : threads'[j] = threads[j]
    BY <2>1, <2>2
  <2>5. threads' \in [D -> Thread]
    BY Zenon, <1>3, <2>1, <2>2
  <2>6. D = 1 .. Len(threads) /\ Len(threads) \in Nat
    BY TableShape DEF ThreadsInv
  <2>7. threads' \in Seq(Thread)
    BY <2>5, <2>6
  <2>. QED
    BY Zenon, <2>3, <2>4, <2>7
<1>. HIDE DEF old, new, D
<1>5. \A j \in D : threads'[j].id = threads[j].id
  BY Zenon, <1>3, <1>4
<1>6. /\ \A j, k \in D : threads[j].id = threads[k].id => j = k
      /\ \A j \in D : threads[j].id < next_id
      /\ \A j \in D : threads[j].rsp.at = "bootstrap" => threads[j].id \in entry_points
      /\ threads[current].id = cpu
      /\ \A j \in D : threads[j].state = "Running" <=> j = current
      /\ \A j \in D \ {current} : threads[j].rsp.of = threads[j].id /\ threads[j].rsp.at # "null"
  BY Zenon DEF ThreadsInv, UniqueIds, Registered, TableMatchesCpu, D
<1>7. NoPanic'
  BY ZenonT(30), <1>1, <1>2, <1>6 DEF ThreadsInv, NoPanic
<1>8. ThreadsTypeOK'
  BY <1>1, <1>2, <1>4, <1>7 DEF ThreadsInv, ThreadsTypeOK, NoPanic, Thread, Rsp
<1>9. TableMatchesCpu'
  <2>1. threads'[i].id = cpu'
    BY ZenonT(90), <1>1, <1>2, <1>5, <1>6
  <2>2. \A j \in D : threads'[j].state = "Running" <=> j = i
    BY ZenonT(90), <1>1, <1>3, <1>4, <1>6
  <2>3. here.of = cpu /\ here.at = "yield"
    BY Zenon DEF here
  <2>4. \A j \in D \ {i} : threads'[j].rsp.of = threads'[j].id /\ threads'[j].rsp.at # "null"
    <3>1. threads'[current].rsp.of = threads'[current].id /\ threads'[current].rsp.at # "null"
      BY Zenon, <1>1, <1>3, <1>4, <1>6, <2>3
    <3>2. \A j \in D \ {current, i} : threads'[j].rsp.of = threads'[j].id /\ threads'[j].rsp.at # "null"
      BY ZenonT(90), <1>4, <1>6
    <3>. QED
      BY Zenon, <3>1, <3>2
  <2>. QED
    BY ZenonT(90), <1>1, <1>2, <1>4, <2>1, <2>2, <2>4 DEF TableMatchesCpu
<1>10. UniqueIds'
  <2>1. \A j, k \in D : threads'[j].id = threads'[k].id => j = k
    BY <1>5, <1>6
  <2>2. \A j \in D : threads'[j].id < next_id
    BY Zenon, <1>5, <1>6
  <2>3. DOMAIN threads' = D /\ next_id' = next_id
    BY Zenon, <1>2, <1>4
  <2>. QED
    BY <2>1, <2>2, <2>3 DEF UniqueIds
<1>11. MainLives'
  <2>1. PICK m \in D : threads[m].id = Main /\ threads[m].state # "Finished"
    BY Zenon DEF ThreadsInv, MainLives, D
  <2>2. threads'[m].state # "Finished"
    <3>1. m = current => st = "Runnable"
      BY Zenon, <1>6, <2>1 DEF st
    <3>. QED
      BY Zenon, <1>3, <1>4, <2>1, <3>1
  <2>. QED
    BY Zenon, <1>4, <1>5, <2>1, <2>2 DEF MainLives
<1>12. Registered'
  <2>1. here.at # "bootstrap"
    BY Zenon DEF here
  <2>2. \A j \in D : threads'[j].rsp.at = "bootstrap" => threads[j].rsp.at = "bootstrap"
    BY Zenon, <1>3, <1>4, <2>1
  <2>3. \A j \in D : threads'[j].rsp.at = "bootstrap" => threads'[j].id \in entry_points
    BY Zenon, <1>5, <1>6, <2>2
  <2>. QED
    BY Zenon, <1>2, <1>4, <2>3 DEF Registered
<1>. QED
  BY Zenon, <1>7, <1>8, <1>9, <1>10, <1>11, <1>12 DEF ThreadsInv

\* yield_now, with or without another thread to run.
LEMMA YieldStep ==
  ASSUME ThreadsInv, yield_now
  PROVE  ThreadsInv'
<1>1. CASE NonePicked(threads)
  BY ZenonT(90), <1>1 DEF yield_now, ThreadsInv, ThreadsTypeOK, TableMatchesCpu, NoPanic, UniqueIds, MainLives, Registered
<1>2. CASE ~NonePicked(threads)
  <2>1. PICK i \in DOMAIN threads : Picked(threads, i) /\ SwitchTo(threads, i)
    BY Zenon, <1>2 DEF yield_now
  <2>2. UNCHANGED <<entry_points, next_id>>
    BY Zenon DEF yield_now
  <2>3. threads \in Seq(Thread) /\ threads[current].state = "Running"
    BY Zenon DEF ThreadsInv, ThreadsTypeOK, TableMatchesCpu
  <2>. QED
    BY <2>1, <2>2, <2>3, SwitchStep DEF Picked
<1>. QED
  BY Zenon, <1>1, <1>2
\* exit: the main thread is not the one that finishes, so there is a thread to
\* run and the code after the yield is not reached.
LEMMA ExitStep ==
  ASSUME ThreadsInv, exit
  PROVE  ThreadsInv'
<1> DEFINE ts == [threads EXCEPT ![current].state = "Finished"]
           end == [threads[current] EXCEPT !.state = "Finished"]
<1>1. /\ cpu # Main /\ UNCHANGED <<entry_points, next_id>>
      /\ IF NonePicked(ts)
         THEN threads' = ts /\ panic' = "unreachable" /\ UNCHANGED <<current, cpu>>
         ELSE \E i \in DOMAIN ts : Picked(ts, i) /\ SwitchTo(ts, i)
  BY Zenon DEF exit
<1>2. /\ threads \in Seq(Thread) /\ current \in DOMAIN threads /\ threads[current] \in Thread
      /\ DOMAIN threads = 1 .. Len(threads) /\ Len(threads) \in Nat
  BY TableShape DEF ThreadsInv, ThreadsTypeOK
<1>3. /\ ts = [threads EXCEPT ![current] = end] /\ end \in Thread
      /\ end.id = threads[current].id /\ end.rsp = threads[current].rsp /\ end.state = "Finished"
  BY Zenon, <1>2 DEF Thread
<1>. HIDE DEF end
<1>4. /\ ts \in Seq(Thread) /\ DOMAIN ts = DOMAIN threads /\ Len(ts) = Len(threads)
      /\ ts[current] = end /\ \A j \in DOMAIN threads \ {current} : ts[j] = threads[j]
  BY <1>2, <1>3
<1>. HIDE DEF ts
<1>5. PICK m \in DOMAIN threads : threads[m].id = Main /\ threads[m].state # "Finished"
  BY Zenon DEF ThreadsInv, MainLives
<1>6. m # current /\ threads[m].state # "Running"
  BY Zenon, <1>1, <1>5 DEF ThreadsInv, TableMatchesCpu
<1>7. ts[m].state = "Runnable"
  <2>1. threads[m] \in Thread
    BY Zenon, TableShape DEF ThreadsInv
  <2>2. threads[m].state \in {"Runnable", "Running", "Finished"}
    BY Zenon, <2>1 DEF Thread
  <2>. QED
    BY Zenon, <1>4, <1>5, <1>6, <2>2
<1>8. Len(ts) >= 2
  <2>1. m \in 1 .. Len(threads) /\ current \in 1 .. Len(threads)
    BY Zenon, <1>2
  <2>. QED
    BY <1>2, <1>4, <1>6, <2>1
<1>9. ~NonePicked(ts)
  BY Zenon, <1>4, <1>7, <1>8, PickExists DEF ThreadsInv, NonePicked
<1>10. PICK i \in DOMAIN ts : Picked(ts, i) /\ SwitchTo(ts, i)
  BY Zenon, <1>1, <1>9
<1>11. ts[i].state = "Runnable"
  BY Zenon, <1>10 DEF Picked
<1>. QED
  BY <1>1, <1>3, <1>4, <1>10, <1>11, SwitchStep

\* spawn: the new thread has an id of its own, and its entry function is known
\* before anything can switch to it.
LEMMA SpawnStep ==
  ASSUME ThreadsInv, spawn
  PROVE  ThreadsInv'
<1> DEFINE n == Len(threads)
           new == [id |-> next_id, state |-> "Runnable",
                   rsp |-> [of |-> next_id, at |-> "bootstrap"]]
<1>1. /\ next_id <= MaxThread /\ threads' = Append(threads, new)
      /\ entry_points' = entry_points \cup {next_id} /\ next_id' = next_id + 1
      /\ current' = current /\ cpu' = cpu /\ panic' = panic
  BY Zenon DEF spawn, NewEntry
<1>2. /\ threads \in Seq(Thread) /\ n \in Nat \ {0} /\ DOMAIN threads = 1 .. n
      /\ current \in 1 .. n
  BY TableShape DEF ThreadsInv, ThreadsTypeOK
<1>3. next_id \in Id /\ next_id \in 1 .. MaxThread /\ next_id + 1 \in 1 .. MaxThread + 1
  <2>1. next_id \in 1 .. MaxThread + 1
    BY Zenon DEF ThreadsInv, ThreadsTypeOK
  <2>. QED
    BY <1>1, <2>1, KThreadsAssumption DEF Id, Main
<1>4. /\ new \in Thread /\ new.id = next_id /\ new.state = "Runnable"
      /\ new.rsp.of = next_id /\ new.rsp.at = "bootstrap"
  BY <1>3 DEF Thread, Rsp
<1>. HIDE DEF new
<1>5. /\ threads' \in Seq(Thread) /\ DOMAIN threads' = 1 .. n + 1
      /\ \A i \in 1 .. n : threads'[i] = threads[i]
      /\ threads'[n + 1] = new
  BY <1>1, <1>2, <1>4
<1>. HIDE DEF n
<1>6. /\ 1 .. n + 1 = 1 .. n \cup {n + 1} /\ n + 1 \notin 1 .. n
  BY <1>2
<1>7. ThreadsTypeOK'
  <2>1. entry_points' \subseteq Id
    BY Zenon, <1>1, <1>3 DEF ThreadsInv, ThreadsTypeOK
  <2>2. current' \in DOMAIN threads'
    BY Zenon, <1>1, <1>2, <1>5, <1>6
  <2>. QED
    BY Zenon, <1>1, <1>3, <1>5, <2>1, <2>2 DEF ThreadsInv, ThreadsTypeOK
<1>8. /\ \A i, j \in 1 .. n : threads[i].id = threads[j].id => i = j
      /\ \A i \in 1 .. n : threads[i].id < next_id
      /\ \A i \in 1 .. n : threads[i].rsp.at = "bootstrap" => threads[i].id \in entry_points
      /\ threads[current].id = cpu
      /\ \A i \in 1 .. n : threads[i].state = "Running" <=> i = current
      /\ \A i \in 1 .. n \ {current} : threads[i].rsp.of = threads[i].id /\ threads[i].rsp.at # "null"
  BY Zenon, <1>2 DEF ThreadsInv, UniqueIds, Registered, TableMatchesCpu
<1>9. TableMatchesCpu'
  <2>1. current' \in DOMAIN threads' /\ threads'[current'].id = cpu'
    BY Zenon, <1>1, <1>2, <1>5, <1>6, <1>8
  <2>2. \A i \in 1 .. n + 1 : threads'[i].state = "Running" <=> i = current
    BY ZenonT(30), <1>2, <1>4, <1>5, <1>6, <1>8
  <2>3. \A i \in (1 .. n + 1) \ {current} :
          threads'[i].rsp.of = threads'[i].id /\ threads'[i].rsp.at # "null"
    BY ZenonT(30), <1>4, <1>5, <1>6, <1>8
  <2>. QED
    BY Zenon, <1>1, <1>5, <2>1, <2>2, <2>3 DEF TableMatchesCpu
<1>10. UniqueIds'
  <2>1. \A i \in 1 .. n : threads[i].id # next_id /\ threads[i].id < next_id + 1
    <3>1. \A i \in 1 .. n : threads[i].id \in Int
      <4>1. \A i \in 1 .. n : threads[i] \in Thread
        BY Zenon, <1>2, TableShape DEF ThreadsInv
      <4>2. \A t \in Thread : t.id \in Int
        <5>1. \A t \in Thread : t.id \in Id
          BY Zenon DEF Thread
        <5>. QED
          BY <5>1, KThreadsAssumption DEF Id, Main
      <4>. QED
        BY Zenon, <4>1, <4>2
    <3>. QED
      BY <1>3, <1>8, <3>1
  <2>2. next_id < next_id + 1
    BY <1>3
  <2>3. \A i, j \in 1 .. n + 1 : threads'[i].id = threads'[j].id => i = j
    BY <1>4, <1>5, <1>6, <1>8, <2>1
  <2>4. \A i \in 1 .. n + 1 : threads'[i].id < next_id + 1
    BY Zenon, <1>4, <1>5, <1>6, <2>1, <2>2
  <2>. QED
    BY Zenon, <1>1, <1>5, <2>3, <2>4 DEF UniqueIds
<1>11. MainLives'
  <2>1. PICK m \in 1 .. n : threads[m].id = Main /\ threads[m].state # "Finished"
    BY Zenon, <1>2 DEF ThreadsInv, MainLives
  <2>. QED
    BY Zenon, <1>5, <1>6, <2>1 DEF MainLives
<1>12. Registered'
  BY <1>1, <1>4, <1>5, <1>6, <1>8 DEF Registered
<1>13. NoPanic'
  BY Zenon, <1>1 DEF ThreadsInv, NoPanic
<1>. QED
  BY Zenon, <1>7, <1>9, <1>10, <1>11, <1>12, <1>13 DEF ThreadsInv
\* reap: the indices move, and with them `current`; what is dropped has finished
\* and does not run, so neither the main thread nor an entry function that some
\* thread still needs is lost.
LEMMA ReapStep ==
  ASSUME ThreadsInv, reap
  PROVE  ThreadsInv'
<1> DEFINE D == DOMAIN threads'
<1>1. PICK e \in [D -> Kept] :
           /\ threads' \in Seq(Thread)
           /\ \A k \in D : threads'[k] = threads[e[k]]
           /\ \A k, l \in D : e[k] = e[l] => k = l
           /\ \A i \in Kept : \E k \in D : e[k] = i
           /\ current' \in D /\ e[current'] = current
  BY Zenon, ReapMoves DEF ThreadsInv
<1>2. /\ entry_points' = entry_points \ {threads[i].id : i \in DOMAIN threads \ Kept}
      /\ next_id' = next_id /\ cpu' = cpu /\ panic' = panic
  BY Zenon DEF reap
<1>3. \A k \in D : e[k] \in Kept /\ e[k] \in DOMAIN threads
  BY Zenon, <1>1 DEF Kept
<1>4. \A k \in D : e[k] = current <=> k = current'
  BY Zenon, <1>1
<1>5. /\ \A i, j \in DOMAIN threads : threads[i].id = threads[j].id => i = j
      /\ \A i \in DOMAIN threads : threads[i].id < next_id
      /\ \A i \in DOMAIN threads : threads[i].rsp.at = "bootstrap" => threads[i].id \in entry_points
      /\ threads[current].id = cpu
      /\ \A i \in DOMAIN threads : threads[i].state = "Running" <=> i = current
      /\ \A i \in DOMAIN threads \ {current} :
           threads[i].rsp.of = threads[i].id /\ threads[i].rsp.at # "null"
  BY Zenon DEF ThreadsInv, UniqueIds, Registered, TableMatchesCpu
<1>6. ThreadsTypeOK'
  <2>1. entry_points' \subseteq Id
    BY Zenon, <1>2 DEF ThreadsInv, ThreadsTypeOK
  <2>. QED
    BY Zenon, <1>1, <1>2, <2>1 DEF ThreadsInv, ThreadsTypeOK
<1>. HIDE DEF D
<1>7. TableMatchesCpu'
  <2>1. threads'[current'].id = cpu'
    BY Zenon, <1>1, <1>2, <1>5
  <2>2. \A k \in D : threads'[k].state = "Running" <=> k = current'
    BY <1>1, <1>3, <1>4, <1>5
  <2>3. \A k \in D \ {current'} :
          threads'[k].rsp.of = threads'[k].id /\ threads'[k].rsp.at # "null"
    BY <1>1, <1>3, <1>4, <1>5
  <2>. QED
    BY Zenon, <1>1, <2>1, <2>2, <2>3 DEF TableMatchesCpu, D
<1>8. UniqueIds'
  <2>1. ASSUME NEW k \in D, NEW l \in D, threads'[k].id = threads'[l].id PROVE k = l
    BY <1>1, <1>3, <1>5, <2>1
  <2>2. \A k \in D : threads'[k].id < next_id
    BY <1>1, <1>3, <1>5
  <2>. QED
    BY Zenon, <1>2, <2>1, <2>2 DEF UniqueIds, D
<1>9. MainLives'
  <2>1. PICK m \in DOMAIN threads : threads[m].id = Main /\ threads[m].state # "Finished"
    BY Zenon DEF ThreadsInv, MainLives
  <2>2. m \in Kept
    BY Zenon, <2>1 DEF Kept
  <2>3. PICK k \in D : e[k] = m
    BY Zenon, <1>1, <2>2
  <2>. QED
    BY ZenonT(90), <1>1, <2>1, <2>3 DEF MainLives, D
<1>10. Registered'
  <2>1. ASSUME NEW k \in D, threads'[k].rsp.at = "bootstrap"
        PROVE  threads'[k].id \in entry_points'
    <3>1. threads'[k] = threads[e[k]] /\ e[k] \in Kept /\ e[k] \in DOMAIN threads
      BY Zenon, <1>1, <1>3
    <3>2. threads[e[k]].id \in entry_points
      BY Zenon, <1>5, <2>1, <3>1
    <3>3. \A i \in DOMAIN threads \ Kept : threads[i].id # threads[e[k]].id
      BY Zenon, <1>5, <3>1
    <3>. QED
      BY Zenon, <1>2, <3>1, <3>2, <3>3
  <2>. QED
    BY Zenon, <2>1 DEF Registered, D
<1>11. NoPanic'
  BY Zenon, <1>2 DEF ThreadsInv, NoPanic
<1>. QED
  BY Zenon, <1>6, <1>7, <1>8, <1>9, <1>10, <1>11 DEF ThreadsInv

-----------------------------------------------------------------------------
(* Theorems *)

\* The invariant of the threads holds when the scheduler starts.
LEMMA InitOK ==
  ASSUME ThreadsInit
  PROVE  ThreadsInv
<1> DEFINE main == [id |-> Main, state |-> "Running", rsp |-> [of |-> Main, at |-> "null"]]
<1>1. /\ threads = << main >> /\ current = 1 /\ entry_points = {} /\ next_id = 1
      /\ cpu = Main /\ panic = "none"
  BY Zenon DEF ThreadsInit
<1>2. /\ main \in Thread /\ main.id = Main /\ main.state = "Running"
      /\ main.rsp.of = Main /\ main.rsp.at = "null"
  BY KThreadsAssumption DEF Thread, Rsp, Id, Main
<1>3. Main \in Id /\ 1 \in 1 .. MaxThread + 1 /\ Main < 1
  BY KThreadsAssumption DEF Id, Main
<1>. HIDE DEF main
<1>4. threads \in Seq(Thread) /\ DOMAIN threads = {1} /\ threads[1] = main
  BY <1>1, <1>2
<1>5. ThreadsTypeOK
  BY Zenon, <1>1, <1>3, <1>4 DEF ThreadsTypeOK
<1>6. TableMatchesCpu
  BY Zenon, <1>1, <1>2, <1>4 DEF TableMatchesCpu
<1>7. UniqueIds
  BY Zenon, <1>1, <1>2, <1>3, <1>4 DEF UniqueIds
<1>8. MainLives /\ Registered
  <2>1. "Running" # "Finished" /\ "null" # "bootstrap"
    OBVIOUS
  <2>. QED
    BY Zenon, <1>1, <1>2, <1>4, <2>1 DEF MainLives, Registered
<1>. QED
  BY Zenon, <1>1, <1>5, <1>6, <1>7, <1>8 DEF ThreadsInv, NoPanic

\* The invariant holds in every state of every behaviour of the scheduler.
THEOREM ThreadsInvariance == ThreadsSpec => []ThreadsInv
<1>1. ThreadsInit => ThreadsInv
  BY InitOK
<1>2. ThreadsInv /\ [ThreadsNext]_thread_vars => ThreadsInv'
  <2> SUFFICES ASSUME ThreadsInv, [ThreadsNext]_thread_vars PROVE ThreadsInv'
    OBVIOUS
  <2>1. CASE yield_now
    BY Zenon, <2>1, YieldStep
  <2>2. CASE exit
    BY Zenon, <2>2, ExitStep
  <2>3. CASE spawn
    BY Zenon, <2>3, SpawnStep
  <2>4. CASE reap
    BY Zenon, <2>4, ReapStep
  <2>5. CASE UNCHANGED thread_vars
    BY Zenon, <2>5 DEF thread_vars, ThreadsInv, ThreadsTypeOK, TableMatchesCpu, NoPanic, UniqueIds, MainLives, Registered
  <2>. QED
    BY Zenon, <2>1, <2>2, <2>3, <2>4, <2>5 DEF ThreadsNext
<1>. QED
  BY <1>1, <1>2, PTL DEF ThreadsSpec

\* Every variable of the scheduler keeps its type, and `current` stays an index
\* of the vector whatever reap removes.
THEOREM ThreadsTypeCorrectness == ThreadsSpec => []ThreadsTypeOK
<1>1. ThreadsInv => ThreadsTypeOK
  BY DEF ThreadsInv
<1>. QED
  BY <1>1, ThreadsInvariance, PTL

\* The scheduler's table tells the truth about the processor: the thread at
\* `current`, and it alone, is Running and is the one that runs; every other
\* thread will resume on its own stack.
THEOREM TableAgrees == ThreadsSpec => []TableMatchesCpu
<1>1. ThreadsInv => TableMatchesCpu
  BY DEF ThreadsInv
<1>. QED
  BY <1>1, ThreadsInvariance, PTL

\* thread_bootstrap always finds its entry function and exit never returns from
\* its last yield.
THEOREM NeverPanics == ThreadsSpec => []NoPanic
<1>1. ThreadsInv => NoPanic
  BY DEF ThreadsInv
<1>. QED
  BY <1>1, ThreadsInvariance, PTL

-----------------------------------------------------------------------------
(***************************************************************************)
(* The executor, the timers and the keyboard stream                        *)
(***************************************************************************)

Entry == [task : Task, live : BOOLEAN]
Ready == [queue : Seq(Task), queued : SUBSET Task]

\* No element comes twice.
Once(q) == \A i, j \in DOMAIN q : q[i] = q[j] => i = j

\* The queue has a place for every task.
Room == IsFiniteSet(Task) /\ Cardinality(Task) <= Capacity

-----------------------------------------------------------------------------
(* Sequences *)

\* The elements of a sequence are of its type.
LEMMA ElementsOfSeq ==
  ASSUME NEW T, NEW q \in Seq(T)
  PROVE  Range(q) \subseteq T
<1>1. \A i \in DOMAIN q : q[i] \in T
  OBVIOUS
<1>. QED
  BY Zenon, <1>1 DEF Range

\* What Append adds.
LEMMA AppendFacts ==
  ASSUME NEW T, NEW q \in Seq(T), NEW t \in T
  PROVE  /\ Append(q, t) \in Seq(T) /\ Range(Append(q, t)) = Range(q) \cup {t}
         /\ Once(q) /\ t \notin Range(q) => Once(Append(q, t))
<1> DEFINE n == Len(q)
           a == Append(q, t)
<1>1. /\ n \in Nat /\ DOMAIN q = 1 .. n /\ a \in Seq(T) /\ DOMAIN a = 1 .. n + 1
      /\ \A i \in 1 .. n : a[i] = q[i]
      /\ a[n + 1] = t
  OBVIOUS
<1>2. 1 .. n + 1 = 1 .. n \cup {n + 1} /\ n + 1 \notin 1 .. n
  BY <1>1
<1>. HIDE DEF n, a
<1>3. Range(a) = Range(q) \cup {t}
  <2>1. \A x \in Range(a) : x \in Range(q) \cup {t}
    BY Zenon, <1>1, <1>2 DEF Range
  <2>2. \A x \in Range(q) \cup {t} : x \in Range(a)
    BY Zenon, <1>1, <1>2 DEF Range
  <2>. QED
    BY Zenon, <2>1, <2>2
<1>4. ASSUME Once(q), t \notin Range(q) PROVE Once(a)
  <2>1. \A i \in 1 .. n : a[i] # t
    BY Zenon, <1>1, <1>4 DEF Range
  <2>2. \A i, j \in 1 .. n : a[i] = a[j] => i = j
    BY <1>1, <1>4 DEF Once
  <2>3. \A i, j \in 1 .. n + 1 : a[i] = a[j] => i = j
    BY Zenon, <1>1, <1>2, <2>1, <2>2
  <2>. QED
    BY Zenon, <1>1, <2>3 DEF Once
<1>. QED
  BY Zenon, <1>1, <1>3, <1>4 DEF a

\* What Head and Tail take off.
LEMMA TailFacts ==
  ASSUME NEW T, NEW q \in Seq(T), q # << >>
  PROVE  /\ Head(q) \in Range(q) /\ Head(q) \in T /\ Tail(q) \in Seq(T)
         /\ Range(q) = Range(Tail(q)) \cup {Head(q)}
         /\ Once(q) => Once(Tail(q)) /\ Head(q) \notin Range(Tail(q))
<1> DEFINE n == Len(q)
           r == Tail(q)
           h == Head(q)
<1>1. /\ n \in Nat /\ n > 0 /\ DOMAIN q = 1 .. n /\ r \in Seq(T) /\ DOMAIN r = 1 .. n - 1
      /\ \A i \in 1 .. n - 1 : r[i] = q[i + 1]
      /\ h = q[1] /\ h \in T
  OBVIOUS
<1>. HIDE DEF n, r, h
<1>2. /\ 1 \in 1 .. n /\ \A i \in 1 .. n - 1 : i + 1 \in 1 .. n /\ i + 1 # 1
      /\ \A i \in 1 .. n : i = 1 \/ (i - 1 \in 1 .. n - 1 /\ (i - 1) + 1 = i)
      /\ \A i, j \in 1 .. n - 1 : i + 1 = j + 1 => i = j
  BY <1>1
<1>3. h \in Range(q)
  BY Zenon, <1>1, <1>2 DEF Range
<1>4. \A x \in Range(r) : x \in Range(q)
  <2>1. \A i \in 1 .. n - 1 : r[i] \in Range(q)
    <3>1. \A i \in 1 .. n : q[i] \in Range(q)
      BY Zenon, <1>1 DEF Range
    <3>. QED
      BY <1>1, <1>2, <3>1
  <2>. QED
    BY Zenon, <1>1, <2>1 DEF Range
<1>5. \A x \in Range(q) : x \in Range(r) \cup {h}
  <2>1. ASSUME NEW i \in 1 .. n PROVE q[i] \in Range(r) \cup {h}
    <3>1. CASE i = 1
      BY Zenon, <1>1, <3>1
    <3>2. CASE i - 1 \in 1 .. n - 1 /\ (i - 1) + 1 = i
      <4>1. r[i - 1] = q[i]
        BY Zenon, <1>1, <3>2
      <4>. QED
        BY Zenon, <1>1, <3>2, <4>1 DEF Range
    <3>. QED
      BY Zenon, <1>2, <3>1, <3>2
  <2>. QED
    BY ZenonT(30), <1>1, <2>1 DEF Range
<1>6. ASSUME Once(q) PROVE Once(r) /\ h \notin Range(r)
  <2>1. \A i, j \in 1 .. n : q[i] = q[j] => i = j
    BY Zenon, <1>1, <1>6 DEF Once
  <2>2. ASSUME NEW i \in 1 .. n - 1, NEW j \in 1 .. n - 1, r[i] = r[j] PROVE i = j
    <3>1. q[i + 1] = q[j + 1]
      BY Zenon, <1>1, <2>2
    <3>. QED
      BY Zenon, <1>2, <2>1, <3>1
  <2>3. \A i \in 1 .. n - 1 : r[i] # h
    BY ZenonT(30), <1>1, <1>2, <2>1
  <2>. QED
    BY Zenon, <1>1, <2>2, <2>3 DEF Once, Range
<1>. QED
  BY Zenon, <1>1, <1>3, <1>4, <1>5, <1>6 DEF h, r

\* A queue in which nothing comes twice is as long as the set of what is in it.
LEMMA OnceLength ==
  ASSUME NEW T, NEW q \in Seq(T), Once(q)
  PROVE  IsFiniteSet(Range(q)) /\ Cardinality(Range(q)) = Len(q)
<1>1. Len(q) \in Nat /\ DOMAIN q = 1 .. Len(q) /\ IsFiniteSet(1 .. Len(q))
      /\ Cardinality(1 .. Len(q)) = Len(q)
  <2>1. Len(q) \in Nat /\ DOMAIN q = 1 .. Len(q)
    OBVIOUS
  <2>2. \A n \in Nat : IsFiniteSet(1 .. n) /\ Cardinality(1 .. n) = n
    BY FS_Interval
  <2>. QED
    BY Zenon, <2>1, <2>2
<1>2. q \in Bijection(1 .. Len(q), Range(q))
  <2>1. q \in [1 .. Len(q) -> Range(q)]
    <3>1. q = [i \in 1 .. Len(q) |-> q[i]]
      OBVIOUS
    <3>. QED
      BY Zenon, <1>1, <3>1 DEF Range
  <2>. QED
    BY Zenon, <1>1, <2>1 DEF Bijection, Injection, Surjection, IsInjective, Once, Range
<1>. QED
  BY Zenon, <1>1, <1>2, FS_Bijection DEF ExistsBijection

\* As many different elements of a finite set as it has are all of them.
LEMMA OrderFacts ==
  ASSUME NEW S, IsFiniteSet(S), NEW f \in [1 .. Cardinality(S) -> S], IsInjective(f)
  PROVE  f \in Seq(S) /\ Range(f) = S /\ Once(f)
<1> DEFINE n == Cardinality(S)
<1>1. n \in Nat
  BY Zenon, FS_CardinalityType
<1>2. f \in Injection(1 .. n, S)
  BY Zenon DEF Injection
<1>3. Cardinality(1 .. n) = Cardinality(S)
  BY <1>1, FS_Interval
<1>4. f \in Surjection(1 .. n, S)
  BY Zenon, <1>2, <1>3, FS_Injection
<1>. HIDE DEF n
<1>5. Range(f) = S
  <2>1. DOMAIN f = 1 .. n /\ \A i \in 1 .. n : f[i] \in S
    BY Zenon DEF n
  <2>2. \A x \in S : \E i \in 1 .. n : f[i] = x
    BY Zenon, <1>4 DEF Surjection
  <2>. QED
    BY Zenon, <2>1, <2>2 DEF Range
<1>6. f \in Seq(S)
  BY <1>1 DEF n
<1>7. Once(f)
  BY Zenon DEF Once, IsInjective
<1>. QED
  BY Zenon, <1>5, <1>6, <1>7

-----------------------------------------------------------------------------
(* Waking *)

\* A queue and a set that are in order: what is queued is marked, and no id is
\* queued twice.
Sound(r) == r \in Ready /\ Once(r.queue) /\ Range(r.queue) \subseteq r.queued

\* w is what r becomes when the tasks in S are woken: nobody leaves the queue,
\* nobody else enters it, the marks follow it, and with room for all, each is in.
Wakened(r, w, S) ==
  /\ Sound(w)
  /\ w.queued \ Range(w.queue) = r.queued \ Range(r.queue)
  /\ Range(r.queue) \subseteq Range(w.queue) /\ Range(w.queue) \subseteq Range(r.queue) \cup S
  /\ Room => S \subseteq w.queued

\* queue_task, whether it finds the id queued, the queue full, or neither.
LEMMA QueueTask ==
  ASSUME NEW r, Sound(r), NEW t \in Task
  PROVE  Wakened(r, queue_task(r, t), {t})
<1>1. /\ r \in Ready /\ r.queue \in Seq(Task) /\ r.queued \in SUBSET Task
      /\ Once(r.queue) /\ Range(r.queue) \subseteq r.queued
  BY DEF Sound, Ready
<1>2. CASE t \in r.queued
  <2>1. queue_task(r, t) = r
    BY Zenon, <1>2 DEF queue_task, AlreadyQueued
  <2>. QED
    BY Zenon, <1>2, <2>1 DEF Wakened
<1>3. CASE t \notin r.queued /\ Len(r.queue) >= Capacity
  <2>1. queue_task(r, t) = r
    BY Zenon, <1>3 DEF queue_task, AlreadyQueued
  <2>2. ASSUME Room PROVE FALSE
    <3>1. IsFiniteSet(Range(r.queue)) /\ Cardinality(Range(r.queue)) = Len(r.queue)
      BY Zenon, <1>1, OnceLength
    <3>2. t \notin Range(r.queue) /\ Range(r.queue) \cup {t} \in SUBSET Task
      BY Zenon, <1>1, <1>3
    <3>3. Cardinality(Range(r.queue) \cup {t}) = Len(r.queue) + 1
      BY <3>1, <3>2, FS_AddElement
    <3>4. Cardinality(Range(r.queue) \cup {t}) <= Cardinality(Task)
      BY Zenon, <2>2, <3>2, FS_Subset DEF Room
    <3>5. Cardinality(Task) \in Nat /\ Cardinality(Task) <= Capacity
      BY Zenon, <2>2, FS_CardinalityType DEF Room
    <3>6. Len(r.queue) \in Nat
      BY <1>1
    <3>. QED
      BY <1>3, <3>3, <3>4, <3>5, <3>6, ExecutorAssumption
  <2>. QED
    BY Zenon, <2>1, <2>2 DEF Wakened
<1>4. CASE t \notin r.queued /\ ~(Len(r.queue) >= Capacity)
  <2> DEFINE q == Append(r.queue, t)
             w == [queue |-> q, queued |-> r.queued \cup {t}]
  <2>1. queue_task(r, t) = w
    BY Zenon, <1>4 DEF queue_task, AlreadyQueued
  <2>2. q \in Seq(Task) /\ Range(q) = Range(r.queue) \cup {t} /\ Once(q)
    BY ZenonT(30), <1>1, <1>4, AppendFacts
  <2>. HIDE DEF q
  <2>3. w \in Ready /\ w.queue = q /\ w.queued = r.queued \cup {t}
    BY <1>1, <2>2 DEF Ready
  <2>. HIDE DEF w
  <2>4. w.queued \ Range(w.queue) = r.queued \ Range(r.queue)
    BY Zenon, <1>4, <2>2, <2>3
  <2>5. Sound(w)
    BY Zenon, <1>1, <2>2, <2>3 DEF Sound
  <2>. QED
    BY Zenon, <2>1, <2>2, <2>3, <2>4, <2>5 DEF Wakened
<1>. QED
  BY Zenon, <1>2, <1>3, <1>4

\* Waking some tasks and then others wakes them all.
LEMMA WakenedTwice ==
  ASSUME NEW r, NEW w, NEW v, NEW S, NEW T, Wakened(r, w, S), Wakened(w, v, T)
  PROVE  Wakened(r, v, S \cup T)
<1>1. /\ w.queued \ Range(w.queue) = r.queued \ Range(r.queue)
      /\ v.queued \ Range(v.queue) = w.queued \ Range(w.queue)
      /\ Range(r.queue) \subseteq Range(w.queue) /\ Range(w.queue) \subseteq Range(r.queue) \cup S
      /\ Range(w.queue) \subseteq Range(v.queue) /\ Range(v.queue) \subseteq Range(w.queue) \cup T
      /\ Range(w.queue) \subseteq w.queued /\ Range(v.queue) \subseteq v.queued
      /\ Sound(v)
  BY Zenon DEF Wakened, Sound
<1>2. w.queued \subseteq v.queued
  BY Zenon, <1>1
<1>3. Room => S \cup T \subseteq v.queued
  BY Zenon, <1>2 DEF Wakened
<1>4. Range(v.queue) \subseteq Range(r.queue) \cup (S \cup T)
  BY Zenon, <1>1
<1>. QED
  BY Zenon, <1>1, <1>3, <1>4 DEF Wakened

\* f folds queue_task over the first n tasks of ts, from r.
IsFold(f, r, ts, n) ==
  f = [k \in 0 .. n |-> IF k = 0 THEN r ELSE queue_task(f[k - 1], ts[k])]

\* The fold over the tasks to wake is well defined.
LEMMA FoldExists ==
  ASSUME NEW r, NEW ts, NEW n \in Nat
  PROVE  \E f : IsFold(f, r, ts, n)
<1> DEFINE Fold(f, m) == IsFold(f, r, ts, m)
           bad == {m \in Nat : \A f : ~Fold(f, m)}
<1>1. SUFFICES ASSUME n \in bad PROVE FALSE
  <2>1. n \notin bad => \E f : Fold(f, n)
    BY Zenon
  <2>. QED
    BY Zenon, <2>1
<1>2. PICK m \in bad : \A k \in bad : m <= k
  <2>. HIDE DEF bad
  <2>1. bad \in SUBSET Nat
    BY Zenon DEF bad
  <2>. QED
    BY Zenon, <1>1, <2>1, LeastNat
<1>3. m # 0
  <2>1. Fold([k \in 0 .. 0 |-> r], 0)
    BY DEF IsFold
  <2>. QED
    BY Zenon, <2>1
<1>4. m \in Nat /\ m - 1 \in Nat /\ m - 1 \notin bad
  BY <1>2, <1>3
<1>5. PICK g : Fold(g, m - 1)
  BY Zenon, <1>4
<1> DEFINE h == [k \in 0 .. m |-> IF k = m THEN queue_task(g[m - 1], ts[m]) ELSE g[k]]
<1>6. Fold(h, m)
  <2>1. ASSUME NEW k \in 0 .. m
        PROVE  h[k] = IF k = 0 THEN r ELSE queue_task(h[k - 1], ts[k])
    <3>1. CASE k = m
      <4>1. m - 1 \in 0 .. m /\ m - 1 # m /\ m \in 0 .. m
        BY <1>3, <1>4
      <4>2. h[m - 1] = g[m - 1] /\ h[m] = queue_task(g[m - 1], ts[m])
        BY Zenon, <4>1
      <4>. QED
        BY Zenon, <1>3, <3>1, <4>2
    <3>2. CASE k # m
      <4>1. k \in 0 .. m - 1 /\ (k # 0 => k - 1 \in 0 .. m /\ k - 1 # m)
        BY <1>4, <3>2
      <4>2. h[k] = g[k] /\ (k # 0 => h[k - 1] = g[k - 1])
        BY Zenon, <3>2, <4>1
      <4>3. g[k] = IF k = 0 THEN r ELSE queue_task(g[k - 1], ts[k])
        BY Zenon, <1>5, <4>1 DEF IsFold
      <4>. QED
        BY Zenon, <4>2, <4>3
    <3>. QED
      BY Zenon, <3>1, <3>2
  <2>. QED
    BY Zenon, <2>1 DEF IsFold
<1>. QED
  BY Zenon, <1>4, <1>6

\* Waking the tasks of a sequence one after the other wakes them all.
LEMMA WokenFacts ==
  ASSUME NEW r, Sound(r), NEW ts \in Seq(Task)
  PROVE  Wakened(r, Woken(r, ts), Range(ts))
<1> DEFINE n == Len(ts)
           f == CHOOSE g : IsFold(g, r, ts, n)
           Upto(m) == {ts[k] : k \in 1 .. m}
           bad == {m \in 0 .. n : ~Wakened(r, f[m], Upto(m))}
<1>1. n \in Nat /\ DOMAIN ts = 1 .. n /\ \A k \in 1 .. n : ts[k] \in Task
  OBVIOUS
<1>2. IsFold(f, r, ts, n)
  BY Zenon, <1>1, FoldExists
<1>3. Woken(r, ts) = f[n]
  BY Zenon DEF Woken, IsFold
<1>. HIDE DEF f, n
<1>4. \A k \in 0 .. n : f[k] = IF k = 0 THEN r ELSE queue_task(f[k - 1], ts[k])
  BY Zenon, <1>2 DEF IsFold
<1>5. SUFFICES ASSUME n \in bad PROVE FALSE
  <2>1. n \in 0 .. n
    BY <1>1
  <2>2. Range(ts) = Upto(n)
    BY Zenon, <1>1 DEF Range
  <2>. QED
    BY Zenon, <1>3, <2>1, <2>2
<1>6. PICK m \in bad : \A k \in bad : m <= k
  <2>1. bad \in SUBSET Nat
    BY <1>1
  <2>. HIDE DEF bad
  <2>. QED
    BY Zenon, <1>5, <2>1, LeastNat
<1>7. m # 0
  <2>1. 0 \in 0 .. n /\ Upto(0) = {}
    BY <1>1
  <2>2. f[0] = r
    BY Zenon, <1>4, <2>1
  <2>3. Wakened(r, r, {})
    BY Zenon DEF Wakened
  <2>. QED
    BY Zenon, <1>6, <2>1, <2>2, <2>3
<1>8. m \in 1 .. n /\ m - 1 \in 0 .. n /\ m - 1 \notin bad /\ m \in 0 .. n
  <2>1. m \in 0 .. n
    BY Zenon, <1>6
  <2>. HIDE DEF bad
  <2>. QED
    BY <1>1, <1>6, <1>7, <2>1
<1>9. Wakened(r, f[m - 1], Upto(m - 1))
  BY Zenon, <1>8
<1>10. f[m] = queue_task(f[m - 1], ts[m])
  BY Zenon, <1>4, <1>7, <1>8
<1>11. Wakened(f[m - 1], f[m], {ts[m]})
  <2>1. Sound(f[m - 1]) /\ ts[m] \in Task
    BY Zenon, <1>1, <1>8, <1>9 DEF Wakened
  <2>. QED
    BY Zenon, <1>10, <2>1, QueueTask
<1>12. Upto(m) = Upto(m - 1) \cup {ts[m]}
  <2>1. 1 .. m = 1 .. m - 1 \cup {m}
    BY <1>8, <1>1
  <2>. QED
    BY Zenon, <2>1
<1>13. Wakened(r, f[m], Upto(m))
  <2>. HIDE DEF Upto
  <2>1. Wakened(r, f[m], Upto(m - 1) \cup {ts[m]})
    BY <1>9, <1>11, WakenedTwice
  <2>. QED
    BY Zenon, <1>12, <2>1
<1>. QED
  BY Zenon, <1>6, <1>13

\* The same, of the variables.
LEMMA WakeAllFacts ==
  ASSUME task_queue \in Seq(Task), queued_tasks \in SUBSET Task, Once(task_queue),
         Range(task_queue) \subseteq queued_tasks,
         NEW ts \in Seq(Task), WakeAll(ts)
  PROVE  /\ task_queue' \in Seq(Task) /\ queued_tasks' \in SUBSET Task /\ Once(task_queue')
         /\ Range(task_queue') \subseteq queued_tasks'
         /\ queued_tasks' \ Range(task_queue') = queued_tasks \ Range(task_queue)
         /\ Range(task_queue) \subseteq Range(task_queue')
         /\ Range(task_queue') \subseteq Range(task_queue) \cup Range(ts)
         /\ Room => Range(ts) \subseteq queued_tasks'
<1> DEFINE r == [queue |-> task_queue, queued |-> queued_tasks]
           w == Woken(r, ts)
<1>1. r.queue = task_queue /\ r.queued = queued_tasks /\ r \in Ready
  BY DEF Ready
<1>2. Sound(r)
  BY Zenon, <1>1 DEF Sound
<1>3. task_queue' = w.queue /\ queued_tasks' = w.queued
  BY Zenon DEF WakeAll
<1>. HIDE DEF r
<1>4. Wakened(r, w, Range(ts))
  BY Zenon, <1>2, WokenFacts
<1>. HIDE DEF w
<1>5. w.queue \in Seq(Task) /\ w.queued \in SUBSET Task /\ Once(w.queue)
      /\ Range(w.queue) \subseteq w.queued
  BY Zenon, <1>4 DEF Wakened, Sound, Ready
<1>. QED
  BY Zenon, <1>1, <1>3, <1>4, <1>5 DEF Wakened

-----------------------------------------------------------------------------
(* The invariant *)

Places == {"drain", "admit", "pop", "popped", "unmark", "poll", "enlist", "locked",
           "no key", "recheck", "idle", "hlt", "ring 3", "hung"}

LoopOK ==
  /\ pc \in Places /\ cur \in Task /\ tasks \subseteq Task
  /\ SPAWN_QUEUE \in Seq(Task) /\ Range(SPAWN_QUEUE) \subseteq Task \ tasks /\ Once(SPAWN_QUEUE)

ReadyOK == task_queue \in Seq(Task) /\ queued_tasks \in SUBSET Task /\ Once(task_queue)

SleepsOK ==
  /\ doing \in [Task -> {"start", "sleep", "keys"}] /\ left \in [Task -> 0 .. MaxDelay]
  /\ entry \in [Task -> BOOLEAN] /\ TIMERS \in Seq(Entry)

KeysOK == scancodes \in 0 .. KeyRoom /\ WAKER \subseteq {Reader} /\ unstruck \in 0 .. MaxKeys

IrqsOK == ints \in BOOLEAN /\ in_service \in BOOLEAN

\* The marks are the queue, but for the id the loop has just taken off it.
Marked ==
  /\ Range(task_queue) \subseteq queued_tasks
  /\ queued_tasks \ Range(task_queue) \subseteq {cur}
  /\ pc \in {"popped", "unmark"} => cur \in queued_tasks \ Range(task_queue)
  /\ pc \notin {"popped", "unmark", "hung"} => queued_tasks \subseteq Range(task_queue)

\* Only the shell reads keys, and what the loop is at fits what its task awaits.
Awaits ==
  /\ \A t \in Task : doing[t] = "keys" => t = Reader
  /\ pc \in {"no key", "recheck", "ring 3"} => doing[cur] = "keys"
  /\ pc \in {"enlist", "locked"} => doing[cur] = "sleep"

\* What holds however small the queue is.
Books == LoopOK /\ ReadyOK /\ SleepsOK /\ KeysOK /\ IrqsOK /\ Marked /\ Awaits

HasEntry(t) == [task |-> t, live |-> TRUE] \in Range(TIMERS)

\* A task that is put aside will be woken.
Safe(t) == \/ doing[t] = "sleep" /\ HasEntry(t)
           \/ doing[t] = "keys" /\ scancodes = 0 /\ WAKER = {t}

\* A Sleep that was polled and has time to go is in the list.
LiveEntries == \A t \in Task : doing[t] = "sleep" /\ entry[t] /\ left[t] > 0 => HasEntry(t)

\* A Sleep polled again is still in the list, or its tick has come meanwhile.
PolledAgain ==
  pc \in {"enlist", "locked"} /\ entry[cur] => HasEntry(cur) \/ cur \in Range(task_queue)

\* The registration with the keyboard stands, or a key is there.
Registration == pc = "recheck" => scancodes > 0 \/ WAKER = {cur}

NoneLost == \A t \in Task : Suspended(t) => Safe(t)

HaltsIdle == pc = "hlt" => task_queue = << >> /\ SPAWN_QUEUE = << >>

\* What holds when the queue has a place for every task.
Wakes == pc # "hung" => LiveEntries /\ PolledAgain /\ Registration /\ NoneLost /\ HaltsIdle

\* The invariant gives the properties.
LEMMA BooksProperties ==
  ASSUME Books
  PROVE  TypeOK /\ QueueIsExact /\ (Wakes => NoLostWakeup)
<1>1. TypeOK
  <2>1. Range(task_queue) \subseteq Task
    BY Zenon, ElementsOfSeq DEF Books, ReadyOK
  <2>2. Range(TIMERS) \subseteq Entry
    BY Zenon, ElementsOfSeq DEF Books, SleepsOK
  <2>. QED
    BY Zenon, <2>1, <2>2 DEF Books, LoopOK, ReadyOK, SleepsOK, KeysOK, IrqsOK, TypeOK, Places, Entry
<1>2. QueueIsExact
  <2>1. Cardinality(Range(task_queue)) = Len(task_queue)
    BY Zenon, OnceLength DEF Books, ReadyOK
  <2>. QED
    BY Zenon, <2>1 DEF Books, Marked, QueueIsExact
<1>3. Wakes => NoLostWakeup
  BY Zenon DEF Wakes, NoneLost, HaltsIdle, NoLostWakeup, Safe, HasEntry
<1>. QED
  BY Zenon, <1>1, <1>2, <1>3

-----------------------------------------------------------------------------
(* The steps of the loop *)

\* The steps that only move the loop from one place to the next.
Moves ==
  \/ pc = "popped" /\ pc' = "unmark"
  \/ pc \in {"poll", "ring 3"} /\ pc' = "hung"
  \/ pc = "poll" /\ pc' = "enlist" /\ doing[cur] = "sleep" /\ left[cur] > 0
  \/ pc = "enlist" /\ pc' = "locked"
  \/ pc = "pop" /\ pc' = "idle"
  \/ pc = "idle" /\ pc' = "drain"
  \/ pc = "idle" /\ pc' = "hlt" /\ task_queue = << >> /\ SPAWN_QUEUE = << >>
  \/ pc = "poll" /\ pc' = "no key" /\ doing[cur] = "keys"
  \/ pc = "ring 3" /\ pc' = "poll"

\* None of them loses anything.
LEMMA MovesStep ==
  ASSUME Books, Moves, UNCHANGED <<cur, tasks, SPAWN_QUEUE, ready, sleeps, keys>>, IrqsOK'
  PROVE  Books' /\ (Wakes => Wakes')
<1>1. /\ cur' = cur /\ tasks' = tasks /\ SPAWN_QUEUE' = SPAWN_QUEUE
      /\ task_queue' = task_queue /\ queued_tasks' = queued_tasks
      /\ doing' = doing /\ left' = left /\ entry' = entry /\ TIMERS' = TIMERS
      /\ scancodes' = scancodes /\ WAKER' = WAKER /\ unstruck' = unstruck
  BY Zenon DEF ready, sleeps, keys
<1>2. LoopOK'
  <2>1. pc' \in Places
    BY DEF Moves, Places
  <2>. QED
    BY Zenon, <1>1, <2>1 DEF Books, LoopOK
<1>3. ReadyOK' /\ SleepsOK' /\ KeysOK'
  BY Zenon, <1>1 DEF Books, ReadyOK, SleepsOK, KeysOK
<1>4. Marked'
  <2>1. /\ pc' \in {"popped", "unmark"} => pc \in {"popped", "unmark"}
        /\ pc' \notin {"popped", "unmark", "hung"} => pc \notin {"popped", "unmark", "hung"}
    BY DEF Moves
  <2>. QED
    BY Zenon, <1>1, <2>1 DEF Books, Marked
<1>5. Awaits'
  <2>1. /\ pc' \in {"no key", "recheck", "ring 3"} => doing[cur] = "keys"
        /\ pc' \in {"enlist", "locked"} => pc = "enlist" \/ doing[cur] = "sleep"
    BY DEF Moves
  <2>. QED
    BY Zenon, <1>1, <2>1 DEF Books, Awaits
<1>6. ASSUME Wakes PROVE Wakes'
  <2>1. SUFFICES ASSUME pc' # "hung"
                 PROVE  LiveEntries' /\ PolledAgain' /\ Registration' /\ NoneLost' /\ HaltsIdle'
    BY Zenon DEF Wakes
  <2>2. pc # "hung"
    BY DEF Moves
  <2>3. LiveEntries' /\ (\A t : HasEntry(t)' = HasEntry(t)) /\ (\A t : Safe(t)' = Safe(t))
    BY Zenon, <1>1, <1>6, <2>2 DEF Wakes, LiveEntries, HasEntry, Safe
  <2>4. PolledAgain'
    <3>1. pc' \in {"enlist", "locked"} => pc = "enlist" \/ (doing[cur] = "sleep" /\ left[cur] > 0)
      BY DEF Moves
    <3>2. cur \in Task
      BY Zenon DEF Books, LoopOK
    <3>. QED
      BY ZenonT(30), <1>1, <1>6, <2>2, <2>3, <3>1, <3>2 DEF Wakes, PolledAgain, LiveEntries
  <2>5. Registration'
    BY DEF Moves, Registration
  <2>6. NoneLost'
    <3>1. pc' \in {"drain", "pop", "idle", "hlt"} => pc \in {"drain", "pop", "idle", "hlt"}
      BY DEF Moves
    <3>. QED
      BY Zenon, <1>1, <1>6, <2>2, <2>3, <3>1 DEF Wakes, NoneLost, Suspended
  <2>7. HaltsIdle'
    <3>1. pc' = "hlt" => task_queue = << >> /\ SPAWN_QUEUE = << >>
      BY DEF Moves
    <3>. QED
      BY Zenon, <1>1, <3>1 DEF HaltsIdle
  <2>. QED
    BY Zenon, <2>3, <2>4, <2>5, <2>6, <2>7
<1>. QED
  BY Zenon, <1>2, <1>3, <1>4, <1>5, <1>6 DEF Books

\* drain_spawn_queue takes in a task that is neither known nor waiting again.
LEMMA DrainStep ==
  ASSUME Books, drain_spawn_queue
  PROVE  Books' /\ (Wakes => Wakes')
<1>1. /\ pc = "drain" /\ task_queue' = task_queue /\ queued_tasks' = queued_tasks
      /\ doing' = doing /\ left' = left /\ entry' = entry /\ TIMERS' = TIMERS
      /\ scancodes' = scancodes /\ WAKER' = WAKER /\ unstruck' = unstruck
      /\ ints' = ints /\ in_service' = in_service
      /\ IF SPAWN_QUEUE = << >>
         THEN pc' = "pop" /\ cur' = cur /\ tasks' = tasks /\ SPAWN_QUEUE' = SPAWN_QUEUE
         ELSE /\ pc' = "admit" /\ cur' = Head(SPAWN_QUEUE)
              /\ tasks' = tasks \cup {cur'} /\ SPAWN_QUEUE' = Tail(SPAWN_QUEUE)
  BY Zenon DEF drain_spawn_queue, ready, sleeps, keys, irqs
<1>2. pc' \in {"pop", "admit"} /\ pc' \in Places
  BY <1>1 DEF Places
<1>3. /\ LoopOK'
      /\ tasks' = tasks \/ (tasks' = tasks \cup {cur'} /\ pc' = "admit")
  <2>0. /\ SPAWN_QUEUE \in Seq(Task) /\ Range(SPAWN_QUEUE) \subseteq Task \ tasks /\ Once(SPAWN_QUEUE)
        /\ cur \in Task /\ tasks \subseteq Task
    BY Zenon DEF Books, LoopOK
  <2>1. CASE SPAWN_QUEUE = << >>
    <3>1. cur' = cur /\ tasks' = tasks /\ SPAWN_QUEUE' = SPAWN_QUEUE
      BY Zenon, <1>1, <2>1
    <3>. QED
      BY Zenon, <1>2, <2>0, <3>1 DEF LoopOK
  <2>2. CASE SPAWN_QUEUE # << >>
    <3>1. /\ Head(SPAWN_QUEUE) \in Task /\ Tail(SPAWN_QUEUE) \in Seq(Task)
          /\ Range(SPAWN_QUEUE) = Range(Tail(SPAWN_QUEUE)) \cup {Head(SPAWN_QUEUE)}
          /\ Once(Tail(SPAWN_QUEUE)) /\ Head(SPAWN_QUEUE) \notin Range(Tail(SPAWN_QUEUE))
      BY Zenon, <2>0, <2>2, TailFacts
    <3>2. /\ pc' = "admit" /\ cur' = Head(SPAWN_QUEUE)
          /\ tasks' = tasks \cup {cur'} /\ SPAWN_QUEUE' = Tail(SPAWN_QUEUE)
      BY Zenon, <1>1, <2>2
    <3>3. Range(SPAWN_QUEUE') \subseteq Task \ tasks'
      BY Zenon, <2>0, <3>1, <3>2
    <3>. QED
      BY Zenon, <1>2, <2>0, <3>1, <3>2, <3>3 DEF LoopOK
  <2>. QED
    BY Zenon, <2>1, <2>2
<1>4. ReadyOK' /\ SleepsOK' /\ KeysOK' /\ IrqsOK'
  BY Zenon, <1>1 DEF Books, ReadyOK, SleepsOK, KeysOK, IrqsOK
<1>5. Marked'
  <2>1. pc \notin {"popped", "unmark", "hung"} /\ pc' \notin {"popped", "unmark", "hung"}
    BY <1>1, <1>2
  <2>2. queued_tasks = Range(task_queue)
    BY Zenon, <2>1 DEF Books, Marked
  <2>. QED
    BY Zenon, <1>1, <2>1, <2>2 DEF Marked
<1>6. pc' \notin {"no key", "recheck", "ring 3"} /\ pc' \notin {"enlist", "locked"}
      /\ pc' # "recheck" /\ pc' # "hlt" /\ pc # "hung"
  BY <1>1, <1>2
<1>7. Awaits'
  BY Zenon, <1>1, <1>6 DEF Books, Awaits
<1>8. ASSUME Wakes PROVE Wakes'
  <2>1. LiveEntries' /\ (\A t : Safe(t)' = Safe(t))
    BY Zenon, <1>1, <1>6, <1>8 DEF Wakes, LiveEntries, HasEntry, Safe
  <2>2. PolledAgain' /\ Registration' /\ HaltsIdle'
    BY Zenon, <1>6 DEF PolledAgain, Registration, HaltsIdle
  <2>3. NoneLost'
    <3>1. pc \in {"drain", "pop", "idle", "hlt"} /\ "admit" \notin {"drain", "pop", "idle", "hlt"}
      BY <1>1
    <3>2. \A t \in Task : Suspended(t)' => Suspended(t)
      BY Zenon, <1>1, <1>3, <3>1 DEF Suspended
    <3>. QED
      BY Zenon, <1>6, <1>8, <2>1, <3>2 DEF Wakes, NoneLost
  <2>. QED
    BY Zenon, <2>1, <2>2, <2>3 DEF Wakes
<1>. QED
  BY ZenonT(30), <1>3, <1>4, <1>5, <1>7, <1>8 DEF Books

\* admit queues the new task.
LEMMA AdmitStep ==
  ASSUME Books, admit
  PROVE  Books' /\ (Room /\ Wakes => Wakes')
<1>1. /\ pc = "admit" /\ pc' = "drain" /\ WakeAll(<<cur>>)
      /\ cur' = cur /\ tasks' = tasks /\ SPAWN_QUEUE' = SPAWN_QUEUE
      /\ doing' = doing /\ left' = left /\ entry' = entry /\ TIMERS' = TIMERS
      /\ scancodes' = scancodes /\ WAKER' = WAKER /\ unstruck' = unstruck
      /\ ints' = ints /\ in_service' = in_service
  BY Zenon DEF admit, sleeps, keys, irqs
<1>2. <<cur>> \in Seq(Task) /\ Range(<<cur>>) = {cur}
  BY DEF Books, LoopOK, Range
<1>3. /\ task_queue' \in Seq(Task) /\ queued_tasks' \in SUBSET Task /\ Once(task_queue')
      /\ Range(task_queue') \subseteq queued_tasks'
      /\ queued_tasks' \ Range(task_queue') = queued_tasks \ Range(task_queue)
      /\ Range(task_queue) \subseteq Range(task_queue')
      /\ Room => cur \in queued_tasks'
  BY Zenon, <1>1, <1>2, WakeAllFacts DEF Books, ReadyOK, Marked
<1>4. /\ pc' \in Places /\ pc \notin {"popped", "unmark", "hung"}
      /\ pc' \notin {"popped", "unmark"} /\ pc # "hung"
      /\ pc' \notin {"no key", "recheck", "ring 3"} /\ pc' \notin {"enlist", "locked"}
      /\ pc' # "recheck" /\ pc' # "hlt" /\ pc \notin {"drain", "pop", "idle", "hlt"}
  BY <1>1 DEF Places
<1>5. LoopOK' /\ SleepsOK' /\ KeysOK' /\ IrqsOK' /\ ReadyOK'
  BY Zenon, <1>1, <1>3, <1>4 DEF Books, LoopOK, SleepsOK, KeysOK, IrqsOK, ReadyOK
<1>6. Marked' /\ queued_tasks' \subseteq Range(task_queue')
  <2>1. queued_tasks \ Range(task_queue) = {}
    BY Zenon, <1>4 DEF Books, Marked
  <2>. QED
    BY Zenon, <1>3, <1>4, <2>1 DEF Marked
<1>7. Awaits'
  BY Zenon, <1>1, <1>4 DEF Books, Awaits
<1>8. ASSUME Room, Wakes PROVE Wakes'
  <2>1. LiveEntries' /\ (\A t : Safe(t)' = Safe(t))
    BY Zenon, <1>1, <1>4, <1>8 DEF Wakes, LiveEntries, HasEntry, Safe
  <2>2. PolledAgain' /\ Registration' /\ HaltsIdle'
    BY Zenon, <1>4 DEF PolledAgain, Registration, HaltsIdle
  <2>3. NoneLost'
    <3>1. cur \in Range(task_queue')
      BY Zenon, <1>3, <1>6, <1>8
    <3>2. \A t \in Task : Suspended(t)' => Suspended(t)
      BY Zenon, <1>1, <1>3, <3>1 DEF Suspended
    <3>. QED
      BY Zenon, <1>4, <1>8, <2>1, <3>2 DEF Wakes, NoneLost
  <2>. QED
    BY Zenon, <2>1, <2>2, <2>3 DEF Wakes
<1>. QED
  BY Zenon, <1>5, <1>6, <1>7, <1>8 DEF Books

\* pop: the id it takes off the queue is marked until unmark strikes it out.
LEMMA PopStep ==
  ASSUME Books, pop
  PROVE  Books' /\ (Wakes => Wakes')
<1>1. /\ pc = "pop" /\ queued_tasks' = queued_tasks /\ tasks' = tasks /\ SPAWN_QUEUE' = SPAWN_QUEUE
      /\ doing' = doing /\ left' = left /\ entry' = entry /\ TIMERS' = TIMERS
      /\ scancodes' = scancodes /\ WAKER' = WAKER /\ unstruck' = unstruck
      /\ ints' = ints /\ in_service' = in_service
      /\ IF task_queue = << >>
         THEN pc' = "idle" /\ cur' = cur /\ task_queue' = task_queue
         ELSE pc' = "popped" /\ cur' = Head(task_queue) /\ task_queue' = Tail(task_queue)
  BY Zenon DEF pop, sleeps, keys, irqs
<1>2. CASE task_queue = << >>
  <2>1. Moves /\ UNCHANGED <<cur, tasks, SPAWN_QUEUE, ready, sleeps, keys>> /\ IrqsOK'
    BY Zenon, <1>1, <1>2 DEF Moves, ready, sleeps, keys, Books, IrqsOK
  <2>. QED
    BY Zenon, <2>1, MovesStep
<1>3. CASE task_queue # << >>
  <2>1. pc' = "popped" /\ cur' = Head(task_queue) /\ task_queue' = Tail(task_queue)
    BY Zenon, <1>1, <1>3
  <2>2. /\ cur' \in Task /\ task_queue' \in Seq(Task)
        /\ Range(task_queue) = Range(task_queue') \cup {cur'}
        /\ Once(task_queue') /\ cur' \notin Range(task_queue')
    BY Zenon, <1>3, <2>1, TailFacts DEF Books, ReadyOK
  <2>3. /\ pc' \in Places /\ pc \notin {"popped", "unmark", "hung"} /\ pc' \in {"popped", "unmark"}
        /\ pc' \notin {"no key", "recheck", "ring 3"} /\ pc' \notin {"enlist", "locked"}
        /\ pc' # "recheck" /\ pc' # "hlt" /\ pc # "hung"
        /\ pc \in {"drain", "pop", "idle", "hlt"} /\ pc' \notin {"drain", "pop", "idle", "hlt"}
    BY <1>1, <2>1 DEF Places
  <2>4. LoopOK' /\ ReadyOK' /\ SleepsOK' /\ KeysOK' /\ IrqsOK'
    BY Zenon, <1>1, <2>2, <2>3 DEF Books, LoopOK, ReadyOK, SleepsOK, KeysOK, IrqsOK
  <2>5. Marked'
    <3>1. queued_tasks' = Range(task_queue') \cup {cur'}
      BY Zenon, <1>1, <2>2, <2>3 DEF Books, Marked
    <3>. QED
      BY Zenon, <2>2, <2>3, <3>1 DEF Marked
  <2>6. Awaits'
    BY Zenon, <1>1, <2>3 DEF Books, Awaits
  <2>7. ASSUME Wakes PROVE Wakes'
    <3>1. LiveEntries' /\ (\A t : Safe(t)' = Safe(t))
      BY Zenon, <1>1, <2>3, <2>7 DEF Wakes, LiveEntries, HasEntry, Safe
    <3>2. PolledAgain' /\ Registration' /\ HaltsIdle'
      BY Zenon, <2>3 DEF PolledAgain, Registration, HaltsIdle
    <3>3. \A t \in Task : Suspended(t)' => Suspended(t)
      BY Zenon, <1>1, <2>2, <2>3 DEF Suspended
    <3>4. NoneLost'
      BY Zenon, <2>3, <2>7, <3>1, <3>3 DEF Wakes, NoneLost
    <3>. QED
      BY Zenon, <3>1, <3>2, <3>4 DEF Wakes
  <2>. QED
    BY Zenon, <2>4, <2>5, <2>6, <2>7 DEF Books
<1>. QED
  BY Zenon, <1>2, <1>3

\* unmark strikes out the one mark that has no place in the queue.
LEMMA UnmarkStep ==
  ASSUME Books, unmark
  PROVE  Books' /\ (Wakes => Wakes')
<1>1. /\ pc = "unmark" /\ queued_tasks' = queued_tasks \ {cur} /\ task_queue' = task_queue
      /\ cur' = cur /\ tasks' = tasks /\ SPAWN_QUEUE' = SPAWN_QUEUE
      /\ doing' = doing /\ left' = left /\ entry' = entry /\ TIMERS' = TIMERS
      /\ scancodes' = scancodes /\ WAKER' = WAKER /\ unstruck' = unstruck
      /\ ints' = ints /\ in_service' = in_service
      /\ pc' = IF cur \in tasks THEN "poll" ELSE "pop"
  BY Zenon DEF unmark, Unmarked, sleeps, keys, irqs
<1>2. /\ pc' \in Places /\ pc \in {"popped", "unmark"} /\ pc' \notin {"popped", "unmark"}
      /\ pc' \notin {"no key", "recheck", "ring 3"} /\ pc' \notin {"enlist", "locked"}
      /\ pc' # "recheck" /\ pc' # "hlt" /\ pc # "hung"
      /\ pc' \in {"drain", "pop", "idle", "hlt"} => cur \notin tasks
  BY <1>1 DEF Places
<1>3. LoopOK' /\ ReadyOK' /\ SleepsOK' /\ KeysOK' /\ IrqsOK'
  BY Zenon, <1>1, <1>2 DEF Books, LoopOK, ReadyOK, SleepsOK, KeysOK, IrqsOK
<1>4. Marked'
  <2>1. queued_tasks' = Range(task_queue')
    BY Zenon, <1>1, <1>2 DEF Books, Marked
  <2>. QED
    BY Zenon, <1>2, <2>1 DEF Marked
<1>5. Awaits'
  BY Zenon, <1>1, <1>2 DEF Books, Awaits
<1>6. ASSUME Wakes PROVE Wakes'
  <2>1. LiveEntries' /\ (\A t : Safe(t)' = Safe(t))
    BY Zenon, <1>1, <1>2, <1>6 DEF Wakes, LiveEntries, HasEntry, Safe
  <2>2. PolledAgain' /\ Registration' /\ HaltsIdle'
    BY Zenon, <1>2 DEF PolledAgain, Registration, HaltsIdle
  <2>3. \A t \in Task : Suspended(t)' => Suspended(t)
    BY Zenon, <1>1, <1>2 DEF Suspended
  <2>4. NoneLost'
    BY Zenon, <1>2, <1>6, <2>1, <2>3 DEF Wakes, NoneLost
  <2>. QED
    BY Zenon, <2>1, <2>2, <2>4 DEF Wakes
<1>. QED
  BY Zenon, <1>3, <1>4, <1>5, <1>6 DEF Books

\* A poll of cur leaves what is of another task as it is.
Undisturbed(t) ==
  /\ doing'[t] = doing[t] /\ left'[t] = left[t] /\ entry'[t] = entry[t]
  /\ HasEntry(t) => HasEntry(t)'
  /\ t \in tasks' => t \in tasks

\* The part of Wakes that is about the task the loop has in hand.
Own ==
  /\ doing[cur] = "sleep" /\ entry[cur] /\ left[cur] > 0 => HasEntry(cur)
  /\ PolledAgain /\ Registration /\ (Suspended(cur) => Safe(cur)) /\ pc # "hlt"

\* So a poll only has to see to its own task; the keys are the shell's alone.
LEMMA PollStep ==
  ASSUME Books, pc \in {"poll", "enlist", "locked", "no key", "recheck", "ring 3"},
         pc' \notin {"popped", "unmark"}, cur' = cur,
         task_queue' = task_queue, queued_tasks' = queued_tasks,
         LoopOK', SleepsOK', KeysOK', IrqsOK', Awaits',
         \A t \in Task : t # cur => Undisturbed(t),
         doing[cur] = "keys" \/ (scancodes' = scancodes /\ WAKER' = WAKER),
         Wakes /\ pc' # "hung" => Own'
  PROVE  Books' /\ (Wakes => Wakes')
<1>1. /\ pc # "hung" /\ pc \notin {"popped", "unmark", "hung"}
      /\ pc \notin {"drain", "pop", "idle", "hlt"}
  OBVIOUS
<1>2. ReadyOK'
  BY Zenon DEF Books, ReadyOK
<1>3. Marked'
  <2>1. queued_tasks = Range(task_queue)
    BY Zenon, <1>1 DEF Books, Marked
  <2>. QED
    BY Zenon, <2>1 DEF Marked
<1>4. ASSUME Wakes PROVE Wakes'
  <2>1. SUFFICES ASSUME pc' # "hung"
                 PROVE  LiveEntries' /\ PolledAgain' /\ Registration' /\ NoneLost' /\ HaltsIdle'
    BY Zenon DEF Wakes
  <2>2. Own'
    BY Zenon, <1>4, <2>1
  <2>3. LiveEntries'
    <3>1. \A t \in Task : doing[t] = "sleep" /\ entry[t] /\ left[t] > 0 => HasEntry(t)
      BY Zenon, <1>1, <1>4 DEF Wakes, LiveEntries
    <3>. QED
      BY Zenon, <2>2, <3>1 DEF LiveEntries, Own, Undisturbed
  <2>4. ASSUME NEW t \in Task, Suspended(t)', t # cur PROVE Safe(t)'
    <3>1. Undisturbed(t)
      BY Zenon, <2>4
    <3>2. Suspended(t)
      BY Zenon, <2>4, <3>1 DEF Suspended, Undisturbed
    <3>3. Safe(t)
      BY Zenon, <1>1, <1>4, <3>2 DEF Wakes, NoneLost
    <3>4. doing[t] # "keys" \/ (scancodes' = scancodes /\ WAKER' = WAKER)
      BY Zenon, <2>4 DEF Books, LoopOK, Awaits
    <3>. QED
      BY Zenon, <3>1, <3>3, <3>4 DEF Undisturbed, Safe
  <2>5. NoneLost'
    BY Zenon, <2>2, <2>4 DEF NoneLost, Own
  <2>. QED
    BY Zenon, <2>2, <2>3, <2>5 DEF Own, HaltsIdle
<1>. QED
  BY Zenon, <1>2, <1>3, <1>4 DEF Books

\* What sleep_ms makes of its task, and of no other.
LEMMA SleepMsFacts ==
  ASSUME SleepsOK, NEW t \in Task, sleep_ms(t)
  PROVE  /\ doing' \in [Task -> {"start", "sleep", "keys"}] /\ left' \in [Task -> 0 .. MaxDelay]
         /\ entry' \in [Task -> BOOLEAN]
         /\ doing'[t] = "sleep" /\ ~entry'[t]
         /\ \A u \in Task : u # t => /\ doing'[u] = doing[u] /\ left'[u] = left[u]
                                     /\ entry'[u] = entry[u]
<1>1. PICK d \in 1 .. MaxDelay : left' = [left EXCEPT ![t] = d]
  BY Zenon DEF sleep_ms
<1>2. d \in 0 .. MaxDelay
  BY ExecutorAssumption
<1>3. /\ doing' = [doing EXCEPT ![t] = "sleep"] /\ entry' = [entry EXCEPT ![t] = FALSE]
      /\ doing \in [Task -> {"start", "sleep", "keys"}] /\ left \in [Task -> 0 .. MaxDelay]
      /\ entry \in [Task -> BOOLEAN]
  BY Zenon DEF sleep_ms, SleepsOK
<1>4. left' \in [Task -> 0 .. MaxDelay] /\ \A u \in Task : u # t => left'[u] = left[u]
  BY Zenon, <1>1, <1>2, <1>3
<1>5. /\ doing' \in [Task -> {"start", "sleep", "keys"}] /\ doing'[t] = "sleep"
      /\ \A u \in Task : u # t => doing'[u] = doing[u]
  BY Zenon, <1>3
<1>6. /\ entry' \in [Task -> BOOLEAN] /\ ~entry'[t]
      /\ \A u \in Task : u # t => entry'[u] = entry[u]
  BY Zenon, <1>3
<1>. QED
  BY Zenon, <1>4, <1>5, <1>6

\* start: the first sleep of a task.
LEMMA StartStep ==
  ASSUME Books, start
  PROVE  Books' /\ (Wakes => Wakes')
<1>1. /\ pc = "poll" /\ doing[cur] = "start" /\ sleep_ms(cur)
      /\ pc' = pc /\ cur' = cur /\ tasks' = tasks /\ SPAWN_QUEUE' = SPAWN_QUEUE
      /\ task_queue' = task_queue /\ queued_tasks' = queued_tasks /\ TIMERS' = TIMERS
      /\ scancodes' = scancodes /\ WAKER' = WAKER /\ unstruck' = unstruck
      /\ ints' = ints /\ in_service' = in_service
  BY Zenon DEF start, Polls, loop, ready, keys, irqs
<1>2. /\ pc \in {"poll", "enlist", "locked", "no key", "recheck", "ring 3"}
      /\ pc' \notin {"popped", "unmark"} /\ pc' \notin {"no key", "recheck", "ring 3"}
      /\ pc' \notin {"enlist", "locked"} /\ pc' # "recheck" /\ pc' # "hlt"
      /\ pc' \notin {"drain", "pop", "idle", "hlt"} /\ "sleep" # "keys"
  BY <1>1
<1>3. cur \in Task /\ SleepsOK
  BY Zenon DEF Books, LoopOK
<1>4. /\ doing' \in [Task -> {"start", "sleep", "keys"}] /\ left' \in [Task -> 0 .. MaxDelay]
      /\ entry' \in [Task -> BOOLEAN] /\ doing'[cur] = "sleep" /\ ~entry'[cur]
      /\ \A u \in Task : u # cur => /\ doing'[u] = doing[u] /\ left'[u] = left[u]
                                    /\ entry'[u] = entry[u]
  BY Zenon, <1>1, <1>3, SleepMsFacts
<1>5. LoopOK' /\ SleepsOK' /\ KeysOK' /\ IrqsOK'
  BY Zenon, <1>1, <1>4 DEF Books, LoopOK, SleepsOK, KeysOK, IrqsOK
<1>6. Awaits'
  BY Zenon, <1>1, <1>2, <1>4 DEF Books, Awaits
<1>7. \A t \in Task : t # cur => Undisturbed(t)
  BY Zenon, <1>1, <1>4 DEF Undisturbed, HasEntry
<1>8. Own'
  BY Zenon, <1>1, <1>2, <1>4 DEF Own, PolledAgain, Registration, Suspended
<1>. QED
  BY ZenonT(30), <1>1, <1>2, <1>5, <1>6, <1>7, <1>8, PollStep

\* A Sleep that is over leaves only its own entry dead.
LEMMA DroppedEntries ==
  ASSUME Books,
         TIMERS' = [i \in DOMAIN TIMERS |->
                      [TIMERS[i] EXCEPT !.live = @ /\ TIMERS[i].task # cur]]
  PROVE  TIMERS' \in Seq(Entry) /\ \A t \in Task : t # cur /\ HasEntry(t) => HasEntry(t)'
<1>1. TIMERS \in Seq(Entry)
  BY Zenon DEF Books, SleepsOK
<1>2. /\ DOMAIN TIMERS = 1 .. Len(TIMERS) /\ Len(TIMERS) \in Nat
      /\ \A i \in DOMAIN TIMERS : TIMERS[i] \in Entry
  BY <1>1
<1>3. ASSUME NEW i \in DOMAIN TIMERS
      PROVE  [TIMERS[i] EXCEPT !.live = @ /\ TIMERS[i].task # cur]
               = [task |-> TIMERS[i].task, live |-> TIMERS[i].live /\ TIMERS[i].task # cur]
  <2>1. TIMERS[i] \in [task : Task, live : BOOLEAN]
    BY Zenon, <1>2 DEF Entry
  <2>. QED
    BY <2>1
<1>4. \A i \in DOMAIN TIMERS :
        TIMERS'[i] = [task |-> TIMERS[i].task, live |-> TIMERS[i].live /\ TIMERS[i].task # cur]
  BY Zenon, <1>3
<1>5. ASSUME NEW i \in DOMAIN TIMERS PROVE TIMERS'[i] \in Entry
  <2> DEFINE a == TIMERS[i].task
             b == TIMERS[i].live /\ TIMERS[i].task # cur
  <2>1. TIMERS'[i] = [task |-> a, live |-> b]
    BY Zenon, <1>4
  <2>2. a \in Task
    BY <1>2 DEF Entry
  <2>3. b \in BOOLEAN
    BY Zenon
  <2>. HIDE DEF a, b
  <2>. QED
    BY ZenonT(30), <2>1, <2>2, <2>3 DEF Entry
<1>6. TIMERS' \in Seq(Entry)
  <2>1. DOMAIN TIMERS' = 1 .. Len(TIMERS) /\ TIMERS' = [i \in 1 .. Len(TIMERS) |-> TIMERS'[i]]
    BY Zenon, <1>2
  <2>2. TIMERS' \in [1 .. Len(TIMERS) -> Entry]
    BY Zenon, <1>2, <1>5, <2>1
  <2>. QED
    BY <1>2, <2>2
<1>7. ASSUME NEW t \in Task, t # cur, HasEntry(t) PROVE HasEntry(t)'
  <2>1. PICK i \in DOMAIN TIMERS : TIMERS[i] = [task |-> t, live |-> TRUE]
    BY Zenon, <1>7 DEF HasEntry, Range
  <2>2. TIMERS'[i] = [task |-> t, live |-> TRUE]
    <3>1. TIMERS[i].task = t /\ TIMERS[i].live = TRUE
      BY <2>1
    <3>2. (TIMERS[i].live /\ TIMERS[i].task # cur) = TRUE
      BY Zenon, <1>7, <3>1
    <3>. QED
      BY Zenon, <1>4, <3>1, <3>2
  <2>3. i \in DOMAIN TIMERS'
    BY Zenon
  <2>. QED
    BY Zenon, <2>2, <2>3 DEF HasEntry, Range
<1>. QED
  BY Zenon, <1>6, <1>7

\* sleep_over: a beat sleeps again, a `sleep` ends, the shell turns to its keys.
LEMMA SleepOverStep ==
  ASSUME Books, sleep_over
  PROVE  Books' /\ (Wakes => Wakes')
<1>1. /\ pc = "poll" /\ doing[cur] = "sleep"
      /\ TIMERS' = [i \in DOMAIN TIMERS |->
                      [TIMERS[i] EXCEPT !.live = @ /\ TIMERS[i].task # cur]]
      /\ cur' = cur /\ SPAWN_QUEUE' = SPAWN_QUEUE
      /\ task_queue' = task_queue /\ queued_tasks' = queued_tasks
      /\ scancodes' = scancodes /\ WAKER' = WAKER /\ unstruck' = unstruck
      /\ ints' = ints /\ in_service' = in_service
  BY Zenon DEF sleep_over, Polls, ready, keys, irqs
<1>2. \/ cur \in Beats /\ sleep_ms(cur) /\ pc' = "enlist" /\ tasks' = tasks
      \/ /\ tasks' = tasks \ {cur} /\ pc' = "pop"
         /\ entry' = [entry EXCEPT ![cur] = FALSE] /\ doing' = doing /\ left' = left
      \/ /\ cur = Reader /\ doing' = [doing EXCEPT ![cur] = "keys"] /\ pc' = pc
         /\ entry' = [entry EXCEPT ![cur] = FALSE] /\ tasks' = tasks /\ left' = left
  BY Zenon DEF sleep_over
<1>3. cur \in Task /\ SleepsOK
  BY Zenon DEF Books, LoopOK
<1>4. TIMERS' \in Seq(Entry) /\ \A t \in Task : t # cur /\ HasEntry(t) => HasEntry(t)'
  BY Zenon, <1>1, DroppedEntries
<1>5. /\ doing' \in [Task -> {"start", "sleep", "keys"}] /\ left' \in [Task -> 0 .. MaxDelay]
      /\ entry' \in [Task -> BOOLEAN] /\ ~entry'[cur]
      /\ \A u \in Task : u # cur => /\ doing'[u] = doing[u] /\ left'[u] = left[u]
                                    /\ entry'[u] = entry[u]
      /\ doing'[cur] = "keys" => cur = Reader
      /\ pc' = "enlist" => doing'[cur] = "sleep"
  <2>1. /\ doing \in [Task -> {"start", "sleep", "keys"}] /\ left \in [Task -> 0 .. MaxDelay]
        /\ entry \in [Task -> BOOLEAN]
    BY Zenon, <1>3 DEF SleepsOK
  <2>2. CASE sleep_ms(cur)
    <3>1. doing'[cur] # "keys"
      BY <1>3, <2>2, SleepMsFacts
    <3>. QED
      BY Zenon, <1>3, <2>2, <3>1, SleepMsFacts
  <2>3. CASE /\ tasks' = tasks \ {cur} /\ pc' = "pop"
             /\ entry' = [entry EXCEPT ![cur] = FALSE] /\ doing' = doing /\ left' = left
    <3>1. doing'[cur] # "keys" /\ pc' # "enlist"
      BY <1>1, <2>3
    <3>. QED
      BY ZenonT(30), <1>3, <2>1, <2>3, <3>1
  <2>4. CASE /\ cur = Reader /\ doing' = [doing EXCEPT ![cur] = "keys"] /\ pc' = pc
             /\ entry' = [entry EXCEPT ![cur] = FALSE] /\ tasks' = tasks /\ left' = left
    <3>1. pc' # "enlist"
      BY <1>1, <2>4
    <3>. QED
      BY ZenonT(30), <1>3, <2>1, <2>4, <3>1
  <2>. QED
    BY ZenonT(30), <1>2, <2>2, <2>3, <2>4
<1>6. /\ pc' \in Places /\ pc \in {"poll", "enlist", "locked", "no key", "recheck", "ring 3"}
      /\ pc' \notin {"popped", "unmark"} /\ pc' \notin {"no key", "recheck", "ring 3"}
      /\ pc' \in {"enlist", "locked"} => pc' = "enlist"
      /\ pc' # "recheck" /\ pc' # "hlt"
      /\ tasks' = tasks \/ tasks' = tasks \ {cur}
      /\ pc' \in {"drain", "pop", "idle", "hlt"} => tasks' = tasks \ {cur}
  BY <1>1, <1>2 DEF Places
<1>7. LoopOK' /\ SleepsOK' /\ KeysOK' /\ IrqsOK'
  BY ZenonT(30), <1>1, <1>4, <1>5, <1>6 DEF Books, LoopOK, SleepsOK, KeysOK, IrqsOK
<1>8. Awaits'
  BY Zenon, <1>1, <1>5, <1>6 DEF Books, Awaits
<1>9. \A t \in Task : t # cur => Undisturbed(t)
  BY Zenon, <1>4, <1>5, <1>6 DEF Undisturbed
<1>10. Own'
  BY Zenon, <1>1, <1>5, <1>6 DEF Own, PolledAgain, Registration, Suspended
<1>. QED
  BY ZenonT(30), <1>1, <1>6, <1>7, <1>8, <1>9, <1>10, PollStep

\* enlist: a first poll enters the list, another finds its entry or its tick.
LEMMA EnlistStep ==
  ASSUME Books, enlist
  PROVE  Books' /\ (Wakes => Wakes')
<1>1. /\ pc = "locked" /\ pc' = "pop"
      /\ TIMERS' = IF entry[cur] THEN TIMERS ELSE Append(TIMERS, [task |-> cur, live |-> TRUE])
      /\ entry' = [entry EXCEPT ![cur] = TRUE]
      /\ cur' = cur /\ tasks' = tasks /\ SPAWN_QUEUE' = SPAWN_QUEUE
      /\ task_queue' = task_queue /\ queued_tasks' = queued_tasks
      /\ doing' = doing /\ left' = left
      /\ scancodes' = scancodes /\ WAKER' = WAKER /\ unstruck' = unstruck
      /\ ints' = ints /\ in_service' = in_service
  BY Zenon DEF enlist, ready, keys, irqs
<1>2. /\ cur \in Task /\ TIMERS \in Seq(Entry) /\ entry \in [Task -> BOOLEAN]
      /\ [task |-> cur, live |-> TRUE] \in Entry
  BY Zenon DEF Books, LoopOK, SleepsOK, Entry
<1>3. /\ TIMERS' \in Seq(Entry) /\ Range(TIMERS) \subseteq Range(TIMERS')
      /\ ~entry[cur] => [task |-> cur, live |-> TRUE] \in Range(TIMERS')
  <2>1. CASE entry[cur]
    BY Zenon, <1>1, <1>2, <2>1
  <2>2. CASE ~entry[cur]
    <3>1. TIMERS' = Append(TIMERS, [task |-> cur, live |-> TRUE])
      BY Zenon, <1>1, <2>2
    <3> DEFINE e == [task |-> cur, live |-> TRUE]
    <3>2. Append(TIMERS, e) \in Seq(Entry) /\ Range(Append(TIMERS, e)) = Range(TIMERS) \cup {e}
      <4>. HIDE DEF e
      <4>1. TIMERS \in Seq(Entry) /\ e \in Entry
        BY Zenon, <1>2 DEF e
      <4>. QED
        BY SMT, <4>1, AppendFacts
    <3>. QED
      BY Zenon, <3>1, <3>2
  <2>. QED
    BY Zenon, <2>1, <2>2
<1>4. /\ entry' \in [Task -> BOOLEAN] /\ \A t \in Task : t # cur => entry'[t] = entry[t]
  BY Zenon, <1>1, <1>2
<1>5. /\ pc' \in Places /\ pc \in {"poll", "enlist", "locked", "no key", "recheck", "ring 3"}
      /\ pc' \notin {"popped", "unmark"} /\ pc' \notin {"no key", "recheck", "ring 3"}
      /\ pc' \notin {"enlist", "locked"} /\ pc' # "recheck" /\ pc' # "hlt"
      /\ pc \in {"enlist", "locked"} /\ pc # "hung"
  BY <1>1 DEF Places
<1>6. LoopOK' /\ SleepsOK' /\ KeysOK' /\ IrqsOK' /\ Awaits'
  BY Zenon, <1>1, <1>3, <1>4, <1>5 DEF Books, LoopOK, SleepsOK, KeysOK, IrqsOK, Awaits
<1>7. \A t \in Task : t # cur => Undisturbed(t)
  BY Zenon, <1>1, <1>3, <1>4 DEF Undisturbed, HasEntry
<1>8. ASSUME Wakes PROVE Own'
  <2>1. doing[cur] = "sleep"
    BY Zenon, <1>5 DEF Books, Awaits
  <2>2. /\ entry[cur] => HasEntry(cur) \/ cur \in Range(task_queue)
        /\ entry[cur] /\ left[cur] > 0 => HasEntry(cur)
    BY Zenon, <1>2, <1>5, <1>8, <2>1 DEF Wakes, PolledAgain, LiveEntries
  <2>3. /\ HasEntry(cur)' \/ cur \in Range(task_queue)
        /\ left[cur] > 0 => HasEntry(cur)'
    BY Zenon, <1>1, <1>3, <2>2 DEF HasEntry
  <2>4. Suspended(cur)' => Safe(cur)'
    BY Zenon, <1>1, <2>1, <2>3 DEF Suspended, Safe, HasEntry
  <2>. QED
    BY ZenonT(30), <1>1, <1>5, <2>3, <2>4 DEF Own, PolledAgain, Registration, HasEntry
<1>. QED
  BY ZenonT(30), <1>1, <1>5, <1>6, <1>7, <1>8, PollStep

\* register: only the shell registers with the keyboard.
LEMMA RegisterStep ==
  ASSUME Books, register
  PROVE  Books' /\ (Wakes => Wakes')
<1>1. /\ pc = "no key" /\ pc' = "recheck" /\ WAKER' = {cur}
      /\ cur' = cur /\ tasks' = tasks /\ SPAWN_QUEUE' = SPAWN_QUEUE
      /\ task_queue' = task_queue /\ queued_tasks' = queued_tasks
      /\ doing' = doing /\ left' = left /\ entry' = entry /\ TIMERS' = TIMERS
      /\ scancodes' = scancodes /\ unstruck' = unstruck
      /\ ints' = ints /\ in_service' = in_service
  BY Zenon DEF register, ready, sleeps, irqs
<1>2. /\ pc' \in Places /\ pc \in {"poll", "enlist", "locked", "no key", "recheck", "ring 3"}
      /\ pc \in {"no key", "recheck", "ring 3"} /\ pc' \notin {"popped", "unmark"}
      /\ pc' \notin {"enlist", "locked"} /\ pc' # "hlt" /\ pc # "hung"
      /\ pc' \notin {"drain", "pop", "idle", "hlt"} /\ "sleep" # "keys"
  BY <1>1 DEF Places
<1>3. cur \in Task /\ doing[cur] = "keys" /\ cur = Reader
  BY Zenon, <1>2 DEF Books, LoopOK, Awaits
<1>4. LoopOK' /\ SleepsOK' /\ KeysOK' /\ IrqsOK' /\ Awaits'
  BY Zenon, <1>1, <1>2, <1>3 DEF Books, LoopOK, SleepsOK, KeysOK, IrqsOK, Awaits
<1>5. \A t \in Task : t # cur => Undisturbed(t)
  BY Zenon, <1>1 DEF Undisturbed, HasEntry
<1>6. Own'
  BY Zenon, <1>1, <1>2, <1>3 DEF Own, PolledAgain, Registration, Suspended
<1>. QED
  BY ZenonT(30), <1>1, <1>2, <1>3, <1>4, <1>5, <1>6, PollStep

\* A key struck: whatever the shell does next, it stays in hand or sleeps.
LEMMA StruckStep ==
  ASSUME Books, pc \in {"poll", "recheck"}, doing[cur] = "keys", scancodes > 0,
         Struck(scancodes - 1), WAKER' = WAKER \/ WAKER' = {},
         UNCHANGED <<cur, tasks, ready, TIMERS, unstruck, in_service>>
  PROVE  Books' /\ (Wakes => Wakes')
<1>1. /\ cur' = cur /\ tasks' = tasks /\ TIMERS' = TIMERS
      /\ task_queue' = task_queue /\ queued_tasks' = queued_tasks
      /\ unstruck' = unstruck /\ in_service' = in_service
  BY Zenon DEF ready
<1>2. cur \in Task /\ SleepsOK /\ cur = Reader /\ scancodes \in 0 .. KeyRoom
  BY Zenon DEF Books, LoopOK, KeysOK, Awaits
<1>3. /\ scancodes - 1 \in 0 .. KeyRoom /\ 0 \in 0 .. KeyRoom
  BY <1>2, ExecutorAssumption
<1>4. /\ scancodes' \in 0 .. KeyRoom
      /\ pc' \in {"poll", "ring 3", "hung"}
      /\ ints' = ints \/ ints' = TRUE
      /\ \/ sleep_ms(cur) /\ pc' = "poll"
         \/ doing' = doing /\ left' = left /\ entry' = entry
      /\ \/ SPAWN_QUEUE' = SPAWN_QUEUE
         \/ \E t \in Sleeps : /\ t \notin tasks \cup Range(SPAWN_QUEUE)
                              /\ SPAWN_QUEUE' = Append(SPAWN_QUEUE, t)
  <2>. DEFINE n == scancodes - 1
  <2>0. n \in 0 .. KeyRoom /\ Struck(n)
    BY Zenon, <1>3
  <2>. HIDE DEF n
  <2>1. CASE reads_on(n)
    BY Zenon, <2>0, <2>1 DEF reads_on
  <2>2. CASE login(n)
    BY Zenon, <1>3, <2>0, <2>2 DEF login
  <2>3. CASE cmd_sleep(n)
    BY Zenon, <2>0, <2>3 DEF cmd_sleep
  <2>4. CASE cmd_run(n)
    BY Zenon, <2>0, <2>4 DEF cmd_run
  <2>5. CASE cmd_ping(n)
    BY Zenon, <2>0, <2>5 DEF cmd_ping
  <2>. QED
    BY ZenonT(30), <2>0, <2>1, <2>2, <2>3, <2>4, <2>5 DEF Struck
<1>5. /\ pc' \in Places /\ pc \in {"poll", "enlist", "locked", "no key", "recheck", "ring 3"}
      /\ pc' \notin {"popped", "unmark"} /\ pc' \notin {"enlist", "locked"}
      /\ pc' \in {"no key", "recheck", "ring 3"} => pc' # "poll"
      /\ pc' # "recheck" /\ pc' # "hlt" /\ pc' \notin {"drain", "pop", "idle", "hlt"}
      /\ "sleep" # "keys"
  BY <1>4 DEF Places
<1>6. /\ doing' \in [Task -> {"start", "sleep", "keys"}] /\ left' \in [Task -> 0 .. MaxDelay]
      /\ entry' \in [Task -> BOOLEAN]
      /\ \A u \in Task : u # cur => /\ doing'[u] = doing[u] /\ left'[u] = left[u]
                                    /\ entry'[u] = entry[u]
      /\ doing'[cur] = "sleep" => ~entry'[cur]
      /\ pc' # "poll" => doing'[cur] = "keys"
  <2>1. CASE sleep_ms(cur) /\ pc' = "poll"
    BY ZenonT(30), <1>2, <2>1, SleepMsFacts
  <2>2. CASE doing' = doing /\ left' = left /\ entry' = entry
    BY Zenon, <1>2, <1>5, <2>2 DEF SleepsOK
  <2>. QED
    BY Zenon, <1>4, <2>1, <2>2
<1>7. LoopOK'
  <2>1. /\ SPAWN_QUEUE \in Seq(Task) /\ Range(SPAWN_QUEUE) \subseteq Task \ tasks /\ Once(SPAWN_QUEUE)
        /\ tasks \subseteq Task
    BY Zenon DEF Books, LoopOK
  <2>2. SPAWN_QUEUE' \in Seq(Task) /\ Range(SPAWN_QUEUE') \subseteq Task \ tasks /\ Once(SPAWN_QUEUE')
    <3>1. CASE SPAWN_QUEUE' = SPAWN_QUEUE
      BY Zenon, <2>1, <3>1
    <3>2. ASSUME NEW t \in Sleeps, t \notin tasks \cup Range(SPAWN_QUEUE),
                 SPAWN_QUEUE' = Append(SPAWN_QUEUE, t)
          PROVE  <2>2!:
      <4>1. t \in Task /\ t \notin Range(SPAWN_QUEUE) /\ t \notin tasks
        BY Zenon, <3>2 DEF Task
      <4>2. /\ Append(SPAWN_QUEUE, t) \in Seq(Task) /\ Once(Append(SPAWN_QUEUE, t))
            /\ Range(Append(SPAWN_QUEUE, t)) = Range(SPAWN_QUEUE) \cup {t}
        BY SMT, <2>1, <4>1, AppendFacts
      <4>. QED
        BY Zenon, <2>1, <3>2, <4>1, <4>2
    <3>. QED
      BY Zenon, <1>4, <3>1, <3>2
  <2>. QED
    BY ZenonT(30), <1>1, <1>2, <1>5, <2>1, <2>2 DEF LoopOK
<1>8. SleepsOK' /\ KeysOK' /\ IrqsOK'
  BY Zenon, <1>1, <1>4, <1>6 DEF Books, SleepsOK, KeysOK, IrqsOK
<1>9. Awaits'
  BY Zenon, <1>1, <1>2, <1>5, <1>6 DEF Books, Awaits
<1>10. \A t \in Task : t # cur => Undisturbed(t)
  BY Zenon, <1>1, <1>6 DEF Undisturbed, HasEntry
<1>11. Own'
  BY Zenon, <1>1, <1>5, <1>6 DEF Own, PolledAgain, Registration, Suspended
<1>. QED
  BY ZenonT(30), <1>1, <1>5, <1>7, <1>8, <1>9, <1>10, <1>11, PollStep

\* read_key and recheck, whether a key came in or not.
LEMMA KeyStep ==
  ASSUME Books, read_key \/ recheck
  PROVE  Books' /\ (Wakes => Wakes')
<1>1. CASE read_key
  <2>1. /\ pc = "poll" /\ doing[cur] = "keys" /\ scancodes > 0 /\ Struck(scancodes - 1)
        /\ UNCHANGED <<cur, tasks, ready, TIMERS, unstruck, in_service>> /\ WAKER' = WAKER
    BY Zenon, <1>1 DEF read_key, Polls
  <2>2. pc \in {"poll", "recheck"}
    BY Zenon, <2>1
  <2>. QED
    BY Zenon, <2>1, <2>2, StruckStep
<1>2. CASE recheck /\ scancodes > 0
  <2>1. /\ pc = "recheck" /\ Struck(scancodes - 1) /\ WAKER' = {}
        /\ UNCHANGED <<cur, tasks, ready, TIMERS, unstruck, in_service>>
    BY Zenon, <1>2 DEF recheck, KeyCameIn
  <2>2. pc \in {"poll", "recheck"} /\ pc \in {"no key", "recheck", "ring 3"}
    BY Zenon, <2>1
  <2>3. doing[cur] = "keys"
    BY Zenon, <2>2 DEF Books, Awaits
  <2>. QED
    BY Zenon, <1>2, <2>1, <2>2, <2>3, StruckStep
<1>3. CASE recheck /\ ~(scancodes > 0)
  <2>1. /\ pc = "recheck" /\ pc' = "pop"
        /\ cur' = cur /\ tasks' = tasks /\ SPAWN_QUEUE' = SPAWN_QUEUE
        /\ task_queue' = task_queue /\ queued_tasks' = queued_tasks
        /\ doing' = doing /\ left' = left /\ entry' = entry /\ TIMERS' = TIMERS
        /\ scancodes' = scancodes /\ WAKER' = WAKER /\ unstruck' = unstruck
        /\ ints' = ints /\ in_service' = in_service
    BY Zenon, <1>3 DEF recheck, KeyCameIn, ready, sleeps, keys, irqs
  <2>2. /\ pc' \in Places /\ pc \in {"poll", "enlist", "locked", "no key", "recheck", "ring 3"}
        /\ pc \in {"no key", "recheck", "ring 3"} /\ pc' \notin {"popped", "unmark"}
        /\ pc' \notin {"no key", "recheck", "ring 3"} /\ pc' # "recheck"
        /\ pc' \notin {"enlist", "locked"} /\ pc' # "hlt" /\ pc # "hung" /\ "sleep" # "keys"
    BY <2>1 DEF Places
  <2>3. doing[cur] = "keys" /\ scancodes = 0
    <3>1. doing[cur] = "keys" /\ scancodes \in 0 .. KeyRoom
      BY Zenon, <2>2 DEF Books, Awaits, KeysOK
    <3>. QED
      BY <1>3, <3>1, ExecutorAssumption
  <2>4. LoopOK' /\ SleepsOK' /\ KeysOK' /\ IrqsOK' /\ Awaits'
    BY Zenon, <2>1, <2>2 DEF Books, LoopOK, SleepsOK, KeysOK, IrqsOK, Awaits
  <2>5. \A t \in Task : t # cur => Undisturbed(t)
    BY Zenon, <2>1 DEF Undisturbed, HasEntry
  <2>6. ASSUME Wakes PROVE Own'
    <3>1. WAKER = {cur}
      BY Zenon, <1>3, <2>1, <2>2, <2>6 DEF Wakes, Registration
    <3>. QED
      BY ZenonT(30), <2>1, <2>2, <2>3, <3>1 DEF Own, PolledAgain, Registration, Safe
  <2>. QED
    BY Zenon, <2>1, <2>2, <2>4, <2>5, <2>6, PollStep
<1>. QED
  BY Zenon, <1>1, <1>2, <1>3

\* sys_read takes keys, and may wait for ever.
LEMMA SysReadStep ==
  ASSUME Books, sys_read
  PROVE  Books' /\ (Wakes => Wakes')
<1>1. /\ pc = "ring 3"
      /\ \/ pc' = "hung" /\ scancodes' = 0
         \/ pc' = "ring 3" /\ \E n \in 0 .. scancodes - 1 : scancodes' = n
      /\ cur' = cur /\ tasks' = tasks /\ SPAWN_QUEUE' = SPAWN_QUEUE
      /\ task_queue' = task_queue /\ queued_tasks' = queued_tasks
      /\ doing' = doing /\ left' = left /\ entry' = entry /\ TIMERS' = TIMERS
      /\ WAKER' = WAKER /\ unstruck' = unstruck
      /\ ints' = ints /\ in_service' = in_service
  BY Zenon DEF sys_read, ready, sleeps, irqs
<1>2. /\ pc' \in Places /\ pc \in {"poll", "enlist", "locked", "no key", "recheck", "ring 3"}
      /\ pc \in {"no key", "recheck", "ring 3"} /\ pc' \notin {"popped", "unmark"}
      /\ pc' \notin {"enlist", "locked"} /\ pc' # "recheck" /\ pc' # "hlt"
      /\ pc' \notin {"drain", "pop", "idle", "hlt"} /\ "sleep" # "keys"
  BY <1>1 DEF Places
<1>3. doing[cur] = "keys"
  BY Zenon, <1>2 DEF Books, Awaits
<1>4. scancodes' \in 0 .. KeyRoom
  <2>1. scancodes \in 0 .. KeyRoom
    BY Zenon DEF Books, KeysOK
  <2>2. scancodes' = 0 \/ scancodes' \in 0 .. scancodes - 1
    BY Zenon, <1>1
  <2>. QED
    BY <2>1, <2>2, ExecutorAssumption
<1>5. LoopOK' /\ SleepsOK' /\ KeysOK' /\ IrqsOK' /\ Awaits'
  BY Zenon, <1>1, <1>2, <1>3, <1>4 DEF Books, LoopOK, SleepsOK, KeysOK, IrqsOK, Awaits
<1>6. \A t \in Task : t # cur => Undisturbed(t)
  BY Zenon, <1>1 DEF Undisturbed, HasEntry
<1>7. Own'
  BY Zenon, <1>1, <1>2, <1>3 DEF Own, PolledAgain, Registration, Suspended
<1>. QED
  BY ZenonT(30), <1>1, <1>2, <1>3, <1>5, <1>6, <1>7, PollStep

\* The steps that only move the loop are Moves.
LEMMA OtherSteps ==
  ASSUME Books, \/ lock_set \/ sleep_if_idle \/ resolve_a \/ sleep_pending \/ lock_timers
                \/ no_key \/ sys_sleep_ms \/ kernel_return
  PROVE  Books' /\ (Wakes => Wakes')
<1>1. UNCHANGED <<cur, tasks, SPAWN_QUEUE, ready, sleeps, keys>>
  BY Zenon DEF lock_set, sleep_if_idle, resolve_a, sleep_pending, lock_timers, no_key,
               sys_sleep_ms, kernel_return
<1>2. in_service' = in_service /\ (ints' = ints \/ ints' = TRUE \/ ints' = FALSE)
  BY Zenon DEF lock_set, sleep_if_idle, resolve_a, sleep_pending, lock_timers, no_key,
               sys_sleep_ms, kernel_return, irqs, Unmasked
<1>3. IrqsOK'
  BY Zenon, <1>2 DEF Books, IrqsOK
<1>4. Moves
  <2>1. ASSUME sleep_if_idle PROVE Moves
    <3>1. pc = "idle" /\ (pc' = "drain" \/ (pc' = "hlt" /\ task_queue = << >> /\ SPAWN_QUEUE = << >>))
      BY Zenon, <2>1 DEF sleep_if_idle, MaySleep
    <3>. QED
      BY Zenon, <3>1 DEF Moves
  <2>2. ASSUME resolve_a \/ sys_sleep_ms PROVE Moves
    <3>1. pc \in {"poll", "ring 3"} /\ pc' = "hung"
      BY Zenon, <2>2 DEF resolve_a, sys_sleep_ms, Polls
    <3>. QED
      BY Zenon, <3>1 DEF Moves
  <2>. QED
    BY Zenon, <2>1, <2>2 DEF lock_set, sleep_pending, lock_timers, no_key, kernel_return, Polls, Moves
<1>. QED
  BY Zenon, <1>1, <1>3, <1>4, MovesStep

-----------------------------------------------------------------------------
(* The interrupt handlers *)

\* A handler that returns leaves the loop where it was, but for hlt, and but for
\* a program that deliver_pending ends.
Resumes ==
  /\ pc' \in Places /\ pc # "hung" /\ pc' # "hung" /\ pc' # "hlt"
  /\ pc' \in {"popped", "unmark"} <=> pc \in {"popped", "unmark"}
  /\ pc' \in {"drain", "pop", "idle", "hlt"} <=> pc \in {"drain", "pop", "idle", "hlt"}
  /\ pc' \in {"no key", "recheck", "ring 3"} => pc \in {"no key", "recheck", "ring 3"}
  /\ pc' \in {"enlist", "locked"} => pc \in {"enlist", "locked"}
  /\ pc' = "recheck" => pc = "recheck"

\* So nothing is lost if it queues each task whose timer or registration it takes.
LEMMA InterruptStep ==
  ASSUME Books, Resumes, NEW S,
         cur' = cur, tasks' = tasks, SPAWN_QUEUE' = SPAWN_QUEUE, doing' = doing, entry' = entry,
         ReadyOK', SleepsOK', KeysOK', IrqsOK',
         Range(task_queue) \subseteq Range(task_queue'),
         Range(task_queue') \subseteq queued_tasks',
         queued_tasks' \ Range(task_queue') = queued_tasks \ Range(task_queue),
         Room => S \subseteq queued_tasks',
         \A t \in Task : HasEntry(t) => HasEntry(t)' \/ t \in S,
         \A t \in Task : doing[t] = "sleep" /\ entry[t] /\ left'[t] > 0 =>
                           left[t] > 0 /\ (HasEntry(t) => HasEntry(t)'),
         \/ scancodes' = scancodes /\ WAKER' = WAKER
         \/ scancodes' > 0 /\ WAKER \subseteq S
  PROVE  Books' /\ (Room /\ Wakes => Wakes')
<1>1. LoopOK'
  BY Zenon DEF Books, LoopOK, Resumes
<1>2. pc' \notin {"popped", "unmark"} => queued_tasks' \subseteq Range(task_queue')
  <2>1. pc' \notin {"popped", "unmark"} => pc \notin {"popped", "unmark", "hung"}
    BY Zenon DEF Resumes
  <2>2. pc \notin {"popped", "unmark", "hung"} => queued_tasks \subseteq Range(task_queue)
    BY Zenon DEF Books, Marked
  <2>. QED
    BY Zenon, <2>1, <2>2
<1>3. Marked'
  <2>1. /\ queued_tasks' \ Range(task_queue') \subseteq {cur'}
        /\ pc' \in {"popped", "unmark"} => cur' \in queued_tasks' \ Range(task_queue')
    BY Zenon DEF Books, Marked, Resumes
  <2>. QED
    BY Zenon, <1>2, <2>1 DEF Marked
<1>4. Awaits'
  BY Zenon DEF Books, Awaits, Resumes
<1>5. ASSUME Room, Wakes PROVE Wakes'
  <2>1. LiveEntries /\ PolledAgain /\ Registration /\ NoneLost
    BY Zenon, <1>5 DEF Wakes, Resumes
  <2>2. LiveEntries'
    BY Zenon, <2>1 DEF LiveEntries
  <2>3. PolledAgain'
    <3>1. SUFFICES ASSUME pc' \in {"enlist", "locked"}, entry[cur]
                   PROVE  HasEntry(cur)' \/ cur \in Range(task_queue')
      BY Zenon DEF PolledAgain, HasEntry
    <3>2. cur \in Task /\ (HasEntry(cur) \/ cur \in Range(task_queue))
      BY Zenon, <2>1, <3>1 DEF PolledAgain, Resumes, Books, LoopOK
    <3>3. pc' \notin {"popped", "unmark"}
      BY <3>1
    <3>. QED
      BY ZenonT(30), <1>2, <1>5, <3>2, <3>3
  <2>4. Registration'
    BY Zenon, <2>1 DEF Registration, Resumes
  <2>5. ASSUME NEW t \in Task, Suspended(t)' PROVE Safe(t)'
    <3>1. Suspended(t) /\ t \notin Range(task_queue')
      BY Zenon, <2>5 DEF Suspended, Resumes
    <3>2. Safe(t)
      BY Zenon, <2>1, <3>1 DEF NoneLost
    <3>3. t \notin S
      <4>1. SUFFICES ASSUME t \in S PROVE FALSE
        BY Zenon
      <4>2. t \in queued_tasks \ Range(task_queue)
        BY Zenon, <1>5, <3>1, <4>1
      <4>3. t = cur
        BY Zenon, <4>2 DEF Books, Marked
      <4>4. pc \in {"popped", "unmark"}
        BY Zenon, <4>2 DEF Books, Marked, Resumes
      <4>5. pc \notin {"drain", "pop", "idle", "hlt"}
        BY <4>4
      <4>. QED
        BY Zenon, <3>1, <4>3, <4>5 DEF Suspended
    <3>. QED
      BY Zenon, <3>2, <3>3 DEF Safe
  <2>6. NoneLost' /\ HaltsIdle'
    BY Zenon, <2>5 DEF NoneLost, HaltsIdle, Resumes
  <2>. QED
    BY ZenonT(30), <2>2, <2>3, <2>4, <2>6 DEF Wakes
<1>. QED
  BY Zenon, <1>1, <1>3, <1>4, <1>5 DEF Books

\* A handler that needs a lock the loop holds spins for ever.
LEMMA HungStep ==
  ASSUME Books, pc' = "hung",
         cur' = cur, tasks' = tasks, SPAWN_QUEUE' = SPAWN_QUEUE, doing' = doing,
         task_queue' = task_queue, queued_tasks' = queued_tasks,
         SleepsOK', KeysOK', IrqsOK'
  PROVE  Books' /\ Wakes'
<1>1. /\ pc' \in Places /\ pc' \notin {"popped", "unmark"} /\ pc' \in {"popped", "unmark", "hung"}
      /\ pc' \notin {"no key", "recheck", "ring 3"} /\ pc' \notin {"enlist", "locked"}
  BY DEF Places
<1>2. LoopOK' /\ ReadyOK' /\ Marked' /\ Awaits'
  BY Zenon, <1>1 DEF Books, LoopOK, ReadyOK, Marked, Awaits
<1>. QED
  BY Zenon, <1>2 DEF Books, Wakes

\* Roused and deliver_pending resume the loop.
LEMMA ResumesFacts ==
  ASSUME pc \in Places, pc # "hung",
         pc' = Roused \/ (pc = "ring 3" /\ pc' \in {"ring 3", "poll"})
  PROVE  Resumes
  BY DEF Resumes, Roused, Places

\* keyboard_interrupt wakes the task whose registration it takes.
LEMMA KeyboardStep ==
  ASSUME Books, keyboard_interrupt
  PROVE  Books' /\ (Room /\ Wakes => Wakes')
<1>1. /\ pc # "hung" /\ unstruck > 0 /\ unstruck' = unstruck - 1
      /\ cur' = cur /\ tasks' = tasks /\ SPAWN_QUEUE' = SPAWN_QUEUE
      /\ doing' = doing /\ left' = left /\ entry' = entry /\ TIMERS' = TIMERS
      /\ ints' = ints /\ in_service' = in_service
  BY Zenon DEF keyboard_interrupt, Interruptible, sleeps, irqs
<1>2. \/ /\ scancodes < KeyRoom /\ scancodes' = scancodes + 1 /\ WAKER' = {}
         /\ pc' = "hung" /\ task_queue' = task_queue /\ queued_tasks' = queued_tasks
      \/ /\ scancodes < KeyRoom /\ scancodes' = scancodes + 1 /\ WAKER' = {}
         /\ pc' = Roused /\ WakeAll(IF WAKER = {} THEN << >> ELSE <<Reader>>)
      \/ /\ pc' = Roused /\ task_queue' = task_queue /\ queued_tasks' = queued_tasks
         /\ scancodes' = scancodes /\ WAKER' = WAKER
  BY Zenon DEF keyboard_interrupt, HasRoom, ready
<1>3. /\ scancodes \in 0 .. KeyRoom /\ WAKER \subseteq {Reader} /\ unstruck \in 0 .. MaxKeys
      /\ pc \in Places
  BY Zenon DEF Books, KeysOK, LoopOK
<1>4. unstruck' \in 0 .. MaxKeys /\ (scancodes < KeyRoom => scancodes + 1 \in 0 .. KeyRoom)
      /\ scancodes + 1 > 0
  BY <1>1, <1>3, ExecutorAssumption
<1>5. SleepsOK' /\ IrqsOK' /\ KeysOK'
  BY ZenonT(30), <1>1, <1>2, <1>3, <1>4 DEF Books, SleepsOK, IrqsOK, KeysOK
<1>6. /\ \A t \in Task : HasEntry(t) => HasEntry(t)'
      /\ \A t \in Task : doing[t] = "sleep" /\ entry[t] /\ left'[t] > 0 =>
                           left[t] > 0 /\ (HasEntry(t) => HasEntry(t)')
  BY Zenon, <1>1 DEF HasEntry
<1>7. CASE /\ scancodes' = scancodes + 1
           /\ pc' = "hung" /\ task_queue' = task_queue /\ queued_tasks' = queued_tasks
  BY ZenonT(30), <1>1, <1>5, <1>7, HungStep
<1>8. CASE /\ scancodes' = scancodes + 1 /\ WAKER' = {}
           /\ pc' = Roused /\ WakeAll(IF WAKER = {} THEN << >> ELSE <<Reader>>)
  <2> DEFINE ts == IF WAKER = {} THEN << >> ELSE <<Reader>>
  <2>1. ts \in Seq(Task) /\ Range(ts) = WAKER
    <3>1. CASE WAKER = {}
      BY <3>1 DEF Range
    <3>2. CASE WAKER # {}
      <4>1. WAKER = {Reader} /\ Reader \in Task
        BY ZenonT(30), <1>3, <3>2 DEF Task
      <4>2. <<Reader>> \in Seq(Task) /\ Range(<<Reader>>) = {Reader}
        BY <4>1 DEF Range
      <4>. QED
        BY ZenonT(30), <3>2, <4>1, <4>2
    <3>. QED
      BY ZenonT(30), <3>1, <3>2
  <2>2. WakeAll(ts)
    BY Zenon, <1>8
  <2>. HIDE DEF ts
  <2>3. /\ task_queue' \in Seq(Task) /\ queued_tasks' \in SUBSET Task /\ Once(task_queue')
        /\ Range(task_queue') \subseteq queued_tasks'
        /\ queued_tasks' \ Range(task_queue') = queued_tasks \ Range(task_queue)
        /\ Range(task_queue) \subseteq Range(task_queue')
        /\ Room => WAKER \subseteq queued_tasks'
    BY Zenon, <2>1, <2>2, WakeAllFacts DEF Books, ReadyOK, Marked
  <2>4. Resumes
    BY Zenon, <1>1, <1>3, <1>8, ResumesFacts
  <2>5. scancodes' > 0 /\ WAKER \subseteq WAKER /\ ReadyOK'
    BY Zenon, <1>4, <1>8, <2>3 DEF ReadyOK
  <2>. QED
    BY ZenonT(30), <1>1, <1>5, <1>6, <2>3, <2>4, <2>5, InterruptStep
<1>9. CASE /\ pc' = Roused /\ task_queue' = task_queue /\ queued_tasks' = queued_tasks
           /\ scancodes' = scancodes /\ WAKER' = WAKER
  <2>1. Resumes
    BY ZenonT(30), <1>1, <1>3, <1>9, ResumesFacts
  <2>2. /\ ReadyOK' /\ Range(task_queue) \subseteq Range(task_queue')
        /\ Range(task_queue') \subseteq queued_tasks'
        /\ queued_tasks' \ Range(task_queue') = queued_tasks \ Range(task_queue)
        /\ {} \subseteq queued_tasks'
    BY Zenon, <1>9 DEF Books, ReadyOK, Marked
  <2>. QED
    BY ZenonT(30), <1>1, <1>5, <1>6, <1>9, <2>1, <2>2, InterruptStep
<1>. QED
  BY ZenonT(30), <1>2, <1>7, <1>8, <1>9

\* retain keeps nothing but what it is told to keep, and all of it.
LEMMA RetainedRange ==
  ASSUME NEW T, NEW s \in Seq(T), NEW S \in SUBSET DOMAIN s, NEW r, r = Retained(s, S)
  PROVE  r \in Seq(T) /\ \A i \in S : \E k \in DOMAIN r : r[k] = s[i]
<1>1. PICK e \in [DOMAIN r -> S] :
        /\ r \in Seq(T)
        /\ \A k \in DOMAIN r : r[k] = s[e[k]] /\ Rank(S, e[k]) = k
        /\ \A i \in S : Rank(S, i) \in DOMAIN r /\ e[Rank(S, i)] = i
  BY RetainedElements
<1>. QED
  BY ZenonT(30), <1>1

\* The entries that are due leave the list, and their tasks are to be woken.
LEMMA DueFacts ==
  ASSUME TIMERS \in Seq(Entry), NEW l,
         TIMERS' = Retained(TIMERS, DOMAIN TIMERS \ Due(l)),
         NEW ts, ts = [i \in DOMAIN Retained(TIMERS, Due(l)) |-> Retained(TIMERS, Due(l))[i].task]
  PROVE  /\ TIMERS' \in Seq(Entry) /\ ts \in Seq(Task)
         /\ \A t \in Task : HasEntry(t) => HasEntry(t)' \/ (l[t] = 0 /\ t \in Range(ts))
<1> DEFINE due == Due(l)
           Fired == Retained(TIMERS, due)
           rest == DOMAIN TIMERS \ due
<1>1. due \in SUBSET DOMAIN TIMERS /\ rest \in SUBSET DOMAIN TIMERS
  BY Zenon DEF Due
<1>2. \A i \in due : ~TIMERS[i].live \/ l[TIMERS[i].task] = 0
  BY Zenon DEF Due
<1>3. TIMERS' = Retained(TIMERS, rest) /\ ts = [i \in DOMAIN Fired |-> Fired[i].task]
  BY Zenon
<1>. HIDE DEF due, rest, Fired
<1>4. Fired \in Seq(Entry) /\ \A i \in due : \E k \in DOMAIN Fired : Fired[k] = TIMERS[i]
  <2>1. Fired = Retained(TIMERS, due)
    BY Zenon DEF Fired
  <2>. QED
    BY SMT, <1>1, <2>1, RetainedRange
<1>5. TIMERS' \in Seq(Entry) /\ \A i \in rest : \E k \in DOMAIN TIMERS' : TIMERS'[k] = TIMERS[i]
  <2> DEFINE kept == Retained(TIMERS, rest)
  <2>1. kept = Retained(TIMERS, rest) /\ TIMERS' = kept
    BY ZenonT(30), <1>3
  <2>. HIDE DEF kept
  <2>2. kept \in Seq(Entry) /\ \A i \in rest : \E k \in DOMAIN kept : kept[k] = TIMERS[i]
    BY SMTT(30), <1>1, <2>1, RetainedRange
  <2>. QED
    BY Zenon, <2>1, <2>2
<1>6. ts \in Seq(Task)
  <2>0. /\ Len(Fired) \in Nat /\ DOMAIN Fired = 1 .. Len(Fired)
        /\ \A i \in DOMAIN Fired : Fired[i] \in Entry
    <3>1. Fired \in Seq(Entry)
      BY Zenon, <1>4
    <3>. QED
      BY <3>1
  <2>1. \A i \in DOMAIN Fired : Fired[i].task \in Task
    BY <2>0 DEF Entry
  <2>2. ts \in [1 .. Len(Fired) -> Task]
    BY Zenon, <1>3, <2>0, <2>1
  <2>. QED
    BY <2>0, <2>2
<1>7. ASSUME NEW t \in Task, HasEntry(t), ~HasEntry(t)' PROVE l[t] = 0 /\ t \in Range(ts)
  <2>1. PICK i \in DOMAIN TIMERS : TIMERS[i] = [task |-> t, live |-> TRUE]
    BY Zenon, <1>7 DEF HasEntry, Range
  <2>2. TIMERS[i].task = t /\ TIMERS[i].live
    BY <2>1
  <2>3. i \in due
    <3>1. SUFFICES ASSUME i \in rest PROVE FALSE
      BY Zenon DEF rest
    <3>2. PICK k \in DOMAIN TIMERS' : TIMERS'[k] = TIMERS[i]
      BY Zenon, <1>5, <3>1
    <3>. QED
      BY Zenon, <1>7, <2>1, <3>2 DEF HasEntry, Range
  <2>4. l[t] = 0
    BY Zenon, <1>2, <2>2, <2>3
  <2>5. PICK k \in DOMAIN Fired : Fired[k] = TIMERS[i]
    BY Zenon, <1>4, <2>3
  <2>6. k \in DOMAIN ts /\ ts[k] = t
    BY ZenonT(30), <1>3, <2>2, <2>5
  <2>. QED
    BY Zenon, <2>4, <2>6 DEF Range
<1>. QED
  BY Zenon, <1>3, <1>5, <1>6, <1>7

\* timer_tick wakes the tasks whose entries it takes out.
LEMMA TickStep ==
  ASSUME Books, timer_tick
  PROVE  Books' /\ (Room /\ Wakes => Wakes')
<1> DEFINE due   == Due(left')
           Fired == Retained(TIMERS, due)
           ts    == [i \in DOMAIN Fired |-> Fired[i].task]
<1>1. /\ pc # "hung" /\ left' = [t \in Task |-> IF left[t] > 0 THEN left[t] - 1 ELSE 0]
      /\ cur' = cur /\ tasks' = tasks /\ SPAWN_QUEUE' = SPAWN_QUEUE
      /\ doing' = doing /\ entry' = entry
      /\ scancodes' = scancodes /\ WAKER' = WAKER /\ unstruck' = unstruck
  BY Zenon DEF timer_tick, Interruptible, keys
<1>2. \/ /\ ListLocked /\ pc' = pc /\ TIMERS' = TIMERS /\ ints' = ints /\ in_service' = in_service
         /\ task_queue' = task_queue /\ queued_tasks' = queued_tasks
      \/ /\ pc' = "hung" /\ TIMERS' = TIMERS /\ ints' = ints /\ in_service' = in_service
         /\ task_queue' = task_queue /\ queued_tasks' = queued_tasks
      \/ /\ TIMERS' = Retained(TIMERS, DOMAIN TIMERS \ due) /\ WakeAll(ts)
         /\ on_timer \/ delivers
  BY Zenon DEF timer_tick, ready, irqs
<1>3. pc \in Places /\ TIMERS \in Seq(Entry) /\ left \in [Task -> 0 .. MaxDelay]
  BY Zenon DEF Books, LoopOK, SleepsOK
<1>4. /\ left' \in [Task -> 0 .. MaxDelay] /\ \A t \in Task : left'[t] > 0 => left[t] > 0 /\ left'[t] # 0
  BY <1>1, <1>3, ExecutorAssumption
<1>5. KeysOK'
  BY Zenon, <1>1 DEF Books, KeysOK
<1>. HIDE DEF ts, due
<1>6. CASE /\ ListLocked /\ pc' = pc /\ TIMERS' = TIMERS /\ ints' = ints /\ in_service' = in_service
           /\ task_queue' = task_queue /\ queued_tasks' = queued_tasks
  <2>1. Resumes
    BY <1>1, <1>3, <1>6 DEF ListLocked, Resumes
  <2>2. /\ ReadyOK' /\ SleepsOK' /\ IrqsOK'
        /\ Range(task_queue) \subseteq Range(task_queue') /\ Range(task_queue') \subseteq queued_tasks'
        /\ queued_tasks' \ Range(task_queue') = queued_tasks \ Range(task_queue)
        /\ {} \subseteq queued_tasks'
    BY ZenonT(30), <1>1, <1>4, <1>6 DEF Books, ReadyOK, SleepsOK, IrqsOK, Marked
  <2>3. /\ \A t \in Task : HasEntry(t) => HasEntry(t)'
        /\ \A t \in Task : doing[t] = "sleep" /\ entry[t] /\ left'[t] > 0 =>
                             left[t] > 0 /\ (HasEntry(t) => HasEntry(t)')
    BY Zenon, <1>4, <1>6 DEF HasEntry
  <2>. QED
    BY ZenonT(30), <1>1, <1>5, <2>1, <2>2, <2>3, InterruptStep
<1>7. CASE /\ pc' = "hung" /\ TIMERS' = TIMERS /\ ints' = ints /\ in_service' = in_service
           /\ task_queue' = task_queue /\ queued_tasks' = queued_tasks
  <2>1. SleepsOK' /\ IrqsOK'
    BY ZenonT(30), <1>1, <1>4, <1>7 DEF Books, SleepsOK, IrqsOK
  <2>. QED
    BY ZenonT(30), <1>1, <1>5, <1>7, <2>1, HungStep
<1>8. CASE /\ TIMERS' = Retained(TIMERS, DOMAIN TIMERS \ due) /\ WakeAll(ts)
           /\ on_timer \/ delivers
  <2>1. /\ TIMERS' \in Seq(Entry) /\ ts \in Seq(Task)
        /\ \A t \in Task : HasEntry(t) => HasEntry(t)' \/ (left'[t] = 0 /\ t \in Range(ts))
    BY Zenon, <1>3, <1>8, DueFacts DEF ts, due
  <2>2. /\ task_queue' \in Seq(Task) /\ queued_tasks' \in SUBSET Task /\ Once(task_queue')
        /\ Range(task_queue') \subseteq queued_tasks'
        /\ queued_tasks' \ Range(task_queue') = queued_tasks \ Range(task_queue)
        /\ Range(task_queue) \subseteq Range(task_queue')
        /\ Room => Range(ts) \subseteq queued_tasks'
    BY Zenon, <1>8, <2>1, WakeAllFacts DEF Books, ReadyOK, Marked
  <2>3. Resumes
    <3>1. pc' = Roused \/ (pc = "ring 3" /\ pc' \in {"ring 3", "poll"})
      BY Zenon, <1>8 DEF on_timer, delivers
    <3>. QED
      BY ZenonT(30), <1>1, <1>3, <3>1, ResumesFacts
  <2>4. IrqsOK'
    BY Zenon, <1>8 DEF on_timer, delivers, irqs, Books, IrqsOK
  <2>5. ReadyOK' /\ SleepsOK'
    BY ZenonT(30), <1>1, <1>4, <2>1, <2>2 DEF Books, ReadyOK, SleepsOK
  <2>6. \A t \in Task : doing[t] = "sleep" /\ entry[t] /\ left'[t] > 0 =>
                          left[t] > 0 /\ (HasEntry(t) => HasEntry(t)')
    BY Zenon, <1>4, <2>1
  <2>7. \A t \in Task : HasEntry(t) => HasEntry(t)' \/ t \in Range(ts)
    BY Zenon, <2>1
  <2>. QED
    BY ZenonT(30), <1>1, <1>5, <2>2, <2>3, <2>4, <2>5, <2>6, <2>7, InterruptStep
<1>. QED
  BY ZenonT(30), <1>2, <1>6, <1>7, <1>8

-----------------------------------------------------------------------------
(* The theorems *)

\* The loop starts with its queue in order.
LEMMA InitBooks ==
  ASSUME Init
  PROVE  Books /\ Wakes
<1>1. PICK order \in [1 .. Cardinality(Beats) -> Beats] :
        IsInjective(order) /\ task_queue = Append(order, Reader)
  BY Zenon DEF Init
<1>2. order \in Seq(Beats) /\ Range(order) = Beats /\ Once(order)
  BY Zenon, <1>1, OrderFacts, ExecutorAssumption
<1>3. order \in Seq(Task) /\ Reader \in Task /\ Reader \notin Range(order)
  <2>1. order \in Seq(Task)
    <3>1. Beats \subseteq Task
      BY Zenon DEF Task
    <3>. QED
      BY <1>2, <3>1
  <2>. QED
    BY Zenon, <1>2, <2>1, ExecutorAssumption DEF Task
<1>4. /\ Append(order, Reader) \in Seq(Task) /\ Once(Append(order, Reader))
      /\ Range(Append(order, Reader)) = Range(order) \cup {Reader}
  BY SMT, <1>2, <1>3, AppendFacts
<1>5. task_queue \in Seq(Task) /\ Once(task_queue) /\ Range(task_queue) = tasks
  BY ZenonT(30), <1>1, <1>2, <1>4 DEF Init
<1>6. /\ pc \in Places /\ pc \notin {"popped", "unmark"} /\ pc # "hlt"
      /\ pc \notin {"no key", "recheck", "ring 3"} /\ pc \notin {"enlist", "locked"} /\ pc # "recheck"
      /\ "start" # "keys" /\ 0 \in 0 .. MaxDelay /\ 0 \in 0 .. KeyRoom /\ MaxKeys \in 0 .. MaxKeys
  BY ExecutorAssumption DEF Init, Places
<1>7. tasks \subseteq Task /\ cur \in Task /\ queued_tasks = tasks
  BY Zenon DEF Init, Task
<1>8. << >> \in Seq(Task) /\ << >> \in Seq(Entry) /\ Range(<< >>) = {} /\ Once(<< >>)
  BY DEF Range, Once
<1>9. LoopOK /\ ReadyOK /\ Marked
  BY ZenonT(30), <1>5, <1>6, <1>7, <1>8 DEF Init, LoopOK, ReadyOK, Marked
<1>10. SleepsOK /\ KeysOK /\ IrqsOK
  BY ZenonT(30), <1>6, <1>8 DEF Init, SleepsOK, KeysOK, IrqsOK
<1>11. Awaits
  BY Zenon, <1>6 DEF Init, Awaits
<1>12. LiveEntries /\ PolledAgain /\ Registration /\ HaltsIdle
  BY Zenon, <1>6 DEF Init, LiveEntries, PolledAgain, Registration, HaltsIdle
<1>13. NoneLost
  BY Zenon, <1>5 DEF NoneLost, Suspended
<1>. QED
  BY ZenonT(30), <1>9, <1>10, <1>11, <1>12, <1>13 DEF Books, Wakes

\* Every step keeps the books, and with room for all tasks it loses no wakeup.
LEMMA Step ==
  ASSUME Books, [Next]_vars
  PROVE  Books' /\ (Room /\ Wakes => Wakes')
<1>1. CASE Loop
  BY ZenonT(30), <1>1, DrainStep, AdmitStep, PopStep, UnmarkStep, StartStep, SleepOverStep,
     EnlistStep, KeyStep, RegisterStep, OtherSteps DEF Loop
<1>2. CASE Ring3
  BY ZenonT(30), <1>2, SysReadStep, OtherSteps DEF Ring3
<1>3. CASE UNCHANGED vars
  <2>1. /\ pc' = pc /\ cur' = cur /\ tasks' = tasks /\ SPAWN_QUEUE' = SPAWN_QUEUE
        /\ task_queue' = task_queue /\ queued_tasks' = queued_tasks
        /\ doing' = doing /\ left' = left /\ entry' = entry /\ TIMERS' = TIMERS
        /\ scancodes' = scancodes /\ WAKER' = WAKER /\ unstruck' = unstruck
        /\ ints' = ints /\ in_service' = in_service
    BY Zenon, <1>3 DEF vars, loop, ready, sleeps, keys, irqs
  <2>2. Books'
    BY ZenonT(30), <2>1 DEF Books, LoopOK, ReadyOK, SleepsOK, KeysOK, IrqsOK, Marked, Awaits
  <2>3. Wakes => Wakes'
    BY Zenon, <2>1 DEF Wakes, LiveEntries, PolledAgain, Registration, NoneLost, HaltsIdle,
                       HasEntry, Safe, Suspended
  <2>. QED
    BY Zenon, <2>2, <2>3
<1>. QED
  BY ZenonT(30), <1>1, <1>2, <1>3, KeyboardStep, TickStep DEF Next

\* The books are kept, however small task_queue is and however the interrupts fall.
THEOREM Invariance == Spec => []Books
<1>1. Init => Books
  BY Zenon, InitBooks
<1>2. Books /\ [Next]_vars => Books'
  BY Zenon, Step
<1>. QED
  BY <1>1, <1>2, PTL DEF Spec

\* Every variable of the executor, the timers and the keyboard keeps its type;
\* SCANCODE_QUEUE never exceeds its capacity.
THEOREM TypeCorrectness == Spec => []TypeOK
<1>1. Books => TypeOK
  BY ZenonT(30), BooksProperties
<1>. QED
  BY <1>1, Invariance, PTL

\* No id is queued twice, and the set of queued ids is the queue, but for the id
\* run_ready_tasks is about to strike out.
THEOREM QueueExact == Spec => []QueueIsExact
<1>1. Books => QueueIsExact
  BY Zenon, BooksProperties
<1>. QED
  BY <1>1, Invariance, PTL

\* As long as there are no more tasks than places in task_queue, no wakeup is
\* lost: what the loop has put aside has a timer entry or a registration that
\* stands, and the processor halts only without work.
THEOREM NoWakeupLost == Room => (Spec => []NoLostWakeup)
<1>1. SUFFICES ASSUME Room PROVE Spec => []NoLostWakeup
  OBVIOUS
<1>2. Init => Books /\ Wakes
  BY Zenon, InitBooks
<1>3. (Books /\ Wakes) /\ [Next]_vars => (Books /\ Wakes)'
  BY Zenon, <1>1, Step
<1>4. Books /\ Wakes => NoLostWakeup
  BY Zenon, BooksProperties
<1>. QED
  BY <1>2, <1>3, <1>4, PTL DEF Spec
=============================================================================
