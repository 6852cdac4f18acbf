------------------------------ MODULE KThreads ------------------------------
(***************************************************************************)
(* kernel/src/task/thread.rs: the cooperative round-robin scheduler of     *)
(* kernel threads.                                                         *)
(*                                                                         *)
(* A saved stack pointer is modelled by what it leads to: the thread whose *)
(* execution is found there, and whether that execution is still about to  *)
(* enter thread_bootstrap or stands in a past yield.  `cpu` is the         *)
(* execution that is really on the processor, whatever the scheduler's     *)
(* table says.  Switches are cooperative and no interrupt handler touches  *)
(* the scheduler, so each operation of the running thread is one step,     *)
(* with the context_switch that follows the release of the SCHEDULER lock. *)
(***************************************************************************)
EXTENDS Integers, Sequences, FiniteSets, Retain

CONSTANTS MaxThread   \* bound: ids handed out by NEXT_ID

ASSUME KThreadsAssumption == MaxThread \in Nat

VARIABLES threads,      \* Scheduler.threads, in spawn order
          current,      \* index of the running thread (from 1)
          entry_points, \* ids with a registered entry function
          next_id,      \* NEXT_ID
          cpu,          \* the execution on the processor
          panic         \* the panic the kernel died of, or "none"

thread_vars == <<threads, current, entry_points, next_id, cpu, panic>>

Main   == 0
Id     == Main .. MaxThread
Rsp    == [of : Id, at : {"null", "bootstrap", "yield"}]
Thread == [id : Id, state : {"Runnable", "Running", "Finished"}, rsp : Rsp]

\* init_as_main, called by _start before anything else.  Its null rsp is
\* filled by the first switch.
ThreadsInit ==
  /\ threads = << [id |-> Main, state |-> "Running", rsp |-> [of |-> Main, at |-> "null"]] >>
  /\ current = 1
  /\ entry_points = {}
  /\ next_id = 1
  /\ cpu = Main
  /\ panic = "none"

-----------------------------------------------------------------------------
(* Scheduler *)

\* Slip: the scan always starts at the head of the vector.
Distance_FromHead(i) == i

\* How far after the running thread the scan of pick_next meets index i: the
\* running thread itself comes last.
Distance(i) == LET n == Len(threads)
                   d == (i - current + n) % n
               IN IF d = 0 THEN n ELSE d

\* pick_next, threads being ts: the first Runnable thread of the scan.
Picked(ts, i) ==
  /\ Len(ts) >= 2
  /\ i \in DOMAIN ts
  /\ ts[i].state = "Runnable"
  /\ \A j \in DOMAIN ts : ts[j].state = "Runnable" => Distance(i) <= Distance(j)

\* The update of pick_next and the context_switch to thread i, which ends in
\* thread_bootstrap when the thread has never run.
SwitchTo(ts, i) ==
  /\ threads' = [ts EXCEPT
       ![current].state = IF ts[current].state = "Running" THEN "Runnable" ELSE @,
       ![current].rsp   = [of |-> cpu, at |-> "yield"],
       ![i].state       = "Running"]
  /\ current' = i
  /\ cpu' = ts[i].rsp.of
  /\ panic' = IF ts[i].rsp.at = "bootstrap" /\ ts[i].id \notin entry_points
              THEN "entry manquante" ELSE panic

NonePicked(ts) == \A i \in DOMAIN ts : ~Picked(ts, i)

yield_now ==
  /\ IF NonePicked(threads)
     THEN UNCHANGED <<threads, current, cpu, panic>>
     ELSE \E i \in DOMAIN threads : Picked(threads, i) /\ SwitchTo(threads, i)
  /\ UNCHANGED <<entry_points, next_id>>

\* thread_bootstrap after entry() returns, or a direct call.  The main thread
\* runs the executor and never gets here.
exit ==
  LET ts == [threads EXCEPT ![current].state = "Finished"]
  IN /\ cpu # Main
     /\ IF NonePicked(ts)
        THEN /\ threads' = ts
             /\ panic' = "unreachable"
             /\ UNCHANGED <<current, cpu>>
        ELSE \E i \in DOMAIN ts : Picked(ts, i) /\ SwitchTo(ts, i)
     /\ UNCHANGED <<entry_points, next_id>>

\* Slip: Thread::new forgets to register the entry point.
NewEntry_Missing(id) == entry_points

NewEntry(id) == entry_points \cup {id}

\* Thread::new and Scheduler::spawn; the vector is never empty here.
spawn ==
  /\ next_id <= MaxThread
  /\ threads' = Append(threads, [id |-> next_id, state |-> "Runnable",
                                rsp |-> [of |-> next_id, at |-> "bootstrap"]])
  /\ entry_points' = NewEntry(next_id)
  /\ next_id' = next_id + 1
  /\ UNCHANGED <<current, cpu, panic>>

Kept == {i \in DOMAIN threads : threads[i].state # "Finished" \/ i = current}

\* Slip: removals after the running thread are counted too.
RemovedBefore_All == Cardinality(DOMAIN threads \ Kept)

RemovedBefore == Cardinality({i \in DOMAIN threads \ Kept : i < current})

reap ==
  /\ threads' = Retained(threads, Kept)
  /\ entry_points' = entry_points \ {threads[i].id : i \in DOMAIN threads \ Kept}
  /\ current' = current - RemovedBefore
  /\ UNCHANGED <<next_id, cpu, panic>>

ThreadsNext == panic = "none" /\ (yield_now \/ exit \/ spawn \/ reap)

\* The scheduler is cooperative: a thread that runs yields sooner or later.
ThreadsSpec == ThreadsInit /\ [][ThreadsNext]_thread_vars /\ WF_thread_vars(panic = "none" /\ yield_now)

-----------------------------------------------------------------------------
(* Properties *)

\* Every variable has its type; `current` is always an index of the vector.
ThreadsTypeOK ==
  /\ threads \in Seq(Thread)
  /\ current \in DOMAIN threads
  /\ entry_points \subseteq Id
  /\ next_id \in 1 .. MaxThread + 1
  /\ cpu \in Id
  /\ panic \in {"none", "entry manquante", "unreachable"}

\* The table and the processor agree: the running index designates the thread
\* whose execution is on the processor, it alone is Running, and every other
\* live thread will resume on its own stack, across switches, exits and reaps
\* that move indices.
TableMatchesCpu ==
  /\ current \in DOMAIN threads /\ threads[current].id = cpu
  /\ \A i \in DOMAIN threads : threads[i].state = "Running" <=> i = current
  /\ \A i \in DOMAIN threads \ {current} :
       threads[i].rsp.of = threads[i].id /\ threads[i].rsp.at # "null"

\* Neither expect("entry manquante") in thread_bootstrap nor the unreachable!
\* after the last yield of exit() is ever reached.
NoPanic == panic = "none"

\* A Runnable thread gets the processor: round robin starves nobody, even when
\* reap shifts the vector and threads are spawned meanwhile.
RunnableRuns ==
  \A id \in Id :
    (\E i \in DOMAIN threads : threads[i].id = id /\ threads[i].state = "Runnable") ~> (cpu = id)
=============================================================================
