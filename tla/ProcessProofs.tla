--------------------------- MODULE ProcessProofs ----------------------------
(***************************************************************************)
(* The run queue and the wakeups of Process for any number of processes.   *)
(* The invariant says of table and queue together what every operation     *)
(* needs: Healthy is stated of a table and a queue as values, because exit *)
(* prepares both before schedule_next installs them.                       *)
(***************************************************************************)
EXTENDS Process, TLAPS

Live(ps, p) == p \in Known(ps) /\ ps[p].state # "Zombie"

\* Sleepers have no report waiting, the reports of the living are exact, and
\* parents are older than the next process.
Family(ps) ==
  /\ \A p \in Known(ps) : ps[p].state = "Sleeping" => ps[p].children_exited = << >>
  /\ \A p \in Known(ps) : Live(ps, p) => ExactReports(ps, p)
  /\ \A p \in Known(ps) : ps[p].parent < next_pid

\* The process `current` designates while the shell runs is gone, or dead
\* without a living parent: its exit can be told to nobody.
Unheard(ps, p) == p \in Known(ps) => ~Live(ps, p) /\ ~Live(ps, ps[p].parent)

IInv == /\ TypeOK
        /\ RunnableIsQueued
        /\ Family(procs)
        /\ current < next_pid
        /\ Running => Live(procs, current)
        /\ at = "shell" => Unheard(procs, current)

\* What schedule_next needs of the table and the queue it is given.
Healthy(ps, q) ==
  /\ ps \in [Known(ps) -> Proc]
  /\ Known(ps) \subseteq 1 .. next_pid - 1
  /\ q \in Seq(Pid)
  /\ Family(ps)

-----------------------------------------------------------------------------
(* Operators *)

\* Popping entries up to the first Runnable one loses no Runnable process.
LEMMA PickKeepsRunnable ==
  ASSUME NEW ps, NEW q \in Seq(Pid), NEW i \in DOMAIN q, PickedAt(ps, q, i),
         NEW p \in Queued(q), IsRunnable(ps, p)
  PROVE  p = q[i] \/ p \in Queued(SubSeq(q, i + 1, Len(q)))
<1>1. PICK k \in DOMAIN q : p = q[k]
  BY DEF Queued
<1>2. k >= i
  BY <1>1 DEF PickedAt
<1>3. CASE k = i
  BY <1>1, <1>3
<1>4. CASE k > i
  <2> DEFINE s == SubSeq(q, i + 1, Len(q))
  <2>1. k - i \in DOMAIN s /\ s[k - i] = q[k]
    BY <1>4
  <2>. QED
    BY <1>1, <2>1 DEF Queued
<1>. QED
  BY <1>2, <1>3, <1>4

\* push_back adds one pid to the pids in the run queue.
LEMMA AppendQueued ==
  ASSUME NEW q \in Seq(Pid), NEW x \in Pid
  PROVE  /\ Append(q, x) \in Seq(Pid)
         /\ Queued(Append(q, x)) = Queued(q) \cup {x}
<1>1. Append(q, x) \in Seq(Pid)
  OBVIOUS
<1>2. ASSUME NEW p \in Queued(Append(q, x)) PROVE p \in Queued(q) \cup {x}
  BY DEF Queued
<1>3. ASSUME NEW p \in Queued(q) PROVE p \in Queued(Append(q, x))
  BY DEF Queued
<1>4. x \in Queued(Append(q, x))
  <2>1. Len(q) + 1 \in DOMAIN Append(q, x) /\ Append(q, x)[Len(q) + 1] = x
    OBVIOUS
  <2>. QED
    BY <2>1 DEF Queued
<1>. QED
  BY <1>1, <1>2, <1>3, <1>4

\* A report names a dead child of the process it was left for.
LEMMA ReportFacts ==
  ASSUME NEW ps, NEW p, ExactReports(ps, p), NEW i \in DOMAIN ps[p].children_exited,
         NEW c, c = ps[p].children_exited[i].pid
  PROVE  /\ c \in Known(ps) /\ ps[c].state = "Zombie" /\ ps[c].parent = p
         /\ ps[c].code = ps[p].children_exited[i].code
  BY Zenon DEF ExactReports

\* Every report left for p names a process in S.
ReportsIn(ps, p, S) ==
  \A i \in DOMAIN ps[p].children_exited : ps[p].children_exited[i].pid \in S

\* The dead processes in S are as dead, and as they were, in ps2.
SameDead(ps, ps2, S) ==
  \A c \in Known(ps) \cap S : ps[c].state = "Zombie" =>
    /\ c \in Known(ps2) /\ ps2[c].state = "Zombie"
    /\ ps2[c].parent = ps[c].parent /\ ps2[c].code = ps[c].code

\* A step that leaves a process its reports, and leaves the dead children they
\* name as they were, keeps the reports exact.
LEMMA KeptReports ==
  ASSUME NEW ps, NEW ps2, NEW p, NEW S, ExactReports(ps, p),
         ps2[p].children_exited = ps[p].children_exited,
         ReportsIn(ps, p, S), SameDead(ps, ps2, S)
  PROVE  ExactReports(ps2, p)
<1>0. /\ \A i \in DOMAIN ps[p].children_exited : ps[p].children_exited[i].pid \in S
      /\ \A c \in Known(ps) \cap S : ps[c].state = "Zombie" =>
           /\ c \in Known(ps2) /\ ps2[c].state = "Zombie"
           /\ ps2[c].parent = ps[c].parent /\ ps2[c].code = ps[c].code
  BY Zenon DEF ReportsIn, SameDead
<1> DEFINE r == ps2[p].children_exited
<1>1. \A i, j \in DOMAIN r : r[i].pid = r[j].pid => i = j
  BY Zenon DEF ExactReports
<1>2. ASSUME NEW i \in DOMAIN r, NEW c, c = r[i].pid
      PROVE  c \in Known(ps2) /\ ps2[c].state = "Zombie" /\ ps2[c].parent = p
             /\ ps2[c].code = r[i].code
  <2>1. i \in DOMAIN ps[p].children_exited /\ c = ps[p].children_exited[i].pid
    BY Zenon, <1>2
  <2>2. /\ c \in Known(ps) /\ ps[c].state = "Zombie" /\ ps[c].parent = p
        /\ ps[c].code = ps[p].children_exited[i].code
    BY <2>1, ReportFacts
  <2>3. c \in S
    BY Zenon, <1>0, <2>1
  <2>. QED
    BY Zenon, <1>0, <2>2, <2>3
<1>. QED
  BY ZenonT(30), <1>1, <1>2 DEF ExactReports

\* Reports that are exact name known processes.
LEMMA ReportsKnown ==
  ASSUME NEW ps, NEW p, ExactReports(ps, p)
  PROVE  ReportsIn(ps, p, Known(ps))
  BY Zenon DEF ExactReports, ReportsIn

\* Nobody is told of a death that did not happen when nothing is reported.
LEMMA NoReports ==
  ASSUME NEW ps, NEW p, ps[p].children_exited = << >>
  PROVE  ExactReports(ps, p)
<1>1. DOMAIN ps[p].children_exited = {}
  <2>1. DOMAIN << >> = {}
    OBVIOUS
  <2>. QED
    BY Zenon, <2>1
<1>. QED
  BY Zenon, <1>1 DEF ExactReports

\* Two tables that differ only in frames and pending signals.
SameFamily(ps, ps2) ==
  /\ Known(ps2) = Known(ps)
  /\ \A p \in Known(ps) : /\ ps2[p].state = ps[p].state
                          /\ ps2[p].code = ps[p].code
                          /\ ps2[p].parent = ps[p].parent
                          /\ ps2[p].children_exited = ps[p].children_exited

\* Tables that differ in frames and signals alone agree on what the invariant
\* says of families and states.
LEMMA SameFamilyHealthy ==
  ASSUME NEW ps, NEW ps2, SameFamily(ps, ps2)
  PROVE  /\ Family(ps) => Family(ps2)
         /\ \A p : Live(ps2, p) <=> Live(ps, p)
         /\ \A p : IsRunnable(ps2, p) <=> IsRunnable(ps, p)
         /\ \A p : Unheard(ps, p) => Unheard(ps2, p)
<1>1. \A p : Live(ps2, p) <=> Live(ps, p)
  BY DEF SameFamily, Live
<1>2. \A p : IsRunnable(ps2, p) <=> IsRunnable(ps, p)
  BY Zenon DEF SameFamily, IsRunnable
<1>3. ASSUME NEW p \in Known(ps), ExactReports(ps, p) PROVE ExactReports(ps2, p)
  <2>1. SameDead(ps, ps2, Known(ps))
    BY Zenon DEF SameFamily, SameDead
  <2>2. ps2[p].children_exited = ps[p].children_exited
    BY Zenon, <1>3 DEF SameFamily
  <2>. QED
    BY Zenon, <1>3, <2>1, <2>2, KeptReports, ReportsKnown
<1>4. Family(ps) => Family(ps2)
  BY <1>1, <1>3 DEF Family, SameFamily
<1>5. \A p : Unheard(ps, p) => Unheard(ps2, p)
  BY <1>1 DEF Unheard, SameFamily
<1>. QED
  BY <1>1, <1>2, <1>4, <1>5

\* Marking a frame stale changes nothing else.
LEMMA MarkStale ==
  ASSUME NEW ps, ps \in [Known(ps) -> Proc], NEW x \in Known(ps)
  PROVE  LET ps2 == [ps EXCEPT ![x].frame.stale = TRUE]
         IN ps2 \in [Known(ps) -> Proc] /\ SameFamily(ps, ps2)
<1> DEFINE ps2 == [ps EXCEPT ![x].frame.stale = TRUE]
<1>1. Known(ps2) = Known(ps)
  BY DEF Known
<1>2. ps[x] \in Proc /\ ps[x].frame \in Frame
  BY DEF Proc
<1>3. [ps[x].frame EXCEPT !.stale = TRUE] \in Frame
  BY Zenon, <1>2 DEF Frame
<1>4. ps2[x] = [ps[x] EXCEPT !.frame = [ps[x].frame EXCEPT !.stale = TRUE]]
  BY DEF Known
<1>5. /\ ps2[x] \in Proc
      /\ ps2[x].state = ps[x].state /\ ps2[x].code = ps[x].code
      /\ ps2[x].parent = ps[x].parent /\ ps2[x].children_exited = ps[x].children_exited
  BY Zenon, <1>2, <1>3, <1>4 DEF Proc
<1>6. \A p \in Known(ps) \ {x} : ps2[p] = ps[p]
  BY DEF Known
<1>7. ps2 \in [Known(ps) -> Proc]
  BY <1>1, <1>5, <1>6 DEF Known
<1>. QED
  BY <1>1, <1>5, <1>6, <1>7 DEF SameFamily

-----------------------------------------------------------------------------
(* schedule_next and exit_current *)

\* The types of what is neither table nor processor.
RestOK == /\ ints \in BOOLEAN
          /\ op \in Locked \cup {"idle", "run"}
          /\ kernel_ctx \in BOOLEAN
          /\ in_service \in BOOLEAN
          /\ resumed \in {"as left", "at an old point", "registers zeroed"}

\* The i-th entry of the queue goes to the processor.
Picks(ps, q, i) ==
  /\ PickedAt(ps, q, i)
  /\ current' = q[i]
  /\ runnable' = SubSeq(q, i + 1, Len(q))
  /\ procs' = [ps EXCEPT ![q[i]].frame.stale = TRUE]
  /\ next_pid' = next_pid
  /\ at' = "user"

\* Picking the first Runnable entry of a healthy table and queue gives a state
\* that satisfies the invariant.
LEMMA PickIInv ==
  ASSUME IInv, NEW ps, NEW q, Healthy(ps, q),
         \A p \in Known(ps) : IsRunnable(ps, p) => p \in Queued(q),
         NEW i \in DOMAIN q, Picks(ps, q, i), RestOK'
  PROVE  IInv'
<1>1. /\ current' = q[i] /\ at' = "user" /\ next_pid' = next_pid
      /\ runnable' = SubSeq(q, i + 1, Len(q))
      /\ procs' = [ps EXCEPT ![q[i]].frame.stale = TRUE]
  BY DEF Picks
<1>2. IsRunnable(ps, q[i]) /\ q[i] \in Known(ps) /\ q[i] \in Pid
  <2>1. q \in Seq(Pid)
    BY DEF Healthy
  <2>2. PickedAt(ps, q, i)
    BY DEF Picks
  <2>3. IsRunnable(ps, q[i]) /\ q[i] \in Known(ps)
    BY <2>2 DEF PickedAt, IsRunnable
  <2>4. q[i] \in Pid
    BY <2>1
  <2>. QED
    BY <2>3, <2>4
<1>3. procs' \in [Known(ps) -> Proc] /\ SameFamily(ps, procs')
  BY Zenon, <1>1, <1>2, MarkStale DEF Healthy
<1>4. runnable' \in Seq(Pid)
  <2>1. q \in Seq(Pid)
    BY DEF Healthy
  <2>2. i \in 1 .. Len(q)
    BY <2>1
  <2>3. SubSeq(q, i + 1, Len(q)) \in Seq(Pid)
    BY <2>1, <2>2
  <2>. QED
    BY <1>1, <2>3
<1>5. TypeOK' /\ current' < next_pid'
  <2>1. Known(procs') \subseteq 1 .. next_pid' - 1 /\ procs' \in [Known(procs') -> Proc]
    BY Zenon, <1>1, <1>3 DEF Healthy, SameFamily
  <2>2. current' \in 0 .. MaxPid /\ next_pid' \in 1 .. MaxPid + 1 /\ current' < next_pid'
    <3>1. current' \in Pid /\ current' \in 1 .. next_pid - 1
      BY <1>1, <1>2 DEF Healthy
    <3>2. next_pid' \in 1 .. MaxPid + 1 /\ next_pid' = next_pid
      BY Zenon, <1>1 DEF IInv, TypeOK
    <3>. QED
      BY <3>1, <3>2, ProcessAssumption DEF Pid
  <2>3. at' \in {"user", "waiting", "shell", "halted", "spinning"}
    BY <1>1
  <2>. QED
    BY Zenon, <1>4, <2>1, <2>2, <2>3 DEF TypeOK, RestOK
<1>6. RunnableIsQueued'
  <2>1. \A p : IsRunnable(procs', p) <=> IsRunnable(ps, p)
    BY <1>3, SameFamilyHealthy
  <2>2. ASSUME NEW p \in Known(ps), IsRunnable(ps, p)
        PROVE  p \in Queued(runnable') \/ p = current'
    <3>1. p \in Queued(q)
      BY <2>2
    <3>. QED
      BY <2>2, <3>1, <1>1, PickKeepsRunnable DEF Healthy, Picks
  <2>3. Running' /\ Known(procs') = Known(ps)
    BY <1>1, <1>3 DEF Running, SameFamily
  <2>. QED
    BY <2>1, <2>2, <2>3 DEF RunnableIsQueued, Running
<1>7. Family(procs)'
  <2>1. Family(procs')
    BY <1>3, SameFamilyHealthy DEF Healthy
  <2>. QED
    BY Zenon, <1>1, <2>1 DEF Family
<1>8. Live(procs', current')
  <2>1. Live(ps, q[i])
    BY <1>2 DEF Live, IsRunnable
  <2>2. Live(procs', q[i])
    BY <1>3, <2>1, SameFamilyHealthy
  <2>. QED
    BY <1>1, <2>2
<1>. QED
  BY <1>1, <1>5, <1>6, <1>7, <1>8 DEF IInv

\* schedule_next installs a healthy table whose Runnable processes are all
\* queued as a state that satisfies the invariant.
LEMMA ScheduleIInv ==
  ASSUME IInv, NEW ps, NEW q, NEW ctx \in BOOLEAN, Healthy(ps, q),
         \A p \in Known(ps) : IsRunnable(ps, p) => p \in Queued(q),
         NothingToPick(ps, q) => Unheard(ps, current),
         schedule_next(ps, q, ctx), next_pid' = next_pid,
         op' \in Locked \cup {"idle", "run"}, in_service' \in BOOLEAN
  PROVE  IInv'
<1>1. CASE NothingToPick(ps, q)
  <2>1. /\ procs' = ps /\ runnable' = << >> /\ current' = current
        /\ at' \in {"shell", "halted"} /\ ints' = FALSE /\ kernel_ctx' = FALSE
        /\ resumed' = resumed
    BY <1>1 DEF schedule_next
  <2>2. \A p \in Known(ps) : ~IsRunnable(ps, p)
    BY <1>1 DEF NothingToPick, Queued
  <2>3. TypeOK'
    <3>1. Known(procs') \subseteq 1 .. next_pid' - 1 /\ procs' \in [Known(procs') -> Proc]
      BY <2>1 DEF Healthy
    <3>2. runnable' \in Seq(Pid)
      BY <2>1
    <3>3. /\ current' \in 0 .. MaxPid /\ next_pid' \in 1 .. MaxPid + 1
          /\ resumed' \in {"as left", "at an old point", "registers zeroed"}
      BY Zenon, <2>1 DEF IInv, TypeOK
    <3>4. /\ at' \in {"user", "waiting", "shell", "halted", "spinning"}
          /\ ints' \in BOOLEAN /\ kernel_ctx' \in BOOLEAN
      BY Zenon, <2>1
    <3>. QED
      BY Zenon, <3>1, <3>2, <3>3, <3>4 DEF TypeOK
  <2>4. Family(procs)'
    BY <2>1 DEF Family, Healthy
  <2>5. RunnableIsQueued'
    BY <2>1, <2>2 DEF RunnableIsQueued
  <2>6. ~Running' /\ Unheard(procs', current')
    BY <1>1, <2>1 DEF Running
  <2>. QED
    BY <2>1, <2>3, <2>4, <2>5, <2>6 DEF IInv
<1>2. CASE ~NothingToPick(ps, q)
  <2>1. PICK i \in DOMAIN q :
          /\ PickedAt(ps, q, i)
          /\ current' = q[i]
          /\ runnable' = SubSeq(q, i + 1, Len(q))
          /\ procs' = [ps EXCEPT ![q[i]].frame.stale = TRUE]
          /\ resumed' \in {"as left", "at an old point", "registers zeroed"}
          /\ at' = "user" /\ kernel_ctx' = ctx /\ ints' = TRUE
    BY Zenon, <1>2 DEF schedule_next
  <2>2. Picks(ps, q, i)
    BY Zenon, <2>1 DEF Picks
  <2>3. RestOK'
    BY Zenon, <2>1 DEF RestOK
  <2>. QED
    BY Zenon, <2>1, <2>2, <2>3, PickIInv
<1>. QED
  BY <1>1, <1>2

\* The table exit_current gives to schedule_next: pid dead, and its parent told
\* and, if it slept, woken.
Dead(ps, pid, code) == [ps EXCEPT ![pid].state = "Zombie", ![pid].code = code]
Wakes(ps, pid)      == /\ ps[pid].parent \in Known(ps) /\ ps[pid].parent # pid
                       /\ ps[ps[pid].parent].state = "Sleeping"
Told(ps, pid, code) ==
  LET dead   == Dead(ps, pid, code)
      parent == ps[pid].parent
  IN IF parent \in Known(ps)
     THEN [dead EXCEPT
            ![parent].children_exited = Append(@, [pid |-> pid, code |-> code]),
            ![parent].state = IF WakesOnExit(dead[parent]) THEN "Runnable" ELSE @]
     ELSE dead

\* What Told does to each field.
ToldFields(ps, pid, code, told) ==
  /\ told \in [Known(ps) -> Proc]
  /\ Known(told) = Known(ps)
  /\ \A p \in Known(ps) :
       /\ told[p].parent = ps[p].parent
       /\ told[p].code = IF p = pid THEN code ELSE ps[p].code
       /\ told[p].children_exited = IF p = ps[pid].parent
                                    THEN Append(ps[p].children_exited, [pid |-> pid, code |-> code])
                                    ELSE ps[p].children_exited
       /\ told[p].state = IF p = pid THEN "Zombie"
                          ELSE IF p = ps[pid].parent /\ Wakes(ps, pid) THEN "Runnable"
                          ELSE ps[p].state

\* What exit_current makes of the table, field by field.
LEMMA ToldIsExact ==
  ASSUME NEW ps, ps \in [Known(ps) -> Proc], Known(ps) \subseteq Pid,
         NEW pid \in Known(ps), NEW code \in Code
  PROVE  ToldFields(ps, pid, code, Told(ps, pid, code))
<1> DEFINE dead   == Dead(ps, pid, code)
<1> DEFINE parent == ps[pid].parent
<1> DEFINE known  == parent \in Known(ps)
<1> DEFINE wake   == known /\ WakesOnExit(dead[parent])
<1> DEFINE report == [pid |-> pid, code |-> code]
<1> DEFINE told   == Told(ps, pid, code)
<1>1. told = IF known
             THEN [dead EXCEPT
                    ![parent].children_exited = Append(@, report),
                    ![parent].state = IF wake THEN "Runnable" ELSE @]
             ELSE dead
  BY Zenon DEF Told
<1>2. /\ dead \in [Known(ps) -> Proc] /\ Known(dead) = Known(ps)
      /\ \A p \in Known(ps) : /\ dead[p].children_exited = ps[p].children_exited
                              /\ dead[p].parent = ps[p].parent
                              /\ dead[p].code = IF p = pid THEN code ELSE ps[p].code
                              /\ dead[p].state = IF p = pid THEN "Zombie" ELSE ps[p].state
  BY ZenonT(30) DEF Known, Proc, Dead
<1>3. report \in Exit /\ report.pid = pid /\ report.code = code
  BY DEF Exit
<1>4. /\ told \in [Known(ps) -> Proc] /\ Known(told) = Known(ps)
      /\ \A p \in Known(ps) :
           /\ told[p].parent = ps[p].parent
           /\ told[p].code = IF p = pid THEN code ELSE ps[p].code
           /\ told[p].children_exited = IF p = parent THEN Append(ps[p].children_exited, report)
                                        ELSE ps[p].children_exited
           /\ told[p].state = IF p = parent /\ wake THEN "Runnable" ELSE dead[p].state
  <2>. HIDE DEF dead, report, told
  <2>1. CASE ~known
    BY <1>1, <1>2, <2>1 DEF Known
  <2>2. CASE known
    <3> DEFINE st == IF wake THEN "Runnable" ELSE dead[parent].state
    <3>1. dead[parent] \in Proc
      BY <1>2, <2>2
    <3>2. Append(dead[parent].children_exited, report) \in Seq(Exit)
      BY <3>1, <1>3 DEF Proc
    <3>3. told[parent] = [dead[parent] EXCEPT
                            !.children_exited = Append(dead[parent].children_exited, report),
                            !.state = st]
      BY <1>1, <1>2, <2>2 DEF Known, Proc
    <3>4. st \in {"Runnable", "Sleeping", "Zombie"}
      BY <3>1 DEF Proc
    <3>5. /\ Known(told) = Known(ps)
          /\ \A p \in Known(ps) \ {parent} : told[p] = dead[p]
      BY <1>1, <1>2, <2>2 DEF Known
    <3>6. /\ told[parent] \in Proc
          /\ told[parent].parent = dead[parent].parent
          /\ told[parent].code = dead[parent].code
          /\ told[parent].children_exited = Append(dead[parent].children_exited, report)
          /\ told[parent].state = st
      <4>. HIDE DEF st
      <4>. QED
        BY ZenonT(30), <3>1, <3>2, <3>3, <3>4 DEF Proc
    <3>7. told \in [Known(ps) -> Proc]
      BY <1>1, <1>2, <2>2, <3>5, <3>6 DEF Known
    <3>. QED
      BY ZenonT(30), <1>2, <2>2, <3>5, <3>6, <3>7
  <2>. QED
    BY <2>1, <2>2
<1>5. wake <=> Wakes(ps, pid)
  <2>. HIDE DEF dead
  <2>. QED
    BY <1>2 DEF WakesOnExit, Wakes
<1>. HIDE DEF wake, told, report, dead
<1>6. \A p \in Known(ps) : told[p].state = IF p = pid THEN "Zombie"
                                            ELSE IF p = parent /\ Wakes(ps, pid) THEN "Runnable"
                                            ELSE ps[p].state
  BY <1>2, <1>4, <1>5 DEF Wakes
<1>. QED
  BY <1>4, <1>6 DEF told, report, ToldFields

\* exit_current hands schedule_next the table with the report and the queue with
\* the parent it wakes.
LEMMA ExitTells ==
  ASSUME NEW ps, ps \in [Known(ps) -> Proc], NEW pid \in Known(ps), NEW code \in Code,
         exit_current(ps, pid, code)
  PROVE  /\ schedule_next(Told(ps, pid, code),
                          IF Wakes(ps, pid) THEN Append(runnable, ps[pid].parent) ELSE runnable,
                          kernel_ctx)
         /\ next_pid' = next_pid /\ op' = op
<1> DEFINE dead   == Dead(ps, pid, code)
<1> DEFINE parent == ps[pid].parent
<1> DEFINE wake   == parent \in Known(ps) /\ WakesOnExit(dead[parent])
<1>1. wake <=> Wakes(ps, pid)
  BY ZenonT(30) DEF Known, Proc, Dead, WakesOnExit, Wakes
<1>2. /\ schedule_next(Told(ps, pid, code),
                       IF wake THEN Append(runnable, parent) ELSE runnable, kernel_ctx)
      /\ next_pid' = next_pid /\ op' = op
  BY ZenonT(30) DEF exit_current, Told, Dead
<1>. HIDE DEF wake
<1>. QED
  BY <1>1, <1>2

\* The end of pid tells and wakes its parent before schedule_next.  A process
\* that dies a second time has no living parent to tell.
LEMMA ExitIInv ==
  ASSUME IInv, NEW ps, NEW pid \in Known(ps), pid = current, NEW code \in Code,
         Healthy(ps, runnable),
         \A p \in Known(ps) : IsRunnable(ps, p) => p \in Queued(runnable) \/ p = pid,
         Live(ps, pid) \/ Unheard(ps, pid),
         exit_current(ps, pid, code), in_service' \in BOOLEAN
  PROVE  IInv'
<1> DEFINE parent == ps[pid].parent
<1> DEFINE known  == parent \in Known(ps)
<1> DEFINE wake   == Wakes(ps, pid)
<1> DEFINE report == [pid |-> pid, code |-> code]
<1> DEFINE told   == Told(ps, pid, code)
<1> DEFINE q      == IF wake THEN Append(runnable, parent) ELSE runnable
<1>0. Known(ps) \subseteq Pid
  <2>1. Known(ps) \subseteq 1 .. next_pid - 1
    BY DEF Healthy
  <2>2. next_pid \in 1 .. MaxPid + 1
    BY Zenon DEF IInv, TypeOK
  <2>. QED
    BY <2>1, <2>2, ProcessAssumption DEF Pid
<1>1. /\ schedule_next(told, q, kernel_ctx)
      /\ next_pid' = next_pid /\ op' = op
  BY <1>0, ExitTells DEF Healthy
<1>3. report \in Exit /\ report.pid = pid /\ report.code = code
  BY <1>0 DEF Exit
<1>2. ps \in [Known(ps) -> Proc]
  BY DEF Healthy
<1>told. ToldFields(ps, pid, code, told)
  BY <1>0, <1>2, ToldIsExact
<1>4. /\ told \in [Known(ps) -> Proc] /\ Known(told) = Known(ps)
      /\ \A p \in Known(ps) :
           /\ told[p].parent = ps[p].parent
           /\ told[p].code = IF p = pid THEN code ELSE ps[p].code
           /\ told[p].children_exited = IF p = parent THEN Append(ps[p].children_exited, report)
                                        ELSE ps[p].children_exited
  <2>. HIDE DEF told
  <2>. QED
    BY <1>told DEF ToldFields
<1>7. \A p \in Known(ps) : told[p].state = IF p = pid THEN "Zombie"
                                            ELSE IF p = parent /\ wake THEN "Runnable"
                                            ELSE ps[p].state
  <2>. HIDE DEF told
  <2>. QED
    BY <1>told DEF ToldFields
<1>5. /\ wake <=> known /\ parent # pid /\ ps[parent].state = "Sleeping"
      /\ known => parent \in Pid
  BY <1>0 DEF Wakes
<1>. HIDE DEF wake, told, report
<1>6. q \in Seq(Pid) /\ Queued(runnable) \subseteq Queued(q) /\ (wake => parent \in Queued(q))
  BY <1>5, AppendQueued DEF Healthy
<1>8. ASSUME NEW p \in Known(ps), Live(told, p)
      PROVE  Live(ps, p) /\ p # pid
  BY <1>5, <1>7, <1>8 DEF Live
<1>9. ASSUME NEW p \in Known(ps), ps[p].state = "Zombie", p # pid
      PROVE  told[p].state = "Zombie" /\ told[p].code = ps[p].code
  BY <1>4, <1>5, <1>7, <1>9
<1>10. Family(ps)
  BY DEF Healthy
<1>11. ASSUME NEW p \in Known(ps), Live(told, p)
       PROVE  ExactReports(told, p)
  <2>1. Live(ps, p) /\ p # pid /\ ExactReports(ps, p)
    BY SMTT(30), <1>8, <1>10, <1>11 DEF Family
  <2>2. CASE p # parent
    <3>1. told[p].children_exited = ps[p].children_exited
      BY Zenon, <1>4, <2>2
    <3>2. ASSUME NEW i \in DOMAIN ps[p].children_exited
          PROVE  LET c == ps[p].children_exited[i].pid
                 IN /\ c \in Known(told) /\ told[c].state = "Zombie"
                    /\ told[c].parent = p /\ told[c].code = ps[p].children_exited[i].code
      <4> DEFINE c == ps[p].children_exited[i].pid
      <4>1. /\ c \in Known(ps) /\ ps[c].state = "Zombie"
            /\ ps[c].parent = p /\ ps[c].code = ps[p].children_exited[i].code
        BY Zenon, <2>1 DEF ExactReports
      <4>2. c # pid
        BY <2>2, <4>1
      <4>. HIDE DEF c
      <4>3. told[c].state = "Zombie" /\ told[c].code = ps[c].code
        BY <1>9, <4>1, <4>2
      <4>4. c \in Known(told) /\ told[c].parent = ps[c].parent
        BY <1>4, <4>1
      <4>5. /\ c \in Known(told) /\ told[c].state = "Zombie"
            /\ told[c].parent = p /\ told[c].code = ps[p].children_exited[i].code
        BY <4>1, <4>3, <4>4
      <4>. QED
        BY Zenon, <4>5 DEF c
    <3>. QED
      BY ZenonT(30), <2>1, <3>1, <3>2 DEF ExactReports
  <2>3. CASE p = parent
    <3> DEFINE old == ps[p].children_exited
    <3>1. Live(ps, pid)
      BY <2>1, <2>3 DEF Unheard
    <3>2. old \in Seq(Exit)
      BY <2>1 DEF Healthy, Proc
    <3>3. /\ told[p].children_exited = Append(old, report)
          /\ DOMAIN Append(old, report) = 1 .. Len(old) + 1
          /\ \A i \in 1 .. Len(old) : Append(old, report)[i] = old[i]
          /\ Append(old, report)[Len(old) + 1] = report
          /\ Len(old) \in Nat /\ DOMAIN old = 1 .. Len(old)
      <4>1. told[p].children_exited = Append(old, report)
        BY ZenonT(30), <1>4, <2>3
      <4>. HIDE DEF old
      <4>. QED
        BY SMTT(30), <1>3, <3>2, <4>1
    <3>4. \A i \in DOMAIN old :
            /\ old[i].pid \in Known(ps) /\ ps[old[i].pid].state = "Zombie"
            /\ ps[old[i].pid].parent = p /\ ps[old[i].pid].code = old[i].code
            /\ old[i].pid # pid
      BY ZenonT(30), <2>1, <3>1 DEF ExactReports, Live
    <3>5. \A i \in DOMAIN old :
            /\ old[i].pid \in Known(told) /\ told[old[i].pid].state = "Zombie"
            /\ told[old[i].pid].parent = p /\ told[old[i].pid].code = old[i].code
      <4>1. TAKE i \in DOMAIN old
      <4> DEFINE c == old[i].pid
      <4>2. /\ c \in Known(ps) /\ ps[c].state = "Zombie" /\ ps[c].parent = p
            /\ ps[c].code = old[i].code /\ c # pid
        BY Zenon, <3>4
      <4>. HIDE DEF c
      <4>3. told[c].state = "Zombie" /\ told[c].code = ps[c].code
        BY <1>9, <4>2
      <4>4. c \in Known(told) /\ told[c].parent = ps[c].parent
        BY <1>4, <4>2
      <4>5. /\ c \in Known(told) /\ told[c].state = "Zombie"
            /\ told[c].parent = p /\ told[c].code = old[i].code
        BY <4>2, <4>3, <4>4
      <4>. QED
        BY Zenon, <4>5 DEF c
    <3>6. /\ report.pid \in Known(told) /\ told[report.pid].state = "Zombie"
          /\ told[report.pid].parent = p /\ told[report.pid].code = report.code
      BY ZenonT(30), <1>3, <1>4, <1>7, <2>3
    <3>7. \A i, j \in DOMAIN old : old[i].pid = old[j].pid => i = j
      BY Zenon, <2>1 DEF ExactReports
    <3> DEFINE new == Append(old, report)
    <3>8. \A i, j \in DOMAIN new : new[i].pid = new[j].pid => i = j
      <4>. HIDE DEF old
      <4>1. \A i \in DOMAIN old : old[i].pid # report.pid
        BY Zenon, <1>3, <3>4
      <4>. QED
        BY <3>3, <3>7, <4>1
    <3>9. \A i \in DOMAIN new :
            /\ new[i].pid \in Known(told) /\ told[new[i].pid].state = "Zombie"
            /\ told[new[i].pid].parent = p /\ told[new[i].pid].code = new[i].code
      <4>. HIDE DEF old
      <4>. QED
        BY <3>3, <3>5, <3>6
    <3>10. told[p].children_exited = new
      BY <3>3
    <3>. HIDE DEF new
    <3>. QED
      BY Zenon, <3>8, <3>9, <3>10 DEF ExactReports
  <2>. QED
    BY <2>2, <2>3
<1>12. \A p \in Known(ps) : told[p].state = "Sleeping" => told[p].children_exited = << >>
  <2>1. TAKE p \in Known(ps)
  <2>2. CASE p # parent
    BY Zenon, <1>4, <1>7, <1>10, <2>2 DEF Family
  <2>3. CASE p = parent
    BY <1>5, <1>7, <2>3
  <2>. QED
    BY <2>2, <2>3
<1>13. Healthy(told, q)
  <2>1. Family(told)
    BY <1>4, <1>10, <1>11, <1>12 DEF Family
  <2>2. told \in [Known(told) -> Proc] /\ Known(told) \subseteq 1 .. next_pid - 1
    BY Zenon, <1>4 DEF Healthy
  <2>. QED
    BY Zenon, <1>6, <2>1, <2>2 DEF Healthy
<1>14. \A p \in Known(told) : IsRunnable(told, p) => p \in Queued(q)
  BY ZenonT(30), <1>4, <1>5, <1>6, <1>7 DEF IsRunnable
<1>15. NothingToPick(told, q) => Unheard(told, current)
  <2>1. SUFFICES ASSUME NothingToPick(told, q), Live(told, parent)
                 PROVE  FALSE
    BY <1>4, <1>7 DEF Unheard, Live
  <2>2. parent \in Known(ps) /\ told[parent] \in Proc
    BY Zenon, <1>4, <2>1 DEF Live
  <2>3. told[parent].state = "Runnable"
    BY Zenon, <1>5, <1>7, <2>1, <2>2 DEF Live, Healthy, Proc
  <2>4. parent \in Queued(q)
    BY <1>4, <1>14, <2>2, <2>3 DEF IsRunnable
  <2>. QED
    BY <1>4, <2>1, <2>2, <2>3, <2>4 DEF NothingToPick, Queued, IsRunnable
<1>. HIDE DEF q
<1>16. kernel_ctx \in BOOLEAN /\ op' \in Locked \cup {"idle", "run"}
  BY Zenon, <1>1 DEF IInv, TypeOK
<1>. QED
  BY <1>1, <1>13, <1>14, <1>15, <1>16, ScheduleIInv

-----------------------------------------------------------------------------
(* The steps *)

\* The empty table satisfies the inductive invariant.
LEMMA InitIInv == Init => IInv
<1>. SUFFICES ASSUME Init PROVE IInv
  OBVIOUS
<1>1. Known(procs) = {} /\ procs = << >>
  <2>1. procs = << >>
    BY Zenon DEF Init
  <2>2. DOMAIN << >> = {}
    OBVIOUS
  <2>. QED
    BY <2>1, <2>2 DEF Known
<1>2. procs \in [Known(procs) -> Proc] /\ Known(procs) \subseteq 1 .. next_pid - 1
  BY <1>1 DEF Known
<1>3. /\ runnable \in Seq(Pid) /\ current = 0 /\ next_pid = 1 /\ at = "shell"
      /\ current \in 0 .. MaxPid /\ next_pid \in 1 .. MaxPid + 1
  <2>1. runnable = << >> /\ current = 0 /\ next_pid = 1 /\ at = "shell"
    BY Zenon DEF Init
  <2>2. << >> \in Seq(Pid)
    OBVIOUS
  <2>3. 0 \in 0 .. MaxPid /\ 1 \in 1 .. MaxPid + 1
    BY ProcessAssumption
  <2>. QED
    BY <2>1, <2>2, <2>3
<1>4. RestOK
  BY Zenon DEF Init, RestOK
<1>5. TypeOK
  BY Zenon, <1>2, <1>3, <1>4 DEF TypeOK, RestOK
<1>6. Family(procs) /\ RunnableIsQueued /\ Unheard(procs, current)
  BY <1>1 DEF Family, RunnableIsQueued, Unheard
<1>. QED
  BY <1>3, <1>5, <1>6 DEF IInv, Running

\* In every state of the invariant schedule_next finds what it needs.
LEMMA TableIsHealthy ==
  ASSUME IInv
  PROVE  Healthy(procs, runnable) /\ RestOK
BY Zenon DEF IInv, TypeOK, Healthy, RestOK

\* exit and a fatal fault keep the invariant.
LEMMA ExitStep ==
  ASSUME IInv, sys_exit \/ current_fault_kill
  PROVE  IInv'
<1>1. PICK code \in Code : exit_current(procs, current, code)
  BY DEF sys_exit, current_fault_kill, Code
<1>2. Running /\ in_service' = in_service
  BY DEF sys_exit, current_fault_kill
<1>3. Live(procs, current) /\ current \in Known(procs)
  BY <1>2 DEF IInv, Live
<1>4. Healthy(procs, runnable) /\ in_service' \in BOOLEAN
  BY Zenon, <1>2, TableIsHealthy DEF RestOK
<1>5. \A p \in Known(procs) : IsRunnable(procs, p) => p \in Queued(runnable) \/ p = current
  BY DEF IInv, RunnableIsQueued
<1>. QED
  BY <1>1, <1>3, <1>4, <1>5, ExitIInv

\* A new process is the youngest: it is nobody's parent yet and in no report.
LEMMA InsertStep ==
  ASSUME IInv, next_pid \in Pid, NEW parent \in 0 .. MaxPid, parent < next_pid,
         NEW frame \in Frame, Insert(next_pid, parent, frame),
         current' = current, at' = at, RestOK'
  PROVE  IInv'
<1> DEFINE pid == next_pid
<1> DEFINE new == [state |-> "Runnable", code |-> "none", parent |-> parent,
                   signals |-> 0, children_exited |-> << >>, frame |-> frame]
<1>1. /\ Known(procs') = Known(procs) \cup {pid}
      /\ procs'[pid] = new
      /\ \A p \in Known(procs) \ {pid} : procs'[p] = procs[p]
      /\ procs' = [p \in Known(procs) \cup {pid} |-> procs'[p]]
      /\ runnable' = Append(runnable, pid)
      /\ next_pid' = pid + 1
  BY DEF Insert, Known, alloc_pid
<1>2. /\ Known(procs) \subseteq 1 .. pid - 1
      /\ procs \in [Known(procs) -> Proc]
      /\ pid \in 1 .. MaxPid + 1 /\ current \in 0 .. MaxPid /\ current < pid
      /\ Family(procs)
      /\ runnable \in Seq(Pid)
  BY Zenon DEF IInv, TypeOK
<1>3. pid \notin Known(procs) /\ pid \in Nat /\ pid <= MaxPid
  BY SMTT(30), <1>2, ProcessAssumption DEF Pid
<1>4. new \in Proc /\ new.state = "Runnable" /\ new.parent = parent /\ new.children_exited = << >>
  <2>1. << >> \in Seq(Exit)
    OBVIOUS
  <2>2. 0 \in 0 .. MaxSignal /\ "none" \in Code
    BY ProcessAssumption DEF Code
  <2>. QED
    BY <2>1, <2>2 DEF Proc
<1>. HIDE DEF new
<1>5. procs' \in [Known(procs') -> Proc]
  BY <1>1, <1>2, <1>3, <1>4
<1>6. Known(procs') \subseteq 1 .. next_pid' - 1
  BY <1>1, <1>2, <1>3
<1>7. /\ next_pid' \in 1 .. MaxPid + 1 /\ current' \in 0 .. MaxPid
      /\ current' < next_pid'
  BY <1>1, <1>2, <1>3, ProcessAssumption
<1>8. /\ runnable' \in Seq(Pid) /\ Queued(runnable') = Queued(runnable) \cup {pid}
  BY <1>1, <1>2, AppendQueued
<1>9. TypeOK'
  BY Zenon, <1>5, <1>6, <1>7, <1>8 DEF TypeOK, RestOK, IInv
<1>10. \A p \in Known(procs) : procs'[p] = procs[p] /\ p \in Known(procs')
  BY <1>1, <1>3
<1>11. RunnableIsQueued'
  BY <1>1, <1>4, <1>8, <1>10 DEF IInv, RunnableIsQueued, IsRunnable, Running
<1>12. Family(procs)'
  <2>1. \A p \in Known(procs') : procs'[p].state = "Sleeping" => procs'[p].children_exited = << >>
    BY <1>1, <1>2, <1>4, <1>10 DEF Family
  <2>2. ASSUME NEW p \in Known(procs'), Live(procs', p) PROVE ExactReports(procs', p)
    <3>1. CASE p = pid
      <4>1. procs'[p].children_exited = << >>
        BY SMTT(30), <1>1, <1>4, <3>1
      <4>. QED
        BY Zenon, <4>1, NoReports
    <3>2. CASE p \in Known(procs)
      <4>1. ExactReports(procs, p)
        BY <1>2, <1>10, <2>2, <3>2 DEF Live, Family
      <4>2. SameDead(procs, procs', Known(procs)) /\ procs'[p].children_exited = procs[p].children_exited
        BY Zenon, <1>10, <3>2 DEF SameDead
      <4>. QED
        BY Zenon, <4>1, <4>2, KeptReports, ReportsKnown
    <3>. QED
      BY <1>1, <3>1, <3>2
  <2>3. ASSUME NEW p \in Known(procs') PROVE procs'[p].parent < next_pid'
    <3>1. procs'[p].parent < pid /\ procs'[p].parent \in 0 .. MaxPid
      BY <1>1, <1>2, <1>4, <1>5, <1>10 DEF Family, Proc
    <3>. QED
      BY <1>1, <1>3, <3>1, ProcessAssumption
  <2>. QED
    BY <2>1, <2>2, <2>3 DEF Family
<1>13. ASSUME NEW p, p # pid PROVE Live(procs', p) <=> Live(procs, p)
  BY <1>1, <1>10, <1>13 DEF Live
<1>14. Running' => Live(procs', current')
  BY <1>10 DEF IInv, Live, Running
<1>15. ASSUME at' = "shell" PROVE Unheard(procs', current')
  <2>1. Unheard(procs, current) /\ current # pid
    BY <1>2, <1>3, <1>15 DEF IInv
  <2>2. ASSUME current \in Known(procs)
        PROVE  ~Live(procs', current) /\ ~Live(procs', procs[current].parent)
    <3>1. procs[current].parent < pid /\ procs[current].parent \in 0 .. MaxPid
      BY <1>2, <2>2 DEF Family, Proc
    <3>2. procs[current].parent # pid
      BY <1>3, <3>1, ProcessAssumption
    <3>. QED
      BY <1>13, <2>1, <2>2, <3>2 DEF Unheard
  <2>. QED
    BY <1>1, <1>10, <2>1, <2>2 DEF Unheard
<1>. QED
  BY <1>7, <1>9, <1>11, <1>12, <1>14, <1>15 DEF IInv

\* fork, exec and the commands that start a program keep the invariant.
LEMMA SpawnStep ==
  ASSUME IInv, fork \/ sys_exec \/ cmd_spawn
  PROVE  IInv'
<1>1. /\ next_pid \in 1 .. MaxPid + 1 /\ current \in 0 .. MaxPid /\ current < next_pid
      /\ RestOK
  BY Zenon, TableIsHealthy DEF IInv, TypeOK
<1> DEFINE fresh == [regs |-> "zero", stale |-> FALSE]
<1>2. fresh \in Frame
  BY DEF Frame
<1>3. CASE fork
  <2>1. procs[current].frame \in Frame
    BY Zenon, <1>3 DEF fork, IInv, Live, TypeOK, Proc
  <2>2. /\ Insert(next_pid, current, procs[current].frame) /\ next_pid \in Pid
        /\ current' = current /\ at' = at
    BY <1>3 DEF fork
  <2>3. RestOK'
    BY Zenon, <1>1, <1>3 DEF fork, RestOK
  <2>. QED
    BY <1>1, <2>1, <2>2, <2>3, InsertStep
<1>4. CASE sys_exec
  <2>1. /\ Insert(next_pid, current, fresh) /\ next_pid \in Pid
        /\ current' = current /\ at' = at
    BY <1>4 DEF sys_exec, spawn_from_elf
  <2>2. RestOK'
    BY Zenon, <1>1, <1>4 DEF sys_exec, RestOK
  <2>. QED
    BY <1>1, <1>2, <2>1, <2>2, InsertStep
<1>5. CASE cmd_spawn
  <2>1. RestOK' /\ at' = at
    BY Zenon, <1>1, <1>5 DEF cmd_spawn, RestOK
  <2>2. CASE next_pid \in Pid
    <3>1. /\ Insert(next_pid, 0, fresh) /\ current' = current
      BY <1>5, <2>2 DEF cmd_spawn, spawn_from_elf
    <3>2. 0 \in 0 .. MaxPid /\ 0 < next_pid
      BY <1>1, ProcessAssumption
    <3>. QED
      BY <1>2, <2>1, <2>2, <3>1, <3>2, InsertStep
  <2>3. CASE next_pid \notin Pid
    <3>1. UNCHANGED table
      BY Zenon, <1>5, <2>3 DEF cmd_spawn
    <3>. QED
      BY Zenon, <2>1, <3>1 DEF IInv, TypeOK, RestOK, table, Family, Running, RunnableIsQueued
  <2>. QED
    BY <2>2, <2>3
<1>. QED
  BY <1>3, <1>4, <1>5

\* A step that leaves table and processor alone.
LEMMA IdleStep ==
  ASSUME IInv, UNCHANGED table, RestOK',
         at' = at \/ (at = "shell" /\ at' = "spinning") \/ (at = "user" /\ at' = "waiting")
  PROVE  IInv'
<1>1. procs' = procs /\ runnable' = runnable /\ current' = current /\ next_pid' = next_pid
  BY DEF table
<1>2. TypeOK'
  BY Zenon, <1>1 DEF IInv, TypeOK, RestOK
<1>3. RunnableIsQueued'
  BY <1>1 DEF IInv, RunnableIsQueued, Running
<1>. QED
  BY <1>1, <1>2, <1>3 DEF IInv, Family, Running

\* kill, from ring 3 or from the shell, keeps the invariant.
LEMMA KillStep ==
  ASSUME IInv, NEW pid \in Pid, kill(pid), at' = at, RestOK'
  PROVE  IInv'
<1> DEFINE wake == WakesOnKill(procs[pid])
<1>1. /\ pid \in Known(procs) /\ procs[pid].signals < MaxSignal
      /\ procs' = [procs EXCEPT ![pid].signals = @ + 1,
                                ![pid].state = IF wake THEN "Runnable" ELSE @]
      /\ runnable' = (IF wake THEN Append(runnable, pid) ELSE runnable)
      /\ current' = current /\ next_pid' = next_pid
  BY DEF kill
<1>2. /\ procs \in [Known(procs) -> Proc] /\ runnable \in Seq(Pid) /\ Family(procs)
  BY Zenon DEF IInv, TypeOK
<1>3. wake <=> procs[pid].state = "Sleeping"
  BY DEF WakesOnKill
<1>4. procs[pid] \in Proc /\ procs[pid].signals + 1 \in 0 .. MaxSignal
  BY <1>1, <1>2, ProcessAssumption DEF Proc
<1>. HIDE DEF wake
<1>5. /\ Known(procs') = Known(procs)
      /\ procs' \in [Known(procs) -> Proc]
      /\ \A p \in Known(procs) :
           /\ procs'[p].state = IF p = pid /\ wake THEN "Runnable" ELSE procs[p].state
           /\ procs'[p].code = procs[p].code
           /\ procs'[p].parent = procs[p].parent
           /\ procs'[p].children_exited = procs[p].children_exited
  <2> DEFINE st == IF wake THEN "Runnable" ELSE procs[pid].state
  <2>1. st \in {"Runnable", "Sleeping", "Zombie"}
    BY <1>4 DEF Proc
  <2>2. procs'[pid] = [procs[pid] EXCEPT !.signals = procs[pid].signals + 1, !.state = st]
    BY <1>1, <1>2, <1>4 DEF Known, Proc
  <2>3. Known(procs') = Known(procs) /\ \A p \in Known(procs) \ {pid} : procs'[p] = procs[p]
    BY <1>1, <1>2 DEF Known
  <2>4. /\ procs'[pid] \in Proc /\ procs'[pid].state = st
        /\ procs'[pid].code = procs[pid].code
        /\ procs'[pid].parent = procs[pid].parent
        /\ procs'[pid].children_exited = procs[pid].children_exited
    <3>. HIDE DEF st
    <3>. QED
      BY ZenonT(30), <1>4, <2>1, <2>2 DEF Proc
  <2>5. procs' \in [Known(procs) -> Proc]
    BY <1>1, <1>2, <2>3, <2>4 DEF Known
  <2>. QED
    BY Zenon, <2>3, <2>4, <2>5
<1>6. /\ runnable' \in Seq(Pid) /\ Queued(runnable) \subseteq Queued(runnable')
      /\ wake => pid \in Queued(runnable')
  BY <1>1, <1>2, AppendQueued
<1>7. \A p : Live(procs', p) <=> Live(procs, p)
  BY <1>3, <1>5 DEF Live
<1>8. TypeOK'
  BY Zenon, <1>1, <1>5, <1>6 DEF IInv, TypeOK, RestOK
<1>9. RunnableIsQueued'
  BY <1>1, <1>3, <1>5, <1>6 DEF IInv, RunnableIsQueued, IsRunnable, Running
<1>10. Family(procs)'
  <2>1. \A p \in Known(procs) : procs'[p].state = "Sleeping" => procs'[p].children_exited = << >>
    BY <1>2, <1>5 DEF Family
  <2>2. ASSUME NEW p \in Known(procs), ExactReports(procs, p) PROVE ExactReports(procs', p)
    <3>1. \A c \in Known(procs) : procs[c].state = "Zombie" => procs'[c].state = "Zombie"
      BY <1>3, <1>5
    <3>2. SameDead(procs, procs', Known(procs)) /\ procs'[p].children_exited = procs[p].children_exited
      BY Zenon, <1>5, <3>1 DEF SameDead
    <3>. QED
      BY Zenon, <2>2, <3>2, KeptReports, ReportsKnown
  <2>. QED
    BY ZenonT(30), <1>1, <1>2, <1>5, <1>7, <2>1, <2>2 DEF Family
<1>11. Unheard(procs, current) => Unheard(procs', current')
  BY Zenon, <1>1, <1>5, <1>7 DEF Unheard
<1>. QED
  BY Zenon, <1>1, <1>7, <1>8, <1>9, <1>10, <1>11 DEF IInv, Running

\* A reaped child is dead, so it is not the caller, and only its parent's
\* reports name it.
LEMMA WaitStep ==
  ASSUME IInv, wait_any
  PROVE  IInv'
<1> DEFINE reports == procs[current].children_exited
<1>1. /\ Running /\ runnable' = runnable /\ current' = current /\ next_pid' = next_pid
      /\ at' = at
  BY DEF wait_any
<1>2. RestOK'
  BY Zenon, TableIsHealthy DEF wait_any, RestOK
<1>3. /\ procs \in [Known(procs) -> Proc] /\ Family(procs) /\ Live(procs, current)
      /\ Known(procs) \subseteq 1 .. next_pid - 1
  BY Zenon, <1>1 DEF IInv, TypeOK
<1>4. /\ current \in Known(procs) /\ procs[current] \in Proc /\ reports \in Seq(Exit)
      /\ ExactReports(procs, current) /\ procs[current].state # "Zombie"
  BY <1>3 DEF Live, Family, Proc
<1>5. ASSUME procs' \in [Known(procs') -> Proc], Known(procs') \subseteq Known(procs),
             Family(procs'), Live(procs', current),
             \A p \in Known(procs') : IsRunnable(procs', p) => IsRunnable(procs, p)
      PROVE  IInv'
  <2>1. TypeOK'
    BY Zenon, <1>1, <1>2, <1>3, <1>5 DEF IInv, TypeOK, RestOK
  <2>2. RunnableIsQueued'
    BY <1>1, <1>5 DEF IInv, RunnableIsQueued, Running
  <2>3. Family(procs)'
    BY <1>1, <1>5 DEF Family
  <2>. QED
    BY Zenon, <1>1, <1>5, <2>1, <2>2, <2>3 DEF IInv, Running
<1>6. CASE reports = << >>
  <2>1. procs' = [procs EXCEPT ![current].state = "Sleeping"]
    BY <1>6 DEF wait_any
  <2>2. /\ Known(procs') = Known(procs) /\ procs' \in [Known(procs) -> Proc]
        /\ \A p \in Known(procs) :
             /\ procs'[p].state = IF p = current THEN "Sleeping" ELSE procs[p].state
             /\ procs'[p].code = procs[p].code
             /\ procs'[p].parent = procs[p].parent
             /\ procs'[p].children_exited = procs[p].children_exited
    BY Zenon, <1>3, <1>4, <2>1 DEF Known, Proc
  <2>3. ASSUME NEW p \in Known(procs), ExactReports(procs, p) PROVE ExactReports(procs', p)
    <3>1. \A c \in Known(procs) : procs[c].state = "Zombie" => procs'[c].state = "Zombie"
      BY <1>4, <2>2
    <3>2. SameDead(procs, procs', Known(procs)) /\ procs'[p].children_exited = procs[p].children_exited
      BY Zenon, <2>2, <3>1 DEF SameDead
    <3>. QED
      BY Zenon, <2>3, <3>2, KeptReports, ReportsKnown
  <2>4. \A p : Live(procs', p) <=> Live(procs, p)
    BY Zenon, <1>4, <2>2 DEF Live
  <2>5. Family(procs')
    BY Zenon, <1>3, <1>6, <2>2, <2>3, <2>4 DEF Family
  <2>. QED
    BY <1>3, <1>5, <2>2, <2>4, <2>5 DEF IsRunnable
<1>7. CASE reports # << >>
  <2> DEFINE child == Head(reports).pid
  <2>1. procs' = [p \in Known(procs) \ {child} |->
                    IF p = current
                    THEN [procs[p] EXCEPT !.children_exited = Tail(reports)]
                    ELSE procs[p]]
    BY <1>7 DEF wait_any, Reaped
  <2>2. /\ Tail(reports) \in Seq(Exit) /\ Len(reports) \in Nat /\ Len(reports) > 0
        /\ DOMAIN reports = 1 .. Len(reports)
        /\ DOMAIN Tail(reports) = 1 .. Len(reports) - 1
        /\ \A i \in 1 .. Len(reports) - 1 : Tail(reports)[i] = reports[i + 1]
        /\ Head(reports) = reports[1]
    <3>. HIDE DEF reports
    <3>. QED
      BY SMTT(30), <1>4, <1>7
  <2>3. child \in Known(procs) /\ procs[child].state = "Zombie" /\ procs[child].parent = current
    <3>1. 1 \in DOMAIN reports /\ child = reports[1].pid
      <4>. HIDE DEF reports
      <4>. QED
        BY <2>2
    <3>. QED
      BY <1>4, <3>1, ReportFacts
  <2>4. child # current
    BY <1>4, <2>3
  <2>. HIDE DEF child
  <2>5. /\ Known(procs') = Known(procs) \ {child}
        /\ procs' \in [Known(procs) \ {child} -> Proc]
        /\ \A p \in Known(procs) \ {child} :
             /\ procs'[p].state = procs[p].state
             /\ procs'[p].code = procs[p].code
             /\ procs'[p].parent = procs[p].parent
             /\ procs'[p].children_exited =
                  IF p = current THEN Tail(reports) ELSE procs[p].children_exited
    <3>0. DOMAIN procs' = Known(procs) \ {child}
      BY <2>1
    <3>1. procs'[current] = [procs[current] EXCEPT !.children_exited = Tail(reports)]
      BY <1>4, <2>1, <2>4
    <3>2. \A p \in Known(procs) \ {child, current} : procs'[p] = procs[p]
      BY <2>1
    <3>3. /\ procs'[current] \in Proc
          /\ procs'[current].state = procs[current].state
          /\ procs'[current].code = procs[current].code
          /\ procs'[current].parent = procs[current].parent
          /\ procs'[current].children_exited = Tail(reports)
      <4>. HIDE DEF reports
      <4>. QED
        BY Zenon, <1>4, <2>2, <3>1 DEF Proc
    <3>4. procs' \in [Known(procs) \ {child} -> Proc]
      BY Zenon, <1>3, <2>1, <3>2, <3>3
    <3>. QED
      BY <3>0, <3>2, <3>3, <3>4 DEF Known
  <2>6. \A p \in Known(procs') : Live(procs', p) => Live(procs, p)
    BY <2>5 DEF Live
  <2>7. ASSUME NEW p \in Known(procs'), Live(procs', p) PROVE ExactReports(procs', p)
    <3>1. ExactReports(procs, p) /\ p \in Known(procs)
      BY SMTT(30), <1>3, <2>5, <2>6, <2>7 DEF Family
    <3>2. CASE p # current
      <4>1. procs'[p].children_exited = procs[p].children_exited
        BY Zenon, <2>5, <3>2
      <4>2. \A i \in DOMAIN procs[p].children_exited :
              procs[p].children_exited[i].pid # child
        BY Zenon, <2>3, <3>1, <3>2 DEF ExactReports
      <4>3. ReportsIn(procs, p, Known(procs) \ {child})
        BY Zenon, <3>1, <4>2, ReportsKnown DEF ReportsIn
      <4>4. SameDead(procs, procs', Known(procs) \ {child})
        BY Zenon, <2>5 DEF SameDead
      <4>. QED
        BY Zenon, <3>1, <4>1, <4>3, <4>4, KeptReports
    <3>3. CASE p = current
      <4> DEFINE rest == Tail(reports)
      <4>1. procs'[p].children_exited = rest
        BY SMTT(30), <2>5, <3>3
      <4>2. /\ \A i, j \in DOMAIN reports : reports[i].pid = reports[j].pid => i = j
            /\ \A i \in DOMAIN reports :
                 /\ reports[i].pid \in Known(procs) /\ procs[reports[i].pid].state = "Zombie"
                 /\ procs[reports[i].pid].parent = current
                 /\ procs[reports[i].pid].code = reports[i].code
        BY Zenon, <1>4 DEF ExactReports
      <4>. HIDE DEF reports
      <4>3. \A i \in DOMAIN rest :
              i + 1 \in DOMAIN reports /\ rest[i] = reports[i + 1] /\ reports[i + 1].pid # child
        <5>1. child = reports[1].pid
          BY Zenon, <2>2 DEF child
        <5>. QED
          BY <2>2, <4>2, <5>1
      <4>4. \A i, j \in DOMAIN rest : rest[i].pid = rest[j].pid => i = j
        BY SMTT(30), <2>2, <4>2, <4>3
      <4>5. \A i \in DOMAIN rest :
              /\ rest[i].pid \in Known(procs') /\ procs'[rest[i].pid].state = "Zombie"
              /\ procs'[rest[i].pid].parent = current
              /\ procs'[rest[i].pid].code = rest[i].code
        BY <2>5, <4>2, <4>3
      <4>. HIDE DEF rest
      <4>. QED
        BY ZenonT(30), <3>3, <4>1, <4>4, <4>5 DEF ExactReports
    <3>. QED
      BY Zenon, <3>2, <3>3
  <2>8. \A p \in Known(procs') : procs'[p].state = "Sleeping" => procs'[p].children_exited = << >>
    BY Zenon, <1>3, <1>4, <1>7, <2>5 DEF Family
  <2>9. Family(procs')
    BY Zenon, <1>3, <2>5, <2>7, <2>8 DEF Family
  <2>10. Live(procs', current)
    BY <1>4, <2>4, <2>5 DEF Live
  <2>. QED
    BY <1>5, <2>5, <2>9, <2>10 DEF IsRunnable
<1>. QED
  BY <1>6, <1>7

\* A new frame for x, and a stale mark on it or not, change nothing else.
LEMMA NewFrame ==
  ASSUME NEW ps, ps \in [Known(ps) -> Proc], NEW x \in Known(ps), NEW f \in Frame
  PROVE  LET ps2 == [ps EXCEPT ![x].frame = f]
         IN ps2 \in [Known(ps) -> Proc] /\ SameFamily(ps, ps2)
BY ZenonT(30) DEF Known, Proc, SameFamily

\* Taking a signal off the queue changes nothing else of the table.
LEMMA OneSignalLess ==
  ASSUME NEW ps, ps \in [Known(ps) -> Proc], NEW x \in Known(ps), ps[x].signals > 0
  PROVE  LET ps2 == [ps EXCEPT ![x].signals = @ - 1]
         IN ps2 \in [Known(ps) -> Proc] /\ SameFamily(ps, ps2)
<1>1. ps[x] \in Proc /\ ps[x].signals - 1 \in 0 .. MaxSignal
  BY ProcessAssumption DEF Proc
<1>. QED
  BY Zenon, <1>1 DEF Known, Proc, SameFamily

\* Such a change leaves the table fit for schedule_next.
LEMMA SameFamilyIsHealthy ==
  ASSUME NEW ps, NEW ps2, NEW q, Healthy(ps, q), SameFamily(ps, ps2),
         ps2 \in [Known(ps) -> Proc]
  PROVE  Healthy(ps2, q)
<1>1. Known(ps2) = Known(ps)
  BY Zenon DEF SameFamily
<1>. QED
  BY <1>1, SameFamilyHealthy DEF Healthy

\* A signal delivered by the tick keeps the invariant, one for a stale `current`
\* included.
LEMMA DeliverStep ==
  ASSUME IInv, tick_delivers
  PROVE  IInv'
<1> DEFINE ps == [procs EXCEPT ![current].signals = @ - 1]
<1>1. /\ exit_current(ps, current, "signal") /\ in_service' = TRUE
      /\ current \in Known(procs) /\ procs[current].signals > 0
      /\ at \in {"user", "shell"}
  BY DEF tick_delivers, Tick, Pending
<1>2. Healthy(procs, runnable)
  BY TableIsHealthy
<1>3. ps \in [Known(procs) -> Proc] /\ SameFamily(procs, ps)
  BY Zenon, <1>1, <1>2, OneSignalLess DEF Healthy
<1>. HIDE DEF ps
<1>4. Healthy(ps, runnable) /\ current \in Known(ps)
  BY <1>1, <1>2, <1>3, SameFamilyIsHealthy DEF SameFamily
<1>5. Live(ps, current) \/ Unheard(ps, current)
  BY Zenon, <1>1, <1>3, SameFamilyHealthy DEF IInv, Running
<1>6. \A p \in Known(ps) : IsRunnable(ps, p) => p \in Queued(runnable) \/ p = current
  BY <1>3, SameFamilyHealthy DEF SameFamily, IInv, RunnableIsQueued
<1>7. "signal" \in Code /\ in_service' \in BOOLEAN
  BY <1>1 DEF Code
<1>. QED
  BY <1>1, <1>4, <1>5, <1>6, <1>7, ExitIInv

\* Preemption keeps the invariant.
LEMMA RescheduleStep ==
  ASSUME IInv, tick_reschedules
  PROVE  IInv'
<1> DEFINE saved == [procs EXCEPT ![current].frame = [regs |-> "saved", stale |-> FALSE]]
<1> DEFINE q == Requeue(procs, runnable, current)
<1>1. /\ Running /\ at' = "user" /\ next_pid' = next_pid
      /\ IF NothingToPick(saved, q)
         THEN /\ runnable' = << >>
              /\ procs' = [saved EXCEPT ![current].frame.stale = TRUE]
              /\ UNCHANGED <<current, resumed>>
         ELSE \E i \in DOMAIN q :
              /\ PickedAt(saved, q, i)
              /\ current' = q[i]
              /\ runnable' = SubSeq(q, i + 1, Len(q))
              /\ procs' = [saved EXCEPT ![q[i]].frame.stale = TRUE]
              /\ resumed' = IF saved[q[i]].frame.stale THEN "at an old point" ELSE "as left"
  BY Zenon DEF tick_reschedules, Running
<1>2. Healthy(procs, runnable) /\ RestOK
  BY TableIsHealthy
<1>3. RestOK'
  <2>1. /\ ints' = ints /\ op' = op /\ kernel_ctx' = kernel_ctx /\ in_service' = in_service
        /\ resumed' \in {resumed, "at an old point", "as left"}
    BY Zenon DEF tick_reschedules
  <2>. QED
    BY Zenon, <1>2, <2>1 DEF RestOK
<1>4. Live(procs, current) /\ current \in Known(procs)
  BY Zenon, <1>1 DEF IInv, Live
<1>5. saved \in [Known(procs) -> Proc] /\ SameFamily(procs, saved)
  <2>1. [regs |-> "saved", stale |-> FALSE] \in Frame
    BY DEF Frame
  <2>. QED
    BY Zenon, <1>2, <1>4, <2>1, NewFrame DEF Healthy
<1>. HIDE DEF saved
<1>6. current \in Pid /\ current \in 1 .. next_pid - 1 /\ next_pid \in 1 .. MaxPid + 1
  <2>1. current \in 1 .. next_pid - 1
    BY <1>2, <1>4 DEF Healthy
  <2>2. next_pid \in 1 .. MaxPid + 1
    BY Zenon DEF IInv, TypeOK
  <2>. QED
    BY <2>1, <2>2, ProcessAssumption DEF Pid
<1>7. /\ q \in Seq(Pid) /\ Queued(runnable) \subseteq Queued(q)
      /\ IsRunnable(procs, current) => current \in Queued(q)
  BY <1>2, <1>6, AppendQueued DEF Requeue, Healthy
<1>. HIDE DEF q
<1>8. Healthy(saved, q) /\ Known(saved) = Known(procs)
  <2>1. Healthy(saved, runnable) /\ Known(saved) = Known(procs)
    BY <1>2, <1>5, SameFamilyIsHealthy DEF SameFamily
  <2>. QED
    BY <1>7, <2>1 DEF Healthy
<1>9. \A p \in Known(saved) : IsRunnable(saved, p) => p \in Queued(q)
  <2>1. \A p : IsRunnable(saved, p) <=> IsRunnable(procs, p)
    BY <1>5, SameFamilyHealthy
  <2>2. \A p \in Known(procs) : IsRunnable(procs, p) => p \in Queued(runnable) \/ p = current
    BY DEF IInv, RunnableIsQueued
  <2>. QED
    BY Zenon, <1>7, <1>8, <2>1, <2>2
<1>10. CASE NothingToPick(saved, q)
  <2>1. /\ runnable' = << >> /\ current' = current
        /\ procs' = [saved EXCEPT ![current].frame.stale = TRUE]
    BY <1>1, <1>10
  <2>2. procs' \in [Known(saved) -> Proc] /\ SameFamily(saved, procs')
    BY Zenon, <1>4, <1>8, <2>1, MarkStale DEF Healthy
  <2>3. Healthy(procs', runnable) /\ Known(procs') = Known(procs)
    <3>1. Healthy(saved, runnable)
      BY Zenon, <1>2, <1>8 DEF Healthy
    <3>. QED
      BY <1>8, <2>2, <3>1, SameFamilyIsHealthy DEF SameFamily
  <2>4. \A p : ~IsRunnable(procs', p)
    <3>1. \A p : ~IsRunnable(saved, p)
      BY <1>9, <1>10 DEF NothingToPick, Queued, IsRunnable
    <3>. QED
      BY Zenon, <2>2, <3>1, SameFamilyHealthy
  <2>5. Live(procs', current')
    <3>1. Live(saved, current)
      BY ZenonT(30), <1>4, <1>5, SameFamilyHealthy
    <3>2. Live(procs', current)
      BY <2>2, <3>1, SameFamilyHealthy
    <3>. QED
      BY <2>1, <3>2
  <2>6. TypeOK' /\ current' < next_pid'
    <3>0. << >> \in Seq(Pid)
      OBVIOUS
    <3>1. current' < next_pid' /\ current' \in 0 .. MaxPid
      <4>1. current' = current /\ next_pid' = next_pid
        BY Zenon, <1>1, <2>1
      <4>2. current < next_pid /\ current \in 0 .. MaxPid
        BY Zenon DEF IInv, TypeOK
      <4>. QED
        BY <4>1, <4>2
    <3>2. Known(procs') \subseteq 1 .. next_pid' - 1 /\ procs' \in [Known(procs') -> Proc]
      BY Zenon, <1>1, <2>3 DEF Healthy
    <3>. QED
      BY Zenon, <1>1, <1>3, <1>6, <2>1, <3>0, <3>1, <3>2 DEF TypeOK, RestOK
  <2>7. RunnableIsQueued'
    BY <2>4 DEF RunnableIsQueued
  <2>8. Family(procs)'
    BY Zenon, <1>1, <2>3 DEF Healthy, Family
  <2>. QED
    BY Zenon, <1>1, <2>5, <2>6, <2>7, <2>8 DEF IInv
<1>11. CASE ~NothingToPick(saved, q)
  <2>1. PICK i \in DOMAIN q :
          /\ PickedAt(saved, q, i)
          /\ current' = q[i]
          /\ runnable' = SubSeq(q, i + 1, Len(q))
          /\ procs' = [saved EXCEPT ![q[i]].frame.stale = TRUE]
    BY Zenon, <1>1, <1>11
  <2>2. Picks(saved, q, i)
    BY Zenon, <1>1, <2>1 DEF Picks
  <2>. QED
    BY <1>3, <1>8, <1>9, <2>2, PickIInv
<1>. QED
  BY Zenon, <1>10, <1>11

\* Every step keeps the inductive invariant.
LEMMA NextIInv == IInv /\ [Next]_vars => IInv'
<1>. SUFFICES ASSUME IInv, [Next]_vars PROVE IInv'
  OBVIOUS
<1>1. RestOK /\ Healthy(procs, runnable)
  BY TableIsHealthy
<1>2. CASE sys_exit \/ current_fault_kill
  BY <1>2, ExitStep
<1>3. CASE fork \/ sys_exec \/ cmd_spawn
  BY <1>3, SpawnStep
<1>4. CASE wait_any
  BY <1>4, WaitStep
<1>5. CASE sys_kill
  <2>1. PICK pid \in Pid : kill(pid)
    BY <1>5 DEF sys_kill
  <2>2. at' = at /\ RestOK'
    BY Zenon, <1>1, <1>5 DEF sys_kill, RestOK
  <2>. QED
    BY <2>1, <2>2, KillStep
<1>6. CASE cmd_killu
  <2>1. at' = at /\ RestOK'
    BY Zenon, <1>1, <1>6 DEF cmd_killu, RestOK
  <2>2. CASE \E pid \in Pid : kill(pid)
    BY <2>1, <2>2, KillStep
  <2>3. CASE UNCHANGED table
    BY <2>1, <2>3, IdleStep
  <2>. QED
    BY <1>6, <2>2, <2>3 DEF cmd_killu
<1>7. CASE tick_delivers
  BY <1>7, DeliverStep
<1>8. CASE tick_reschedules
  BY <1>8, RescheduleStep
<1>9. CASE tick_spins
  <2>1. UNCHANGED table /\ at = "shell" /\ at' = "spinning" /\ RestOK'
    BY Zenon, <1>1, <1>9 DEF tick_spins, RestOK
  <2>. QED
    BY <2>1, IdleStep
<1>10. CASE (\E o \in Locked : shell_locks(o)) \/ cmd_psu \/ shell_idles
  <2>1. UNCHANGED table /\ at' = at /\ RestOK'
    BY Zenon, <1>1, <1>10 DEF shell_locks, cmd_psu, shell_idles, RestOK
  <2>. QED
    BY <2>1, IdleStep
<1>11. CASE run_until_all_exit
  <2>1. /\ at = "shell" /\ schedule_next(procs, runnable, TRUE) /\ next_pid' = next_pid
        /\ op' = "idle" /\ in_service' = in_service
    BY Zenon, <1>11 DEF run_until_all_exit
  <2>2. \A p \in Known(procs) : IsRunnable(procs, p) => p \in Queued(runnable)
    BY <2>1 DEF IInv, RunnableIsQueued, Running
  <2>3. Unheard(procs, current)
    BY <2>1 DEF IInv
  <2>4. TRUE \in BOOLEAN /\ op' \in Locked \cup {"idle", "run"} /\ in_service' \in BOOLEAN
    BY Zenon, <1>1, <2>1 DEF RestOK
  <2>. QED
    BY Zenon, <1>1, <2>1, <2>2, <2>3, <2>4, ScheduleIInv
<1>12. CASE UNCHANGED vars
  <2>1. UNCHANGED table /\ at' = at /\ RestOK'
    BY Zenon, <1>1, <1>12 DEF vars, table, RestOK
  <2>. QED
    BY <2>1, IdleStep
<1>13. CASE sys_sleep_ms
  <2>1. UNCHANGED table /\ at = "user" /\ at' = "waiting" /\ RestOK'
    BY Zenon, <1>1, <1>13 DEF sys_sleep_ms, Running, RestOK
  <2>. QED
    BY <2>1, IdleStep
<1>. QED
  BY <1>2, <1>3, <1>4, <1>5, <1>6, <1>7, <1>8, <1>9, <1>10, <1>11, <1>12, <1>13 DEF Next

\* The inductive invariant holds in every reachable state.
THEOREM Invariance == Spec => []IInv
BY InitIInv, NextIInv, PTL DEF Spec

\* The process table, the run queue and NEXT_PID keep their types.
THEOREM TypeCorrectness == Spec => []TypeOK
<1>1. IInv => TypeOK
  BY DEF IInv
<1>. QED
  BY <1>1, Invariance, PTL

\* For any number of processes, pick_next, wake-ups and requeueing lose no
\* Runnable process.
THEOREM NoRunnableLost == Spec => []RunnableIsQueued
<1>1. IInv => RunnableIsQueued
  BY Zenon DEF IInv
<1>. QED
  BY <1>1, Invariance, PTL

\* wait_any and exit_current never leave a sleeper with a report to read.
THEOREM WakeupSafety == Spec => []NoLostWakeup
<1>1. IInv => NoLostWakeup
  BY Zenon DEF IInv, Family, NoLostWakeup
<1>. QED
  BY <1>1, Invariance, PTL

\* What wait returns to a live parent is a child of its own, once, with its code.
THEOREM ExactWait == Spec => []ReportsAreExact
<1>1. IInv => ReportsAreExact
  BY DEF IInv, Family, ReportsAreExact, Live
<1>. QED
  BY <1>1, Invariance, PTL

-----------------------------------------------------------------------------
(* Zombies *)

StayDead(ps, ps2) ==
  \A p \in Known(ps) : ps[p].state = "Zombie" /\ p \in Known(ps2) => ps2[p].state = "Zombie"

\* schedule_next revives no zombie.
LEMMA ScheduleStaysDead ==
  ASSUME NEW ps, ps \in [Known(ps) -> Proc], NEW q, NEW ctx, schedule_next(ps, q, ctx)
  PROVE  StayDead(ps, procs')
<1>1. CASE procs' = ps
  BY <1>1 DEF StayDead
<1>2. CASE procs' # ps
  <2>1. PICK i \in DOMAIN q :
          PickedAt(ps, q, i) /\ procs' = [ps EXCEPT ![q[i]].frame.stale = TRUE]
    BY Zenon, <1>2 DEF schedule_next
  <2>2. q[i] \in Known(ps)
    BY <2>1 DEF PickedAt, IsRunnable
  <2>3. SameFamily(ps, procs')
    BY Zenon, <2>1, <2>2, MarkStale
  <2>. QED
    BY <2>3 DEF SameFamily, StayDead
<1>. QED
  BY <1>1, <1>2

\* exit_current revives no zombie when it wakes a parent.
LEMMA ExitStaysDead ==
  ASSUME NEW ps, ps \in [Known(ps) -> Proc], Known(ps) \subseteq Pid,
         NEW pid \in Known(ps), NEW code \in Code, exit_current(ps, pid, code)
  PROVE  StayDead(ps, procs')
<1> DEFINE told == Told(ps, pid, code)
<1>1. told \in [Known(told) -> Proc] /\ Known(told) = Known(ps) /\ StayDead(ps, told)
  <2>1. ToldFields(ps, pid, code, told)
    BY Zenon, ToldIsExact
  <2>. HIDE DEF told
  <2>2. told \in [Known(told) -> Proc] /\ Known(told) = Known(ps)
    BY ZenonT(30), <2>1 DEF ToldFields
  <2>3. StayDead(ps, told)
    BY <2>1 DEF StayDead, Wakes, ToldFields
  <2>. QED
    BY <2>2, <2>3
<1>2. PICK q : schedule_next(told, q, kernel_ctx)
  BY ExitTells
<1>. HIDE DEF told
<1>3. StayDead(told, procs')
  BY <1>1, <1>2, ScheduleStaysDead
<1>. QED
  BY <1>1, <1>3 DEF StayDead

\* No step from a state of the invariant revives a zombie.
LEMMA NextStaysDead ==
  ASSUME IInv, [Next]_vars
  PROVE  StayDead(procs, procs')
<1>1. /\ procs \in [Known(procs) -> Proc] /\ RestOK
      /\ Running => Live(procs, current) /\ current \in Known(procs)
  BY Zenon, TableIsHealthy DEF IInv, TypeOK, Live
<1>2. Known(procs) \subseteq Pid
  <2>1. Known(procs) \subseteq 1 .. next_pid - 1
    BY Zenon DEF IInv, TypeOK
  <2>2. next_pid \in 1 .. MaxPid + 1
    BY Zenon DEF IInv, TypeOK
  <2>. QED
    BY <2>1, <2>2, ProcessAssumption DEF Pid
<1>3. CASE sys_exit \/ current_fault_kill
  <2>1. PICK code \in Code : exit_current(procs, current, code)
    BY <1>3 DEF sys_exit, current_fault_kill, Code
  <2>2. Running
    BY <1>3 DEF sys_exit, current_fault_kill
  <2>. QED
    BY <1>1, <1>2, <2>1, <2>2, ExitStaysDead
<1>4. CASE tick_delivers
  <2> DEFINE ps == [procs EXCEPT ![current].signals = @ - 1]
  <2>1. /\ exit_current(ps, current, "signal") /\ "signal" \in Code
        /\ current \in Known(procs) /\ procs[current].signals > 0
    BY <1>4 DEF tick_delivers, Pending, Code
  <2>2. ps \in [Known(procs) -> Proc] /\ SameFamily(procs, ps)
    BY Zenon, <1>1, <2>1, OneSignalLess
  <2>. HIDE DEF ps
  <2>3. Known(ps) = Known(procs)
    BY <2>2 DEF SameFamily
  <2>4. StayDead(ps, procs')
    BY <1>2, <2>1, <2>2, <2>3, ExitStaysDead
  <2>. QED
    BY <2>2, <2>4 DEF SameFamily, StayDead
<1>5. CASE run_until_all_exit
  <2>1. schedule_next(procs, runnable, TRUE)
    BY Zenon, <1>5 DEF run_until_all_exit
  <2>. QED
    BY Zenon, <1>1, <2>1, ScheduleStaysDead
<1>6. CASE tick_reschedules
  <2> DEFINE saved == [procs EXCEPT ![current].frame = [regs |-> "saved", stale |-> FALSE]]
  <2> DEFINE q == Requeue(procs, runnable, current)
  <2>1. Running /\ current \in Known(procs)
    BY Zenon, <1>1, <1>6 DEF tick_reschedules, Running
  <2>2. saved \in [Known(procs) -> Proc] /\ SameFamily(procs, saved)
    <3>1. [regs |-> "saved", stale |-> FALSE] \in Frame
      BY DEF Frame
    <3>. QED
      BY Zenon, <1>1, <2>1, <3>1, NewFrame
  <2>3. \E x \in Known(saved) : procs' = [saved EXCEPT ![x].frame.stale = TRUE]
    <3>1. CASE NothingToPick(saved, q)
      BY <1>6, <2>1, <2>2, <3>1 DEF tick_reschedules, SameFamily
    <3>2. CASE ~NothingToPick(saved, q)
      <4>1. PICK i \in DOMAIN q :
              PickedAt(saved, q, i) /\ procs' = [saved EXCEPT ![q[i]].frame.stale = TRUE]
        BY Zenon, <1>6, <3>2 DEF tick_reschedules
      <4>. QED
        BY Zenon, <4>1 DEF PickedAt, IsRunnable
    <3>. QED
      BY Zenon, <3>1, <3>2
  <2>. HIDE DEF saved
  <2>4. SameFamily(saved, procs')
    <3>1. saved \in [Known(saved) -> Proc]
      BY <2>2 DEF SameFamily
    <3>2. PICK x \in Known(saved) : procs' = [saved EXCEPT ![x].frame.stale = TRUE]
      BY Zenon, <2>3
    <3>. QED
      BY Zenon, <3>1, <3>2, MarkStale
  <2>. QED
    BY <2>2, <2>4 DEF SameFamily, StayDead
<1>7. CASE fork \/ sys_exec \/ cmd_spawn
  <2>1. CASE procs' = procs
    BY Zenon, <2>1 DEF StayDead
  <2>2. CASE procs' # procs
    <3>1. PICK parent, frame : Insert(next_pid, parent, frame)
      BY <1>7, <2>2 DEF fork, sys_exec, cmd_spawn, spawn_from_elf, table
    <3>2. next_pid \notin Known(procs)
      <4>1. Known(procs) \subseteq 1 .. next_pid - 1 /\ next_pid \in 1 .. MaxPid + 1
        BY Zenon DEF IInv, TypeOK
      <4>. QED
        BY <4>1, ProcessAssumption
    <3>. QED
      BY Zenon, <3>1, <3>2 DEF Insert, StayDead, Known
  <2>. QED
    BY <2>1, <2>2
<1>8. CASE wait_any
  <2>1. current \in Known(procs) /\ procs[current].state # "Zombie"
    BY <1>1, <1>8 DEF wait_any, Live
  <2>. QED
    BY <1>1, <1>8, <2>1 DEF wait_any, StayDead, Known
<1>9. CASE \E pid \in Pid : kill(pid)
  <2>1. PICK pid \in Pid : kill(pid)
    BY <1>9
  <2>. QED
    BY ZenonT(30), <1>1, <2>1 DEF kill, WakesOnKill, StayDead, Known, Proc
<1>10. CASE procs' = procs
  BY Zenon, <1>10 DEF StayDead
<1>11. \/ procs' = procs
       \/ sys_exit \/ current_fault_kill \/ fork \/ sys_exec \/ cmd_spawn \/ wait_any
       \/ (\E pid \in Pid : kill(pid))
       \/ tick_delivers \/ tick_reschedules \/ run_until_all_exit
  BY DEF Next, vars, table, sys_kill, cmd_killu, tick_spins, shell_locks, cmd_psu, shell_idles,
         sys_sleep_ms
<1>. QED
  BY Zenon, <1>3, <1>4, <1>5, <1>6, <1>7, <1>8, <1>9, <1>10, <1>11

\* No step, a late signal or a second exit of a stale `current` included, takes
\* a zombie out of that state.
THEOREM DeathIsFinal == Spec => ZombiesStayDead
<1>1. IInv /\ [Next]_vars =>
        [\A p \in Known(procs) : procs[p].state = "Zombie" /\ p \in Known(procs)'
           => procs'[p].state = "Zombie"]_vars
  <2>. SUFFICES ASSUME IInv, [Next]_vars
                PROVE  \A p \in Known(procs) : procs[p].state = "Zombie" /\ p \in Known(procs')
                         => procs'[p].state = "Zombie"
    BY DEF Known
  <2>. QED
    BY NextStaysDead DEF StayDead
<1>. QED
  BY <1>1, Invariance, PTL DEF Spec, ZombiesStayDead
=============================================================================
