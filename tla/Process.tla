------------------------------ MODULE Process -------------------------------
(***************************************************************************)
(* kernel/src/task/process.rs with the paths that lead into it: the        *)
(* process syscalls (syscall/mod.rs), the exceptions and the timer tick    *)
(* (arch/x86_64/idt.rs, task/preempt.rs, task/signal.rs), the assembly     *)
(* that enters ring 3 and comes back to the shell, and the shell commands  *)
(* that start, list and signal processes.                                  *)
(*                                                                         *)
(* One core.  SYSCALL masks interrupts and the handlers never unmask them, *)
(* exceptions and the timer come through interrupt gates: a syscall, a     *)
(* fault and a tick are one step each.  The shell runs in ring 0 with      *)
(* interrupts on; its critical sections under the PROCS lock are steps of  *)
(* their own, so that a tick can land inside one.                          *)
(*                                                                         *)
(* Of a saved TrapFrame the model keeps what tells right from wrong        *)
(* resumptions: whether its registers are still the zeros of a new         *)
(* process, and whether its owner has run past it.  Signals all terminate  *)
(* their target, so a queue of them is a count.  Memory and ELF loading    *)
(* are in module AddressSpace; a spawn or an exec that fails there changes *)
(* nothing here.  With the present memory layout an exec from ring 3 always*)
(* fails there, so that its success here is an over-approximation.         *)
(***************************************************************************)
EXTENDS Integers, Sequences

CONSTANTS MaxPid,    \* bound: pids handed out by NEXT_PID
          MaxSignal  \* bound: pending signals per process

ASSUME ProcessAssumption == MaxPid \in Nat \ {0} /\ MaxSignal \in Nat \ {0}

VARIABLES procs,      \* ProcessTable.procs: live pid -> process
          runnable,   \* ProcessTable.runnable
          current,    \* ProcessTable.current, 0 before the first process
          next_pid,   \* NEXT_PID
          at,         \* what the processor runs
          ints,       \* the interrupt flag
          op,         \* what the shell is doing
          kernel_ctx, \* KERNEL_RETURN_CTX_PTR is not null
          in_service, \* IRQ0 acknowledged but EOI not sent yet
          resumed     \* how the context loaded last compares with what was left

table == <<procs, runnable, current, next_pid>>
vars  == <<procs, runnable, current, next_pid, at, ints, op, kernel_ctx, in_service, resumed>>

Pid   == 1 .. MaxPid
Code  == {"none", "exit", "fault", "signal"}
Frame == [regs : {"zero", "saved"}, stale : BOOLEAN]
Exit  == [pid : Pid, code : Code]
Proc  == [state : {"Runnable", "Sleeping", "Zombie"}, code : Code, parent : 0 .. MaxPid,
          signals : 0 .. MaxSignal, children_exited : Seq(Exit), frame : Frame]

\* Critical sections of shell commands under the PROCS lock.
Locked == {"psu", "killu", "exec", "init"}

Init ==
  /\ procs = << >> /\ runnable = << >> /\ current = 0 /\ next_pid = 1
  /\ at = "shell" /\ ints = TRUE /\ op = "idle" /\ kernel_ctx = FALSE
  /\ in_service = FALSE /\ resumed = "as left"

-----------------------------------------------------------------------------
(* The table *)

Known(ps)     == DOMAIN ps
IsRunnable(ps, p) == p \in Known(ps) /\ ps[p].state = "Runnable"
Queued(q)     == {q[i] : i \in DOMAIN q}

\* pick_next pops entries until a Runnable one: i is its place in the queue.
PickedAt(ps, q, i) ==
  IsRunnable(ps, q[i]) /\ \A j \in 1 .. i - 1 : ~IsRunnable(ps, q[j])

NothingToPick(ps, q) == \A i \in DOMAIN q : ~IsRunnable(ps, q[i])

\* What alloc_pid leaves in NEXT_PID after handing out pid.
alloc_pid(pid) == pid + 1

\* A new process at the end of the table and of the queue (insert).
Insert(pid, parent, frame) ==
  /\ procs' = [p \in Known(procs) \cup {pid} |->
       IF p = pid
       THEN [state |-> "Runnable", code |-> "none", parent |-> parent,
             signals |-> 0, children_exited |-> << >>, frame |-> frame]
       ELSE procs[p]]
  /\ runnable' = Append(runnable, pid)
  /\ next_pid' = alloc_pid(pid)

\* spawn_from_elf, once the address space is ready.
spawn_from_elf(parent) ==
  /\ next_pid \in Pid
  /\ Insert(next_pid, parent, [regs |-> "zero", stale |-> FALSE])
  /\ UNCHANGED current

-----------------------------------------------------------------------------
(* Leaving and entering ring 3 *)

\* schedule_next on table ps and queue q: enter_userspace loads rip and rsp of
\* the frame and zeroes the other registers; with nothing to run, back to the
\* saved kernel context, interrupts still masked, or hlt_loop for ever.
schedule_next(ps, q, ctx) ==
  IF NothingToPick(ps, q)
  THEN /\ procs' = ps
       /\ runnable' = << >>
       /\ at' = IF ctx THEN "shell" ELSE "halted"
       /\ kernel_ctx' = FALSE
       /\ ints' = FALSE
       /\ UNCHANGED <<current, resumed>>
  ELSE \E i \in DOMAIN q :
       /\ PickedAt(ps, q, i)
       /\ current' = q[i]
       /\ runnable' = SubSeq(q, i + 1, Len(q))
       /\ procs' = [ps EXCEPT ![q[i]].frame.stale = TRUE]
       /\ resumed' = CASE ps[q[i]].frame.stale -> "at an old point"
                       [] ps[q[i]].frame.regs = "saved" -> "registers zeroed"
                       [] OTHER -> "as left"
       /\ at' = "user"
       /\ kernel_ctx' = ctx
       /\ ints' = TRUE

\* Slip: the parent is told but stays asleep.
WakesOnExit_Never(p) == FALSE

\* exit_current wakes a parent that sleeps in wait.
WakesOnExit(p) == p.state = "Sleeping"

\* exit_current for pid in table ps.
exit_current(ps, pid, code) ==
  LET dead   == [ps EXCEPT ![pid].state = "Zombie", ![pid].code = code]
      parent == ps[pid].parent
      known  == parent \in Known(ps)
      wake   == known /\ WakesOnExit(dead[parent])
      told   == IF known
                THEN [dead EXCEPT
                       ![parent].children_exited = Append(@, [pid |-> pid, code |-> code]),
                       ![parent].state = IF wake THEN "Runnable" ELSE @]
                ELSE dead
  IN /\ schedule_next(told, IF wake THEN Append(runnable, parent) ELSE runnable, kernel_ctx)
     /\ UNCHANGED <<next_pid, op>>

-----------------------------------------------------------------------------
(* Syscalls and faults of the running process *)

Running == at = "user"

sys_exit == /\ Running
            /\ exit_current(procs, current, "exit")
            /\ UNCHANGED in_service

\* GPF, invalid opcode, stack fault, page fault that is not copy-on-write.
current_fault_kill == /\ Running
                      /\ exit_current(procs, current, "fault")
                      /\ UNCHANGED in_service

\* The child gets a copy of the frame saved for the parent.
fork == /\ Running
        /\ next_pid \in Pid
        /\ Insert(next_pid, current, procs[current].frame)
        /\ UNCHANGED <<current, at, ints, op, kernel_ctx, in_service, resumed>>

\* exec makes a child process; the caller goes on.
sys_exec == /\ Running
            /\ spawn_from_elf(current)
            /\ UNCHANGED <<at, ints, op, kernel_ctx, in_service, resumed>>

\* Slip: the first report is read and left in the queue.
Reaped_Kept(reports) == reports

Reaped(reports) == Tail(reports)

\* wait_any: reap the first reported child, or be marked Sleeping and return
\* at once; the caller runs on until the next tick.
wait_any ==
  /\ Running
  /\ LET reports == procs[current].children_exited
     IN procs' = IF reports = << >>
                 THEN [procs EXCEPT ![current].state = "Sleeping"]
                 ELSE [p \in Known(procs) \ {Head(reports).pid} |->
                        IF p = current
                        THEN [procs[p] EXCEPT !.children_exited = Reaped(reports)]
                        ELSE procs[p]]
  /\ UNCHANGED <<runnable, current, next_pid, at, ints, op, kernel_ctx, in_service, resumed>>

\* Slip: every target is made runnable, zombies included.
WakesOnKill_Always(p) == TRUE

WakesOnKill(p) == p.state = "Sleeping"

kill(pid) ==
  /\ pid \in Known(procs)
  /\ procs[pid].signals < MaxSignal
  /\ LET wake == WakesOnKill(procs[pid])
     IN /\ procs' = [procs EXCEPT ![pid].signals = @ + 1,
                                  ![pid].state = IF wake THEN "Runnable" ELSE @]
        /\ runnable' = IF wake THEN Append(runnable, pid) ELSE runnable
  /\ UNCHANGED <<current, next_pid>>

sys_kill == /\ Running
            /\ \E pid \in Pid : kill(pid)
            /\ UNCHANGED <<at, ints, op, kernel_ctx, in_service, resumed>>

\* A syscall that waits does so with interrupts masked: sys_sleep_ms for the clock,
\* sys_read for a key, sys_ipc_recv for a message.  yield_now has no kernel thread
\* to go to: the processor waits for ever.
sys_sleep_ms == /\ Running
                /\ at' = "waiting" /\ ints' = FALSE
                /\ UNCHANGED <<table, op, kernel_ctx, in_service, resumed>>

-----------------------------------------------------------------------------
(* The timer tick *)

Tick == ints /\ ~in_service /\ at \in {"user", "shell"}

Pending == current \in Known(procs) /\ procs[current].signals > 0

\* deliver_pending spins on the PROCS lock that the interrupted shell holds.
tick_spins ==
  /\ Tick /\ at = "shell" /\ op \in Locked
  /\ at' = "spinning" /\ in_service' = TRUE /\ ints' = FALSE
  /\ UNCHANGED <<table, op, kernel_ctx, resumed>>

\* deliver_pending ends the current process and does not return to the handler.
tick_delivers ==
  /\ Tick /\ Pending /\ (at = "shell" => op \notin Locked)
  /\ in_service' = TRUE
  /\ exit_current([procs EXCEPT ![current].signals = @ - 1], current, "signal")

\* Slip: the preempted process is not queued again.
Requeue_Never(ps, q, pid) == q

\* Slip: the preempted process goes back to the front.
Requeue_Front(ps, q, pid) == IF IsRunnable(ps, pid) THEN << pid >> \o q ELSE q

\* The preempted process goes to the back of the queue if it is Runnable.
Requeue(ps, q, pid) == IF IsRunnable(ps, pid) THEN Append(q, pid) ELSE q

\* Ring 3 interrupted: reschedule, then EOI.
tick_reschedules ==
  LET saved == [procs EXCEPT ![current].frame = [regs |-> "saved", stale |-> FALSE]]
      q     == Requeue(procs, runnable, current)
  IN /\ Tick /\ at = "user" /\ ~Pending
     /\ IF NothingToPick(saved, q)
        THEN /\ runnable' = << >>
             /\ procs' = [saved EXCEPT ![current].frame.stale = TRUE]
             /\ UNCHANGED <<current, resumed>>
        ELSE \E i \in DOMAIN q :
             /\ PickedAt(saved, q, i)
             /\ current' = q[i]
             /\ runnable' = SubSeq(q, i + 1, Len(q))
             /\ procs' = [saved EXCEPT ![q[i]].frame.stale = TRUE]
             /\ resumed' = IF saved[q[i]].frame.stale THEN "at an old point" ELSE "as left"
     /\ UNCHANGED <<next_pid, at, ints, op, kernel_ctx, in_service>>

-----------------------------------------------------------------------------
(* The shell *)

\* A command enters its critical section.
shell_locks(o) == /\ at = "shell" /\ op = "idle"
                  /\ op' = o
                  /\ UNCHANGED <<table, at, ints, kernel_ctx, in_service, resumed>>

cmd_psu == /\ at = "shell" /\ op = "psu"
           /\ op' = "idle"
           /\ UNCHANGED <<table, at, ints, kernel_ctx, in_service, resumed>>

cmd_killu == /\ at = "shell" /\ op = "killu"
             /\ IF \E pid \in Pid : pid \in Known(procs) /\ procs[pid].signals < MaxSignal
                THEN \E pid \in Pid : kill(pid)
                ELSE UNCHANGED table
             /\ op' = "idle"
             /\ UNCHANGED <<at, ints, kernel_ctx, in_service, resumed>>

\* cmd_init starts /sbin/init and does not run it; cmd_exec and cmd_run go on
\* to run_until_all_exit.
cmd_spawn == /\ at = "shell" /\ op \in {"init", "exec"}
             /\ IF next_pid \in Pid
                THEN spawn_from_elf(0) /\ op' = (IF op = "exec" THEN "run" ELSE "idle")
                ELSE UNCHANGED table /\ op' = "idle"
             /\ UNCHANGED <<at, ints, kernel_ctx, in_service, resumed>>

run_until_all_exit == /\ at = "shell" /\ op = "run"
                      /\ schedule_next(procs, runnable, TRUE)
                      /\ op' = "idle"
                      /\ UNCHANGED <<next_pid, in_service>>

\* The executor has nothing to poll: sleep_if_idle unmasks interrupts.
shell_idles == /\ at = "shell" /\ op = "idle" /\ ~ints
               /\ ints' = TRUE
               /\ UNCHANGED <<table, at, op, kernel_ctx, in_service, resumed>>

Next == \/ sys_exit \/ current_fault_kill \/ fork \/ sys_exec \/ wait_any \/ sys_kill
        \/ sys_sleep_ms
        \/ tick_spins \/ tick_delivers \/ tick_reschedules
        \/ \E o \in Locked : shell_locks(o)
        \/ cmd_psu \/ cmd_killu \/ cmd_spawn \/ run_until_all_exit \/ shell_idles

\* The PIT keeps ticking at 100 Hz.
Spec == Init /\ [][Next]_vars /\ WF_vars(tick_reschedules) /\ WF_vars(tick_delivers)

-----------------------------------------------------------------------------
(* Properties *)

\* Every variable has its type; no pid that was not handed out is in the table.
TypeOK ==
  /\ Known(procs) \subseteq 1 .. next_pid - 1
  /\ procs \in [Known(procs) -> Proc]
  /\ runnable \in Seq(Pid)
  /\ current \in 0 .. MaxPid
  /\ next_pid \in 1 .. MaxPid + 1
  /\ at \in {"user", "waiting", "shell", "halted", "spinning"}
  /\ ints \in BOOLEAN
  /\ op \in Locked \cup {"idle", "run"}
  /\ kernel_ctx \in BOOLEAN
  /\ in_service \in BOOLEAN
  /\ resumed \in {"as left", "at an old point", "registers zeroed"}

\* No Runnable process is lost: it is on the processor or in the queue, through
\* every mix of preemption, wait, kill, exit and shell commands, although
\* pick_next drops the entries that are not Runnable when it meets them.
RunnableIsQueued ==
  \A p \in Known(procs) :
    IsRunnable(procs, p) =>
      p \in Queued(runnable) \/ (at \in {"user", "waiting"} /\ p = current)

\* A process that sleeps in wait has no unreported child: wait_any and
\* exit_current leave no window for a lost wakeup.
NoLostWakeup ==
  \A p \in Known(procs) : procs[p].state = "Sleeping" => procs[p].children_exited = << >>

\* The reports waiting for p name distinct zombie children with their codes.
ExactReports(ps, p) ==
  LET reports == ps[p].children_exited
  IN /\ \A i, j \in DOMAIN reports : reports[i].pid = reports[j].pid => i = j
     /\ \A i \in DOMAIN reports :
          LET c == reports[i].pid
          IN /\ c \in Known(ps) /\ ps[c].state = "Zombie"
             /\ ps[c].parent = p /\ ps[c].code = reports[i].code

\* What a live parent will get from wait is true and told once: each report
\* names a distinct child that is still a zombie with that exit code, although
\* a stale `current` can make a dead process exit a second time.
ReportsAreExact ==
  \A p \in Known(procs) : procs[p].state # "Zombie" => ExactReports(procs, p)

\* A zombie never runs again, whatever signals reach it.
ZombiesStayDead ==
  [][\A p \in Known(procs) : procs[p].state = "Zombie" /\ p \in Known(procs)'
       => procs'[p].state = "Zombie"]_vars

\* Preemption starves nobody: while processes run, none of them is in a syscall
\* that waits, and the timer is alive, a Runnable process reaches the processor
\* or stops being Runnable.
RunnableRuns ==
  \A p \in Pid :
    (Running /\ IsRunnable(procs, p)) ~>
      (current = p \/ ~IsRunnable(procs, p) \/ ~Running \/ in_service)

\* A process resumes where it left, with the registers it left, and the child
\* of a fork continues the parent's execution.
ResumesAsLeft == resumed = "as left"
=============================================================================
