------------------------------ MODULE Executor ------------------------------
(***************************************************************************)
(* The async executor (task/executor.rs), the sleep timers (time/sleep.rs) *)
(* and the keyboard stream (drivers/keyboard.rs): one loop that polls      *)
(* tasks with interrupts enabled, and two interrupt handlers that wake     *)
(* them in the middle of anything.                                         *)
(*                                                                         *)
(* pc is the place of the loop between two instructions that an interrupt  *)
(* can separate with effect.  A handler runs to its end, unless it needs a *)
(* spin lock the loop holds: then it spins for ever (pc = "hung").         *)
(* Deadlines are kept as the ticks still to go, and scancodes as their     *)
(* number in the queue: how a scancode decodes only decides what the       *)
(* reader does next, which is a choice here.                               *)
(*                                                                         *)
(* A command that runs a program does so inside the poll of the shell: the *)
(* loop stands still (pc = "ring 3") until no process is runnable, the     *)
(* handlers do not.  Which process runs is in module Process; here matters *)
(* what the programs do to the keys and to the interrupts.                 *)
(***************************************************************************)
EXTENDS Integers, Sequences, FiniteSets, Functions, Retain

CONSTANTS Reader,     \* the shell: login pause, then keys
          Beats,      \* tasks that sleep again and again: net, http, heartbeat
          Sleeps,     \* tasks of the shell's `sleep` command: sleep, then end
          Capacity,   \* of task_queue (256)
          KeyRoom,    \* of SCANCODE_QUEUE (128)
          MaxDelay,   \* bound: ticks of a sleep
          MaxKeys     \* bound: scancodes the user strikes

ASSUME ExecutorAssumption ==
  /\ Capacity \in Nat /\ KeyRoom \in Nat /\ MaxDelay \in Nat \ {0} /\ MaxKeys \in Nat
  /\ IsFiniteSet(Beats)
  /\ Reader \notin Beats \cup Sleeps /\ Beats \cap Sleeps = {}

Task == {Reader} \cup Beats \cup Sleeps

VARIABLES pc, cur,              \* place of the loop, and the task it is about
          tasks,                \* live tasks
          task_queue, queued_tasks,
          SPAWN_QUEUE,
          doing,                \* task -> what it awaits: "start", "sleep", "keys"
          left,                 \* task -> ticks to its deadline, 0 once it has passed
          entry,                \* task -> its Sleep has a timer entry
          TIMERS,               \* entries [task, live]; not live: the Sleep is over
          scancodes,            \* length of SCANCODE_QUEUE
          WAKER,                \* the task registered there, as a set
          unstruck,             \* scancodes still to come
          ints,                 \* the interrupt flag, as the loop or ring 3 has it
          in_service            \* IRQ0 acknowledged and no EOI sent: the PIC is mute

loop   == <<pc, cur, tasks, SPAWN_QUEUE>>
ready  == <<task_queue, queued_tasks>>
sleeps == <<doing, left, entry, TIMERS>>
keys   == <<scancodes, WAKER, unstruck>>
irqs   == <<ints, in_service>>
vars   == <<loop, ready, sleeps, keys, irqs>>

Init ==
  /\ pc = "drain" /\ cur = Reader
  /\ tasks = {Reader} \cup Beats
  /\ \E order \in [1 .. Cardinality(Beats) -> Beats] :
       IsInjective(order) /\ task_queue = Append(order, Reader)
  /\ queued_tasks = tasks
  /\ SPAWN_QUEUE = << >>
  /\ doing = [t \in Task |-> "start"] /\ left = [t \in Task |-> 0]
  /\ entry = [t \in Task |-> FALSE] /\ TIMERS = << >>
  /\ scancodes = 0 /\ WAKER = {} /\ unstruck = MaxKeys
  /\ ints = TRUE /\ in_service = FALSE

-----------------------------------------------------------------------------
(* Waking *)

\* Slip: a wake does not look whether the task is queued already.
AlreadyQueued_Never(r, t) == FALSE

AlreadyQueued(r, t) == t \in r.queued

\* On r, the queue and the set; a full queue loses the wake.
queue_task(r, t) ==
  IF AlreadyQueued(r, t) \/ Len(r.queue) >= Capacity THEN r
  ELSE [queue |-> Append(r.queue, t), queued |-> r.queued \cup {t}]

\* TaskWaker::wake for the tasks of ts, in order.
Woken(r, ts) ==
  LET wake[n \in 0 .. Len(ts)] == IF n = 0 THEN r ELSE queue_task(wake[n - 1], ts[n])
  IN wake[Len(ts)]

WakeAll(ts) ==
  LET r == Woken([queue |-> task_queue, queued |-> queued_tasks], ts)
  IN task_queue' = r.queue /\ queued_tasks' = r.queued

\* The loop holds the lock of queued_tasks.
SetLocked == pc \in {"admit", "unmark"}

\* An interrupt ends hlt.
Roused == IF pc = "hlt" THEN "drain" ELSE pc

-----------------------------------------------------------------------------
(* The loop *)

\* drain_spawn_queue, one task at a time; the lock is free, no handler takes it.
drain_spawn_queue ==
  /\ pc = "drain"
  /\ IF SPAWN_QUEUE = << >>
     THEN pc' = "pop" /\ UNCHANGED <<cur, tasks, SPAWN_QUEUE>>
     ELSE /\ pc' = "admit" /\ cur' = Head(SPAWN_QUEUE)
          /\ tasks' = tasks \cup {cur'} /\ SPAWN_QUEUE' = Tail(SPAWN_QUEUE)
  /\ UNCHANGED <<ready, sleeps, keys, irqs>>

admit == /\ pc = "admit" /\ pc' = "drain"
         /\ WakeAll(<<cur>>)
         /\ UNCHANGED <<cur, tasks, SPAWN_QUEUE, sleeps, keys, irqs>>

\* run_ready_tasks takes an id off the queue, then waits for the lock of the
\* set, then strikes the id out; ids of ended tasks are passed over.
pop == /\ pc = "pop"
       /\ IF task_queue = << >>
          THEN pc' = "idle" /\ UNCHANGED <<cur, task_queue>>
          ELSE pc' = "popped" /\ cur' = Head(task_queue) /\ task_queue' = Tail(task_queue)
       /\ UNCHANGED <<tasks, SPAWN_QUEUE, queued_tasks, sleeps, keys, irqs>>

lock_set == /\ pc = "popped" /\ pc' = "unmark"
            /\ UNCHANGED <<cur, tasks, SPAWN_QUEUE, ready, sleeps, keys, irqs>>

\* Slip: the id stays in the set.
Unmarked_Not(set, t) == set

Unmarked(set, t) == set \ {t}

unmark == /\ pc = "unmark"
          /\ queued_tasks' = Unmarked(queued_tasks, cur)
          /\ pc' = IF cur \in tasks THEN "poll" ELSE "pop"
          /\ UNCHANGED <<cur, tasks, SPAWN_QUEUE, task_queue, sleeps, keys, irqs>>

\* Slip: what was spawned is not looked at.
MaySleep_NoSpawn(queue, spawned) == queue = << >>

MaySleep(queue, spawned) == queue = << >> /\ spawned = << >>

\* Slip: interrupts are left as they were found.
Unmasked_AsFound(flag) == flag

\* Interrupts are on in the end, whether the processor halts or not.
Unmasked(flag) == TRUE

\* Checked with interrupts masked; enable_and_hlt cannot be separated.
sleep_if_idle == /\ pc = "idle"
                 /\ pc' = IF MaySleep(task_queue, SPAWN_QUEUE) THEN "hlt" ELSE "drain"
                 /\ ints' = Unmasked(ints)
                 /\ UNCHANGED <<cur, tasks, SPAWN_QUEUE, ready, sleeps, keys, in_service>>

-----------------------------------------------------------------------------
(* Sleeping: Sleep::poll *)

Polls(what) == pc = "poll" /\ doing[cur] = what

\* sleep_ms: at least one tick, and no timer entry before the first poll.
sleep_ms(t) == /\ doing' = [doing EXCEPT ![t] = "sleep"]
               /\ \E d \in 1 .. MaxDelay : left' = [left EXCEPT ![t] = d]
               /\ entry' = [entry EXCEPT ![t] = FALSE]

\* Every task begins with a sleep.
start == /\ Polls("start")
         /\ sleep_ms(cur)
         /\ UNCHANGED <<loop, ready, TIMERS, keys, irqs>>

\* The deadline has passed.  An entry no tick has fired stays in the list.  The
\* next sleep of a beat is five ticks or more: it does not pass before the poll
\* that follows at once.
sleep_over ==
  /\ Polls("sleep") /\ left[cur] = 0
  /\ TIMERS' = [i \in DOMAIN TIMERS |->
                  [TIMERS[i] EXCEPT !.live = @ /\ TIMERS[i].task # cur]]
  /\ \/ cur \in Beats /\ sleep_ms(cur) /\ pc' = "enlist" /\ UNCHANGED tasks
     \/ /\ cur \in Sleeps /\ tasks' = tasks \ {cur} /\ pc' = "pop"
        /\ entry' = [entry EXCEPT ![cur] = FALSE] /\ UNCHANGED <<doing, left>>
     \/ /\ cur = Reader /\ doing' = [doing EXCEPT ![cur] = "keys"]
        /\ entry' = [entry EXCEPT ![cur] = FALSE] /\ UNCHANGED <<pc, tasks, left>>
  /\ UNCHANGED <<cur, SPAWN_QUEUE, ready, keys, irqs>>

\* A beat's work between two sleeps is done in the poll.  The lookup behind
\* http's /api/dns waits with hlt for an answer: for ever when no tick can come.
resolve_a == /\ Polls("sleep") /\ left[cur] = 0 /\ cur \in Beats
             /\ ~ints \/ in_service
             /\ pc' = "hung"
             /\ UNCHANGED <<cur, tasks, SPAWN_QUEUE, ready, sleeps, keys, irqs>>

sleep_pending == /\ Polls("sleep") /\ left[cur] > 0
                 /\ pc' = "enlist"
                 /\ UNCHANGED <<cur, tasks, SPAWN_QUEUE, ready, sleeps, keys, irqs>>

\* The lock of TIMERS for the first poll, of the entry for another one.
lock_timers == /\ pc = "enlist" /\ pc' = "locked"
               /\ UNCHANGED <<cur, tasks, SPAWN_QUEUE, ready, sleeps, keys, irqs>>

enlist ==
  /\ pc = "locked" /\ pc' = "pop"
  /\ TIMERS' = IF entry[cur] THEN TIMERS ELSE Append(TIMERS, [task |-> cur, live |-> TRUE])
  /\ entry' = [entry EXCEPT ![cur] = TRUE]
  /\ UNCHANGED <<cur, tasks, SPAWN_QUEUE, ready, doing, left, keys, irqs>>

-----------------------------------------------------------------------------
(* Keys: KeyStream::poll_next and what the shell does with a key *)

\* The key goes into the line being edited, or ends one that suspends nothing.
reads_on(n) == /\ scancodes' = n /\ pc' = "poll"
               /\ UNCHANGED <<SPAWN_QUEUE, doing, left, entry, ints>>

\* A login that succeeds throws away what was typed ahead (drain_queue); one
\* that has failed three times pauses, and so does a new prompt after a logout.
login(n) ==
  /\ \/ scancodes' = 0 /\ UNCHANGED <<doing, left, entry>>
     \/ scancodes' = n /\ sleep_ms(cur)
  /\ pc' = "poll" /\ UNCHANGED <<SPAWN_QUEUE, ints>>

\* The shell's `sleep` spawns a task and goes on reading.
cmd_sleep(n) ==
  /\ scancodes' = n /\ pc' = "poll" /\ UNCHANGED <<doing, left, entry, ints>>
  /\ \E t \in Sleeps :
       /\ doing[t] = "start" /\ t \notin tasks \cup Range(SPAWN_QUEUE)
       /\ SPAWN_QUEUE' = Append(SPAWN_QUEUE, t)

\* The commands that start a program and stay in run_until_all_exit.
cmd_run(n) == /\ scancodes' = n /\ pc' = "ring 3" /\ ints' = TRUE
              /\ UNCHANGED <<SPAWN_QUEUE, doing, left, entry>>

\* `ping` waits with hlt for a time to pass: for ever when no tick can come.
cmd_ping(n) == /\ ~ints \/ in_service
               /\ scancodes' = n /\ pc' = "hung"
               /\ UNCHANGED <<SPAWN_QUEUE, doing, left, entry, ints>>

Struck(n) == reads_on(n) \/ login(n) \/ cmd_sleep(n) \/ cmd_run(n) \/ cmd_ping(n)

read_key == /\ Polls("keys") /\ scancodes > 0
            /\ Struck(scancodes - 1)
            /\ UNCHANGED <<cur, tasks, ready, TIMERS, WAKER, unstruck, in_service>>

no_key == /\ Polls("keys") /\ scancodes = 0
          /\ pc' = "no key"
          /\ UNCHANGED <<cur, tasks, SPAWN_QUEUE, ready, sleeps, keys, irqs>>

register == /\ pc = "no key" /\ pc' = "recheck"
            /\ WAKER' = {cur}
            /\ UNCHANGED <<cur, tasks, SPAWN_QUEUE, ready, sleeps, scancodes, unstruck, irqs>>

\* Slip: the queue is not looked at again once the waker is registered.
KeyCameIn_Unseen(n) == FALSE

KeyCameIn(n) == n > 0

recheck ==
  /\ pc = "recheck"
  /\ IF KeyCameIn(scancodes)
     THEN /\ WAKER' = {}
          /\ Struck(scancodes - 1)
          /\ UNCHANGED <<cur, tasks, ready, TIMERS, unstruck, in_service>>
     ELSE pc' = "pop" /\ UNCHANGED <<cur, tasks, SPAWN_QUEUE, ready, sleeps, keys, irqs>>

-----------------------------------------------------------------------------
(* Ring 3, as the loop sees it *)

\* Syscalls run with interrupts masked and wait for nothing that could come:
\* sys_read on an empty queue and before a line or a buffer is complete,
\* sys_sleep_ms, sys_ipc_recv on an empty mailbox.
sys_read ==
  /\ pc = "ring 3"
  /\ \/ pc' = "hung" /\ scancodes' = 0
     \/ pc' = "ring 3" /\ \E n \in 0 .. scancodes - 1 : scancodes' = n
  /\ UNCHANGED <<cur, tasks, SPAWN_QUEUE, ready, sleeps, WAKER, unstruck, irqs>>

sys_sleep_ms == /\ pc = "ring 3" /\ pc' = "hung"
                /\ UNCHANGED <<cur, tasks, SPAWN_QUEUE, ready, sleeps, keys, irqs>>

\* The last process exits or sleeps in wait: kernel_return, interrupts masked.
kernel_return == /\ pc = "ring 3" /\ pc' = "poll"
                 /\ ints' = FALSE
                 /\ UNCHANGED <<cur, tasks, SPAWN_QUEUE, ready, sleeps, keys, in_service>>

-----------------------------------------------------------------------------
(* The interrupt handlers *)

Interruptible == ints /\ ~in_service /\ pc # "hung"

\* Slip: one scancode too many is let in.
HasRoom_OneMore(n) == n <= KeyRoom

HasRoom(n) == n < KeyRoom

\* A scancode that finds no room wakes nobody.
keyboard_interrupt ==
  /\ Interruptible /\ unstruck > 0
  /\ unstruck' = unstruck - 1
  /\ IF HasRoom(scancodes)
     THEN /\ scancodes' = scancodes + 1 /\ WAKER' = {}
          /\ IF WAKER # {} /\ SetLocked
             THEN pc' = "hung" /\ UNCHANGED ready
             ELSE pc' = Roused /\ WakeAll(IF WAKER = {} THEN << >> ELSE <<Reader>>)
     ELSE pc' = Roused /\ UNCHANGED <<ready, scancodes, WAKER>>
  /\ UNCHANGED <<cur, tasks, SPAWN_QUEUE, sleeps, irqs>>

\* The rest of a tick: reschedule, if ring 3 was interrupted, then EOI.
on_timer == pc' = Roused /\ UNCHANGED irqs

\* Or deliver_pending ends the running process and does not return to the
\* handler: no EOI.  Another process runs, or the shell does.
delivers == /\ pc = "ring 3" /\ in_service' = TRUE
            /\ \/ pc' = "ring 3" /\ UNCHANGED ints
               \/ pc' = "poll" /\ ints' = FALSE

\* The lock of TIMERS is held by a first poll, the lock of a live entry by another.
ListLocked == pc = "locked" /\ ~entry[cur]
EntryLocked == pc = "locked" /\ [task |-> cur, live |-> TRUE] \in Range(TIMERS)

\* The places of the entries that a tick takes out, l being the ticks to go.
Due(l) == {i \in DOMAIN TIMERS : ~TIMERS[i].live \/ l[TIMERS[i].task] = 0}

\* tick, then advance: a list that is locked waits for the next tick.
timer_tick ==
  LET due   == Due(left')
      Fired == Retained(TIMERS, due)
  IN /\ Interruptible
     /\ left' = [t \in Task |-> IF left[t] > 0 THEN left[t] - 1 ELSE 0]
     /\ \/ ListLocked /\ UNCHANGED <<pc, ready, TIMERS, irqs>>
        \/ /\ ~ListLocked /\ (EntryLocked \/ (SetLocked /\ due # {}))
           /\ pc' = "hung" /\ UNCHANGED <<ready, TIMERS, irqs>>
        \/ /\ ~ListLocked /\ ~EntryLocked /\ (SetLocked => due = {})
           /\ TIMERS' = Retained(TIMERS, DOMAIN TIMERS \ due)
           /\ WakeAll([i \in DOMAIN Fired |-> Fired[i].task])
           /\ \/ on_timer
              \/ delivers
     /\ UNCHANGED <<cur, tasks, SPAWN_QUEUE, doing, entry, keys>>

Loop == \/ drain_spawn_queue \/ admit \/ pop \/ lock_set \/ unmark \/ sleep_if_idle
        \/ start \/ sleep_over \/ resolve_a \/ sleep_pending \/ lock_timers \/ enlist
        \/ read_key \/ no_key \/ register \/ recheck

Ring3 == sys_read \/ sys_sleep_ms \/ kernel_return

Next == Loop \/ Ring3 \/ keyboard_interrupt \/ timer_tick

\* The processor runs on, and the timer ticks on; a program may run for ever.
Spec == Init /\ [][Next]_vars /\ WF_vars(Loop) /\ WF_vars(timer_tick)

-----------------------------------------------------------------------------
(* Properties *)

\* Every variable has its type; SCANCODE_QUEUE never exceeds its capacity.
TypeOK ==
  /\ pc \in {"drain", "admit", "pop", "popped", "unmark", "poll", "enlist", "locked",
             "no key", "recheck", "idle", "hlt", "ring 3", "hung"}
  /\ cur \in Task /\ tasks \subseteq Task /\ Range(SPAWN_QUEUE) \subseteq Task \ tasks
  /\ Range(task_queue) \subseteq Task /\ queued_tasks \subseteq Task
  /\ doing \in [Task -> {"start", "sleep", "keys"}] /\ left \in [Task -> 0 .. MaxDelay]
  /\ entry \in [Task -> BOOLEAN] /\ Range(TIMERS) \subseteq [task : Task, live : BOOLEAN]
  /\ scancodes \in 0 .. KeyRoom /\ WAKER \subseteq {Reader} /\ unstruck \in 0 .. MaxKeys
  /\ ints \in BOOLEAN /\ in_service \in BOOLEAN

\* The queue and the set of queued ids agree whenever an interrupt can look: no
\* id is queued twice, and one that is in the set only is about to be struck
\* out.  So 256 places are enough for 256 tasks.
QueueIsExact ==
  /\ Cardinality(Range(task_queue)) = Len(task_queue)
  /\ Range(task_queue) \subseteq queued_tasks
  /\ queued_tasks \ Range(task_queue) \subseteq {cur}

Suspended(t) == /\ t \in tasks /\ t \notin Range(task_queue)
                /\ ~(t = cur /\ pc \notin {"drain", "pop", "idle", "hlt"})

\* No wakeup is lost, however the handlers interleave with the loop: a task the
\* loop has put aside has an unfired timer entry, or is registered with the
\* keyboard and no key is waiting; and the processor halts only without work.
NoLostWakeup ==
  pc # "hung" =>
    /\ \A t \in Task : Suspended(t) =>
         \/ doing[t] = "sleep" /\ [task |-> t, live |-> TRUE] \in Range(TIMERS)
         \/ doing[t] = "keys" /\ scancodes = 0 /\ WAKER = {t}
    /\ pc = "hlt" => task_queue = << >> /\ SPAWN_QUEUE = << >>

\* No program runs for ever, and the loop has not come to a halt for good: the
\* kernel waits for nothing with interrupts masked or on a lock that the loop
\* holds, and no tick was left without its EOI.
ProgramsEnd == []<>(pc # "ring 3")
Stopped == pc = "hung" \/ in_service

\* A sleep ends, ticks skipped because the list was locked included, and however
\* often programs take the processor from the loop meanwhile.
SleepersWake == ProgramsEnd => \A t \in Task : entry[t] ~> ~entry[t] \/ Stopped

\* A key that is in the queue is read, by the shell or by a program.
KeysAreRead == ProgramsEnd => (scancodes > 0 ~> scancodes = 0 \/ Stopped)

\* Interrupts that a program's end leaves masked come back: the tasks that are
\* ready run out before the loop needs a tick, and it enables them as it idles.
InterruptsReturn == ProgramsEnd => (~ints ~> ints \/ pc = "hung")
=============================================================================
