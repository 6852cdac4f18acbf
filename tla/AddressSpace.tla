---------------------------- MODULE AddressSpace ----------------------------
(***************************************************************************)
(* The memory of user processes: memory/address_space.rs, memory/cow.rs,   *)
(* memory/frame_refcount.rs, the loader fs/elf.rs and the framebuffer      *)
(* pages gfx/mod.rs lends, driven by spawn, fork, exit and wait.           *)
(*                                                                         *)
(* A page stands for its part of the address space: the code at 1 GiB, the *)
(* stack, the framebuffer window; each lies under another slot of the P4   *)
(* (the code under another slot of the P3).  What hangs below such a slot  *)
(* is one leaf table, named after the process that created it: new_user    *)
(* and clone_cow copy the slots, so the copies reach the same leaf tables. *)
(* Frames of page tables are not counted; destroy frees the P4 only, and   *)
(* nothing else refers to it.  SYSCALL and exceptions mask interrupts:     *)
(* every operation is one step.                                            *)
(***************************************************************************)
EXTENDS Integers

CONSTANTS Frames,  \* physical frames for user pages
          MaxPid   \* bound: pids handed out by NEXT_PID

VARIABLES spaces,  \* pid -> its process: state, parent, tables, mapped_pages
          pte,     \* leaf table -> page -> entry
          counts,  \* FRAME_REFCOUNT
          free,    \* frames the allocator can hand out
          next_pid,
          cur,     \* the running process, 0 in the shell
          fb_pool  \* FB_BACKBUF_FRAMES: at most one frame here

vars == <<spaces, pte, counts, free, next_pid, cur, fb_pool>>

Pid   == 1 .. MaxPid
Page  == {"code", "stack", "fb"}
Entry == [frame : Frames, writable : BOOLEAN, cow : BOOLEAN]

\* An entry that is not present, as a set with no member.
Present(e) == {e}
Absent     == {}

Known == DOMAIN spaces
Live  == {p \in Known : spaces[p].state = "live"}

Init ==
  /\ spaces = << >>
  /\ pte = [t \in Pid |-> [g \in Page |-> Absent]]
  /\ counts = [f \in Frames |-> 0]
  /\ free = Frames
  /\ next_pid = 1 /\ cur = 0
  /\ fb_pool = {}

-----------------------------------------------------------------------------
(* Page tables and reference counts *)

\* The entries for page g that process p reaches: at most one.
Reach(p, g) == IF spaces[p].tables[g] = 0 THEN Absent ELSE pte[spaces[p].tables[g]][g]

\* inc saturates at 255; at most MaxPid spaces hold a frame here.
inc(c) == IF c < 255 THEN c + 1 ELSE c
dec(c) == IF c > 0 THEN c - 1 ELSE c

\* mapped_pages of a space, page -> frame: what map_alloc and map_to entered,
\* and what write_data and ensure_mapped look at before they map.
Mapped(p) == spaces[p].mapped_pages
Held(p)   == {Mapped(p)[g] : g \in DOMAIN Mapped(p)}

\* spawn_from_elf from the shell, whose P4 has no user slot: the leaf tables
\* are new, elf::load maps the code, map_user_stack the stack.  Without two
\* frames the new space is dropped and gives back what it took.
spawn_from_elf ==
  /\ cur = 0 /\ next_pid \in Pid
  /\ \E w \in BOOLEAN, code \in free : \E stack \in free \ {code} :
       /\ spaces' = [p \in Known \cup {next_pid} |->
            IF p = next_pid
            THEN [state |-> "live", parent |-> 0,
                  tables |-> [g \in Page |-> IF g = "fb" THEN 0 ELSE next_pid],
                  mapped_pages |-> [g \in {"code", "stack"} |->
                                      IF g = "code" THEN code ELSE stack]]
            ELSE spaces[p]]
       /\ pte' = [pte EXCEPT
            ![next_pid].code  = Present([frame |-> code, writable |-> w, cow |-> FALSE]),
            ![next_pid].stack = Present([frame |-> stack, writable |-> TRUE, cow |-> FALSE])]
       /\ counts' = [counts EXCEPT ![code] = 1, ![stack] = 1]
       /\ free' = free \ {code, stack}
  /\ next_pid' = next_pid + 1
  /\ UNCHANGED <<cur, fb_pool>>

\* A load whose first page cannot be mapped: exec inherits the caller's tables
\* and finds the page mapped; a program linked at 4 MiB meets the huge pages of
\* the kernel.  map_alloc has taken a frame by then, and the dropped space does
\* not know it.
load_refused ==
  /\ \E f \in free : free' = free \ {f} /\ counts' = [counts EXCEPT ![f] = 1]
  /\ UNCHANGED <<spaces, pte, next_pid, cur, fb_pool>>

-----------------------------------------------------------------------------
(* fork and copy-on-write *)

\* clone_cow: the pages of the caller become read-only and marked; the child
\* gets the slots, the mapped_pages and a reference on each frame.  Mapping the
\* frames again through the child's P4 finds them mapped, and is ignored.
fork ==
  /\ cur # 0 /\ next_pid \in Pid
  /\ spaces' = [p \in Known \cup {next_pid} |->
       IF p = next_pid THEN [spaces[cur] EXCEPT !.parent = cur] ELSE spaces[p]]
  /\ next_pid' = next_pid + 1
  /\ pte' = [t \in Pid |-> [g \in Page |->
       IF g \in DOMAIN Mapped(cur) /\ t = spaces[cur].tables[g]
       THEN {[e EXCEPT !.writable = FALSE, !.cow = e.writable \/ e.cow] : e \in pte[t][g]}
       ELSE pte[t][g]]]
  /\ counts' = [f \in Frames |-> IF f \in Held(cur) THEN inc(counts[f]) ELSE counts[f]]
  /\ UNCHANGED <<free, cur, fb_pool>>

\* A write that the page-fault handler resolves: the only holder gets its page
\* back, another one a copy, installed in the table the walk goes through.
try_resolve_cow(g) ==
  /\ cur # 0
  /\ \E e \in Reach(cur, g) :
       LET t == spaces[cur].tables[g]
       IN /\ e.cow
          /\ IF counts[e.frame] <= 1
             THEN /\ pte' = [pte EXCEPT ![t][g] = Present([e EXCEPT !.writable = TRUE,
                                                                  !.cow = FALSE])]
                  /\ UNCHANGED <<spaces, counts, free>>
             ELSE \E f \in free :
                  /\ pte' = [pte EXCEPT ![t][g] =
                                Present([frame |-> f, writable |-> TRUE, cow |-> FALSE])]
                  /\ counts' = [counts EXCEPT ![e.frame] = dec(@), ![f] = 1]
                  /\ free' = free \ {f}
                  /\ spaces' = [spaces EXCEPT ![cur].mapped_pages =
                       [h \in DOMAIN @ \cup {g} |-> IF h = g THEN f ELSE @[h]]]
  /\ UNCHANGED <<next_pid, cur, fb_pool>>

-----------------------------------------------------------------------------
(* The end of a process *)

\* exit, a fault, or a write for which no frame is left.
exit_current ==
  /\ cur # 0
  /\ spaces' = [spaces EXCEPT ![cur].state = "zombie"]
  /\ cur' \in IF Live = {cur} THEN {0} ELSE Live \ {cur}
  /\ UNCHANGED <<pte, counts, free, next_pid, fb_pool>>

\* wait_any reaps a child and drops its space: destroy gives up a reference on
\* each mapped frame and frees those without one.
wait_any ==
  /\ cur # 0
  /\ \E c \in Known :
       /\ spaces[c].state = "zombie" /\ spaces[c].parent = cur
       /\ spaces' = [p \in Known \ {c} |-> spaces[p]]
       /\ counts' = [f \in Frames |-> IF f \in Held(c) THEN dec(counts[f]) ELSE counts[f]]
       /\ free' = free \cup {f \in Held(c) : dec(counts[f]) = 0}
  /\ UNCHANGED <<pte, next_pid, cur, fb_pool>>

\* The shell runs the processes; a tick runs another one.
schedule == /\ cur' \in Live \ {cur}
            /\ UNCHANGED <<spaces, pte, counts, free, next_pid, fb_pool>>

\* The framebuffer window: the frames are taken once and kept, and mapped
\* without a reference; a page that is mapped already is tolerated.
sys_fb_acquire ==
  /\ cur # 0
  /\ \E f \in IF fb_pool = {} THEN free ELSE fb_pool :
       /\ fb_pool' = {f}
       /\ free' = free \ {f}
       /\ IF Reach(cur, "fb") # Absent
          THEN UNCHANGED <<spaces, pte>>
          ELSE LET t == IF spaces[cur].tables.fb = 0 THEN cur ELSE spaces[cur].tables.fb
               IN /\ pte' = [pte EXCEPT ![t].fb =
                               Present([frame |-> f, writable |-> TRUE, cow |-> FALSE])]
                  /\ spaces' = [spaces EXCEPT
                       ![cur].tables.fb = t,
                       ![cur].mapped_pages = [h \in DOMAIN @ \cup {"fb"} |->
                                                IF h = "fb" THEN f ELSE @[h]]]
  /\ UNCHANGED <<counts, next_pid, cur>>

Next == \/ spawn_from_elf \/ load_refused \/ fork
        \/ (\E g \in Page : try_resolve_cow(g))
        \/ exit_current \/ wait_any \/ schedule \/ sys_fb_acquire

Spec == Init /\ [][Next]_vars

-----------------------------------------------------------------------------
(* Properties *)

\* What fork promises: parent and child share frames read-only, and the first
\* write gives the writer a copy.  So no two live processes reach the same
\* frame when one of them can write to it.
WritableIsPrivate ==
  \A p, q \in Live : \A g \in {"code", "stack"} :
    p # q => \A e \in Reach(p, g), d \in Reach(q, g) : e.frame = d.frame => ~e.writable
=============================================================================
