-------------------------------- MODULE Ipc ---------------------------------
(***************************************************************************)
(* Shared memory and mailboxes (ipc/mod.rs) and the owner of the           *)
(* framebuffer (gfx/mod.rs): the kernel's books about what each process    *)
(* holds, from the syscalls that take it to the hooks of exit_current that *)
(* give it back, and the frames it lends: mapped, copied by a fork, and    *)
(* given up when the address space that has them mapped is destroyed.      *)
(*                                                                         *)
(* A syscall runs with interrupts masked, so it is one step of process p.  *)
(* The leaf tables, which a fork leaves shared, are those of module        *)
(* AddressSpace; here a map_to that fails is a choice, and so is which     *)
(* page still is marked copy-on-write.  A message is its sender; whether a *)
(* user pointer is valid is a choice.                                      *)
(***************************************************************************)
EXTENDS Integers, Sequences, FiniteSets

CONSTANTS Pid,         \* processes
          None,        \* no process
          Frames,      \* physical frames for regions and backbuffer
          MaxHandle,   \* bound: handles handed out by NEXT_HANDLE
          MaxPages,    \* bound: pages of a region (SHM_MAX_SIZE)
          MaxVa,       \* bound: pages a process maps in its life
          MaxQueued,   \* MAX_QUEUED_PER_PID
          HasFb        \* drivers::fb::fb() is there

ASSUME IpcAssumption == /\ MaxHandle \in Nat /\ MaxPages \in Nat \ {0}
                        /\ MaxVa \in Nat /\ MaxQueued \in Nat \ {0}
                        /\ HasFb \in BOOLEAN /\ None \notin Pid

VARIABLES procs,        \* pid -> "unborn", "live", "zombie" or "reaped"
          parent,       \* pid -> who forked it, or None
          SHM_TABLE,    \* handle -> region
          SHM_MAPPINGS, \* live mappings, a set: their order is never observed
          SHM_VA_NEXT,  \* pid -> pages handed out from SHM_VA_BASE
          NEXT_HANDLE,
          MAILBOXES,    \* pid -> queue of senders
          FB_OWNER,     \* who holds the framebuffer, or None
          FB_BACKBUF_FRAMES, \* the backbuffer, once allocated: one frame here
          FB_BACKBUF_VA,     \* it is mapped somewhere
          mapped_pages, \* pid -> lent page -> frame, in its AddressSpace
          counts,       \* FRAME_REFCOUNT of these frames
          free,         \* frames the allocator can hand out
          destroyed,    \* history: frames AddressSpace::destroy gave back
          spinning      \* the process whose sys_ipc_recv does not return, or None

shm    == <<SHM_TABLE, SHM_MAPPINGS, SHM_VA_NEXT, NEXT_HANDLE>>
fb     == <<FB_OWNER, FB_BACKBUF_FRAMES, FB_BACKBUF_VA>>
memory == <<mapped_pages, counts, free, destroyed>>
vars   == <<procs, parent, SHM_TABLE, SHM_MAPPINGS, SHM_VA_NEXT, NEXT_HANDLE,
            MAILBOXES, FB_OWNER, FB_BACKBUF_FRAMES, FB_BACKBUF_VA, mapped_pages,
            counts, free, destroyed, spinning>>

Handle  == 1 .. MaxHandle
Mapping == [pid : Pid, handle : Handle, base : 0 .. MaxVa, pages : 1 .. MaxPages]

\* Pages are counted from SHM_VA_BASE; the framebuffer's window lies elsewhere.
FB_USER_VA == MaxVa

Image(f) == {f[x] : x \in DOMAIN f}

Init ==
  /\ procs = [p \in Pid |-> "unborn"] /\ parent = [p \in Pid |-> None]
  /\ SHM_TABLE = << >> /\ SHM_MAPPINGS = {} /\ NEXT_HANDLE = 1
  /\ SHM_VA_NEXT = [p \in Pid |-> 0]
  /\ MAILBOXES = [p \in Pid |-> << >>]
  /\ FB_OWNER = None /\ FB_BACKBUF_FRAMES = {} /\ FB_BACKBUF_VA = FALSE
  /\ mapped_pages = [p \in Pid |-> << >>] /\ counts = [f \in Frames |-> 0]
  /\ free = Frames /\ destroyed = {}
  /\ spinning = None

Known == DOMAIN SHM_TABLE

\* The shell starts a process.
start(p) == /\ procs[p] = "unborn" /\ spinning = None
            /\ procs' = [procs EXCEPT ![p] = "live"]
            /\ UNCHANGED <<parent, shm, MAILBOXES, fb, memory, spinning>>

\* p is on the processor, in a syscall: nobody else is until it returns.
Runs(p) == procs[p] = "live" /\ spinning = None

-----------------------------------------------------------------------------
(* Shared memory *)

\* Either every frame is found, or those taken are given back.
sys_shm_create(p) ==
  /\ Runs(p) /\ NEXT_HANDLE \in Handle
  /\ \E n \in 1 .. MaxPages : \E fs \in [1 .. n -> free] :
       /\ \A i, j \in 1 .. n : fs[i] = fs[j] => i = j
       /\ SHM_TABLE' = [h \in Known \cup {NEXT_HANDLE} |->
            IF h = NEXT_HANDLE THEN [frames |-> fs, refs |-> 0] ELSE SHM_TABLE[h]]
       /\ free' = free \ Image(fs)
  /\ NEXT_HANDLE' = NEXT_HANDLE + 1
  /\ UNCHANGED <<procs, parent, SHM_MAPPINGS, SHM_VA_NEXT, MAILBOXES, fb, mapped_pages,
                 counts, destroyed, spinning>>

\* Slip: a mapping that fails keeps its reference.
Taken_Leaks(region, ok) == [region EXCEPT !.refs = @ + 1]

\* The reference taken first is given back when a page cannot be mapped.
Taken(region, ok) == IF ok THEN [region EXCEPT !.refs = @ + 1] ELSE region

\* Slip: the next free address moves by one page for any region.
Bump_OnePage(va, pages) == va + 1

Bump(va, pages) == va + pages

Pages(h) == Len(SHM_TABLE[h].frames)

\* map_to page by page: the address space notes each frame, and takes no reference.
Mapped(pages, base, frames) ==
  [va \in DOMAIN pages \cup base .. base + Len(frames) - 1 |->
     IF va \in base .. base + Len(frames) - 1 THEN frames[va - base + 1] ELSE pages[va]]

\* A page that cannot be mapped takes those before it back; the addresses stay
\* consumed.
sys_shm_map(p, h) ==
  /\ Runs(p) /\ h \in Known
  /\ SHM_VA_NEXT[p] + Pages(h) <= MaxVa
  /\ \E ok \in BOOLEAN :
       /\ SHM_TABLE' = [SHM_TABLE EXCEPT ![h] = Taken(@, ok)]
       /\ IF ok
          THEN /\ SHM_MAPPINGS' = SHM_MAPPINGS \cup
                    {[pid |-> p, handle |-> h, base |-> SHM_VA_NEXT[p], pages |-> Pages(h)]}
               /\ mapped_pages' = [mapped_pages EXCEPT
                    ![p] = Mapped(@, SHM_VA_NEXT[p], SHM_TABLE[h].frames)]
          ELSE UNCHANGED <<SHM_MAPPINGS, mapped_pages>>
  /\ SHM_VA_NEXT' = [SHM_VA_NEXT EXCEPT ![p] = Bump(@, Pages(h))]
  /\ UNCHANGED <<procs, parent, NEXT_HANDLE, MAILBOXES, fb, counts, free, destroyed,
                 spinning>>

MappingsOf(ms, h) == {m \in ms : m.handle = h}

\* n mappings of a region are gone: nobody is left.
Orphan(region, n) == n > 0 /\ region.refs - n <= 0

\* The table after the mappings in gone are dropped one by one: each gives up a
\* reference, and the last one takes the region away.
Dropped(gone) ==
  LET n(h) == Cardinality(MappingsOf(gone, h))
  IN [h \in {h \in Known : ~Orphan(SHM_TABLE[h], n(h))} |->
       [SHM_TABLE[h] EXCEPT !.refs = @ - n(h)]]

\* The frames of the regions that go.
Freed(gone) == UNION {Image(SHM_TABLE[h].frames) : h \in Known \ DOMAIN Dropped(gone)}

\* Slip: the last page of a mapping stays.
Unmapped_AllButLast(pages, m) ==
  [va \in DOMAIN pages \ (m.base .. m.base + m.pages - 2) |-> pages[va]]

\* unmap_va, for each page of a mapping.
Unmapped(pages, m) == [va \in DOMAIN pages \ (m.base .. m.base + m.pages - 1) |-> pages[va]]

sys_shm_unmap(p) ==
  /\ Runs(p)
  /\ \E m \in SHM_MAPPINGS :
       /\ m.pid = p
       /\ SHM_MAPPINGS' = SHM_MAPPINGS \ {m}
       /\ SHM_TABLE' = Dropped({m}) /\ free' = free \cup Freed({m})
       /\ mapped_pages' = [mapped_pages EXCEPT ![p] = Unmapped(@, m)]
  /\ UNCHANGED <<procs, parent, SHM_VA_NEXT, NEXT_HANDLE, MAILBOXES, fb, counts, destroyed,
                 spinning>>

-----------------------------------------------------------------------------
(* Mailboxes *)

\* The target is not looked up: anyone may be written to, dead or unborn.
sys_ipc_send(p, target) ==
  /\ Runs(p) /\ Len(MAILBOXES[target]) < MaxQueued
  /\ MAILBOXES' = [MAILBOXES EXCEPT ![target] = Append(@, p)]
  /\ UNCHANGED <<procs, parent, shm, fb, memory, spinning>>

\* The message is taken before the caller's buffer is looked at: a bad buffer
\* loses it.
sys_ipc_recv(p) ==
  /\ Runs(p) /\ MAILBOXES[p] # << >>
  /\ MAILBOXES' = [MAILBOXES EXCEPT ![p] = Tail(@)]
  /\ UNCHANGED <<procs, parent, shm, fb, memory, spinning>>

\* An empty mailbox is looked at again and again: the interrupts are masked since
\* the syscall's entry, and yield_now has no other kernel thread to go to.
recv_spins(p) ==
  /\ procs[p] = "live" /\ spinning \in {None, p} /\ MAILBOXES[p] = << >>
  /\ spinning' = p
  /\ UNCHANGED <<procs, parent, shm, MAILBOXES, fb, memory>>

-----------------------------------------------------------------------------
(* The framebuffer *)

\* Slip: whoever asks gets it.
MayAcquire_Always(owner, p) == TRUE

MayAcquire(owner, p) == owner \in {None, p}

\* The window is mapped frame by frame; one that is mapped already, or cannot
\* be, is passed over.
WindowMapped(pages, frames) ==
  {pages} \cup {Mapped(pages, FB_USER_VA, <<f>>) : f \in IF FB_USER_VA \in DOMAIN pages
                                                       THEN {} ELSE frames}

\* Without a device the caller stays the owner of nothing; without frames for
\* the first owner the claim is undone; later owners find the frames there.
sys_fb_acquire(p) ==
  /\ Runs(p) /\ MayAcquire(FB_OWNER, p)
  /\ IF ~HasFb
     THEN FB_OWNER' = p /\ UNCHANGED <<FB_BACKBUF_FRAMES, FB_BACKBUF_VA, mapped_pages, free>>
     ELSE \/ /\ FB_OWNER' = p /\ FB_BACKBUF_VA' = TRUE
             /\ \/ FB_BACKBUF_FRAMES # {} /\ UNCHANGED <<FB_BACKBUF_FRAMES, free>>
                \/ /\ FB_BACKBUF_FRAMES = {}
                   /\ \E f \in free : FB_BACKBUF_FRAMES' = {f} /\ free' = free \ {f}
             /\ \E pages \in WindowMapped(mapped_pages[p], FB_BACKBUF_FRAMES') :
                  mapped_pages' = [mapped_pages EXCEPT ![p] = pages]
          \/ /\ FB_BACKBUF_FRAMES = {}
             /\ FB_OWNER' = None
             /\ UNCHANGED <<FB_BACKBUF_FRAMES, FB_BACKBUF_VA, mapped_pages, free>>
  /\ UNCHANGED <<procs, parent, shm, MAILBOXES, counts, destroyed, spinning>>

-----------------------------------------------------------------------------
(* fork and copy-on-write *)

\* The pages of p that show f, and what the counts become when so many
\* references on a frame are taken or given up: inc saturates, dec stops at 0.
PagesOf(p, f) == Cardinality({va \in DOMAIN mapped_pages[p] : mapped_pages[p][va] = f})
inc(c, n) == IF c + n < 255 THEN c + n ELSE 255
dec(c, n) == IF c > n THEN c - n ELSE 0

\* clone_cow gives the child the parent's pages, lent ones too, and counts them;
\* the books of ipc and gfx know nothing of it.
fork(q, p) ==
  /\ Runs(q) /\ procs[p] = "unborn"
  /\ procs' = [procs EXCEPT ![p] = "live"] /\ parent' = [parent EXCEPT ![p] = q]
  /\ mapped_pages' = [mapped_pages EXCEPT ![p] = mapped_pages[q]]
  /\ counts' = [f \in Frames |-> inc(counts[f], PagesOf(q, f))]
  /\ UNCHANGED <<shm, MAILBOXES, fb, free, destroyed, spinning>>

\* The processes that share leaf tables with nobody, and the others.
Alone == {p \in Pid : parent[p] = None /\ \A q \in Pid : parent[q] # p}
Kin   == Pid \ Alone

\* A write to a page that one of the kin has mapped and that is counted more than
\* once: the writer gets a copy in a frame of its own.  Counted once, the page
\* only becomes writable again.
try_resolve_cow(p) ==
  /\ Runs(p) /\ p \in Kin
  /\ \E q \in Kin : \E va \in DOMAIN mapped_pages[q], f \in free :
       LET old == mapped_pages[q][va]
       IN /\ counts[old] > 1
          /\ mapped_pages' = [mapped_pages EXCEPT ![p] = Mapped(@, va, <<f>>)]
          /\ counts' = [counts EXCEPT ![old] = dec(@, 1), ![f] = 1]
          /\ free' = free \ {f}
  /\ UNCHANGED <<procs, parent, shm, MAILBOXES, fb, destroyed, spinning>>

-----------------------------------------------------------------------------
(* The end of a process *)

release_if_owner(p) ==
  /\ IF FB_OWNER = p THEN FB_OWNER' = None /\ FB_BACKBUF_VA' = FALSE
     ELSE UNCHANGED <<FB_OWNER, FB_BACKBUF_VA>>
  /\ UNCHANGED FB_BACKBUF_FRAMES

Owned(p) == {m \in SHM_MAPPINGS : m.pid = p}

\* The pages stay mapped in the address space of p, which outlives p.
cleanup_pid(p) ==
  /\ MAILBOXES' = [MAILBOXES EXCEPT ![p] = << >>]
  /\ SHM_MAPPINGS' = SHM_MAPPINGS \ Owned(p)
  /\ SHM_TABLE' = Dropped(Owned(p)) /\ free' = free \cup Freed(Owned(p))
  /\ SHM_VA_NEXT' = [SHM_VA_NEXT EXCEPT ![p] = 0]
  /\ UNCHANGED <<NEXT_HANDLE, mapped_pages, counts, destroyed>>

\* The hooks run first.  A process that is dead can exit again, reaped or not:
\* see module Process on the stale `current`.
exit_current(p) ==
  /\ procs[p] # "unborn" /\ spinning = None
  /\ release_if_owner(p)
  /\ cleanup_pid(p)
  /\ procs' = [procs EXCEPT ![p] = IF @ = "live" THEN "zombie" ELSE @]
  /\ UNCHANGED <<parent, spinning>>

\* A parent's wait drops the address space: destroy gives up one reference for
\* each page and frees a frame that has none left.
wait_any(q, p) ==
  /\ Runs(q) /\ procs[p] = "zombie" /\ parent[p] = q
  /\ procs' = [procs EXCEPT ![p] = "reaped"]
  /\ mapped_pages' = [mapped_pages EXCEPT ![p] = << >>]
  /\ counts' = [f \in Frames |-> dec(counts[f], PagesOf(p, f))]
  /\ LET freed == {f \in Image(mapped_pages[p]) : counts'[f] = 0}
     IN free' = free \cup freed /\ destroyed' = destroyed \cup freed
  /\ UNCHANGED <<parent, shm, MAILBOXES, fb, spinning>>

Next == \E p \in Pid :
          \/ start(p) \/ exit_current(p) \/ try_resolve_cow(p)
          \/ (\E q \in Pid : fork(p, q) \/ wait_any(p, q))
          \/ sys_shm_create(p) \/ (\E h \in Handle : sys_shm_map(p, h)) \/ sys_shm_unmap(p)
          \/ (\E target \in Pid : sys_ipc_send(p, target)) \/ sys_ipc_recv(p) \/ recv_spins(p)
          \/ sys_fb_acquire(p)

Spec == Init /\ [][Next]_vars

-----------------------------------------------------------------------------
(* Properties *)

\* Every variable has its type; the table has only handles sys_shm_create gave out.
TypeOK ==
  /\ procs \in [Pid -> {"unborn", "live", "zombie", "reaped"}]
  /\ parent \in [Pid -> Pid \cup {None}]
  /\ NEXT_HANDLE \in 1 .. MaxHandle + 1
  /\ Known \subseteq 1 .. NEXT_HANDLE - 1
  /\ SHM_TABLE \in [Known -> [frames : Seq(Frames), refs : Nat]]
  /\ \A h \in Known : Pages(h) \in 1 .. MaxPages
  /\ SHM_MAPPINGS \subseteq Mapping
  /\ SHM_VA_NEXT \in [Pid -> 0 .. MaxVa]
  /\ MAILBOXES \in [Pid -> Seq(Pid)]
  /\ FB_OWNER \in Pid \cup {None} /\ FB_BACKBUF_FRAMES \subseteq Frames
  /\ FB_BACKBUF_VA \in BOOLEAN
  /\ DOMAIN mapped_pages = Pid
  /\ \A p \in Pid : /\ DOMAIN mapped_pages[p] \subseteq 0 .. MaxVa
                    /\ Image(mapped_pages[p]) \subseteq Frames
  /\ counts \in [Frames -> 0 .. 255]
  /\ free \subseteq Frames /\ destroyed \subseteq Frames
  /\ spinning \in Pid \cup {None}

\* The reference count of a region is the number of its mappings in live
\* processes, through failed maps, unmaps and exits in any order: a region
\* goes with its last mapping and not before.
RefsAreMappings ==
  /\ \A h \in Known : SHM_TABLE[h].refs = Cardinality(MappingsOf(SHM_MAPPINGS, h))
  /\ \A m \in SHM_MAPPINGS : m.handle \in Known /\ procs[m.pid] = "live"

\* Two mappings of one process never overlap, so an unmap takes away what was
\* mapped and nothing else.
MappingsAreDisjoint ==
  \A m, n \in SHM_MAPPINGS :
    m # n /\ m.pid = n.pid => m.base + m.pages <= n.base \/ n.base + n.pages <= m.base

\* The frames a region lends.
Lent(h) == Image(SHM_TABLE[h].frames)

\* A frame that is lent, by a region or as backbuffer, is neither free nor lent
\* twice, and what a process has mapped is not free as long as the process shares
\* its tables with nobody.  The exception is what destroy does: a forked child that
\* is reaped gives back lent frames that are counted as its own or not at all.
LentFramesStay ==
  /\ \A h \in Known : Lent(h) \cap (free \cup FB_BACKBUF_FRAMES) \subseteq destroyed
  /\ \A h, k \in Known : h # k => Lent(h) \cap Lent(k) \subseteq destroyed
  /\ FB_BACKBUF_FRAMES \cap free \subseteq destroyed
  /\ \A p \in Alone : procs[p] = "live" => Image(mapped_pages[p]) \cap free \subseteq destroyed

\* The framebuffer changes hands through the death of its owner only, never
\* has a dead owner, and is exposed to someone only while it has one.
FbIsExclusive ==
  [][/\ FB_OWNER # None /\ FB_OWNER' # FB_OWNER => procs'[FB_OWNER] = "zombie"
     /\ FB_OWNER' # None => procs'[FB_OWNER'] = "live"
     /\ FB_BACKBUF_VA' => FB_OWNER' # None]_vars
=============================================================================
