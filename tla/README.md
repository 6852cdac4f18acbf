# A TLA+ verification of rust-x86_64-kernel

This directory specifies the kernel under `kernel/` in TLA+: the state machines of
its concurrent and stateful parts, TLC configurations that explore them on small
instances, and TLAPS proofs of the properties that matter most, for every size of
those instances. The specifications are translations of the Rust and assembly code;
where a comment or a document of the repository says something else than the code,
the code is what is modelled and the difference is a *violation* run.

`PROJECT.json` has the machine-readable side: the components, the runs, for each
definition the source lines it stands for, the known hazards of the code at the
line where they bite, and for each property one plausible bug that it detects.

## The system

One processor runs everything. What is concurrent is:

* **interrupt handlers** (timer at 100 Hz, keyboard) that come between any two
  instructions unless interrupts are masked. System calls and exceptions run masked,
  the executor's loop and the shell's commands do not;
* **ring-3 processes**, preempted by the timer and scheduled from a run queue;
* **async tasks** (shell, network polling, HTTP server, heartbeat), polled by one
  executor, and cooperative **kernel threads** beside them;
* **devices** that work on their own: disk, network card, virtio-gpu;
* the **power**, which may go between two sector writes.

| part of the system | code | module |
| --- | --- | --- |
| physical frame allocator | `memory/frame_allocator.rs` | `FrameAllocator`, abstract: `FramePool` |
| kernel threads | `task/thread.rs`, `context_switch.asm` | `KThreads`, with `Retain` |
| user processes, scheduler, signals, preemption | `task/process.rs`, `task/signal.rs`, `arch/x86_64/idt.rs`, the shell's process commands | `Process` |
| address spaces, copy-on-write, reference counts, loading | `memory/address_space.rs`, `cow.rs`, `frame_refcount.rs`, `fs/elf.rs` | `AddressSpace` |
| shared memory, mailboxes, framebuffer ownership | `ipc/mod.rs`, `gfx/mod.rs` | `Ipc` |
| executor, sleep timers, keyboard stream, waits in system calls | `task/executor.rs`, `time/sleep.rs`, `drivers/keyboard.rs`, `syscall/mod.rs` | `Executor`, with `Retain` |
| FAT32 write path over ATA | `drivers/fat32.rs`, `drivers/ata.rs` | `Fat32` |
| accounts, login, persistence | `users/mod.rs`, `shell/`, `persist.rs`, `fs/ramfs.rs` | `Accounts`, with `Retain` |
| e1000 rings, DHCP, UDP, DNS, HTTP | `drivers/e1000.rs`, `net/` | `Net` |
| framebuffer, text console, virtio-gpu | `drivers/fb.rs`, `drivers/console.rs`, `virtio/` | `Display`, abstract: `Terminal` |

Not modelled, and why: the boot stages, ACPI, PCI and partition parsing (run once,
no state afterwards); paging wrappers and the heap (a crate outside the repository);
descriptor tables and controllers, but for the handlers' control flow; serial, VGA
text and fonts (output only); NVMe, ext2 and the mouse (never used by the running
system); the bundled and the separate user programs (in the models ring 3 makes any
system call at any time); SHA-256 (an injective function); the command search path
(`exec_paths` to `resolve_exec_path`: a list under one lock that one shell command at a
time changes or searches). `PROJECT.json` lists each.

## The modules

Each module keeps the code's control: every guard, early return, error path and the
order of effects. Data is reduced to what the properties tell apart. An operation
that nothing can interrupt with effect is one action; where an interrupt, a device
or a power cut can come in between, the operation is split at exactly those points.
Definitions carry the names of the functions they model. An operator marked *Slip*
is a plausible mistake in the definition that follows it; no specification uses it.

**FrameAllocator** has the bitmap, the search hint, the frame count and the counter
of `mem`. `FrameInit` is `BitmapFrameAllocator::new` on any memory map, kernel ranges and
modules, with the roundings of the code; the actions are `allocate_frame` and
`deallocate_frame`. It implements **FramePool**, which says what any frame allocator
promises. Names that `Ipc` has too start with `Frame`, because one module proves things
about both; those of `KThreads` start with `Threads` for the same reason.

**KThreads** has the scheduler's vector and index, the entry points and, apart from
them, the execution really on the processor: a saved stack pointer leads to the
execution saved there, so a wrong index shows as a disagreement.

**Process** has the table, the run queue, `current`, where control is (`at`: ring 3,
shell, stopped), the interrupt flag, the timer's in-service bit and the saved kernel
context. Actions are the process system calls, the page-fault kill, the three
outcomes of a tick (it spins on a lock the shell holds; it delivers a signal and does
not return; it reschedules), and the shell's commands, whose critical sections a tick
can interrupt. `sys_sleep_ms` halts with interrupts masked, which ends the behaviour. The loop
of `run_until_all_exit` up to the first entry into ring 3 is one step. A trap frame is
reduced to whether it is stale or zeroed.

**AddressSpace** has one page per region (code, stack, framebuffer window) and the
leaf table each process reaches it through; tables are shared where `new_user` and
`clone_cow` copy slots. Reference counts saturate as in the code.

**Ipc** has the kernel's books on what a process holds: regions, mappings, address
bump pointers, mailboxes, the framebuffer's owner and backbuffer; every failure path
of `sys_shm_map` and `sys_fb_acquire`; the exit hooks. It also has the frames these lend
and the pages that show them: `fork` copies the parent's pages, lent ones included, and
counts them, a write may give one of the kin a copy (`try_resolve_cow`), and `wait_any`
destroys the address space of a zombie child, giving up a count for each page and freeing
the frames that have none left. A lent frame is not counted for its region, so that this
frees frames that are still lent; `destroyed` remembers them. They are the exception
`LentFramesStay` makes, and the hazard at `ipc/mod.rs:279` is about them. `Process` decides
who runs. **MCIpc** adds the symmetry of frames.

**Executor** has the loop's place (`pc`), both queues, the set of queued ids, timer
entries and the keyboard queue and waker. Both handlers are enabled at every place;
one that needs a spin lock the loop holds leads to `pc = "hung"`. A program that the
shell runs keeps the loop inside the shell's poll (`pc = "ring 3"`): timers fire and
keys arrive meanwhile, `sys_read` and `sys_sleep_ms` wait with interrupts masked, a tick
may deliver a signal and not return, and `kernel_return` comes back with interrupts
masked. This composes the loop with what `Process` does to the machine.

**Fat32** takes one step per write that reaches the disk in `create_root_file`,
`upsert_root_dir_entry`, `free_chain` and `unlink_root`. `interrupted` stops any call
anywhere: an I/O error passed on by `?` and a power cut have the same effect, because
the driver keeps nothing between calls. One error is not passed on: `next_cluster` takes a
FAT sector that cannot be read for the end of the chain (`fat32.rs:131`). `misread_root` and
`misread_chain` are the two places where this ends in a write: the root is linked to a new
cluster in its middle, which cuts off what followed (`torn`), or the rest of a chain that is
given up stays taken (`failed`). The volume may have files with long names at the mount.
The write path takes no account of them: `unlink_root` marks the entry as deleted and leaves
the long name, which `parse_dir_entries` then gives to the next entry it meets. `IsReadAs`
is that reading, and `ReadBack` ends where a long name has lost its entry (`Paired`).

**Accounts** has the ramfs files that persist, the session, the save in progress and
the sectors of the disk. A save writes sector by sector; `boot` parses what it finds.
The operations of `users/mod.rs` and the shell commands that look the account up for
them are separate definitions. A line of blanks halts the kernel, as in the code:
`execute` is called for it and indexes the first of no words (`shell/mod.rs:142`).

**Net** has both rings with the card's heads and tails, datagrams in flight that may be
lost, delayed and repeated, the resolver's sockets, the lease, and the one HTTP socket.
`send` does not wait for a free descriptor; the history variable `unsent` is the queue of
the frames the card can still find, and is empty after an overrun, when head and tail are
equal again. `resolve_a` returns early for a name that is too long, without a name server,
for a label it cannot encode and when smoltcp refuses the query. It waits with `hlt`; a
tick of the server that runs before interrupts are enabled again, after a program has
ended, waits there for ever (`pc = "halted"`). smoltcp and the card are external, modelled
from how the code uses them.

**Display** has the two pixel buffers, dirty rectangles, cursor, backend, the device's
copies and the virtqueue with both sides' indices. The device's scanout may be larger or
smaller than the framebuffer, for the kernel compares neither side: pixels go to the
backing by offset, with the device's stride and without a check, and the region that is
sent is clamped. `smashed` tells how memory was spoilt, by an answer into a dead stack frame
or by a row beyond the backing; behaviours end there. It implements **Terminal**, a
window of text lines over a status bar, through the pixels it paints. Texts, tabs and
the bar are drawn by loops, as in the code; `Terminal` has a tab in closed form.

The modules meet in these places: `Executor` runs the tasks whose bodies are `Net`'s
polls and `Accounts`' shell; its fairness is what `Net` assumes of `http_tick`.
`Executor` holds the effect of `Process` on keys and interrupts while a program runs.
`Process` runs the system calls of `Ipc` and `AddressSpace`, and its stale `current`
is why `exit_current` of `Ipc` may run twice. `AddressSpace` takes frames from what
`FramePool` promises.

## The runs

Passing runs; states are distinct states.

| run | instance | states | what it shows |
| --- | --- | --- | --- |
| `frame_allocator` | frames of 2 bytes, 7 bits, all maps of two areas with odd and even bounds | 16 940 | search finds every free frame, counter exact, free frames share no byte with reserved memory, `FramePool` implemented |
| `kernel_threads` | 5 threads | 1 453 | table and processor agree, no panic reachable, nobody starves |
| `processes` | 3 pids, 1 pending signal each | 516 840 | no Runnable process lost or starved, no lost wakeup, exact reports, zombies stay dead |
| `ipc` | 2 processes, one forking the other or not, 2 handles, 2 pages of addresses each, 3 frames (symmetric) | 1 165 555 | counts equal mappings, ranges disjoint, lent frames are nobody else's, framebuffer exclusive |
| `executor` | shell, one periodic task, one `sleep` task, 3 keys, room for 2 scancodes, programs run from the shell | 27 957 | no lost wakeup, no double entry, sleeps end, keys are read, masked interrupts come back |
| `fat32` | 3 names, 4 clusters, 2 slots per directory cluster, no file or one with a long name at the mount, 4 creates | 575 404 | no cross-links, files read back, no cluster lost without failures |
| `accounts` | 3 names, 3 commands, 2 sectors of 3 cells, largest uid 4 | 648 729 | what was saved returns, names and uids unique, other accounts untouched |
| `network` | rings of 3, 2 queries on one port, 3 frames in, 1 other frame out, 1 lease | 250 656 | frames in order both ways, answers match, requests answered, listener returns |
| `display` | 3x8 pixels, 2 text lines, devices of 3x8, 4x9, 2x9 and 3x5, 3 frames, 2 failures | 640 310 | what is painted is shown, the pixels are a terminal |

The bounds are the smallest that reach every branch: a third process makes a queue
longer than the two that swap; the second sector makes a torn save; the fifth cluster
number gives the root a second cluster and still fills the disk; rings of three hold two
frames at a time, so that order is at stake, wrap, and the transmit ring overruns with the
last frame sent (`NetProofs` has rings of any size and what is sent after an overrun); the devices are the framebuffer's size, larger,
narrower and lower; two queries let one's answer meet the other's socket; ring indices
of the virtqueue wrap at 4 (in the code at 2^16). A test in the code (mailbox and scancode
queue full, MAX_ATTEMPTS, uid overflow) is met on both sides, with one exception: `executor`
has three tasks and three places in `task_queue`, so that the branch that drops a wake
(`executor.rs:180`) is not taken. With fewer places `NoLostWakeup` fails; `TaskProofs` says
which properties need the room. Deadlock is checked except where the system really stops:
`processes`, `executor` and `network` (a handler spinning on a lock, a halt with interrupts
masked), `display` and `fat32` (the bounded calls are used up), and the violation run of
`AddressSpace`.

Violation runs, each a place where the code and the repository's own words differ:

| run | says | does |
| --- | --- | --- |
| `resumes_as_left` | `task/process.rs:422` fork duplicates the current process, the child sees 0 | the child resumes at the frame of the parent's last preemption |
| `writable_is_private` | `memory/cow.rs:5` a write gives the writer a private copy | parent and child share leaf tables, so both see and can write the copy |
| `saving_keeps_the_volume` | `persist.rs:4` a zone of the disk is reserved | the zone is where the disk image's FAT32 partition starts; the first save overwrites its boot sector |

Other disagreements, kept as hazards in `PROJECT.json` because no single state
refutes them or the state is an end of the model: the tick that delivers a signal
never sends its end-of-interrupt; `sys_ipc_recv` spins instead of sleeping; `sys_read`
and `sys_sleep_ms` halt with interrupts masked; `send` says it waits for a free
descriptor (`e1000.rs:319`) and does not; a handler may spin on a lock its victim holds; a
virtio request that was given up is answered into a dead stack frame; `create_root_file`
creates or replaces a file of that name (`fat32.rs:421`), but after the removal of a file
with a long name the new entry may be read under the old long name; a fork's child that is
reaped gives back frames a region still lends.

### Fairness

* `KThreads`: a running thread yields. The scheduler is cooperative and says so.
* `Process`: weak fairness of the tick, because the PIT keeps ticking. Nothing is
  promised once the in-service bit is left set.
* `Executor`: the loop takes its steps and the timer ticks; no fairness for keys, nor
  for ring 3, where a program may run for ever. The liveness properties therefore
  suppose `ProgramsEnd`, and stop at the states from which the code has no way out
  (`hung`, or a tick left without its end-of-interrupt).
* `Net`: the kernel's steps (the processor runs on), strong fairness of `http_tick`
  (its timer fires again and again and each poll returns) and of the peer's last
  acknowledgement, which TCP retransmits. Nothing is assumed of the card, the name
  server or the client otherwise.

The other modules have no liveness properties and assume none.

## The proofs

Eight modules hold theorems and lemmas; `tlapm` checks every leaf with Z3, Zenon and LS4.
Every safety invariant and action property that a passing run checks is a theorem, and so
are both refinements. For each component `TypeOK` is proved too, where the run does not
repeat it as well. The inductive invariants also hold in every state TLC reaches on the
instances above.

**MemoryProofs** (1900 obligations) is about the frame allocator and about `Ipc`. Of the
allocator's constants it assumes only what `FrameAllocatorAssumption` says: a positive
frame size, a bitmap of any size, any sets of memory maps, kernel ranges and modules. The
properties are not inductive as they stand: that a released frame is found again needs
that every managed frame lies below `num_frames`, and that a release frees only what `new`
cleared needs that every clear bit is a managed frame. `FrameInv` adds these two. From it
follow `SearchCoverage`, `UsedAccounting` (with the library's facts on cardinality),
`FreeFramesSafety` (with lemmas on the rounding of addresses, proved from integer
division) and `Refinement`: every step of the bitmap allocator is a step of `FramePool` or
leaves its state alone.

The second half holds for any processes, frames, handles and region sizes
(`IpcAssumption`). Three facts make the properties of `Ipc` inductive. Every range handed
out lies below the process's next address, so that a new mapping meets no old one even
after a failed map. A page of a live process that was never party to a fork shows the
backbuffer, a frame of a region the process has a mapping of at that address, or a frame
some destruction has given back (`PagesAreShown`): this is what allows an unmap, which
looks only at the address, to leave no page behind. Of parents and children nothing of the
kind holds, for a fork copies pages and no mapping; a process not yet born has neither
page nor parent (`UnbornIsBlank`). The owner of the framebuffer is alive and the
backbuffer was allocated for it (`OwnerLives`). The counting rests on one lemma
(`RefsSplit`): the references of a region are those given up plus those that stay.
`ExactReferences`, `DisjointMappings`, `LentFrames` and `FramebufferIsExclusive` follow.

**ProcessProofs** (1529 obligations) holds for any number of processes and signals.
`exit_current` prepares a table and a queue before `schedule_next` installs them, so the
invariant is stated of a table and a queue as values (`Healthy`), and the lemmas say what
picking, telling a parent, waking and requeueing do to such a pair. `IInv` strengthens the
properties by three facts: the process on the processor is alive, every parent's pid has
been handed out (`parent < next_pid`, so that a new process is never taken for the parent
of an old one), and, while the shell runs, the stale `current` is gone or dead without a
living parent (`Unheard`): a late signal makes it exit a second time, and this is why the
second exit is told to nobody. `NoRunnableLost`, `WakeupSafety` and `ExactWait` follow
from `IInv`, `DeathIsFinal` (an action property) from `IInv` and the step.

**NetProofs** (1597 obligations) holds for rings of any size above one, any ports, hosts,
timeout and number of queries (`NetAssumption`). For the rings, the invariant measures
each descriptor's distance from the next one to be read or sent: done bits, numbers and
contents are functions of that distance and of the number of frames waiting, and the tail
stays right behind the reader (`RxRing`, `TxRing`). An overrun makes all transmit
distances those of an empty ring, which is why `FramesGoOut` holds beyond it. For the
resolver, that answers match is not inductive without an account of every frame that
exists anywhere, in flight or left in a descriptor: if no earlier query had the port of
the present one, a frame to that port answers it; if one had, smoltcp gives the frame to
that query's socket, which is never removed, and the present query gets nothing
(`SocketsAgree`). `ReceiveOrder`, `SendOrder` and `RightAnswers` follow.

**TaskProofs** (2709 obligations) is about kernel threads and the executor. It starts with
`Retain`, the order-keeping removal that `reap` and the timer list use: the rank of an
index among the kept ones is a bijection onto the new indices, so that every element kept
is there once and in its old order.

For `KThreads` there may be any number of threads. `reap` shifts the indices under
`current`, and what makes `TableAgrees` inductive is not about indices: ids are unique and
below `next_id` (`UniqueIds`), the main thread is in the table and not finished, so that
`exit` finds a thread to run (`MainLives`), and a thread that never ran has its entry
point registered (`Registered`), which with `TableMatchesCpu` gives `NeverPanics`.

For `Executor` tasks, delays, keys and capacities are arbitrary. The invariant has two
halves. `Books` is true however small `task_queue` is: types, no id queued or spawned
twice, and the set of queued ids equal to the queue but for the id just popped, at exactly
the places where a handler can see the difference. `QueueExact` and `TypeCorrectness`
follow. `Wakes` says that a `Sleep` polled and not due has its entry, that one being
polled again has it or is queued, that between the two looks at the keyboard queue the
waker is registered or a key is there, and that the loop halts with nothing to do. It
needs room: `wake` drops an id that does not fit, so `NoWakeupLost` is proved under
`Room`, that there are no more tasks than places (256 in the code; the shell can start
more `sleep` tasks than that). The hypothesis is tight: with three tasks and two places
TLC finds a task asleep for ever.

**DisplayProofs** (3730 obligations) holds for screens, glyphs and tab stops of any size,
texts of any length, and any number of late or refused requests; `ScreenAssumption` asks
for one column, two lines and sequences of characters as texts. Its first part says what
each drawing operation does, once to the pixels (`FillRect`, `BlitChar`, `Scroll`: what
changes, and that all of it is dirty) and once to the cells of the window (`GlyphStep`,
`NewlineStep`, `TabStep`, `BackspaceStep`: the operation of `Terminal` with that name).
The loops over a text, a tab and the bar are functions on an interval; lemma `Loop` says
that they have a run and lemma `Turns` is the induction along it, from the library's
well-foundedness of the naturals. The invariant then has five parts. `Typed`: the two
buffers differ only inside the dirty rectangle, so that nothing differs between calls, and
rows fit the backing of a device that is large enough. `Flight`: the request in the queue
is the one the kernel waits for. `Carried`: what the device was sent is in the backing, in
the device's copy once the transfer was answered well, on the screen once the flush was.
The answer to a request that was given up ends its successor's wait: it is harmless
because the device either did the successor's work, or left the response zeroed, which
counts as a refusal. `Edged` is about narrower devices, where the end of a row lands at
the start of the row below: the copy goes from top to bottom, so that each row repairs
what the one above has spoilt, and a row less than twice as long as the device's never
reaches the last column. Without that bound the last row's end stays on the screen, and
TLC finds it. `Current`: any other pixel that is not lost is on the screen.
`ScreenCurrent` follows, and `Refinement`: each painting call is the step of `Terminal` of
that name and every other step, the device's included, leaves the window as it is.

**Fat32Lemmas** (3335 obligations) and **Fat32Proofs** (2213) hold for any names, any
number of clusters, slots and creates, and any files with long names at the mount. The
first has the invariant, the lemmas on chains and the steps that write; the second has the
remaining steps and the theorems. A *head* is what a chain starts from: the root, the
first cluster of a file, what a call has drawn for a new file or for the root, and what it
has still to free. The core of `IInv` is that the chains of the heads are paths to an end
mark that meet no cluster twice and no other path (`Chains`, `Apart`). `Chain` is a walk
of bounded length; `ShortPath` says, by the pigeonhole principle, that no path is longer
than the bound, and `Walk` that a path is what the walk from its first cluster visits. On
these rest the lemmas about what setting one entry of the FAT does to every chain. The
inductions are arguments by a least counterexample, from the library's well-foundedness of
the naturals. The rest of `IInv` says where the call under way is: the new chain is linked
and holds the new data before any entry names it (`NewInv`); the clusters of the root
before the present one do not have the name (`ScanInv`), so that the entry an upsert
writes is the first of its name, even where a later cluster keeps an older one; and what a
name should read back as is what its first entry leads to (`WantInv`). All of this is
claimed as long as the directory was not torn. What the first entry of a name leads to is
what `read_file` finds only while long names stand before their own entries, hence the
condition `Paired` of `ReadBack`. `SpaceInv`, that what is taken is in some head's chain,
is claimed as long as nothing has failed: these conditions are those of the properties.
`FilesAreDisjoint`, `WhatIsWrittenReadsBack` and `NoClusterIsLost` follow.

**AccountsProofs** (2979 obligations) holds for any names, sizes of a sector and of the
region, largest uid and number of commands. The invariant has three parts. `Typed` types
the cells on the disk as well. `BlobInv` says that the region shows one of the states at
stake, in its first sector always and in all of it unless a save was cut short, and that
the sectors of a save that are out are those of its image: when the last is out the region
is the image. `Decodes` says that `deserialize` then reads back what `serialize` wrote,
whatever lies behind the blob: two files persist, so that its loop is unrolled
(`Unrolled`), and the lines of a file are as many as fit. `UniqueInv` says that names and
uids are distinct in memory and in whatever a boot may find, so that they stay so when an
older state comes back. `SavedStateReturns` and `AccountsAreUnique` follow, and the action
property `OthersUntouched` from `IInv` and the step: `RetainUnique` says which accounts
are left when some lines are removed.

Model-checked only: liveness and everything that needs ENABLED (out of the prover's
reach). These are `RunnableRuns` of the kernel threads and the liveness properties of
`processes`, `executor` and `network`. The violation runs are refuted statements and have
no proof.

## What the models leave out

* `Process`: the credentials of a process, which only their own system calls look at
  and which would multiply its states, and what a register holds. `exec` from ring 3 is
  allowed to succeed, although the address-space layer refuses it today: the
  scheduler's properties hold for both. A tick inside `run_until_all_exit`, before ring 3 is
  entered: it spins on the table's lock, as it does in the other commands, or has the
  effect of a tick just before the call or just after the entry.
* `AddressSpace`: frames of intermediate page tables, which `destroy` never frees, and
  programs linked below 1 GiB, whose pages the kernel's huge pages cover; the latter
  is `load_refused`. It has a violation run only: with leaf tables shared by a fork the
  reference counts do not equal the holders, so that there is no exact book to check.
* `Ipc`: which leaf tables a fork leaves shared and which page still has its copy-on-write
  mark (in `AddressSpace`; here both are choices); the queue of input events, into which
  nothing in the kernel puts any.
* `Executor`: the heap's lock, which a handler may need; the decoding of scancodes and
  the line editor's history. A signal is delivered from ring 3 only: a tick elsewhere may
  also deliver one to the stale `current`, which leads to the state without
  end-of-interrupt that the properties exempt anyhow.
* `Fat32`: subdirectories, read but never written; long names of several parts, which are
  joined, and case; the slack of the FAT
  after the last cluster; reading an empty file, where `cluster_to_lba(0)` underflows.
* `Accounts`: the validity of names; files of the ramfs other than the two that persist;
  commands that only print, and `writeblk`, which writes any sector of the disk, those of
  the persisted region too: what it leaves there is the operator's.
* `Net`: TCP below the socket's state; the wire formats; the TCP client calls of
  `net/socket.rs`, which have no caller.
* `Display`: padding after a row; the registers of the transport, which `probe_found` and
  `probe_absent` stand for, and a device that never ends its reset, for which `init_base`
  waits for ever (`virtio/mod.rs:201`).

What remains of the code is straight-line initialisation, parsers and hardware register
protocols without state of their own, text output, and constants; none of it has
behaviour that a state machine would add to. Two extensions are possible and were
weighed: the exit hooks of `Ipc` inside `Process`, whose product is beyond what TLC
explores in minutes, and the search path with `which` and `run`, which is sequential.
