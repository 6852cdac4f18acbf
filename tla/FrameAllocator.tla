--------------------------- MODULE FrameAllocator ---------------------------
(***************************************************************************)
(* kernel/src/memory/frame_allocator.rs: the bitmap allocator of 4 KiB     *)
(* physical frames behind the FRAME_ALLOCATOR mutex.  Every operation runs *)
(* under that mutex, so each one is a single step.                         *)
(*                                                                         *)
(* Addresses are natural numbers; FRAME_SIZE and BITMAP_BITS are           *)
(* parameters.  The contents of frames are left out (the allocator zeroes  *)
(* the frame it returns), the serial log too.                              *)
(***************************************************************************)
EXTENDS Integers, FiniteSets

CONSTANTS FRAME_SIZE,     \* bytes per frame
          BITMAP_BITS,    \* frames the bitmap can describe
          MemoryMaps,     \* the memory maps multiboot may report
          KernelRanges,   \* the byte ranges [0, BITMAP_ADDR), bitmap, heap
          ModuleLists,    \* the sets of module byte ranges (initrd)
          NoFrame         \* None

Area      == [base : Nat, length : Nat, usable : BOOLEAN]
ByteRange == [start : Nat, end : Nat]

ASSUME FrameAllocatorAssumption ==
  /\ FRAME_SIZE \in Nat \ {0}
  /\ BITMAP_BITS \in Nat
  /\ \A map \in MemoryMaps : map \subseteq Area
  /\ KernelRanges \subseteq ByteRange
  /\ \A mods \in ModuleLists : mods \subseteq ByteRange
  /\ NoFrame \notin Nat

VARIABLES memory_areas, \* the memory map of this boot
          modules,      \* the module ranges of this boot
          bitmap,       \* one bit per frame, TRUE = occupied
          num_frames,   \* frames covered by the detected memory
          next_free,    \* search hint
          used,         \* the statistic `mem` prints
          ret           \* what the last allocate_frame returned

frame_vars == <<memory_areas, modules, bitmap, num_frames, next_free, used, ret>>

Frame == 0 .. BITMAP_BITS - 1

-----------------------------------------------------------------------------
(* BitmapFrameAllocator::new *)

align_up(a) == ((a + FRAME_SIZE - 1) \div FRAME_SIZE) * FRAME_SIZE

\* Slip: the end of the area is rounded up like its start.
AreaFrames_EndUp(area) ==
  { f \in Frame : /\ area.usable
                  /\ align_up(area.base) \div FRAME_SIZE <= f
                  /\ f < align_up(area.base + area.length) \div FRAME_SIZE }

\* The frames the first loop clears for one area: start rounded up, end down.
AreaFrames(area) ==
  { f \in Frame : /\ area.usable
                  /\ align_up(area.base) \div FRAME_SIZE <= f
                  /\ f < (area.base + area.length) \div FRAME_SIZE }

Cleared(areas) == UNION { AreaFrames(a) : a \in areas }

\* mark_range_used: every frame the byte range touches.
RangeFrames(range) ==
  { f \in Frame : /\ range.start \div FRAME_SIZE <= f
                  /\ f < align_up(range.end) \div FRAME_SIZE }

Reserved(mods) == UNION { RangeFrames(r) : r \in KernelRanges \cup mods }

\* Slip: the count is the highest cleared frame itself.
IsFrameCount_OffByOne(n, cleared) ==
  (\A f \in cleared : f <= n) /\ (n = 0 \/ n \in cleared)

\* num_frames: one more than the highest cleared frame.
IsFrameCount(n, cleared) ==
  (\A f \in cleared : f < n) /\ (n = 0 \/ n - 1 \in cleared)

\* Slip: every frame of a range is counted, cleared before or not.
BootUsed_Unconditional(cleared, mods) == Cardinality(Reserved(mods))

\* Each range adds to `used` only the bits it really sets, so the ranges
\* together add the cleared frames that some range touches.
BootUsed(cleared, mods) == Cardinality(cleared \cap Reserved(mods))

FrameInit ==
  /\ memory_areas \in MemoryMaps
  /\ modules \in ModuleLists
  /\ LET cleared == Cleared(memory_areas)
     IN /\ bitmap = [f \in Frame |-> f \notin cleared \/ f \in Reserved(modules)]
        /\ num_frames \in {n \in 0 .. BITMAP_BITS : IsFrameCount(n, cleared)}
        /\ used = BootUsed(cleared, modules)
  /\ next_free = 0
  /\ ret = NoFrame

-----------------------------------------------------------------------------
(* Operations *)

\* find_free: the first clear bit at or after the hint.
FirstFree(f) == /\ f \in next_free .. num_frames - 1
                /\ ~bitmap[f]
                /\ \A g \in next_free .. f - 1 : bitmap[g]

HintPast(f) == f + 1

allocate_frame ==
  \/ \E f \in Frame :
       /\ FirstFree(f)
       /\ bitmap' = [bitmap EXCEPT ![f] = TRUE]
       /\ next_free' = HintPast(f)
       /\ used' = used + 1
       /\ ret' = f
       /\ UNCHANGED <<memory_areas, modules, num_frames>>
  \/ /\ \A f \in next_free .. num_frames - 1 : bitmap[f]
     /\ ret' = NoFrame
     /\ UNCHANGED <<memory_areas, modules, bitmap, num_frames, next_free, used>>

\* The callers only release frames they were given; a frame released twice
\* finds its bit clear and nothing happens.
Managed == Cleared(memory_areas) \ Reserved(modules)

\* Slip: the release leaves the hint where it is.
HintBack_Missing(f) == next_free

HintBack(f) == IF f < next_free THEN f ELSE next_free

deallocate_frame(f) ==
  /\ IF bitmap[f]
     THEN /\ bitmap' = [bitmap EXCEPT ![f] = FALSE]
          /\ used' = used - 1
          /\ next_free' = HintBack(f)
     ELSE UNCHANGED <<bitmap, used, next_free>>
  /\ UNCHANGED <<memory_areas, modules, num_frames, ret>>

FrameNext == \/ allocate_frame
             \/ \E f \in Managed : deallocate_frame(f)

FrameSpec == FrameInit /\ [][FrameNext]_frame_vars

-----------------------------------------------------------------------------
(* Properties *)

\* Every variable has its type; the hint never passes the end of the bitmap.
FrameTypeOK ==
  /\ memory_areas \in MemoryMaps
  /\ modules \in ModuleLists
  /\ bitmap \in [Frame -> BOOLEAN]
  /\ num_frames \in 0 .. BITMAP_BITS
  /\ next_free \in 0 .. BITMAP_BITS
  /\ used \in Int
  /\ ret \in Frame \cup {NoFrame}

FreeFrames == {f \in Frame : ~bitmap[f]}

\* find_free starts at next_free and stops at num_frames: no frame below the
\* hint is free and none at or past num_frames, whatever the order of
\* allocations and releases, so a search misses nothing.
SearchCoversAllFree == \A f \in FreeFrames : next_free <= f /\ f < num_frames

\* The counter that `mem`, `sysinfo` and the HTTP dashboard report is exactly
\* the number of detected frames that are not free, and releases never drive
\* it below zero, double releases included.
UsedIsExact == used = Cardinality(Cleared(memory_areas) \ FreeFrames)

ByteIn(b, start, end) == start <= b /\ b < end

\* A frame that is free, hence a frame that can be handed out, lies byte for
\* byte in usable memory and shares no byte with the kernel image, the bitmap,
\* the heap or a boot module, although areas and ranges need not be aligned.
FreeFramesAreSafe ==
  \A f \in FreeFrames : \A b \in f * FRAME_SIZE .. f * FRAME_SIZE + FRAME_SIZE - 1 :
    /\ \E a \in memory_areas : a.usable /\ ByteIn(b, a.base, a.base + a.length)
    /\ \A r \in KernelRanges \cup modules : ~ByteIn(b, r.start, r.end)

\* The bitmap, the hint and the counter implement the abstract frame pool: in
\* particular allocate_frame returns None only when no frame is free, and never
\* returns a frame that is still held.
Pool == INSTANCE FramePool WITH managed <- Managed, free <- FreeFrames, answer <- ret
ImplementsPool == Pool!PoolSpec
=============================================================================
