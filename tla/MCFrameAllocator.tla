-------------------------- MODULE MCFrameAllocator --------------------------
(* Frames of two bytes, seven bitmap bits, and every memory map of at most   *)
(* two areas whose bounds are odd or even, inside or beyond the bitmap.      *)
EXTENDS FrameAllocator, TLC

MCAreas == [base : {0, 3, 6}, length : {5, 8, 15}, usable : BOOLEAN]
MCMemoryMaps == {{}} \cup {{a, b} : a, b \in MCAreas}
MCKernelRanges == {[start |-> 0, end |-> 3], [start |-> 4, end |-> 4]}
MCModuleLists == {{}, {[start |-> 7, end |-> 9]}, {[start |-> 10, end |-> 30]}}

=============================================================================
