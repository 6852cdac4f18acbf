----------------------------- MODULE FramePool -----------------------------
(***************************************************************************)
(* What a physical frame allocator promises, whatever its data structure:  *)
(* an allocation hands out some free frame, it fails only when no frame is *)
(* free, and a release makes the frame available again.                    *)
(***************************************************************************)
CONSTANTS Frame,     \* every frame number the machine may have
          NoFrame    \* the answer of a failed allocation

VARIABLES managed,   \* the frames the allocator may ever hand out
          free,      \* the managed frames nobody holds
          answer     \* what the last allocation returned

poolVars == <<managed, free, answer>>

PoolInit == /\ managed \in SUBSET Frame
            /\ free = managed
            /\ answer = NoFrame

Alloc == /\ \/ \E f \in free : free' = free \ {f} /\ answer' = f
            \/ free = {} /\ free' = free /\ answer' = NoFrame
         /\ UNCHANGED managed

Release == \E f \in managed : /\ free' = free \cup {f}
                              /\ UNCHANGED <<managed, answer>>

PoolNext == Alloc \/ Release

PoolSpec == PoolInit /\ [][PoolNext]_poolVars
=============================================================================
