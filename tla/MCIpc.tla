------------------------------- MODULE MCIpc --------------------------------
(***************************************************************************)
(* Ipc for TLC: which frame is which makes no difference.                  *)
(***************************************************************************)
EXTENDS Ipc, TLC

FrameSymmetry == Permutations(Frames)
=============================================================================
