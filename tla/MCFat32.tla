------------------------------ MODULE MCFat32 -------------------------------
(***************************************************************************)
(* The instance of Fat32 that TLC checks: a volume that is empty at the    *)
(* mount, or has one file.                                                 *)
(***************************************************************************)
EXTENDS Fat32

CONSTANTS n1, n2, n3

MCNames   == {n1, n2, n3}
MCShipped == <<n1>>
=============================================================================
