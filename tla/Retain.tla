------------------------------- MODULE Retain -------------------------------
(***************************************************************************)
(* What retain leaves of a vector: the elements it is told to keep, in the *)
(* order they had.                                                         *)
(***************************************************************************)
EXTENDS Integers, Sequences, FiniteSets

\* The place of i among the elements of S.
Rank(S, i) == Cardinality({j \in S : j <= i})

\* retain on s, which keeps what is at the indices in S.
Retained(s, S) == [k \in 1 .. Cardinality(S) |-> s[CHOOSE i \in S : Rank(S, i) = k]]
=============================================================================
