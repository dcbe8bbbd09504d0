------------------------------ MODULE Positions ------------------------------
(***************************************************************************)
(* What a loop over a list keeps of it: the elements at a set of positions,*)
(* in their order.                                                         *)
(***************************************************************************)
EXTENDS Integers, Sequences, FiniteSets

\* The n-th of the positions in I.
Nth(I, n) == CHOOSE i \in I : Cardinality({j \in I : j <= i}) = n

\* The elements of s at the positions in I.
Select(s, I) == [n \in 1..Cardinality(I) |-> s[Nth(I, n)]]
=============================================================================
