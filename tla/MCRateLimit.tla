---------------------------- MODULE MCRateLimit -----------------------------
(***************************************************************************)
(* TLC instances of RateLimit: requests are interchangeable.               *)
(***************************************************************************)
EXTENDS RateLimit, TLC

Symmetry == Permutations(Requests)
=============================================================================
