----------------------------- MODULE MCAuditJob -----------------------------
(***************************************************************************)
(* TLC instances of AuditJob.  The agents are interchangeable, so the      *)
(* safety runs use their symmetry; the liveness runs do not.               *)
(***************************************************************************)
EXTENDS AuditJobInv

Symmetry == Permutations(Agents)
=============================================================================
