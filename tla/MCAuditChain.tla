--------------------------- MODULE MCAuditChain ---------------------------
(* Model-checking instance of AuditChain with interchangeable actors.      *)
EXTENDS AuditChain, TLC
MCSymmetry == Permutations(Actors)
===========================================================================
