------------------------------ MODULE MCMfa ------------------------------
(* Model-checking instance of Mfa.                                         *)
EXTENDS Mfa, TLC
MCSymmetry == Permutations(Requests) \union Permutations(Challenges)
==========================================================================
