---------------------------- MODULE MCLastAdmin ----------------------------
(* Model-checking instance of LastAdmin.                                   *)
EXTENDS LastAdmin
============================================================================
