----------------------------- MODULE MCCertLock -----------------------------
(* Model-checking instance of CertLock: callers c1 and c3 of process p1,   *)
(* and c2 of process p2.                                                   *)
EXTENDS CertLock, TLC
CONSTANTS c1, c2, c3, p1, p2
MCProcOf == (c1 :> p1) @@ (c2 :> p2) @@ (c3 :> p1)
=============================================================================
