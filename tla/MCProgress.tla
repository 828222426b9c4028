----------------------------- MODULE MCProgress -----------------------------
(***************************************************************************)
(* Model-checking instance of the two parts of the hub that owe progress:  *)
(* AuthCache, on a hub alone and on two hubs with Redis, and AuditSink.    *)
(* They share nothing, so each behaviour exercises one of them and leaves  *)
(* the other in an initial state.                                          *)
(***************************************************************************)
EXTENDS Upkeep, TLC

CONSTANTS u1, t1, t2, i1, i2

VARIABLE part                                            \* the part exercised

mcVars == <<part, vars, sinkVars>>

MCOwner == (t1 :> u1) @@ (t2 :> u1)
MCSetups == {[hubs |-> {i1}, redis |-> FALSE, held |-> {t1, t2}],
             [hubs |-> {i1, i2}, redis |-> TRUE, held |-> {t1}]}

InCache(A) == part = "cache" /\ A /\ UNCHANGED <<part, sinkVars>>
InSink(A) == part = "sink" /\ A /\ UNCHANGED <<part, vars>>

MCInit ==
    /\ part \in {"cache", "sink"}
    /\ Init /\ K!Init
    /\ part = "cache" => policy = "block"
    /\ part = "sink" => ~setup.redis /\ \A t \in Tokens : life[t] = 1

MCNext == InCache(Next) \/ InSink(K!Next)

\* The fairness of each part, while it is the one exercised.
MCSpec ==
    /\ MCInit /\ [][MCNext]_mcVars
    /\ WF_mcVars(InCache(Tick)) /\ \A r \in Requests : WF_mcVars(InCache(Step(r)))
    /\ WF_mcVars(InSink(K!run))
=============================================================================
