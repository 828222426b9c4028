------------------------------ MODULE MCTunnel ------------------------------
(***************************************************************************)
(* Model-checking instance of Joining.  Tunnel and Agent share no state:   *)
(* each behaviour exercises one of them and leaves the other alone.  Agent *)
(* is exercised twice: joining, and forwarding to services that change.    *)
(***************************************************************************)
EXTENDS Joining, TLC

VARIABLE part      \* what is exercised

mcVars == <<part, vars, agentOnly>>

\* An error of the database: in the transaction of an enrolment, or under the
\* mutex, before an administrator acts; or because a node is gone.
ErrorScope(c) ==
    \/ call[c].code = 500
    \/ changes = 0 /\ (call[c].st = "loaded" \/ (call[c].st = "checked" /\ call[c].kind = "enroll"))
    \/ call[c].id \in Nodes /\ row[call[c].id].st = "gone"

\* One change by an administrator, or a revocation during an update of the node
\* of a provisioned agent, with one request of agents at a time meanwhile.
\* Updates ask for certificates before the preshared key is drawn.
EditScope ==
    /\ \/ changes' <= 1 \/ changes = 2
       \/ /\ \E e, f \in Editors : edit[e].kind = "update" /\ edit'[f].kind = "revoke"
          /\ \E a \in Agents : A!provisioned(agent[a].disk) /\ pairs = 2
    /\ LET updater == CHOOSE e \in Editors : TRUE
       IN  \A e \in Editors : edit'[e].kind # IF e = updater THEN "revoke" ELSE "update"
    /\ \A e \in Editors :
         /\ edit[e].kind = "none" /\ edit'[e].kind = "update" => edit'[e].row.mtls = (pairs < 2)
         /\ edit'[e].kind # "none" =>
              \A c, d \in Handlers : c = d \/ A!NoCall \in {call'[c], call'[d]}

\* Joining: no services.
JoinScope ==
    /\ EditScope /\ service' = service
    /\ \A c \in Handlers : call'[c].kind # "targets" /\ call'[c].code # 429
    /\ \A c \in Handlers : call'[c].code = 500 => ErrorScope(c)

\* Forwarding: the agent joins without trouble.
ForwardScope ==
    /\ ready /\ ready' /\ touched' = {}
    /\ \A c \in Handlers : call'[c].kind # "heartbeat" /\ call'[c].code \in {0, 200, 201}
    /\ \A a \in Agents : agent'[a].wait # None => \A c \in Handlers :
                            call'[c] # A!NoCall => c = agent'[a].wait
    /\ \A n \in Nodes : ~row'[n].mtls /\ row'[n].st # "gone"
    /\ \A t \in Tokens : token'[t].row => token'[t].single /\ ~token'[t].expired
    /\ \A a \in Agents : row' # row => ~A!provisioned(agent[a].disk)

MCInit == /\ part \in {"tunnel", "join", "forward"}
          /\ Init /\ A!Init
          /\ part # "join" => ready

MCNext ==
    \/ part = "tunnel" /\ Next /\ UNCHANGED <<part, agentOnly>>
    \/ /\ part \in {"join", "forward"} /\ A!Next /\ UNCHANGED <<part, vars>>
       /\ part = "join" => JoinScope
       /\ part = "forward" => ForwardScope
    \/ part \in {"join", "forward"} /\ UNCHANGED mcVars     \* bounds are no deadlock

MCSpec == MCInit /\ [][MCNext]_mcVars

MCSymmetry == Permutations(Nodes) \union Permutations(Keys) \union Permutations(Handlers)
=============================================================================
