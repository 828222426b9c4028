------------------------------- MODULE Agent --------------------------------
(***************************************************************************)
(* A node joins: the enrolment tokens, the part of the nodes table that    *)
(* identifies a node, the endpoints a node calls, and the agent that calls *)
(* them over a network that loses answers (internal/http                   *)
(* node_enrollment.go, nodes.go, tunnel.go, node_security.go;              *)
(* internal/store node_store.go, node_enrollment_token_store.go;           *)
(* cmd/nodeagent main.go, provision.go, state.go, forwarder.go).           *)
(*                                                                         *)
(* The heartbeat token of a node is random: it is written as the primary   *)
(* key of the node it was drawn for.  Key pairs and preshared keys are     *)
(* numbers that are drawn once.  Addresses are in Tunnel.                  *)
(***************************************************************************)
EXTENDS Integers, FiniteSets, FiniteSetsExt

CONSTANTS
    Agents, Tokens, Nodes,
    Calls,     \* requests of agents that may be under way
    Editors,   \* requests of administrators that load a node and write it later
    Services,  \* primary keys, numbers
    Ports, Hosts,
    None,
    MaxDrawn,  \* bound on the keys drawn
    MaxChanges \* bound on what administrators change

VARIABLES
    token,     \* node_enrollment_tokens
    row,       \* nodes
    service,   \* services: node, port and host of the destination
    ready,     \* the tunnel settings are complete
    agent,     \* program counter, memory, state file and listeners of each agent
    call,      \* requests under way
    edit,      \* updates and revocations of nodes under way
    drawn,     \* number of keys and preshared keys drawn
    changes,   \* number of changes made by administrators
    born,      \* history: nodes enrolled with each token
    touched,   \* history: nodes whose keys an administrator changed, by a revocation
               \* or by an update that wrote back what it had loaded before them,
               \* or that served a bootstrap its agent had given up
    revoked,   \* history: nodes whose tunnel was revoked and that have neither
               \* bootstrapped nor been written back since
    outdated   \* history: agents whose listeners are of an answer that has been
               \* overtaken by a change, or could not all be opened

agentVars == <<token, row, service, ready, agent, call, edit, drawn, changes, born, touched, revoked,
               outdated>>

NoState == [id |-> None, hb |-> None, key |-> 0, psk |-> 0]
NoListeners == [p \in Ports |-> None]
Off == [pc |-> "off", mem |-> NoState, disk |-> NoState, wait |-> None, listens |-> NoListeners]

NewToken(single) == [row |-> TRUE, single |-> single, active |-> TRUE, used |-> FALSE, expired |-> FALSE]
NoToken == [NewToken(TRUE) EXCEPT !.row = FALSE, !.active = FALSE]
NoNode == [st |-> "new", mtls |-> FALSE, key |-> 0, psk |-> 0, seen |-> FALSE]

NoCall == [kind |-> "none", from |-> None, st |-> "free", token |-> None, id |-> None, hb |-> None,
           key |-> 0, single |-> FALSE, row |-> NoNode, code |-> 0, psk |-> 0,
           targets |-> NoListeners]

NoEdit == [kind |-> "none", id |-> None, row |-> NoNode, overtaken |-> FALSE]

Init ==
    /\ token = [t \in Tokens |-> NoToken]
    /\ row = [n \in Nodes |-> NoNode]
    /\ service = [s \in Services |-> [node |-> None, port |-> None, host |-> None]]
    /\ ready \in BOOLEAN
    /\ agent = [a \in Agents |-> Off]
    /\ call = [c \in Calls |-> NoCall]
    /\ edit = [e \in Editors |-> NoEdit]
    /\ drawn = 0 /\ changes = 0
    /\ born = [t \in Tokens |-> {}]
    /\ touched = {} /\ revoked = {} /\ outdated = {}

hub == <<token, row, service, ready, edit, changes, born, touched, revoked>>

-----------------------------------------------------------------------------
(* The agent.                                                              *)

provisioned(s) == s.id # None /\ s.hb # None /\ s.key # 0 /\ s.psk # 0

Goto(a, pc) == agent' = [agent EXCEPT ![a].pc = pc]

\* main: loadState; a provisioned agent starts its tunnel.
Start(a) ==
    /\ agent[a].pc = "off"
    /\ agent' = [agent EXCEPT ![a].mem = agent[a].disk,
                              ![a].pc = IF provisioned(agent[a].disk) THEN "refresh" ELSE "step"]
    /\ outdated' = outdated \union {a}
    /\ UNCHANGED <<hub, call, drawn>>

Send(a, request) ==
    \E c \in Calls :
        /\ call[c] = NoCall
        /\ call' = [call EXCEPT ![c] = [request EXCEPT !.from = a, !.st = "sent"]]
        /\ agent' = [agent EXCEPT ![a].pc = request.kind, ![a].wait = c]

\* step and enrollNode: without an identity, ask for one.
Enroll(a, t) ==
    /\ agent[a].pc = "step" /\ agent[a].mem.id = None
    /\ Send(a, [NoCall EXCEPT !.kind = "enroll", !.token = t])
    /\ UNCHANGED <<hub, drawn, outdated>>

\* saveState: the file is replaced by a rename, or not at all.
Saved(a, mem, pc, ok) ==
    agent' = [agent EXCEPT ![a] = [agent[a] EXCEPT !.mem = mem, !.pc = pc, !.wait = None,
                                                   !.disk = IF ok THEN mem ELSE agent[a].disk]]

\* step: draw a key pair.  When it cannot be saved the next attempt goes on with it.
GenerateKeyPair(a, ok) ==
    /\ agent[a].pc = "step" /\ agent[a].mem.id # None /\ agent[a].mem.key = 0
    /\ drawn < MaxDrawn
    /\ drawn' = drawn + 1
    /\ Saved(a, [agent[a].mem EXCEPT !.key = drawn + 1], "step", ok)
    /\ UNCHANGED <<hub, call, outdated>>

\* selfBootstrap: announce the key.
SelfBootstrap(a) ==
    /\ agent[a].pc = "step" /\ agent[a].mem.id # None /\ agent[a].mem.key # 0
    /\ Send(a, [NoCall EXCEPT !.kind = "boot", !.id = agent[a].mem.id, !.hb = agent[a].mem.hb,
                              !.key = agent[a].mem.key])
    /\ UNCHANGED <<hub, drawn, outdated>>

\* At their intervals, one after the other.
Ask(a, kind) ==
    /\ agent[a].pc = "refresh"
    /\ Send(a, [NoCall EXCEPT !.kind = kind, !.id = agent[a].mem.id, !.hb = agent[a].mem.hb])
    /\ UNCHANGED <<hub, drawn, outdated>>

fetchTargets(a) == Ask(a, "targets")
sendHeartbeat(a) == Ask(a, "heartbeat")

\* The answer that arrives; retryableProvisionError.
Answer(a) == call[agent[a].wait]
Answered(a) == agent[a].wait # None /\ Answer(a).st = "done"
Retryable(code) == code \in {409, 412, 429, 500}
Received(a) == call' = [call EXCEPT ![agent[a].wait] = NoCall]

\* What the agent does next, whatever it waited for.
Again(a) == IF agent[a].pc \in {"enroll", "boot"} THEN "step" ELSE "refresh"

\* step, after the answer: the identity is saved before anything else.
Enrolled(a, ok) ==
    /\ Answered(a) /\ agent[a].pc = "enroll" /\ Answer(a).code = 201
    /\ Saved(a, [NoState EXCEPT !.id = Answer(a).id, !.hb = Answer(a).hb], "step", ok)
    /\ Received(a)
    /\ UNCHANGED <<hub, drawn, outdated>>

\* What is written when the tunnel is provisioned.
Bootstrapped(a, ok) ==
    /\ Answered(a) /\ agent[a].pc = "boot" /\ Answer(a).code = 200
    /\ Saved(a, [agent[a].mem EXCEPT !.psk = Answer(a).psk], IF ok THEN "refresh" ELSE "step", ok)
    /\ Received(a)
    /\ UNCHANGED <<hub, drawn, outdated>>

\* run: an answer that no retry helps with ends the process; the saved state is
\* cleared when the hub does not know the node.
Refused(a, ok) ==
    /\ Answered(a) /\ agent[a].pc \in {"enroll", "boot"}
    /\ Answer(a).code >= 400 /\ ~Retryable(Answer(a).code)
    /\ agent' = [agent EXCEPT ![a] =
         [Off EXCEPT !.disk = IF agent[a].pc = "boot" /\ ok THEN NoState ELSE agent[a].disk]]
    /\ Received(a)
    /\ UNCHANGED <<hub, drawn, outdated>>

\* Errors that are retried, and answers nobody depends on.
Retry(a) ==
    /\ Answered(a)
    /\ \/ Retryable(Answer(a).code)
       \/ Answer(a).kind = "heartbeat"
       \/ Answer(a).kind = "targets" /\ Answer(a).code >= 400
    /\ agent' = [agent EXCEPT ![a].pc = Again(a), ![a].wait = None]
    /\ Received(a)
    /\ UNCHANGED <<hub, drawn, outdated>>

\* reconcile: listeners that are not wanted as they are go, missing ones are
\* opened, if the port can be had.
reconcile(listens, desired, opened) ==
    [p \in Ports |-> IF listens[p] = desired[p] THEN listens[p]
                     ELSE IF p \in opened THEN desired[p] ELSE None]

RefreshTargets(a, opened) ==
    /\ Answered(a) /\ agent[a].pc = "targets" /\ Answer(a).code = 200
    /\ agent' = [agent EXCEPT ![a].pc = "refresh", ![a].wait = None,
                              ![a].listens = reconcile(@, Answer(a).targets, opened)]
    /\ outdated' = IF opened = Ports /\ Answer(a).row.seen THEN outdated \ {a}
                   ELSE outdated \union {a}
    /\ Received(a)
    /\ UNCHANGED <<hub, drawn>>

\* The client gives up after 15 s or the connection breaks; the hub may still work on it.
TimeOut(a) ==
    /\ agent[a].wait # None
    /\ agent' = [agent EXCEPT ![a].pc = Again(a), ![a].wait = None]
    /\ UNCHANGED <<hub, call, drawn, outdated>>

\* The process ends; its listeners end with it.
Crash(a) ==
    /\ agent[a].pc # "off"
    /\ agent' = [agent EXCEPT ![a] = [Off EXCEPT !.disk = agent[a].disk]]
    /\ UNCHANGED <<hub, call, drawn, outdated>>

-----------------------------------------------------------------------------
(* The hub.                                                                *)

Awaited(c) == agent[call[c].from].wait = c
Reply(c, fields) == call' = [call EXCEPT ![c] = IF Awaited(c) THEN [fields EXCEPT !.st = "done"] ELSE NoCall]
Code(c, code) == [call[c] EXCEPT !.code = code]

\* An answer that is no longer awaited goes nowhere.
Discard(c) ==
    /\ call[c].st = "done" /\ ~Awaited(c)
    /\ call' = [call EXCEPT ![c] = NoCall]
    /\ UNCHANGED <<hub, agent, drawn, outdated>>

GetActiveByHash(t) ==
    /\ token[t].row /\ token[t].active /\ ~token[t].expired
    /\ token[t].single => ~token[t].used

\* handleEnrollNode: the token and the tunnel are checked first.
EnrollCheck(c) ==
    /\ call[c].kind = "enroll" /\ call[c].st = "sent"
    /\ IF ~GetActiveByHash(call[c].token) THEN Reply(c, Code(c, 401))
       ELSE IF ~ready THEN Reply(c, Code(c, 412))
       ELSE call' = [call EXCEPT ![c].st = "checked", ![c].single = token[call[c].token].single]
    /\ UNCHANGED <<hub, agent, drawn, outdated>>

\* Mutant: the claim does not look whether the token was used.
MutClaimAgain(t) == TRUE

\* The update of EnrollWithToken affects one row.
Claimable(t) == token[t].row /\ token[t].active /\ ~token[t].used

\* EnrollWithToken: claim and insert in one transaction, for the token as it was
\* when it was checked.
EnrollWithToken(c, n) ==
    /\ call[c].kind = "enroll" /\ call[c].st = "checked"
    /\ row[n].st = "new"
    /\ LET t == call[c].token IN
       IF call[c].single /\ ~Claimable(t)
       THEN /\ Reply(c, Code(c, 401))
            /\ UNCHANGED <<token, row, born>>
       ELSE /\ token' = IF call[c].single
                        THEN [token EXCEPT ![t].active = FALSE, ![t].used = TRUE] ELSE token
            /\ row' = [row EXCEPT ![n].st = "live"]
            /\ born' = [born EXCEPT ![t] = @ \union {n}]
            /\ Reply(c, [Code(c, 201) EXCEPT !.id = n, !.hb = n])
    /\ UNCHANGED <<service, ready, agent, edit, drawn, changes, touched, revoked, outdated>>

\* The transaction is rolled back, or a limit answers.
Fails(c, code) ==
    /\ call[c].st \in {"sent", "checked", "loaded"}
    /\ Reply(c, Code(c, code))
    /\ UNCHANGED <<hub, agent, drawn, outdated>>

\* authorizeNodeHeartbeat: an agent has no client certificate.
authorizeNodeHeartbeat(n, hb) == ~row[n].mtls /\ hb = n

\* loadNode and authorizeNodeHeartbeat, in front of every endpoint of a node.
Denied(c) == IF row[call[c].id].st # "live" THEN 404
             ELSE IF ~authorizeNodeHeartbeat(call[c].id, call[c].hb) THEN 401 ELSE 0

\* The manager's mutex: held by a bootstrap or a revocation that has loaded its node.
MutexFree ==
    /\ \A c \in Calls : call[c].st # "loaded"
    /\ \A e \in Editors : edit[e].kind # "revoke"

\* handleNodeSelfBootstrap: the node is loaded and the caller is checked.
BootCheck(c) ==
    /\ call[c].kind = "boot" /\ call[c].st = "sent"
    /\ IF Denied(c) # 0 THEN Reply(c, Code(c, Denied(c)))
       ELSE call' = [call EXCEPT ![c].st = "checked"]
    /\ UNCHANGED <<hub, agent, drawn, outdated>>

\* BootstrapNode: under the mutex, the settings and the node are loaded again.
BootLoad(c) ==
    /\ call[c].kind = "boot" /\ call[c].st = "checked" /\ MutexFree
    /\ IF ~ready THEN Reply(c, Code(c, 412))
       ELSE IF row[call[c].id].st # "live" THEN Reply(c, Code(c, 500))
       ELSE call' = [call EXCEPT ![c].st = "loaded", ![c].row = row[call[c].id]]
    /\ UNCHANGED <<hub, agent, drawn, outdated>>

\* Updates that loaded node n before its keys changed hold the old ones.
Outrun(n) == [e \in Editors |-> IF edit[e].id = n THEN [edit[e] EXCEPT !.overtaken = TRUE]
                                ELSE edit[e]]

\* NodeStore.Update writes every column of a row that is still there.
UpdateRow(n, new) == row[n].st = "live" /\ row' = [row EXCEPT ![n] = new]

\* BootstrapNode draws a new preshared key every time and writes the row it loaded.
BootWrite(c, answered) ==
    /\ call[c].st = "loaded"
    /\ LET n == call[c].id IN
       \/ /\ drawn < MaxDrawn /\ drawn' = drawn + 1
          /\ UpdateRow(n, [call[c].row EXCEPT !.key = call[c].key, !.psk = drawn + 1])
          /\ edit' = Outrun(n)
          /\ revoked' = revoked \ {n}
          /\ touched' = IF Awaited(c) THEN touched \ {n} ELSE touched \union {n}
          /\ Reply(c, IF answered THEN [Code(c, 200) EXCEPT !.psk = drawn + 1]
                      ELSE Code(c, 500))      \* an error after the row was written
       \/ /\ row[n].st # "live"
          /\ Reply(c, Code(c, 500))
          /\ UNCHANGED <<row, edit, touched, revoked, drawn>>
    /\ UNCHANGED <<token, service, ready, agent, changes, born, outdated>>

\* handleNodeTunnelTargets and the map reconcile makes of its answer: of two
\* services on one port the later one counts.
Targets(n) == [p \in Ports |->
    LET on == {s \in Services : service[s].node = n /\ service[s].port = p}
    IN IF on = {} THEN None ELSE service[Max(on)].host]

TargetsServe(c) ==
    /\ call[c].kind = "targets" /\ call[c].st = "sent"
    /\ Reply(c, IF Denied(c) # 0 THEN Code(c, Denied(c))
                ELSE [Code(c, 200) EXCEPT !.targets = Targets(call[c].id), !.row.seen = TRUE])
    /\ UNCHANGED <<hub, agent, drawn, outdated>>

\* handleHeartbeatNode loads the row.
HeartbeatLoad(c) ==
    /\ call[c].kind = "heartbeat" /\ call[c].st = "sent"
    /\ IF Denied(c) # 0 THEN Reply(c, Code(c, Denied(c)))
       ELSE call' = [call EXCEPT ![c].st = "checked", ![c].row = row[call[c].id]]
    /\ UNCHANGED <<hub, agent, drawn, outdated>>

\* Mutant: the whole row is written.
MutWholeRow(old, loaded) == [loaded EXCEPT !.seen = TRUE]

\* UpdateHeartbeat names its columns: identity and key are not among them.
UpdateHeartbeat(old, loaded) == [old EXCEPT !.seen = TRUE]

HeartbeatWrite(c) ==
    /\ call[c].kind = "heartbeat" /\ call[c].st = "checked"
    /\ LET n == call[c].id IN
       IF row[n].st # "live" THEN Reply(c, Code(c, 404)) /\ UNCHANGED row
       ELSE /\ row' = [row EXCEPT ![n] = UpdateHeartbeat(row[n], call[c].row)]
            /\ Reply(c, Code(c, 200))
    /\ UNCHANGED <<token, service, ready, agent, edit, drawn, changes, born, touched, revoked, outdated>>

-----------------------------------------------------------------------------
(* Administrators.                                                         *)

Change == changes < MaxChanges /\ changes' = changes + 1

\* handleCreateNodeEnrollmentToken.
CreateToken(t, single) ==
    /\ token[t] = NoToken /\ born[t] = {} /\ \A c \in Calls : call[c].token # t
    /\ token' = [token EXCEPT ![t] = NewToken(single)]
    /\ UNCHANGED <<row, service, ready, agent, call, edit, drawn, changes, born, touched, revoked,
                   outdated>>

\* handleDeleteNodeEnrollmentToken; a token also ends by its time.
DeleteToken(t, gone) ==
    /\ Change /\ token[t].row
    /\ token' = [token EXCEPT ![t] = IF gone THEN NoToken ELSE [@ EXCEPT !.expired = TRUE]]
    /\ UNCHANGED <<row, service, ready, agent, call, edit, drawn, born, touched, revoked, outdated>>

\* handleDeleteNode.
DeleteNode(n) ==
    /\ Change /\ row[n].st = "live"
    /\ row' = [row EXCEPT ![n].st = "gone"]
    /\ UNCHANGED <<token, service, ready, agent, call, edit, drawn, born, touched, revoked, outdated>>

\* handleUpdateNode loads the node and decodes the request, which may switch the
\* node to client certificates or back, RevokeNode loads it under the mutex.
EditLoad(e, n, kind, loaded) ==
    /\ Change /\ edit[e] = NoEdit /\ row[n].st = "live"
    /\ edit' = [edit EXCEPT ![e] = [NoEdit EXCEPT !.kind = kind, !.id = n, !.row = loaded]]
    /\ UNCHANGED <<token, row, service, ready, agent, call, drawn, born, touched, revoked, outdated>>

UpdateLoad(e, n, mtls) == EditLoad(e, n, "update", [row[n] EXCEPT !.mtls = mtls])
RevokeLoad(e, n) == MutexFree /\ EditLoad(e, n, "revoke", row[n])

\* ... and writes all of it: what changed since is undone, the keys too.
UpdateWrite(e) ==
    LET n == edit[e].id
        lost == edit[e].overtaken
    IN  /\ edit[e].kind = "update"
        /\ UpdateRow(n, edit[e].row)
        /\ edit' = [IF lost THEN Outrun(n) ELSE edit EXCEPT ![e] = NoEdit]
        /\ touched' = IF lost THEN touched \union {n} ELSE touched
        /\ revoked' = IF lost THEN revoked \ {n} ELSE revoked
        /\ UNCHANGED <<token, service, ready, agent, call, drawn, changes, born, outdated>>

\* RevokeNode writes the row it loaded, without its keys.
RevokeWrite(e) ==
    LET n == edit[e].id
    IN  /\ edit[e].kind = "revoke"
        /\ UpdateRow(n, [edit[e].row EXCEPT !.key = 0, !.psk = 0])
        /\ edit' = [Outrun(n) EXCEPT ![e] = NoEdit]
        /\ touched' = touched \union {n} /\ revoked' = revoked \union {n}
        /\ UNCHANGED <<token, service, ready, agent, call, drawn, changes, born, outdated>>

\* The node is gone, or the request fails.
EditFails(e) ==
    /\ edit[e] # NoEdit
    /\ edit' = [edit EXCEPT ![e] = NoEdit]
    /\ UNCHANGED <<token, row, service, ready, agent, call, drawn, changes, born, touched, revoked,
                   outdated>>

\* An answer composed before the change is outdated when it arrives.
Overtake == [c \in Calls |-> IF call[c].kind = "targets" THEN [call[c] EXCEPT !.row.seen = FALSE]
                             ELSE call[c]]

ChangeService(s, to) ==
    /\ Change /\ service[s] # to
    /\ service' = [service EXCEPT ![s] = to]
    /\ call' = Overtake
    /\ outdated' = Agents
    /\ UNCHANGED <<token, row, ready, agent, edit, drawn, born, touched, revoked>>

\* handleUpdateTunnelSettings.
SetReady ==
    /\ Change /\ ready' = ~ready
    /\ UNCHANGED <<token, row, service, agent, call, edit, drawn, born, touched, revoked, outdated>>

Destinations == [node: Nodes, port: Ports, host: Hosts] \union
                {[node |-> None, port |-> None, host |-> None]}

Next ==
    \/ \E a \in Agents :
         \/ Start(a) \/ SelfBootstrap(a) \/ Retry(a) \/ TimeOut(a) \/ Crash(a)
         \/ \E t \in Tokens : Enroll(a, t)
         \/ \E ok \in BOOLEAN :
              GenerateKeyPair(a, ok) \/ Enrolled(a, ok) \/ Bootstrapped(a, ok) \/ Refused(a, ok)
         \/ fetchTargets(a) \/ sendHeartbeat(a)
         \/ \E opened \in SUBSET Ports : RefreshTargets(a, opened)
    \/ \E c \in Calls :
         \/ EnrollCheck(c) \/ TargetsServe(c) \/ HeartbeatLoad(c) \/ HeartbeatWrite(c) \/ Discard(c)
         \/ BootCheck(c) \/ BootLoad(c)
         \/ \E n \in Nodes : EnrollWithToken(c, n)
         \/ \E code \in {429, 500} : Fails(c, code)
         \/ \E answered \in BOOLEAN : BootWrite(c, answered)
    \/ \E t \in Tokens, b \in BOOLEAN : CreateToken(t, b) \/ DeleteToken(t, b)
    \/ \E n \in Nodes : DeleteNode(n)
    \/ \E e \in Editors :
         \/ UpdateWrite(e) \/ RevokeWrite(e) \/ EditFails(e)
         \/ \E n \in Nodes : RevokeLoad(e, n) \/ \E mtls \in BOOLEAN : UpdateLoad(e, n, mtls)
    \/ \E s \in Services, to \in Destinations : ChangeService(s, to)
    \/ SetReady

Spec == Init /\ [][Next]_agentVars

-----------------------------------------------------------------------------
(* Properties.                                                             *)

\* A single-use token enrols one node, however attempts, retries and requests
\* given up overlap, and it is spent only by an enrolment: whatever failed on
\* the way leaves it usable (handleEnrollNode, EnrollWithToken).
EnrolledOnce ==
    \A t \in Tokens :
        token[t].row /\ token[t].single =>
            /\ Cardinality(born[t]) <= 1
            /\ token[t].used <=> born[t] # {}

\* Hub and agent agree: the key pair and the preshared key in the state file of
\* a provisioned agent are those of its node, through lost answers, failed
\* saves, crashes, heartbeats and updates that were under way, until an
\* administrator revokes the tunnel, a bootstrap the agent had given up is
\* served late, or an update that loaded the node before a bootstrap or a
\* revocation writes the keys of then back; and a node whose tunnel was revoked
\* has no key until it bootstraps again or such an update restores it
\* (provisioner.step, BootstrapNode, UpdateHeartbeat, handleUpdateNode).
AgentMatchesHub ==
    /\ \A n \in revoked : row[n].key = 0
    /\ \A a \in Agents :
         LET s == agent[a].disk IN
         provisioned(s) /\ row[s.id].st = "live" /\ s.id \notin touched =>
             row[s.id].key = s.key /\ row[s.id].psk = s.psk

\* An agent forwards where the hub says: once it has applied an answer that no
\* change has overtaken, each port leads to the destination of its service and
\* no other port is open (reconcile, handleNodeTunnelTargets).
ForwardsAsTold ==
    \A a \in Agents :
        agent[a].pc \in {"refresh", "targets", "heartbeat"} /\ a \notin outdated =>
            agent[a].listens = Targets(agent[a].mem.id)

-----------------------------------------------------------------------------
(* The inductive invariant behind these properties.                        *)

\* None is no agent, token, node or request, and of some services one has the
\* largest key.
AgentAssumption ==
    /\ None \notin Agents /\ None \notin Tokens /\ None \notin Nodes /\ None \notin Calls
    /\ \A S \in SUBSET Services : S # {} => \E s \in S : \A x \in S : s >= x
    /\ MaxDrawn \in Nat /\ MaxChanges \in Nat

Waiting == {"enroll", "boot", "targets", "heartbeat"}
Joining == {"step", "enroll", "boot"}
Forwarding == {"refresh", "targets", "heartbeat"}

State == [id: Nodes \union {None}, hb: Nodes \union {None}, key: Nat, psk: Nat]
Listeners == [Ports -> Hosts \union {None}]
Agent == [pc: {"off"} \union Joining \union Forwarding, mem: State, disk: State,
          wait: Calls \union {None}, listens: Listeners]
Token == [row: BOOLEAN, single: BOOLEAN, active: BOOLEAN, used: BOOLEAN, expired: BOOLEAN]
Node == [st: {"new", "live", "gone"}, mtls: BOOLEAN, key: Nat, psk: Nat, seen: BOOLEAN]
Call == [kind: Waiting \union {"none"}, from: Agents \union {None},
         st: {"free", "sent", "checked", "loaded", "done"}, token: Tokens \union {None},
         id: Nodes \union {None}, hb: Nodes \union {None}, key: Nat, single: BOOLEAN, row: Node,
         code: Nat, psk: Nat, targets: Listeners]
Edit == [kind: {"none", "update", "revoke"}, id: Nodes \union {None}, row: Node, overtaken: BOOLEAN]

AgentTypeOK ==
    /\ token \in [Tokens -> Token] /\ row \in [Nodes -> Node]
    /\ service \in [Services -> Destinations] /\ ready \in BOOLEAN
    /\ agent \in [Agents -> Agent] /\ call \in [Calls -> Call] /\ edit \in [Editors -> Edit]
    /\ drawn \in Nat /\ changes \in Nat
    /\ born \in [Tokens -> SUBSET Nodes]
    /\ touched \subseteq Nodes /\ revoked \subseteq Nodes /\ outdated \subseteq Agents

\* A request knows what it is about, and nothing is left of one that is over.
CallWhole(q) ==
    /\ q.kind = "none" => q = NoCall
    /\ q.kind # "none" => q.from \in Agents /\ q.st # "free"
    /\ q.kind = "enroll" => q.token \in Tokens
    /\ q.kind \in {"boot", "targets", "heartbeat"} => q.id \in Nodes
    /\ q.st = "loaded" => q.kind = "boot" /\ q.row.st = "live"

CallsWhole == \A c \in Calls : CallWhole(call[c])

\* What an agent waits for is its own request about its own node.  Until it is
\* provisioned it has saved no keys and its listeners are outdated.
AgentWhole(a, p) ==
    /\ p.wait # None <=> p.pc \in Waiting
    /\ p.wait # None => LET q == call[p.wait] IN
         /\ q.from = a /\ q.kind = p.pc
         /\ p.pc # "enroll" => q.id = p.mem.id
         /\ p.pc = "boot" => q.key = p.mem.key /\ q.key # 0
    /\ p.pc \in Joining => ~provisioned(p.disk) /\ a \in outdated
    /\ p.pc \in Forwarding => p.mem.id \in Nodes
    /\ (p.mem.key = 0 => p.mem.psk = 0) /\ (p.disk.key = 0 => p.disk.psk = 0)

AgentsWhole == \A a \in Agents : AgentWhole(a, agent[a])

\* Node n is known to agent a, or to a request of it.
KnownTo(n, a) ==
    \/ agent[a].mem.id = n \/ agent[a].disk.id = n
    \/ \E c \in Calls : call[c].from = a /\ call[c].id = n

\* A node belongs to the agent that enrolled it.
NodesApart ==
    \A n \in Nodes : \A a \in Agents : KnownTo(n, a) =>
        row[n].st # "new" /\ \A b \in Agents : KnownTo(n, b) => b = a

\* An answer an agent waits for is still true when it arrives, or is known not to be.
AnswerHolds(p) ==
    p.wait # None => LET q == call[p.wait] IN
        /\ q.kind = "boot" /\ q.st = "done" /\ q.code = 200
             /\ row[q.id].st = "live" /\ q.id \notin touched =>
             row[q.id].key = q.key /\ row[q.id].psk = q.psk
        /\ q.kind = "targets" /\ q.st = "done" /\ q.code = 200 /\ q.row.seen =>
             q.targets = Targets(q.id)

AnswersHold == \A a \in Agents : AnswerHolds(agent[a])

\* A single-use token in the table has enrolled no node, or one and is used.
Spent(t) ==
    token[t].row /\ token[t].single =>
        \/ born[t] = {} /\ ~token[t].used
        \/ \E n \in Nodes : born[t] = {n} /\ token[t].used

TokensSpent == \A t \in Tokens : Spent(t)

\* An enrolment knows whether the token it checked is for single use.
ClaimHolds(q) ==
    q.kind = "enroll" /\ q.st = "checked" /\ token[q.token].row => q.single = token[q.token].single

ClaimsHold == \A c \in Calls : ClaimHolds(call[c])

\* What is written back is a node, and has its keys unless it was overtaken.
EditHolds(e) ==
    e.kind # "none" =>
        /\ e.id \in Nodes /\ e.row.st = "live" /\ row[e.id].st # "new"
        /\ e.kind = "update" /\ ~e.overtaken /\ row[e.id].st = "live" =>
             e.row.key = row[e.id].key /\ e.row.psk = row[e.id].psk

EditsHold == \A e \in Editors : EditHolds(edit[e])

AgentInv ==
    /\ AgentTypeOK /\ CallsWhole /\ AgentsWhole /\ NodesApart /\ AnswersHold /\ TokensSpent
    /\ ClaimsHold /\ EditsHold
    /\ AgentMatchesHub /\ ForwardsAsTold
=============================================================================
