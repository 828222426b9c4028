------------------------------- MODULE Tunnel -------------------------------
(***************************************************************************)
(* The tunnel of one hub: the WireGuard columns of nodes and clients, the  *)
(* manager that assigns addresses under its mutex, and the device that     *)
(* holds the peers (internal/tunnel manager.go, pool.go, server.go;        *)
(* internal/http nodes.go, tunnel.go, clients.go).                         *)
(*                                                                         *)
(* A row is a public key, an address and, for a node, whether it           *)
(* advertises a subnet.  Addresses are the numbers 1..PoolSize in the      *)
(* order of the pool.  The server's own key and address, preshared keys    *)
(* and the content of the configuration file are left out.                 *)
(***************************************************************************)
EXTENDS Integers

CONSTANTS
    Nodes,     \* primary keys of nodes
    Clients,   \* primary keys of clients
    Keys,      \* public keys
    Handlers,  \* requests in flight
    None,
    PoolSize,  \* addresses of the tunnel network that can be assigned
    MaxRequests \* bound on the number of requests

ASSUME PoolAssumption == PoolSize \in Nat /\ MaxRequests \in Nat
ASSUME NoneAssumption == None \notin Keys \union Nodes \union Clients \union Handlers

VARIABLES
    node,      \* nodes table
    client,    \* clients table
    enabled,   \* app_settings.tunnel_enabled
    mu,        \* holder of the manager's mutex
    device,    \* the server: whether it runs, its peers and its forward rules
    op,        \* program counter and local variables of each handler
    drawn,     \* public keys that were ever in use
    restored,  \* history: an update of a node undid a later change of its key
    failed,    \* history: a change was written and not yet given to the device
    dead,      \* history: keys whose removal ran through
    requests   \* number of requests so far

vars == <<node, client, enabled, mu, device, op, drawn, restored, failed, dead, requests>>

Ips == 1..PoolSize
NodeRow == [st: {"new", "live", "gone"}, key: Keys \union {None}, ip: Ips \union {0}, net: BOOLEAN]
NewNode == [st |-> "new", key |-> None, ip |-> 0, net |-> FALSE]
ClientRow == [st: {"new", "live", "gone"}, key: Keys \union {None}, ip: Ips \union {0},
              via: SUBSET Nodes]  \* allowed_node_ids
NewClient == [st |-> "new", key |-> None, ip |-> 0, via |-> {}]

Peer == [key: Keys, ip: Ips, net: BOOLEAN]
Rule == [from: Ips, to: Ips, net: BOOLEAN]

PCs == {"idle", "bootLock", "bootPool", "bootWrite", "revLock", "revWrite", "config",
        "updWrite", "provCreate", "lockedApply", "applyLock", "applySet", "start", "stop"}

Op == [pc: PCs, id: Nodes \union Clients \union {None}, key: Keys \union {None},
       row: NodeRow, ip: Ips \union {0}, via: SUBSET Nodes,
       peers: SUBSET Peer, rules: SUBSET Rule]

Idle == [pc |-> "idle", id |-> None, key |-> None, row |-> NewNode, ip |-> 0,
         via |-> {}, peers |-> {}, rules |-> {}]

Init ==
    /\ node = [n \in Nodes |-> NewNode]
    /\ client = [c \in Clients |-> NewClient]
    /\ enabled = FALSE
    /\ mu = None
    /\ device = [started |-> FALSE, peers |-> {}, rules |-> {}]
    /\ op = [h \in Handlers |-> Idle]
    /\ drawn = {}
    /\ restored = FALSE
    /\ failed = FALSE
    /\ dead = {}
    /\ requests = 0

Goto(h, where) == op' = [op EXCEPT ![h].pc = where]
Begin(h, rec) ==
    /\ op[h].pc = "idle"
    /\ requests < MaxRequests
    /\ requests' = requests + 1
    /\ op' = [op EXCEPT ![h] = rec]
Locked(h) == mu = None /\ mu' = h

-----------------------------------------------------------------------------
(* What the manager computes from the tables.                              *)

LiveNodes == {n \in Nodes : node[n].st = "live"}
LiveClients == {c \in Clients : client[c].st = "live"}
RowKeys == {node[n].key : n \in LiveNodes} \union {client[c].key : c \in LiveClients}

\* buildPeerState: rows with a key and an address become peers, and the
\* clients are connected with the nodes they may use.
PeerNodes == {n \in LiveNodes : node[n].key # None /\ node[n].ip # 0}
PeersNow ==
    {[key |-> node[n].key, ip |-> node[n].ip, net |-> node[n].net] : n \in PeerNodes}
        \union {[key |-> client[c].key, ip |-> client[c].ip, net |-> FALSE] : c \in LiveClients}
RulesNow ==
    {[from |-> client[p[1]].ip, to |-> node[p[2]].ip, net |-> node[p[2]].net] :
        p \in {q \in LiveClients \X PeerNodes : q[2] \in client[q[1]].via}}

\* Mutant: only the nodes are asked for their addresses.
MutPoolNodesOnly == {node[n].ip : n \in LiveNodes}

\* loadPool: the addresses in use.
loadPool == {node[n].ip : n \in LiveNodes} \union {client[c].ip : c \in LiveClients}

\* IPPool.Allocate: the lowest address that is not taken.
Allocate(taken, ip) == ip \in Ips \ taken /\ \A j \in Ips \ taken : ip <= j

\* ensureUniquePeerKey, for node n.
ensureUniquePeerKey(k, n) ==
    /\ \A m \in LiveNodes \ {n} : node[m].key # k
    /\ \A c \in LiveClients : client[c].key # k

\* NodeStore.Update: every column of a row that still exists.
UpdateRow(n, row) ==
    /\ node[n].st = "live"
    /\ node' = [node EXCEPT ![n] = row]

-----------------------------------------------------------------------------
(* Applying the tables to the device: the end of every change.             *)

\* A removal that ran through: its key is dead, unless it was assigned again
\* before the tables were read or since.
Buried(h) == dead' = dead \union
    ({op[h].key} \ (RowKeys \union {p.key : p \in op[h].peers} \union {None}))

Finish(h) == op' = [op EXCEPT ![h] = Idle] /\ mu' = None

\* Mutant: the tables are read before the mutex is taken.
MutReadUnlocked(h) ==
    /\ op[h].pc = "applyLock"
    /\ op' = [op EXCEPT ![h] = [@ EXCEPT !.pc = "applySet", !.peers = PeersNow, !.rules = RulesNow]]
    /\ failed' = FALSE
    /\ UNCHANGED <<mu, node, client, enabled, device, drawn, restored, dead, requests>>

\* ApplyPeers takes the mutex.
ApplyLock(h) ==
    /\ op[h].pc = "applyLock"
    /\ Locked(h)
    /\ Goto(h, "lockedApply")
    /\ UNCHANGED <<node, client, enabled, device, drawn, restored, failed, dead, requests>>

\* applyPeersLocked and ApplyPeers read both tables, unless nothing runs.
ApplyRead(h) ==
    /\ op[h].pc = "lockedApply"
    /\ failed' = FALSE
    /\ \/ /\ device.started
          /\ op' = [op EXCEPT ![h] = [@ EXCEPT !.pc = "applySet",
                                              !.peers = PeersNow, !.rules = RulesNow]]
          /\ UNCHANGED <<mu, dead>>
       \/ /\ ~device.started
          /\ Buried(h)
          /\ Finish(h)
    /\ UNCHANGED <<node, client, enabled, device, drawn, restored, requests>>

\* SetForwardRules and ApplyPeerSpecs replace everything; a device that was
\* stopped meanwhile takes only the rules.
SetDevice(rules, peers) ==
    device' = [device EXCEPT !.rules = rules,
                             !.peers = IF device.started THEN peers ELSE @]

ApplySet(h) ==
    /\ op[h].pc = "applySet"
    /\ SetDevice(op[h].rules, op[h].peers)
    /\ Buried(h)
    /\ Finish(h)
    /\ UNCHANGED <<node, client, enabled, drawn, restored, failed, requests>>

\* A call fails or the client goes away; what was written before stays.
Abort(h) ==
    /\ op[h].pc # "idle"
    /\ failed' = (failed \/ op[h].pc \in {"config", "lockedApply", "applyLock", "applySet"})
    /\ op' = [op EXCEPT ![h] = Idle]
    /\ mu' = IF mu = h THEN None ELSE mu
    /\ UNCHANGED <<node, client, enabled, device, drawn, restored, dead, requests>>

-----------------------------------------------------------------------------
(* Nodes.                                                                  *)

\* handleCreateNode; an enrolment inserts the same row and does not apply.
CreateNode(h, n, net) ==
    /\ node[n].st = "new"
    /\ node' = [node EXCEPT ![n] = [NewNode EXCEPT !.st = "live", !.net = net]]
    /\ Begin(h, [Idle EXCEPT !.pc = "applyLock"])
    /\ UNCHANGED <<client, enabled, mu, device, drawn, restored, failed, dead>>

EnrollNode(n) ==
    /\ node[n].st = "new"
    /\ node' = [node EXCEPT ![n].st = "live"]
    /\ UNCHANGED <<client, enabled, mu, device, op, drawn, restored, failed, dead, requests>>

\* handleNodeSelfBootstrap: the node is known; its key is its own choice.
Bootstrap(h, n, k) ==
    /\ node[n].st = "live"
    /\ Begin(h, [Idle EXCEPT !.pc = "bootLock", !.id = n, !.key = k])
    /\ UNCHANGED <<node, client, enabled, mu, device, drawn, restored, failed, dead>>

\* BootstrapNode loads the row under the mutex; it may be gone.
BootLock(h) ==
    /\ op[h].pc = "bootLock"
    /\ node[op[h].id].st = "live"
    /\ Locked(h)
    /\ op' = [op EXCEPT ![h] = [@ EXCEPT !.pc = "bootPool", !.row = node[op[h].id]]]
    /\ UNCHANGED <<node, client, enabled, device, drawn, restored, failed, dead, requests>>

\* The pool, the uniqueness of the key, and an address; the one the row had
\* is free for it.  The mutex keeps other assignments out, and a deletion
\* between the reads only frees.  Otherwise the handler ends with an error (Abort).
BootPool(h) ==
    /\ op[h].pc = "bootPool"
    /\ ensureUniquePeerKey(op[h].key, op[h].id)
    /\ \E ip \in Ips :
         /\ Allocate(loadPool \ {op[h].row.ip}, ip)
         /\ op' = [op EXCEPT ![h] = [@ EXCEPT !.pc = "bootWrite", !.ip = ip]]
    /\ UNCHANGED <<node, client, enabled, mu, device, drawn, restored, failed, dead, requests>>

\* The whole row is written as it was loaded, with the new assignment.
BootWrite(h) ==
    /\ op[h].pc = "bootWrite"
    /\ UpdateRow(op[h].id, [op[h].row EXCEPT !.key = op[h].key, !.ip = op[h].ip])
    /\ drawn' = drawn \union {op[h].key}
    /\ dead' = dead \ {op[h].key}
    /\ op' = [op EXCEPT ![h] = [Idle EXCEPT !.pc = "config"]]
    /\ UNCHANGED <<client, enabled, mu, device, restored, failed, requests>>

\* writeServerConfigLocked, when it does not fail.
WriteConfig(h) ==
    /\ op[h].pc = "config"
    /\ Goto(h, "lockedApply")
    /\ UNCHANGED <<node, client, enabled, mu, device, drawn, restored, failed, dead, requests>>

\* RevokeNode.
RevokeBegin(h, n) ==
    /\ Begin(h, [Idle EXCEPT !.pc = "revLock", !.id = n])
    /\ UNCHANGED <<node, client, enabled, mu, device, drawn, restored, failed, dead>>

RevokeLock(h) ==
    /\ op[h].pc = "revLock"
    /\ node[op[h].id].st = "live"
    /\ Locked(h)
    /\ op' = [op EXCEPT ![h] = [@ EXCEPT !.pc = "revWrite", !.row = node[op[h].id]]]
    /\ UNCHANGED <<node, client, enabled, device, drawn, restored, failed, dead, requests>>

\* Mutant: the handler returns without applying.
MutRevokeNoApply(h) ==
    /\ op[h].pc = "revWrite"
    /\ UpdateRow(op[h].id, [op[h].row EXCEPT !.key = None, !.ip = 0])
    /\ dead' = dead \union ({op[h].row.key} \ {None})
    /\ Finish(h)
    /\ UNCHANGED <<client, enabled, device, drawn, restored, failed, requests>>

RevokeWrite(h) ==
    /\ op[h].pc = "revWrite"
    /\ UpdateRow(op[h].id, [op[h].row EXCEPT !.key = None, !.ip = 0])
    /\ op' = [op EXCEPT ![h] = [Idle EXCEPT !.pc = "config", !.key = op[h].row.key]]
    /\ UNCHANGED <<client, enabled, mu, device, drawn, restored, failed, dead, requests>>

\* handleUpdateNode: the row is loaded, changed and written whole, without
\* the mutex; then the tables are applied.
UpdateLoad(h, n, net) ==
    /\ node[n].st = "live"
    /\ Begin(h, [Idle EXCEPT !.pc = "updWrite", !.id = n, !.row = [node[n] EXCEPT !.net = net]])
    /\ UNCHANGED <<node, client, enabled, mu, device, drawn, restored, failed, dead>>

UpdateWrite(h) ==
    LET row == op[h].row
        now == node[op[h].id]
    IN  /\ op[h].pc = "updWrite"
        /\ UpdateRow(op[h].id, row)
        /\ restored' = (restored \/ (row.key # None /\ <<row.key, row.ip>> # <<now.key, now.ip>>))
        /\ op' = [op EXCEPT ![h] = [Idle EXCEPT !.pc = "applyLock"]]
        /\ UNCHANGED <<client, enabled, mu, device, drawn, failed, dead, requests>>

\* handleDeleteNode.
DeleteNode(h, n) ==
    /\ node[n].st = "live"
    /\ node' = [node EXCEPT ![n] = [NewNode EXCEPT !.st = "gone"]]
    /\ Begin(h, [Idle EXCEPT !.pc = "applyLock", !.key = node[n].key])
    /\ UNCHANGED <<client, enabled, mu, device, drawn, restored, failed, dead>>

-----------------------------------------------------------------------------
(* Clients, which are only touched under the mutex.                        *)

\* ProvisionClient: an address and a generated key.
ProvisionPool(h, c, k, via) ==
    /\ client[c].st = "new"
    /\ k \notin drawn
    /\ Locked(h)
    /\ \E ip \in Ips :
         /\ Allocate(loadPool, ip)
         /\ Begin(h, [Idle EXCEPT !.pc = "provCreate", !.id = c, !.key = k, !.ip = ip, !.via = via])
    /\ drawn' = drawn \union {k}
    /\ UNCHANGED <<node, client, enabled, device, restored, failed, dead>>

ProvisionCreate(h) ==
    /\ op[h].pc = "provCreate"
    /\ client' = [client EXCEPT ![op[h].id] =
         [st |-> "live", key |-> op[h].key, ip |-> op[h].ip, via |-> op[h].via]]
    /\ op' = [op EXCEPT ![h] = [Idle EXCEPT !.pc = "lockedApply"]]
    /\ UNCHANGED <<node, enabled, mu, device, drawn, restored, failed, dead, requests>>

RotateClient(h, c, k) ==
    /\ client[c].st = "live"
    /\ k \notin drawn
    /\ Locked(h)
    /\ client' = [client EXCEPT ![c].key = k]
    /\ drawn' = drawn \union {k}
    /\ Begin(h, [Idle EXCEPT !.pc = "lockedApply", !.key = client[c].key])
    /\ UNCHANGED <<node, enabled, device, restored, failed, dead>>

RevokeClient(h, c) ==
    /\ client[c].st = "live"
    /\ Locked(h)
    /\ client' = [client EXCEPT ![c] = [NewClient EXCEPT !.st = "gone"]]
    /\ Begin(h, [Idle EXCEPT !.pc = "lockedApply", !.key = client[c].key])
    /\ UNCHANGED <<node, enabled, device, drawn, restored, failed, dead>>

-----------------------------------------------------------------------------
(* handleUpdateTunnelSettings, and the start of the hub.                   *)

\* The settings are written; then the server is started or stopped.
EnableTunnel(h) ==
    /\ enabled' = TRUE
    /\ Begin(h, [Idle EXCEPT !.pc = "start"])
    /\ UNCHANGED <<node, client, mu, device, drawn, restored, failed, dead>>

\* A server that does not run is started with the settings read again, and
\* the tables are applied; Start leaves a disabled or running one alone.
StartServer(h) ==
    /\ op[h].pc = "start"
    /\ ~device.started
    /\ device' = IF enabled THEN [device EXCEPT !.started = TRUE, !.peers = {}] ELSE device
    /\ Goto(h, "applyLock")
    /\ UNCHANGED <<node, client, enabled, mu, drawn, restored, failed, dead, requests>>

DisableTunnel(h) ==
    /\ enabled' = FALSE
    /\ Begin(h, [Idle EXCEPT !.pc = "stop"])
    /\ UNCHANGED <<node, client, mu, device, drawn, restored, failed, dead>>

\* The forward rules survive the stop.
StopServer(h) ==
    /\ op[h].pc = "stop"
    /\ device' = [device EXCEPT !.started = FALSE, !.peers = {}]
    /\ Goto(h, "idle")
    /\ UNCHANGED <<node, client, enabled, mu, drawn, restored, failed, dead, requests>>

\* The hub ends and starts again; if the tunnel is enabled, the server is
\* started and the tables applied before any request is served, and a failure
\* of either is only logged.
Restart ==
    /\ mu' = None
    /\ op' = [h \in Handlers |-> Idle]
    /\ \/ /\ enabled
          /\ device' = [started |-> TRUE, peers |-> PeersNow, rules |-> RulesNow]
          /\ failed' = FALSE
       \/ /\ enabled
          /\ device' = [started |-> TRUE, peers |-> {}, rules |-> {}]
          /\ failed' = TRUE
       \/ /\ device' = [started |-> FALSE, peers |-> {}, rules |-> {}]
          /\ failed' = FALSE
    /\ UNCHANGED <<node, client, enabled, drawn, restored, dead, requests>>

Step(h) ==
    \/ ApplyLock(h) \/ ApplyRead(h) \/ ApplySet(h) \/ Abort(h)
    \/ BootLock(h) \/ BootPool(h) \/ BootWrite(h) \/ WriteConfig(h)
    \/ RevokeLock(h) \/ RevokeWrite(h) \/ UpdateWrite(h) \/ ProvisionCreate(h)
    \/ StartServer(h) \/ StopServer(h)

Next ==
    \/ Restart
    \/ \E n \in Nodes : EnrollNode(n)
    \/ \E h \in Handlers :
         \/ Step(h)
         \/ EnableTunnel(h) \/ DisableTunnel(h)
         \/ \E n \in Nodes :
              \/ RevokeBegin(h, n) \/ DeleteNode(h, n)
              \/ \E k \in Keys : Bootstrap(h, n, k)
              \/ \E net \in BOOLEAN : CreateNode(h, n, net) \/ UpdateLoad(h, n, net)
         \/ \E c \in Clients :
              \/ RevokeClient(h, c)
              \/ \E k \in Keys : RotateClient(h, c, k)
              \/ \E k \in Keys, via \in SUBSET Nodes : ProvisionPool(h, c, k, via)

Spec == Init /\ [][Next]_vars

-----------------------------------------------------------------------------
(* Properties.                                                             *)

\* Rows, peers, rules and handler variables keep their types.
TypeOK ==
    /\ node \in [Nodes -> NodeRow]
    /\ client \in [Clients -> ClientRow]
    /\ enabled \in BOOLEAN /\ restored \in BOOLEAN /\ failed \in BOOLEAN
    /\ mu \in Handlers \union {None}
    /\ device \in [started: BOOLEAN, peers: SUBSET Peer, rules: SUBSET Rule]
    /\ op \in [Handlers -> Op]
    /\ drawn \subseteq Keys /\ dead \subseteq Keys
    /\ requests \in 0..MaxRequests

\* No two nodes or clients have the same address or the same key, whatever
\* bootstraps, revocations, deletions and client changes interleave, unless an
\* update of a node wrote back an assignment that had changed since it loaded
\* the row (BootstrapNode, ProvisionClient, NodeStore.Update).
AssignmentsApart ==
    ~restored =>
        /\ \A m, n \in LiveNodes : m # n =>
             /\ node[m].ip = node[n].ip => node[m].ip = 0
             /\ node[m].key = node[n].key => node[m].key = None
        /\ \A b, c \in LiveClients : b # c =>
             client[b].ip # client[c].ip /\ client[b].key # client[c].key
        /\ \A n \in LiveNodes, c \in LiveClients :
             node[n].ip # client[c].ip /\ node[n].key # client[c].key

\* When every change that was written has been applied and none of the
\* applications failed, the running device has exactly the peers and forward
\* rules of the tables: no application overwrote a later one with older rows
\* (applyPeersLocked, ApplyPeers).
PeersCurrent ==
    /\ device.started /\ ~failed
    /\ \A h \in Handlers :
         op[h].pc \notin {"config", "lockedApply", "applyLock", "applySet"}
    => device.peers = PeersNow /\ device.rules = RulesNow

\* The key of a node or client whose removal ran through is not among the
\* peers at any later moment, also while other changes are being applied,
\* unless it was assigned again or an update of a node brought it back
\* (RevokeNode, RevokeClient, RotateClient, handleDeleteNode).
RevokedOut ==
    ~restored => \A p \in device.peers : p.key \notin dead

-----------------------------------------------------------------------------
(* The inductive invariant behind them.                                    *)

\* Where a handler holds the mutex, and where it owes the device a change.
LockedSteps == {"bootPool", "bootWrite", "revWrite", "config", "provCreate", "lockedApply", "applySet"}
Owing == {"config", "lockedApply", "applyLock"}

\* The handler with the mutex is the one between Lock and Unlock.
MutexHeld == \A h \in Handlers : mu = h <=> op[h].pc \in LockedSteps

\* A key in a row was seen before, and an address comes with a key.
Known(row) == row.key \in drawn \union {None} /\ (row.key = None => row.ip = 0)
RowsKnown ==
    /\ \A n \in Nodes : Known(node[n]) /\ (node[n].st = "new" => node[n].key = None)
    /\ \A c \in Clients : client[c].st = "live" => client[c].key \in drawn /\ client[c].ip # 0
    /\ dead \subseteq drawn

\* What a handler carries from one step to the next.
Carries(h) ==
    LET o == op[h] IN
    /\ o.pc \in {"bootLock", "bootPool", "bootWrite", "revLock", "revWrite", "updWrite"} => o.id \in Nodes
    /\ o.pc \in {"bootLock", "bootPool", "bootWrite", "provCreate"} => o.key # None
    /\ o.pc \in {"bootWrite", "provCreate"} => o.ip # 0
    /\ o.pc \in {"bootPool", "bootWrite", "revWrite", "updWrite"} => o.row.st = "live"
    /\ o.pc = "provCreate" => o.id \in Clients /\ client[o.id].st = "new"
    /\ o.pc \in Owing \union {"applySet", "provCreate", "start"} => o.key \in drawn \union {None}
    /\ Known(o.row)

\* Nobody but node n has the address.
IpFree(ip, n) ==
    /\ \A m \in LiveNodes \ {n} : node[m].ip # ip
    /\ \A c \in LiveClients : client[c].ip # ip

\* What the handler with the mutex is about to assign is still free.
Reserved(h) ==
    LET o == op[h] IN
    /\ o.pc = "bootPool" /\ o.row.ip # 0 => IpFree(o.row.ip, o.id)
    /\ o.pc = "bootWrite" => IpFree(o.ip, o.id) /\ ensureUniquePeerKey(o.key, o.id)
    /\ o.pc = "provCreate" => IpFree(o.ip, None) /\ ensureUniquePeerKey(o.key, None)

\* No row, and nothing on its way into a row or to the device, has a dead key.
RowsAlive == RowKeys \intersect dead = {}
CarriesAlive(h) ==
    /\ op[h].pc = "applySet" => \A p \in op[h].peers : p.key \notin dead
    /\ op[h].pc = "provCreate" => op[h].key \notin dead

\* A device that does not run has no peers.
StoppedBare == ~device.started => device.peers = {}

\* While no change waits to be read, the handler that applies, or else the
\* device, has the peers and rules of the tables.
ReadCurrent ==
    /\ device.started /\ ~failed
    /\ \A h \in Handlers : op[h].pc \notin Owing
    => \/ \E h \in Handlers : /\ op[h].pc = "applySet"
                              /\ op[h].peers = PeersNow /\ op[h].rules = RulesNow
       \/ /\ \A h \in Handlers : op[h].pc # "applySet"
          /\ device.peers = PeersNow /\ device.rules = RulesNow

TunnelInv ==
    /\ TypeOK
    /\ MutexHeld
    /\ RowsKnown
    /\ \A h \in Handlers : Carries(h)
    /\ ~restored => RowsAlive /\ \A h \in Handlers : Reserved(h) /\ CarriesAlive(h)
    /\ AssignmentsApart
    /\ RevokedOut
    /\ StoppedBare
    /\ ReadCurrent
=============================================================================
