--------------------------- MODULE JoiningProofs ----------------------------
(***************************************************************************)
(* Proofs about the tunnel, for any number of nodes, clients, keys,        *)
(* addresses and requests, and about the agents that join it, for any      *)
(* number of agents, tokens, nodes, services and requests under way.       *)
(*                                                                         *)
(* The argument about the agents: a node is known to one agent only, the   *)
(* one whose request enrolled it; an agent that waits for an answer waits  *)
(* for its own request about its own node; so only the bootstrap the agent *)
(* waits for, an administrator, or a bootstrap that was given up can       *)
(* change the keys the agent will save.                                    *)
(***************************************************************************)
EXTENDS Joining, FiniteSetTheorems, TLAPS

-----------------------------------------------------------------------------
(* The tunnel.                                                             *)


\* The handlers other than h keep their place and their variables.
Others(h) == op' \in [Handlers -> Op] /\ \A g \in Handlers : g # h => op'[g] = op[g]

\* Where handler h is afterwards, and what it carries.
Moved(h, pc, id, key, rec, ip) ==
    /\ Others(h)
    /\ op'[h].pc = pc /\ op'[h].id = id /\ op'[h].key = key /\ op'[h].row = rec /\ op'[h].ip = ip

\* Every assignment in the tables was there before.
Shrunk ==
    /\ \A n \in Nodes : node'[n].st = "live" =>
         \/ node'[n].key = None /\ node'[n].ip = 0
         \/ node[n].st = "live" /\ node'[n].key = node[n].key /\ node'[n].ip = node[n].ip
    /\ \A c \in Clients : client'[c].st = "live" =>
         client[c].st = "live" /\ client'[c].key = client[c].key /\ client'[c].ip = client[c].ip

-----------------------------------------------------------------------------
(* Types.                                                                  *)

\* A handler's record is replaced.
LEMMA Placed ==
    ASSUME TypeOK, NEW h \in Handlers, NEW q \in Op, op' = [op EXCEPT ![h] = q]
    PROVE  Others(h) /\ op'[h] = q
  BY DEF TypeOK, Others

\* The idle record and the row of a new node have their types.
LEMMA IdleTyped ==
    Idle \in Op /\ NewNode \in NodeRow /\ NewClient \in ClientRow /\ Known(NewNode)
  BY DEF Idle, Op, PCs, NewNode, NodeRow, NewClient, ClientRow, Known

\* A record for a handler that begins or goes on with little.
LEMMA Fresh ==
    ASSUME NEW pc \in PCs, NEW id \in Nodes \union Clients \union {None},
           NEW key \in Keys \union {None}, NEW rec \in NodeRow, NEW ip \in Ips \union {0},
           NEW via \in SUBSET Nodes, NEW peers \in SUBSET Peer, NEW rules \in SUBSET Rule
    PROVE  [pc |-> pc, id |-> id, key |-> key, row |-> rec, ip |-> ip,
            via |-> via, peers |-> peers, rules |-> rules] \in Op
  BY DEF Op

\* The fields of a handler's record.
LEMMA OpFields ==
    ASSUME TypeOK, NEW h \in Handlers
    PROVE  /\ op[h].pc \in PCs /\ op[h].id \in Nodes \union Clients \union {None}
           /\ op[h].key \in Keys \union {None} /\ op[h].row \in NodeRow
           /\ op[h].ip \in Ips \union {0} /\ op[h].via \in SUBSET Nodes
           /\ op[h].peers \in SUBSET Peer /\ op[h].rules \in SUBSET Rule
           /\ op[h] \in Op
           /\ op[h] = [pc |-> op[h].pc, id |-> op[h].id, key |-> op[h].key, row |-> op[h].row,
                       ip |-> op[h].ip, via |-> op[h].via, peers |-> op[h].peers,
                       rules |-> op[h].rules]
  BY DEF TypeOK, Op

\* Going on with one's own variables.
LEMMA GoesOn ==
    ASSUME TypeOK, NEW h \in Handlers, NEW pc \in PCs, Goto(h, pc)
    PROVE  Moved(h, pc, op[h].id, op[h].key, op[h].row, op[h].ip)
<1> DEFINE q == [op[h] EXCEPT !.pc = pc]
<1>1. q \in Op
  BY OpFields DEF Op
<1>2. q.pc = pc /\ q.id = op[h].id /\ q.key = op[h].key /\ q.row = op[h].row /\ q.ip = op[h].ip
  BY OpFields
<1>3. op' = [op EXCEPT ![h] = q]
  BY DEF Goto, TypeOK
<1> HIDE DEF q
<1> QED
  BY <1>1, <1>2, <1>3, Placed DEF Moved

\* The peers and the rules of the tables have keys and addresses.
LEMMA NowTyped ==
    ASSUME TypeOK, RowsKnown
    PROVE  PeersNow \in SUBSET Peer /\ RulesNow \in SUBSET Rule
<1>1. \A n \in PeerNodes : node[n].key \in Keys /\ node[n].ip \in Ips /\ node[n].net \in BOOLEAN
  BY DEF TypeOK, PeerNodes, LiveNodes, NodeRow
<1>2. \A c \in LiveClients : client[c].key \in Keys /\ client[c].ip \in Ips
  BY DEF TypeOK, RowsKnown, LiveClients, ClientRow
<1>3. PeersNow \in SUBSET Peer
  <2> SUFFICES ASSUME NEW p \in PeersNow PROVE p \in Peer
    OBVIOUS
  <2>1. CASE \E n \in PeerNodes : p = [key |-> node[n].key, ip |-> node[n].ip, net |-> node[n].net]
    BY <1>1, <2>1 DEF Peer
  <2>2. CASE \E c \in LiveClients : p = [key |-> client[c].key, ip |-> client[c].ip, net |-> FALSE]
    BY <1>2, <2>2 DEF Peer
  <2> QED BY <2>1, <2>2 DEF PeersNow
<1>4. RulesNow \in SUBSET Rule
  BY <1>1, <1>2 DEF RulesNow, Rule
<1> QED BY <1>3, <1>4

-----------------------------------------------------------------------------
(* What the parts of the invariant need of a step.                         *)

\* A step that leaves the mutex alone.
LEMMA MutexKept ==
    ASSUME MutexHeld, NEW h \in Handlers, Others(h), mu' = mu,
           op'[h].pc \in LockedSteps <=> op[h].pc \in LockedSteps
    PROVE  MutexHeld'
  BY DEF MutexHeld, Others

\* A step that takes it.
LEMMA MutexTaken ==
    ASSUME MutexHeld, NEW h \in Handlers, Others(h), Locked(h), op'[h].pc \in LockedSteps
    PROVE  MutexHeld'
  BY NoneAssumption DEF MutexHeld, Others, Locked

\* A step that gives it back.
LEMMA MutexGiven ==
    ASSUME MutexHeld, NEW h \in Handlers, Others(h), op'[h].pc \notin LockedSteps,
           mu' = IF mu = h THEN None ELSE mu
    PROVE  MutexHeld'
  BY NoneAssumption DEF MutexHeld, Others

\* What the other handlers carry is still good.
LEMMA OthersCarry ==
    ASSUME MutexHeld, \A g \in Handlers : Carries(g),
           NEW h \in Handlers, Others(h), drawn \subseteq drawn', Carries(h)',
           mu # h => \A c \in Clients : client[c].st = "new" => client'[c].st = "new"
    PROVE  \A g \in Handlers : Carries(g)'
<1> SUFFICES ASSUME NEW g \in Handlers, g # h PROVE Carries(g)'
  OBVIOUS
<1>1. op'[g] = op[g] /\ Carries(g)
  BY DEF Others
<1>2. op[g].pc = "provCreate" => mu # h
  BY DEF MutexHeld, LockedSteps
<1> QED BY <1>1, <1>2 DEF Carries, Known

\* What the other handlers have reserved is still free.
LEMMA OthersReserved ==
    ASSUME MutexHeld, \A g \in Handlers : Reserved(g),
           NEW h \in Handlers, Others(h), Reserved(h)',
           Shrunk \/ mu \in {h, None},
           \A g \in Handlers : Carries(g)
    PROVE  \A g \in Handlers : Reserved(g)'
<1> SUFFICES ASSUME NEW g \in Handlers, g # h PROVE Reserved(g)'
  OBVIOUS
<1>1. op'[g] = op[g] /\ Reserved(g)
  BY DEF Others
<1>2. CASE mu \in {h, None}
  <2>1. op[g].pc \notin LockedSteps
    BY <1>2, NoneAssumption DEF MutexHeld
  <2> QED BY <1>1, <2>1 DEF Reserved, LockedSteps
<1>3. CASE Shrunk
  <2>1. ASSUME NEW ip, NEW n, ip # 0, IpFree(ip, n) PROVE IpFree(ip, n)'
    BY <1>3, <2>1 DEF Shrunk, IpFree, LiveNodes, LiveClients
  <2>2. ASSUME NEW k, NEW n, k # None, ensureUniquePeerKey(k, n) PROVE ensureUniquePeerKey(k, n)'
    BY <1>3, <2>2 DEF Shrunk, ensureUniquePeerKey, LiveNodes, LiveClients
  <2>3. Carries(g)
    OBVIOUS
  <2>4. op[g].pc = "bootPool" /\ op[g].row.ip # 0 => IpFree(op[g].row.ip, op[g].id)'
    BY <1>1, <2>1 DEF Reserved
  <2>5. op[g].pc = "bootWrite" => IpFree(op[g].ip, op[g].id)' /\ ensureUniquePeerKey(op[g].key, op[g].id)'
    BY <1>1, <2>1, <2>2, <2>3 DEF Reserved, Carries
  <2>6. op[g].pc = "provCreate" => IpFree(op[g].ip, None)' /\ ensureUniquePeerKey(op[g].key, None)'
    BY <1>1, <2>1, <2>2, <2>3 DEF Reserved, Carries
  <2> QED BY <1>1, <2>4, <2>5, <2>6 DEF Reserved
<1> QED BY <1>2, <1>3

\* A step that takes assignments away keeps the others apart and alive.
LEMMA ShrunkApart ==
    ASSUME TypeOK, RowsKnown, AssignmentsApart, Shrunk, ~restored' => ~restored
    PROVE  AssignmentsApart'
<1> SUFFICES ASSUME ~restored' PROVE AssignmentsApart'
  BY DEF AssignmentsApart
<1>1. \A n \in LiveNodes' : n \in Nodes /\ node'[n].key # None => n \in LiveNodes /\ node'[n].key = node[n].key
  BY DEF Shrunk, LiveNodes
<1>2. \A n \in LiveNodes' : n \in Nodes /\ node'[n].ip # 0 => n \in LiveNodes /\ node'[n].ip = node[n].ip
  BY DEF Shrunk, LiveNodes
<1>3. \A c \in LiveClients' :
         c \in LiveClients /\ client'[c].key = client[c].key /\ client'[c].ip = client[c].ip
  BY DEF Shrunk, LiveClients
<1>4. \A n \in LiveNodes' : n \in Nodes
  BY DEF LiveNodes
<1>5. \A m, n \in LiveNodes' : m # n =>
             /\ node'[m].ip = node'[n].ip => node'[m].ip = 0
             /\ node'[m].key = node'[n].key => node'[m].key = None
  BY <1>1, <1>2, <1>4 DEF AssignmentsApart
<1>6. \A b, c \in LiveClients' : b # c =>
             client'[b].ip # client'[c].ip /\ client'[b].key # client'[c].key
  BY <1>3 DEF AssignmentsApart
<1>7. \A n \in LiveNodes', c \in LiveClients' :
             node'[n].ip # client'[c].ip /\ node'[n].key # client'[c].key
  <2>1. \A c \in LiveClients : client[c].key # None /\ client[c].ip # 0
    BY NoneAssumption DEF TypeOK, RowsKnown, LiveClients
  <2> QED BY <1>1, <1>2, <1>3, <1>4, <2>1 DEF AssignmentsApart
<1> QED BY <1>5, <1>6, <1>7 DEF AssignmentsApart

\* The keys it leaves in the tables are not dead.
LEMMA ShrunkAlive ==
    ASSUME RowsAlive, Shrunk, dead \subseteq Keys, dead' = dead
    PROVE  RowsAlive'
<1> SUFFICES ASSUME NEW k \in RowKeys', k # None PROVE k \in RowKeys
  BY NoneAssumption DEF RowsAlive
<1> QED BY DEF RowKeys, Shrunk, LiveNodes, LiveClients

\* Tables that are left alone.
LEMMA TablesKept ==
    ASSUME UNCHANGED <<node, client>>
    PROVE  /\ Shrunk /\ PeersNow' = PeersNow /\ RulesNow' = RulesNow /\ RowKeys' = RowKeys
           /\ LiveNodes' = LiveNodes /\ LiveClients' = LiveClients /\ loadPool' = loadPool
  BY DEF Shrunk, PeersNow, RulesNow, RowKeys, PeerNodes, LiveNodes, LiveClients, loadPool

\* A change that waits to be read excuses the device.
LEMMA CurrentOwing ==
    ASSUME NEW h \in Handlers, op'[h].pc \in Owing
    PROVE  ReadCurrent'
  BY DEF ReadCurrent

\* A step of a handler that has nothing to apply.
LEMMA CurrentQuiet ==
    ASSUME ReadCurrent, NEW h \in Handlers, Others(h), UNCHANGED <<node, client, device, failed>>,
           op[h].pc \notin Owing \union {"applySet"}, op'[h].pc \notin Owing \union {"applySet"}
    PROVE  ReadCurrent'
<1>1. PeersNow' = PeersNow /\ RulesNow' = RulesNow
  BY TablesKept
<1>2. \A g \in Handlers : /\ op'[g].pc \in Owing <=> op[g].pc \in Owing
                          /\ op'[g].pc = "applySet" <=> op[g].pc = "applySet"
                          /\ op'[g].pc = "applySet" => op'[g] = op[g]
  BY DEF Others
<1> SUFFICES ASSUME device.started, ~failed, \A g \in Handlers : op[g].pc \notin Owing
             PROVE  \/ \E g \in Handlers : /\ op'[g].pc = "applySet"
                                           /\ op'[g].peers = PeersNow /\ op'[g].rules = RulesNow
                    \/ /\ \A g \in Handlers : op'[g].pc # "applySet"
                       /\ device.peers = PeersNow /\ device.rules = RulesNow
  BY <1>1, <1>2 DEF ReadCurrent
<1>3. \/ \E g \in Handlers : /\ op[g].pc = "applySet"
                             /\ op[g].peers = PeersNow /\ op[g].rules = RulesNow
      \/ /\ \A g \in Handlers : op[g].pc # "applySet"
         /\ device.peers = PeersNow /\ device.rules = RulesNow
  BY DEF ReadCurrent
<1> QED BY <1>2, <1>3

\* A step of handler h that assigns nothing and buries nothing.
LEMMA ShrinkingStep ==
    ASSUME TunnelInv, NEW h \in Handlers, Others(h), TypeOK', MutexHeld', RowsKnown',
           drawn \subseteq drawn', dead' = dead,
           \A c \in Clients : client[c].st = "new" => client'[c].st = "new",
           Carries(h)',
           ~restored' => ~restored /\ Shrunk /\ Reserved(h)' /\ CarriesAlive(h)',
           device' = device \/ device'.peers = {}, StoppedBare', ReadCurrent'
    PROVE  TunnelInv'
<1> USE DEF TunnelInv
<1>1. \A g \in Handlers : Carries(g)'
  BY OthersCarry
<1>2. AssignmentsApart'
  <2>1. CASE restored'
    BY <2>1 DEF AssignmentsApart
  <2>2. CASE ~restored'
    BY <2>2, ShrunkApart
  <2> QED BY <2>1, <2>2
<1>3. RevokedOut'
  BY DEF RevokedOut
<1>4. ASSUME ~restored' PROVE RowsAlive' /\ \A g \in Handlers : Reserved(g)' /\ CarriesAlive(g)'
  <2>1. RowsAlive'
    BY <1>4, ShrunkAlive DEF TypeOK
  <2>2. \A g \in Handlers : Reserved(g)'
    BY <1>4, OthersReserved
  <2>3. \A g \in Handlers : CarriesAlive(g)'
    BY <1>4 DEF Others, CarriesAlive
  <2> QED BY <2>1, <2>2, <2>3
<1> QED BY <1>1, <1>2, <1>3, <1>4

\* A step of handler h that touches neither the tables nor the device.
LEMMA QuietStep ==
    ASSUME TunnelInv, NEW h \in Handlers, Others(h), TypeOK', MutexHeld',
           UNCHANGED <<node, client, device, dead, restored>>, drawn \subseteq drawn',
           Carries(h)', ~restored => Reserved(h)' /\ CarriesAlive(h)', ReadCurrent'
    PROVE  TunnelInv'
<1>1. RowsKnown'
  BY DEF TunnelInv, RowsKnown, Known
<1>2. Shrunk
  BY TablesKept
<1>3. StoppedBare'
  BY DEF TunnelInv, StoppedBare
<1> QED BY <1>1, <1>2, <1>3, ShrinkingStep

-----------------------------------------------------------------------------
(* One lemma per operation that reads, waits or begins.                    *)

\* A request begins.
LEMMA Begun ==
    ASSUME TypeOK, NEW h \in Handlers, NEW q, Begin(h, q)
    PROVE  op' = [op EXCEPT ![h] = q] /\ requests' \in 0..MaxRequests /\ op[h].pc = "idle"
<1>1. requests < MaxRequests /\ requests' = requests + 1 /\ requests \in 0..MaxRequests
  BY DEF Begin, TypeOK
<1>2. requests' \in 0..MaxRequests
  BY <1>1, PoolAssumption
<1> QED BY <1>2 DEF Begin


\* Waiting for the mutex and taking it.
LEMMA ApplyLockKeeps ==
    ASSUME TunnelInv, NEW h \in Handlers, ApplyLock(h)
    PROVE  TunnelInv'
<1> USE DEF TunnelInv, ApplyLock
<1>1. Moved(h, "lockedApply", op[h].id, op[h].key, op[h].row, op[h].ip)
  BY GoesOn DEF PCs
<1>2. TypeOK'
  BY <1>1 DEF TypeOK, Moved, Others, Locked
<1>3. MutexHeld'
  BY <1>1, MutexTaken DEF Moved, LockedSteps
<1>4. Carries(h)' /\ Reserved(h)' /\ CarriesAlive(h)'
  BY <1>1 DEF Moved, Carries, Known, Owing, Reserved, CarriesAlive
<1>5. ReadCurrent'
  BY <1>1, CurrentOwing DEF Moved, Owing
<1> QED BY <1>1, <1>2, <1>3, <1>4, <1>5, QuietStep DEF Moved

\* The configuration was written.
LEMMA WriteConfigKeeps ==
    ASSUME TunnelInv, NEW h \in Handlers, WriteConfig(h)
    PROVE  TunnelInv'
<1> USE DEF TunnelInv, WriteConfig
<1>1. Moved(h, "lockedApply", op[h].id, op[h].key, op[h].row, op[h].ip)
  BY GoesOn DEF PCs
<1>2. TypeOK'
  BY <1>1 DEF TypeOK, Moved, Others
<1>3. MutexHeld'
  BY <1>1, MutexKept DEF Moved, LockedSteps
<1>4. Carries(h)' /\ Reserved(h)' /\ CarriesAlive(h)'
  BY <1>1 DEF Moved, Carries, Known, Owing, Reserved, CarriesAlive
<1>5. ReadCurrent'
  BY <1>1, CurrentOwing DEF Moved, Owing
<1> QED BY <1>1, <1>2, <1>3, <1>4, <1>5, QuietStep DEF Moved

\* A node asks for its tunnel.
LEMMA BootstrapKeeps ==
    ASSUME TunnelInv, NEW h \in Handlers, NEW n \in Nodes, NEW k \in Keys, Bootstrap(h, n, k)
    PROVE  TunnelInv'
<1> USE DEF TunnelInv, Bootstrap
<1>1. Moved(h, "bootLock", n, k, NewNode, 0) /\ op[h].pc = "idle" /\ requests' \in 0..MaxRequests
  <2> DEFINE q == [Idle EXCEPT !.pc = "bootLock", !.id = n, !.key = k]
  <2>1. q \in Op
    BY IdleTyped DEF Idle, Op, PCs
  <2>2. q.pc = "bootLock" /\ q.id = n /\ q.key = k /\ q.row = NewNode /\ q.ip = 0
    BY DEF Idle
  <2>3. Begin(h, q)
    OBVIOUS
  <2> HIDE DEF q
  <2> QED BY <2>1, <2>2, <2>3, Begun, Placed DEF Moved
<1>2. TypeOK'
  BY <1>1 DEF TypeOK, Moved, Others
<1>3. MutexHeld'
  BY <1>1, MutexKept DEF Moved, LockedSteps
<1>4. Carries(h)' /\ Reserved(h)' /\ CarriesAlive(h)'
  BY <1>1, NoneAssumption DEF Moved, Carries, Known, Owing, Reserved, CarriesAlive, NewNode
<1>5. ReadCurrent'
  BY <1>1, CurrentQuiet DEF Moved, Owing
<1> QED BY <1>1, <1>2, <1>3, <1>4, <1>5, QuietStep DEF Moved
\* BootstrapNode has the mutex and loads the row.
LEMMA BootLockKeeps ==
    ASSUME TunnelInv, NEW h \in Handlers, BootLock(h)
    PROVE  TunnelInv'
<1> USE DEF TunnelInv, BootLock
<1>0. op[h].id \in Nodes /\ node[op[h].id] \in NodeRow /\ op[h].key # None
  BY DEF Carries, TypeOK
<1>1. Moved(h, "bootPool", op[h].id, op[h].key, node[op[h].id], op[h].ip)
  <2> DEFINE q == [op[h] EXCEPT !.pc = "bootPool", !.row = node[op[h].id]]
  <2>1. q \in Op
    BY <1>0, OpFields DEF Op, PCs
  <2>2. q.pc = "bootPool" /\ q.id = op[h].id /\ q.key = op[h].key /\ q.row = node[op[h].id] /\ q.ip = op[h].ip
    BY OpFields DEF Op, Idle
  <2>3. op' = [op EXCEPT ![h] = q]
    OBVIOUS
  <2> HIDE DEF q
  <2> QED BY <2>1, <2>2, <2>3, Placed DEF Moved
<1>2. TypeOK'
  BY <1>1, <1>0 DEF TypeOK, Moved, Others, Locked
<1>3. MutexHeld'
  BY <1>1, MutexTaken DEF Moved, LockedSteps
<1>4. Carries(h)' /\ (~restored => Reserved(h)') /\ CarriesAlive(h)'
  <2>1. Carries(h)' /\ CarriesAlive(h)'
    BY <1>0, <1>1 DEF Moved, Carries, Known, Owing, CarriesAlive, RowsKnown
  <2>2. ASSUME ~restored PROVE Reserved(h)'
    <3>1. op[h].id \in LiveNodes /\ LiveNodes' = LiveNodes /\ LiveClients' = LiveClients
      BY <1>0, TablesKept DEF LiveNodes
    <3> DEFINE ip == node[op[h].id].ip
    <3>2. ip # 0 => IpFree(ip, op[h].id)
      BY <2>2, <3>1 DEF AssignmentsApart, IpFree
    <3>3. IpFree(ip, op[h].id)' <=> IpFree(ip, op[h].id)
      BY <3>1, <1>1 DEF IpFree, Moved
    <3> QED BY <1>1, <3>1, <3>2 DEF Moved, Reserved, IpFree
  <2> QED BY <2>1, <2>2
<1>5. ReadCurrent'
  BY <1>1, CurrentQuiet DEF Moved, Owing
<1> QED BY <1>1, <1>2, <1>3, <1>4, <1>5, QuietStep DEF Moved

\* An address is chosen and the key is unique.
LEMMA BootPoolKeeps ==
    ASSUME TunnelInv, NEW h \in Handlers, BootPool(h)
    PROVE  TunnelInv'
<1> USE DEF TunnelInv, BootPool
<1> PICK ip \in Ips : /\ Allocate(loadPool \ {op[h].row.ip}, ip)
                      /\ op' = [op EXCEPT ![h] = [@ EXCEPT !.pc = "bootWrite", !.ip = ip]]
  OBVIOUS
<1>1. Moved(h, "bootWrite", op[h].id, op[h].key, op[h].row, ip)
  <2> DEFINE q == [op[h] EXCEPT !.pc = "bootWrite", !.ip = ip]
  <2>1. q \in Op
    BY OpFields DEF Op, PCs
  <2>2. q.pc = "bootWrite" /\ q.id = op[h].id /\ q.key = op[h].key /\ q.row = op[h].row /\ q.ip = ip
    BY OpFields DEF Op
  <2>3. op' = [op EXCEPT ![h] = q]
    OBVIOUS
  <2> HIDE DEF q
  <2> QED BY <2>1, <2>2, <2>3, Placed DEF Moved
<1>2. TypeOK'
  BY <1>1 DEF TypeOK, Moved, Others
<1>3. MutexHeld'
  BY <1>1, MutexKept DEF Moved, LockedSteps
<1>0. ip # 0
  BY PoolAssumption DEF Ips
<1>4. Carries(h)' /\ (~restored => Reserved(h)') /\ CarriesAlive(h)'
  <2>1. Carries(h)' /\ CarriesAlive(h)'
    BY <1>0, <1>1 DEF Moved, Carries, Known, Owing, CarriesAlive
  <2>2. ASSUME ~restored PROVE Reserved(h)'
    <3>1. LiveNodes' = LiveNodes /\ LiveClients' = LiveClients
      BY TablesKept
    <3>2. ip \notin loadPool \/ ip = op[h].row.ip
      BY DEF Allocate
    <3>3. IpFree(ip, op[h].id)
      BY <1>0, <2>2, <3>2 DEF Reserved, IpFree, loadPool
    <3> QED BY <1>1, <3>1, <3>3 DEF Moved, Reserved, IpFree, ensureUniquePeerKey
  <2> QED BY <2>1, <2>2
<1>5. ReadCurrent'
  BY <1>1, CurrentQuiet DEF Moved, Owing
<1> QED BY <1>1, <1>2, <1>3, <1>4, <1>5, QuietStep DEF Moved

\* A revocation begins.
LEMMA RevokeBeginKeeps ==
    ASSUME TunnelInv, NEW h \in Handlers, NEW n \in Nodes, RevokeBegin(h, n)
    PROVE  TunnelInv'
<1> USE DEF TunnelInv, RevokeBegin
<1>1. Moved(h, "revLock", n, None, NewNode, 0) /\ op[h].pc = "idle" /\ requests' \in 0..MaxRequests
  <2> DEFINE q == [Idle EXCEPT !.pc = "revLock", !.id = n]
  <2>1. q \in Op
    BY IdleTyped DEF Idle, Op, PCs
  <2>2. q.pc = "revLock" /\ q.id = n /\ q.key = None /\ q.row = NewNode /\ q.ip = 0
    BY DEF Idle
  <2>3. Begin(h, q)
    OBVIOUS
  <2> HIDE DEF q
  <2> QED BY <2>1, <2>2, <2>3, Begun, Placed DEF Moved
<1>2. TypeOK'
  BY <1>1 DEF TypeOK, Moved, Others, Locked
<1>3. MutexHeld'
  BY <1>1, MutexKept DEF Moved, LockedSteps
<1>4. Carries(h)' /\ Reserved(h)' /\ CarriesAlive(h)'
  BY <1>1, NoneAssumption DEF Moved, Carries, Known, Owing, Reserved, CarriesAlive, NewNode
<1>5. ReadCurrent'
  BY <1>1, CurrentQuiet DEF Moved, Owing
<1> QED BY <1>1, <1>2, <1>3, <1>4, <1>5, QuietStep DEF Moved

\* RevokeNode has the mutex and loads the row.
LEMMA RevokeLockKeeps ==
    ASSUME TunnelInv, NEW h \in Handlers, RevokeLock(h)
    PROVE  TunnelInv'
<1> USE DEF TunnelInv, RevokeLock
<1>0. op[h].id \in Nodes /\ node[op[h].id] \in NodeRow
  BY DEF Carries, TypeOK
<1>1. Moved(h, "revWrite", op[h].id, op[h].key, node[op[h].id], op[h].ip)
  <2> DEFINE q == [op[h] EXCEPT !.pc = "revWrite", !.row = node[op[h].id]]
  <2>1. q \in Op
    BY <1>0, OpFields DEF Op, PCs
  <2>2. q.pc = "revWrite" /\ q.id = op[h].id /\ q.key = op[h].key /\ q.row = node[op[h].id] /\ q.ip = op[h].ip
    BY OpFields DEF Op, Idle
  <2>3. op' = [op EXCEPT ![h] = q]
    OBVIOUS
  <2> HIDE DEF q
  <2> QED BY <2>1, <2>2, <2>3, Placed DEF Moved
<1>2. TypeOK'
  BY <1>1 DEF TypeOK, Moved, Others, Locked
<1>3. MutexHeld'
  BY <1>1, MutexTaken DEF Moved, LockedSteps
<1>4. Carries(h)' /\ Reserved(h)' /\ CarriesAlive(h)'
  BY <1>0, <1>1 DEF Moved, Carries, Known, Owing, Reserved, CarriesAlive, RowsKnown
<1>5. ReadCurrent'
  BY <1>1, CurrentQuiet DEF Moved, Owing
<1> QED BY <1>1, <1>2, <1>3, <1>4, <1>5, QuietStep DEF Moved

\* A row is loaded to be changed.
LEMMA UpdateLoadKeeps ==
    ASSUME TunnelInv, NEW h \in Handlers, NEW n \in Nodes, NEW net \in BOOLEAN, UpdateLoad(h, n,
           net)
    PROVE  TunnelInv'
<1> USE DEF TunnelInv, UpdateLoad
<1>0. /\ [node[n] EXCEPT !.net = net] \in NodeRow
      /\ [node[n] EXCEPT !.net = net].st = "live"
      /\ [node[n] EXCEPT !.net = net].key = node[n].key
      /\ [node[n] EXCEPT !.net = net].ip = node[n].ip
  BY DEF TypeOK, NodeRow
<1>1. Moved(h, "updWrite", n, None, [node[n] EXCEPT !.net = net], 0) /\ op[h].pc = "idle" /\ requests' \in 0..MaxRequests
  <2> DEFINE q == [Idle EXCEPT !.pc = "updWrite", !.id = n, !.row = [node[n] EXCEPT !.net = net]]
  <2>1. q \in Op
    BY <1>0, IdleTyped DEF Idle, Op, PCs
  <2>2. q.pc = "updWrite" /\ q.id = n /\ q.key = None /\ q.row = [node[n] EXCEPT !.net = net] /\ q.ip = 0
    BY DEF Idle
  <2>3. Begin(h, q)
    OBVIOUS
  <2> HIDE DEF q
  <2> QED BY <2>1, <2>2, <2>3, Begun, Placed DEF Moved
<1>2. TypeOK'
  BY <1>1 DEF TypeOK, Moved, Others, Locked
<1>3. MutexHeld'
  BY <1>1, MutexKept DEF Moved, LockedSteps
<1>4. Carries(h)' /\ Reserved(h)' /\ CarriesAlive(h)'
  BY <1>0, <1>1 DEF Moved, Carries, Known, Owing, Reserved, CarriesAlive, RowsKnown
<1>5. ReadCurrent'
  BY <1>1, CurrentQuiet DEF Moved, Owing
<1> QED BY <1>1, <1>2, <1>3, <1>4, <1>5, QuietStep DEF Moved

\* The tunnel is switched on.
LEMMA EnableKeeps ==
    ASSUME TunnelInv, NEW h \in Handlers, EnableTunnel(h)
    PROVE  TunnelInv'
<1> USE DEF TunnelInv, EnableTunnel
<1>1. Moved(h, "start", None, None, NewNode, 0) /\ op[h].pc = "idle" /\ requests' \in 0..MaxRequests
  <2> DEFINE q == [Idle EXCEPT !.pc = "start"]
  <2>1. q \in Op
    BY IdleTyped DEF Idle, Op, PCs
  <2>2. q.pc = "start" /\ q.id = None /\ q.key = None /\ q.row = NewNode /\ q.ip = 0
    BY DEF Idle
  <2>3. Begin(h, q)
    OBVIOUS
  <2> HIDE DEF q
  <2> QED BY <2>1, <2>2, <2>3, Begun, Placed DEF Moved
<1>2. TypeOK'
  BY <1>1 DEF TypeOK, Moved, Others, Locked
<1>3. MutexHeld'
  BY <1>1, MutexKept DEF Moved, LockedSteps
<1>4. Carries(h)' /\ Reserved(h)' /\ CarriesAlive(h)'
  BY <1>1, NoneAssumption DEF Moved, Carries, Known, Owing, Reserved, CarriesAlive, NewNode
<1>5. ReadCurrent'
  BY <1>1, CurrentQuiet DEF Moved, Owing
<1> QED BY <1>1, <1>2, <1>3, <1>4, <1>5, QuietStep DEF Moved

\* The tunnel is switched off.
LEMMA DisableKeeps ==
    ASSUME TunnelInv, NEW h \in Handlers, DisableTunnel(h)
    PROVE  TunnelInv'
<1> USE DEF TunnelInv, DisableTunnel
<1>1. Moved(h, "stop", None, None, NewNode, 0) /\ op[h].pc = "idle" /\ requests' \in 0..MaxRequests
  <2> DEFINE q == [Idle EXCEPT !.pc = "stop"]
  <2>1. q \in Op
    BY IdleTyped DEF Idle, Op, PCs
  <2>2. q.pc = "stop" /\ q.id = None /\ q.key = None /\ q.row = NewNode /\ q.ip = 0
    BY DEF Idle
  <2>3. Begin(h, q)
    OBVIOUS
  <2> HIDE DEF q
  <2> QED BY <2>1, <2>2, <2>3, Begun, Placed DEF Moved
<1>2. TypeOK'
  BY <1>1 DEF TypeOK, Moved, Others, Locked
<1>3. MutexHeld'
  BY <1>1, MutexKept DEF Moved, LockedSteps
<1>4. Carries(h)' /\ Reserved(h)' /\ CarriesAlive(h)'
  BY <1>1, NoneAssumption DEF Moved, Carries, Known, Owing, Reserved, CarriesAlive, NewNode
<1>5. ReadCurrent'
  BY <1>1, CurrentQuiet DEF Moved, Owing
<1> QED BY <1>1, <1>2, <1>3, <1>4, <1>5, QuietStep DEF Moved

\* A handler fails, or the client goes away.
LEMMA AbortKeeps ==
    ASSUME TunnelInv, NEW h \in Handlers, Abort(h)
    PROVE  TunnelInv'
<1> USE DEF TunnelInv, Abort
<1>1. Others(h) /\ op'[h] = Idle
  BY IdleTyped, Placed
<1>2. TypeOK'
  BY <1>1 DEF TypeOK, Others
<1>3. MutexHeld'
  BY <1>1, MutexGiven DEF Idle, LockedSteps
<1>4. Carries(h)' /\ Reserved(h)' /\ CarriesAlive(h)'
  BY <1>1, IdleTyped DEF Idle, Carries, Known, Owing, Reserved, CarriesAlive, NewNode
<1>5. ReadCurrent'
  <2>1. CASE op[h].pc \in Owing \union {"applySet"}
    BY <2>1 DEF Owing, ReadCurrent
  <2>2. CASE op[h].pc \notin Owing \union {"applySet"} /\ failed' = failed
    BY <1>1, <2>2, CurrentQuiet DEF Idle, Owing
  <2> QED BY <2>1, <2>2 DEF Owing, TypeOK
<1> QED BY <1>1, <1>2, <1>3, <1>4, <1>5, QuietStep

\* A client's key is drawn and an address chosen for it.
LEMMA ProvisionPoolKeeps ==
    ASSUME TunnelInv, NEW h \in Handlers, NEW c \in Clients, NEW k \in Keys,
           NEW via \in SUBSET Nodes,
           ProvisionPool(h, c, k, via)
    PROVE  TunnelInv'
<1> USE DEF TunnelInv, ProvisionPool
<1> PICK ip \in Ips :
       /\ Allocate(loadPool, ip)
       /\ Begin(h, [Idle EXCEPT !.pc = "provCreate", !.id = c, !.key = k, !.ip = ip, !.via = via])
  OBVIOUS
<1>1. Moved(h, "provCreate", c, k, NewNode, ip) /\ op[h].pc = "idle" /\ requests' \in 0..MaxRequests
  <2> DEFINE q == [Idle EXCEPT !.pc = "provCreate", !.id = c, !.key = k, !.ip = ip, !.via = via]
  <2>1. q \in Op
    BY IdleTyped DEF Idle, Op, PCs
  <2>2. q.pc = "provCreate" /\ q.id = c /\ q.key = k /\ q.row = NewNode /\ q.ip = ip
    BY DEF Idle
  <2>3. Begin(h, q)
    OBVIOUS
  <2> HIDE DEF q
  <2> QED BY <2>1, <2>2, <2>3, Begun, Placed DEF Moved
<1>2. TypeOK'
  BY <1>1 DEF TypeOK, Moved, Others, Locked
<1>3. MutexHeld'
  BY <1>1, MutexTaken DEF Moved, LockedSteps
<1>0. ip # 0 /\ k # None
  BY PoolAssumption, NoneAssumption DEF Ips
<1>4. Carries(h)' /\ Reserved(h)' /\ CarriesAlive(h)'
  <2>1. Carries(h)'
    BY <1>0, <1>1 DEF Moved, Carries, Known, Owing, NewNode
  <2>2. CarriesAlive(h)'
    BY <1>1 DEF Moved, CarriesAlive, RowsKnown
  <2>3. Reserved(h)'
    <3>1. LiveNodes' = LiveNodes /\ LiveClients' = LiveClients
      BY TablesKept
    <3>2. IpFree(ip, None)
      BY DEF Allocate, IpFree, loadPool
    <3>3. ensureUniquePeerKey(k, None)
      BY <1>0 DEF ensureUniquePeerKey, RowsKnown, Known, LiveNodes, LiveClients
    <3> QED BY <1>1, <3>1, <3>2, <3>3 DEF Moved, Reserved, IpFree, ensureUniquePeerKey
  <2> QED BY <2>1, <2>2, <2>3
<1>5. ReadCurrent'
  BY <1>1, CurrentQuiet DEF Moved, Owing
<1> QED BY <1>1, <1>2, <1>3, <1>4, <1>5, QuietStep DEF Moved

-----------------------------------------------------------------------------
(* One lemma per operation that writes the tables or the device.           *)

\* One row of the nodes is written, and what it had is all it may keep.
LEMMA RowWritten ==
    ASSUME TunnelInv, NEW n \in Nodes, NEW rec \in NodeRow, node' = [node EXCEPT ![n] = rec],
           UNCHANGED <<client, drawn, dead>>, Known(rec), rec.st # "new"
    PROVE  /\ node' \in [Nodes -> NodeRow]
           /\ RowsKnown'
           /\ \/ rec.st = "gone"
              \/ rec.key = None
              \/ node[n].st = "live" /\ rec.key = node[n].key /\ rec.ip = node[n].ip
              => Shrunk
<1>1. node' \in [Nodes -> NodeRow] /\ node'[n] = rec /\ \A m \in Nodes : m # n => node'[m] = node[m]
  BY DEF TunnelInv, TypeOK
<1>2. RowsKnown'
  BY <1>1 DEF TunnelInv, RowsKnown, Known
<1>3. ASSUME \/ rec.st = "gone"
             \/ rec.key = None
             \/ node[n].st = "live" /\ rec.key = node[n].key /\ rec.ip = node[n].ip
      PROVE  Shrunk
  BY <1>1, <1>3 DEF Shrunk, Known
<1> QED BY <1>1, <1>2, <1>3

\* A node is created.
LEMMA CreateNodeKeeps ==
    ASSUME TunnelInv, NEW h \in Handlers, NEW n \in Nodes, NEW net \in BOOLEAN, CreateNode(h, n,
           net)
    PROVE  TunnelInv'
<1> USE DEF TunnelInv, CreateNode
<1> DEFINE rec == [NewNode EXCEPT !.st = "live", !.net = net]
<1>r. rec \in NodeRow /\ rec.st = "live" /\ rec.key = None /\ rec.ip = 0 /\ Known(rec)
  BY DEF NewNode, NodeRow, Known
<1>n. node' = [node EXCEPT ![n] = rec]
  OBVIOUS
<1> HIDE DEF rec
<1>0. node' \in [Nodes -> NodeRow] /\ RowsKnown' /\ Shrunk
  BY <1>r, <1>n, RowWritten
<1>1. Moved(h, "applyLock", None, None, NewNode, 0) /\ op[h].pc = "idle" /\ requests' \in 0..MaxRequests
  <2> DEFINE q == [Idle EXCEPT !.pc = "applyLock"]
  <2>1. q \in Op
    BY IdleTyped DEF Idle, Op, PCs
  <2>2. q.pc = "applyLock" /\ q.id = None /\ q.key = None /\ q.row = NewNode /\ q.ip = 0
    BY DEF Idle
  <2>3. Begin(h, q)
    OBVIOUS
  <2> HIDE DEF q
  <2> QED BY <2>1, <2>2, <2>3, Begun, Placed DEF Moved
<1>2. TypeOK'
  BY <1>1, <1>0 DEF TypeOK, Moved, Others, Locked
<1>3. MutexHeld'
  BY <1>1, MutexKept DEF Moved, LockedSteps
<1>4. Carries(h)' /\ Reserved(h)' /\ CarriesAlive(h)'
  BY <1>1 DEF Moved, Carries, Known, Owing, Reserved, CarriesAlive, NewNode
<1>5. ReadCurrent'
  BY <1>1, CurrentOwing DEF Moved, Owing
<1>6. StoppedBare'
  BY DEF StoppedBare
<1> QED BY <1>1, <1>2, <1>3, <1>4, <1>5, <1>6, <1>0, ShrinkingStep DEF Moved

\* A changed row is written.
LEMMA UpdateWriteKeeps ==
    ASSUME TunnelInv, NEW h \in Handlers, UpdateWrite(h)
    PROVE  TunnelInv'
<1> USE DEF TunnelInv, UpdateWrite
<1> DEFINE n == op[h].id
           rec == op[h].row
<1>r. n \in Nodes /\ rec \in NodeRow /\ rec.st = "live" /\ Known(rec) /\ node[n].st = "live"
  BY OpFields DEF Carries, UpdateRow
<1>n. node' = [node EXCEPT ![n] = rec]
  BY DEF UpdateRow
<1>s. ~restored' => ~restored /\ (rec.key = None \/ (rec.key = node[n].key /\ rec.ip = node[n].ip))
  OBVIOUS
<1>o. op' = [op EXCEPT ![h] = [Idle EXCEPT !.pc = "applyLock"]] /\ restored' \in BOOLEAN
  BY DEF TypeOK
<1> HIDE DEF n, rec
<1>0. node' \in [Nodes -> NodeRow] /\ RowsKnown' /\ (~restored' => ~restored /\ Shrunk)
  BY <1>r, <1>n, <1>s, RowWritten
<1>1. Moved(h, "applyLock", None, None, NewNode, 0)
  <2> DEFINE q == [Idle EXCEPT !.pc = "applyLock"]
  <2>1. q \in Op
    BY IdleTyped DEF Idle, Op, PCs
  <2>2. q.pc = "applyLock" /\ q.id = None /\ q.key = None /\ q.row = NewNode /\ q.ip = 0
    BY OpFields DEF Op, Idle
  <2>3. op' = [op EXCEPT ![h] = q]
    OBVIOUS
  <2> HIDE DEF q
  <2> QED BY <2>1, <2>2, <2>3, Placed DEF Moved
<1>2. TypeOK'
  BY <1>1, <1>0, <1>o DEF TypeOK, Moved, Others, Locked
<1>3. MutexHeld'
  BY <1>1, MutexKept DEF Moved, LockedSteps
<1>4. Carries(h)' /\ Reserved(h)' /\ CarriesAlive(h)'
  BY <1>1 DEF Moved, Carries, Known, Owing, Reserved, CarriesAlive, NewNode
<1>5. ReadCurrent'
  BY <1>1, CurrentOwing DEF Moved, Owing
<1>6. StoppedBare'
  BY DEF StoppedBare
<1> QED BY <1>1, <1>2, <1>3, <1>4, <1>5, <1>6, <1>0, ShrinkingStep DEF Moved

\* The key and the address of a node are cleared.
LEMMA RevokeWriteKeeps ==
    ASSUME TunnelInv, NEW h \in Handlers, RevokeWrite(h)
    PROVE  TunnelInv'
<1> USE DEF TunnelInv, RevokeWrite
<1> DEFINE rec == [op[h].row EXCEPT !.key = None, !.ip = 0]
<1>r. op[h].id \in Nodes /\ op[h].row.key \in Keys \union {None} /\ op[h].row.key \in drawn \union {None}
  BY OpFields DEF Carries, NodeRow, Known
<1>w. rec \in NodeRow /\ rec.st = "live" /\ Known(rec) /\ rec.key = None
  BY OpFields DEF Carries, NodeRow, Known
<1>n. node' = [node EXCEPT ![op[h].id] = rec]
  BY DEF UpdateRow
<1> HIDE DEF rec
<1>0. node' \in [Nodes -> NodeRow] /\ RowsKnown' /\ Shrunk
  BY <1>r, <1>w, <1>n, RowWritten
<1>1. Moved(h, "config", None, op[h].row.key, NewNode, 0)
  <2> DEFINE q == [Idle EXCEPT !.pc = "config", !.key = op[h].row.key]
  <2>1. q \in Op
    BY <1>r, IdleTyped DEF Idle, Op, PCs
  <2>2. q.pc = "config" /\ q.id = None /\ q.key = op[h].row.key /\ q.row = NewNode /\ q.ip = 0
    BY OpFields DEF Op, Idle
  <2>3. op' = [op EXCEPT ![h] = q]
    OBVIOUS
  <2> HIDE DEF q
  <2> QED BY <2>1, <2>2, <2>3, Placed DEF Moved
<1>2. TypeOK'
  BY <1>1, <1>0 DEF TypeOK, Moved, Others, Locked
<1>3. MutexHeld'
  BY <1>1, MutexKept DEF Moved, LockedSteps
<1>4. Carries(h)' /\ Reserved(h)' /\ CarriesAlive(h)'
  BY <1>1, <1>r DEF Moved, Carries, Known, Owing, Reserved, CarriesAlive, NewNode
<1>5. ReadCurrent'
  BY <1>1, CurrentOwing DEF Moved, Owing
<1>6. StoppedBare'
  BY DEF StoppedBare
<1> QED BY <1>1, <1>2, <1>3, <1>4, <1>5, <1>6, <1>0, ShrinkingStep DEF Moved

\* A node is deleted.
LEMMA DeleteNodeKeeps ==
    ASSUME TunnelInv, NEW h \in Handlers, NEW n \in Nodes, DeleteNode(h, n)
    PROVE  TunnelInv'
<1> USE DEF TunnelInv, DeleteNode
<1> DEFINE rec == [NewNode EXCEPT !.st = "gone"]
<1>r. rec \in NodeRow /\ rec.st = "gone" /\ Known(rec)
  BY DEF NewNode, NodeRow, Known
<1>n. node' = [node EXCEPT ![n] = rec]
  OBVIOUS
<1>k. node[n].key \in Keys \union {None} /\ node[n].key \in drawn \union {None}
  BY DEF TypeOK, NodeRow, RowsKnown, Known
<1> HIDE DEF rec
<1>0. node' \in [Nodes -> NodeRow] /\ RowsKnown' /\ Shrunk
  BY <1>r, <1>n, RowWritten
<1>1. Moved(h, "applyLock", None, node[n].key, NewNode, 0) /\ op[h].pc = "idle" /\ requests' \in 0..MaxRequests
  <2> DEFINE q == [Idle EXCEPT !.pc = "applyLock", !.key = node[n].key]
  <2>1. q \in Op
    BY <1>k, IdleTyped DEF Idle, Op, PCs
  <2>2. q.pc = "applyLock" /\ q.id = None /\ q.key = node[n].key /\ q.row = NewNode /\ q.ip = 0
    BY DEF Idle
  <2>3. Begin(h, q)
    OBVIOUS
  <2> HIDE DEF q
  <2> QED BY <2>1, <2>2, <2>3, Begun, Placed DEF Moved
<1>2. TypeOK'
  BY <1>1, <1>0 DEF TypeOK, Moved, Others, Locked
<1>3. MutexHeld'
  BY <1>1, MutexKept DEF Moved, LockedSteps
<1>4. Carries(h)' /\ Reserved(h)' /\ CarriesAlive(h)'
  BY <1>1, <1>k DEF Moved, Carries, Known, Owing, Reserved, CarriesAlive, NewNode
<1>5. ReadCurrent'
  BY <1>1, CurrentOwing DEF Moved, Owing
<1>6. StoppedBare'
  BY DEF StoppedBare
<1> QED BY <1>1, <1>2, <1>3, <1>4, <1>5, <1>6, <1>0, ShrinkingStep DEF Moved

\* A client is revoked.
LEMMA RevokeClientKeeps ==
    ASSUME TunnelInv, NEW h \in Handlers, NEW c \in Clients, RevokeClient(h, c)
    PROVE  TunnelInv'
<1> USE DEF TunnelInv, RevokeClient
<1> DEFINE rec == [NewClient EXCEPT !.st = "gone"]
<1>r. rec \in ClientRow /\ rec.st = "gone"
  BY DEF NewClient, ClientRow
<1>n. client' = [client EXCEPT ![c] = rec]
  OBVIOUS
<1>k. client[c].key \in Keys /\ client[c].key \in drawn \union {None}
  BY DEF TypeOK, RowsKnown
<1> HIDE DEF rec
<1>0. /\ client' \in [Clients -> ClientRow] /\ client'[c] = rec
      /\ \A b \in Clients : b # c => client'[b] = client[b]
  BY <1>r, <1>n DEF TypeOK
<1>f. Shrunk /\ RowsKnown' /\ \A b \in Clients : client[b].st = "new" => client'[b].st = "new"
  BY <1>0, <1>r DEF Shrunk, RowsKnown, Known
<1>1. Moved(h, "lockedApply", None, client[c].key, NewNode, 0) /\ op[h].pc = "idle" /\ requests' \in 0..MaxRequests
  <2> DEFINE q == [Idle EXCEPT !.pc = "lockedApply", !.key = client[c].key]
  <2>1. q \in Op
    BY <1>k, IdleTyped DEF Idle, Op, PCs
  <2>2. q.pc = "lockedApply" /\ q.id = None /\ q.key = client[c].key /\ q.row = NewNode /\ q.ip = 0
    BY DEF Idle
  <2>3. Begin(h, q)
    OBVIOUS
  <2> HIDE DEF q
  <2> QED BY <2>1, <2>2, <2>3, Begun, Placed DEF Moved
<1>2. TypeOK'
  BY <1>1, <1>0 DEF TypeOK, Moved, Others, Locked
<1>3. MutexHeld'
  BY <1>1, MutexTaken DEF Moved, LockedSteps
<1>4. Carries(h)' /\ Reserved(h)' /\ CarriesAlive(h)'
  BY <1>1, <1>k DEF Moved, Carries, Known, Owing, Reserved, CarriesAlive, NewNode
<1>5. ReadCurrent'
  BY <1>1, CurrentOwing DEF Moved, Owing
<1>6. StoppedBare'
  BY DEF StoppedBare
<1> QED BY <1>1, <1>2, <1>3, <1>4, <1>5, <1>6, <1>f, ShrinkingStep DEF Moved

\* The server is started, if the settings say so.
LEMMA StartServerKeeps ==
    ASSUME TunnelInv, NEW h \in Handlers, StartServer(h)
    PROVE  TunnelInv'
<1> USE DEF TunnelInv, StartServer
<1>1. Moved(h, "applyLock", op[h].id, op[h].key, op[h].row, op[h].ip)
  BY GoesOn DEF PCs
<1>2. TypeOK' /\ (device' = device \/ device'.peers = {}) /\ StoppedBare'
  BY <1>1 DEF TypeOK, Moved, Others, StoppedBare
<1>3. MutexHeld'
  BY <1>1, MutexKept DEF Moved, LockedSteps
<1>4. Carries(h)' /\ Reserved(h)' /\ CarriesAlive(h)'
  BY <1>1 DEF Moved, Carries, Known, Owing, Reserved, CarriesAlive
<1>5. ReadCurrent'
  BY <1>1, CurrentOwing DEF Moved, Owing
<1>6. RowsKnown' /\ Shrunk
  BY TablesKept DEF RowsKnown, Known
<1> QED BY <1>1, <1>2, <1>3, <1>4, <1>5, <1>6, ShrinkingStep DEF Moved

\* The server is stopped.
LEMMA StopServerKeeps ==
    ASSUME TunnelInv, NEW h \in Handlers, StopServer(h)
    PROVE  TunnelInv'
<1> USE DEF TunnelInv, StopServer
<1>1. Moved(h, "idle", op[h].id, op[h].key, op[h].row, op[h].ip)
  BY GoesOn DEF PCs
<1>2. TypeOK' /\ device'.peers = {} /\ StoppedBare' /\ ~device'.started
  BY <1>1 DEF TypeOK, Moved, Others, StoppedBare
<1>3. MutexHeld'
  BY <1>1, MutexKept DEF Moved, LockedSteps
<1>4. Carries(h)' /\ Reserved(h)' /\ CarriesAlive(h)'
  BY <1>1 DEF Moved, Carries, Known, Owing, Reserved, CarriesAlive
<1>5. ReadCurrent'
  BY <1>2 DEF ReadCurrent
<1>6. RowsKnown' /\ Shrunk
  BY TablesKept DEF RowsKnown, Known
<1> QED BY <1>1, <1>2, <1>3, <1>4, <1>5, <1>6, ShrinkingStep DEF Moved

\* Both tables are read.
LEMMA ApplyReadKeeps ==
    ASSUME TunnelInv, NEW h \in Handlers, ApplyRead(h), device.started
    PROVE  TunnelInv'
<1> USE DEF TunnelInv, ApplyRead
<1>1. /\ Moved(h, "applySet", op[h].id, op[h].key, op[h].row, op[h].ip)
      /\ op'[h].peers = PeersNow /\ op'[h].rules = RulesNow
  <2> DEFINE q == [op[h] EXCEPT !.pc = "applySet", !.peers = PeersNow, !.rules = RulesNow]
  <2>1. q \in Op
    BY OpFields, NowTyped DEF Op, PCs
  <2>2. /\ q.pc = "applySet" /\ q.id = op[h].id /\ q.key = op[h].key /\ q.row = op[h].row
        /\ q.ip = op[h].ip /\ q.peers = PeersNow /\ q.rules = RulesNow
    BY OpFields DEF Op
  <2>3. op' = [op EXCEPT ![h] = q]
    OBVIOUS
  <2> HIDE DEF q
  <2> QED BY <2>1, <2>2, <2>3, Placed DEF Moved
<1>2. TypeOK'
  BY <1>1 DEF TypeOK, Moved, Others
<1>3. MutexHeld'
  BY <1>1, MutexKept DEF Moved, LockedSteps
<1>4. Carries(h)' /\ Reserved(h)' /\ (~restored => CarriesAlive(h)')
  <2>1. Carries(h)' /\ Reserved(h)'
    BY <1>1 DEF Moved, Carries, Known, Owing, Reserved
  <2>2. \A p \in PeersNow : p.key \in RowKeys
    BY DEF PeersNow, RowKeys, PeerNodes
  <2>3. ~restored => CarriesAlive(h)'
    BY <1>1, <2>2 DEF Moved, CarriesAlive, RowsAlive
  <2> QED BY <2>1, <2>3
<1>5. ReadCurrent'
  BY <1>1, TablesKept DEF Moved, ReadCurrent
<1> QED BY <1>1, <1>2, <1>3, <1>4, <1>5, QuietStep DEF Moved

\* A handler ends an application: its key is buried.
LEMMA FinishStep ==
    ASSUME TunnelInv, NEW h \in Handlers, op[h].pc \in {"lockedApply", "applySet"},
           Buried(h), Finish(h), UNCHANGED <<node, client, enabled, drawn, restored, requests>>,
           device' \in [started: BOOLEAN, peers: SUBSET Peer, rules: SUBSET Rule],
           failed' \in BOOLEAN,
           device'.peers = {} \/ (op[h].pc = "applySet" /\ device'.peers = op[h].peers),
           StoppedBare', ReadCurrent'
    PROVE  TunnelInv'
<1> USE DEF TunnelInv
<1>1. Others(h) /\ op'[h] = Idle
  BY IdleTyped, Placed DEF Finish
<1>2. mu = h /\ mu' = None
  BY DEF MutexHeld, LockedSteps, Finish
<1>3. dead \subseteq dead' /\ dead' \subseteq drawn /\ dead' \subseteq Keys
  BY DEF Buried, Carries, Owing, RowsKnown, TypeOK
<1>4. TypeOK'
  BY <1>1, <1>2, <1>3 DEF TypeOK, Others
<1>5. MutexHeld'
  BY <1>1, <1>2, MutexGiven DEF Idle, LockedSteps
<1>6. RowsKnown'
  BY <1>3 DEF RowsKnown, Known
<1>7. Carries(h)' /\ Reserved(h)' /\ CarriesAlive(h)'
  BY <1>1, IdleTyped DEF Idle, Carries, Known, Owing, Reserved, CarriesAlive, NewNode
<1>8. \A g \in Handlers : Carries(g)'
  BY <1>1, <1>2, <1>7, OthersCarry
<1>9. AssignmentsApart'
  BY TablesKept, ShrunkApart
<1>10. ASSUME ~restored
       PROVE  RevokedOut' /\ RowsAlive' /\ \A g \in Handlers : Reserved(g)' /\ CarriesAlive(g)'
  <2>1. RowsAlive'
    BY <1>10, TablesKept DEF RowsAlive, Buried
  <2>2. \A g \in Handlers : Reserved(g)'
    BY <1>1, <1>2, <1>7, <1>10, OthersReserved
  <2>3. \A g \in Handlers : g # h => op'[g].pc \notin LockedSteps
    BY <1>1, <1>2 DEF MutexHeld, Others
  <2>4. \A g \in Handlers : CarriesAlive(g)'
    BY <1>7, <2>3 DEF CarriesAlive, LockedSteps
  <2>5. op[h].pc = "applySet" => \A p \in op[h].peers : p.key \notin dead'
    BY <1>10 DEF CarriesAlive, Buried
  <2>6. RevokedOut'
    BY <2>5 DEF RevokedOut
  <2> QED BY <2>1, <2>2, <2>4, <2>6
<1>11. restored => RevokedOut'
  BY DEF RevokedOut
<1> QED BY <1>4, <1>5, <1>6, <1>8, <1>9, <1>10, <1>11

\* Nothing runs: there is nothing to apply.
LEMMA ApplyNothingKeeps ==
    ASSUME TunnelInv, NEW h \in Handlers, ApplyRead(h), ~device.started
    PROVE  TunnelInv'
<1> USE DEF TunnelInv, ApplyRead
<1>1. Buried(h) /\ Finish(h) /\ device' = device /\ device.peers = {}
  BY DEF StoppedBare
<1>2. /\ StoppedBare' /\ ReadCurrent'
      /\ device' \in [started: BOOLEAN, peers: SUBSET Peer, rules: SUBSET Rule]
  BY <1>1 DEF StoppedBare, ReadCurrent, TypeOK
<1> QED BY <1>1, <1>2, FinishStep

\* The device takes what was read.
LEMMA ApplySetKeeps ==
    ASSUME TunnelInv, NEW h \in Handlers, ApplySet(h)
    PROVE  TunnelInv'
<1> USE DEF TunnelInv, ApplySet
<1>1. /\ device' \in [started: BOOLEAN, peers: SUBSET Peer, rules: SUBSET Rule]
      /\ device'.started = device.started /\ device'.rules = op[h].rules
      /\ device.started => device'.peers = op[h].peers
      /\ ~device.started => device'.peers = {}
  BY OpFields DEF SetDevice, TypeOK, StoppedBare
<1>2. StoppedBare'
  BY <1>1 DEF StoppedBare
<1>3. ReadCurrent'
  <2> SUFFICES ASSUME device.started, ~failed, \A g \in Handlers : op'[g].pc \notin Owing
               PROVE  /\ \A g \in Handlers : op'[g].pc # "applySet"
                      /\ op[h].peers = PeersNow /\ op[h].rules = RulesNow
    BY <1>1, TablesKept DEF ReadCurrent
  <2>1. Others(h) /\ op'[h] = Idle
    BY IdleTyped, Placed DEF Finish
  <2>2. \A g \in Handlers : g # h => op[g].pc \notin LockedSteps
    BY DEF MutexHeld, LockedSteps
  <2>3. \A g \in Handlers : op'[g].pc # "applySet"
    BY <2>1, <2>2 DEF Others, Idle, LockedSteps
  <2>4. \A g \in Handlers : op[g].pc \notin Owing
    BY <2>1 DEF Others, Owing
  <2>5. \E g \in Handlers : op[g].pc = "applySet" /\ op[g].peers = PeersNow /\ op[g].rules = RulesNow
    BY <2>4 DEF ReadCurrent
  <2>6. \A g \in Handlers : op[g].pc = "applySet" => g = h
    BY <2>2 DEF LockedSteps
  <2> QED BY <2>3, <2>5, <2>6
<1> QED BY <1>1, <1>2, <1>3, FinishStep DEF TypeOK

\* A step that assigns a key or an address and has to be applied.  The mutex
\* is with the handler or was free, so that no other handler had any reserved.
LEMMA AssigningStep ==
    ASSUME TunnelInv, NEW h \in Handlers, Others(h), TypeOK', MutexHeld', RowsKnown',
           drawn \subseteq drawn', dead' \subseteq dead, mu \in {h, None},
           mu # h => \A c \in Clients : client[c].st = "new" => client'[c].st = "new",
           Carries(h)', op'[h].pc \in Owing, UNCHANGED <<device, restored>>,
           ~restored => AssignmentsApart' /\ RowsAlive'
    PROVE  TunnelInv'
<1> USE DEF TunnelInv
<1>1. \A g \in Handlers : Carries(g)'
  BY OthersCarry
<1>2. AssignmentsApart' /\ RevokedOut' /\ StoppedBare'
  BY DEF AssignmentsApart, RevokedOut, StoppedBare
<1>3. ReadCurrent'
  BY CurrentOwing
<1>4. Reserved(h)' /\ CarriesAlive(h)'
  BY DEF Reserved, CarriesAlive, Owing
<1>5. ~restored => \A g \in Handlers : Reserved(g)'
  BY <1>4, OthersReserved
<1>6. \A g \in Handlers : g # h => op'[g].pc \notin LockedSteps
  BY NoneAssumption DEF MutexHeld, Others
<1>7. \A g \in Handlers : CarriesAlive(g)'
  BY <1>4, <1>6 DEF CarriesAlive, LockedSteps
<1> QED BY <1>1, <1>2, <1>3, <1>5, <1>7

\* A node gets its key and its address.
LEMMA BootWriteKeeps ==
    ASSUME TunnelInv, NEW h \in Handlers, BootWrite(h)
    PROVE  TunnelInv'
<1> USE DEF TunnelInv, BootWrite
<1> DEFINE n == op[h].id
           k == op[h].key
           ip == op[h].ip
           rec == [op[h].row EXCEPT !.key = k, !.ip = ip]
<1>1. n \in Nodes /\ k \in Keys /\ k # None /\ ip \in Ips /\ ip # 0 /\ node[n].st = "live"
  BY OpFields DEF Carries, UpdateRow
<1>2. rec \in NodeRow /\ rec.st = "live" /\ rec.key = k /\ rec.ip = ip
  BY OpFields DEF Carries, NodeRow
<1>3. /\ node' \in [Nodes -> NodeRow] /\ node'[n] = rec
      /\ \A m \in Nodes : m # n => node'[m] = node[m]
  BY <1>1, <1>2 DEF UpdateRow, TypeOK
<1>4. Moved(h, "config", None, None, NewNode, 0)
  <2> DEFINE q == [Idle EXCEPT !.pc = "config"]
  <2>1. q \in Op
    BY IdleTyped DEF Idle, Op, PCs
  <2>2. q.pc = "config" /\ q.id = None /\ q.key = None /\ q.row = NewNode /\ q.ip = 0
    BY DEF Idle
  <2>3. op' = [op EXCEPT ![h] = q]
    OBVIOUS
  <2> HIDE DEF q
  <2> QED BY <2>1, <2>2, <2>3, Placed DEF Moved
<1>5. ~restored => IpFree(ip, n) /\ ensureUniquePeerKey(k, n)
  BY DEF Reserved
<1>6. drawn' = drawn \union {k} /\ dead' = dead \ {k} /\ UNCHANGED <<client, mu, device, restored>>
  OBVIOUS
<1>7. TypeOK'
  BY <1>1, <1>3, <1>4 DEF TypeOK, Moved, Others
<1>8. MutexHeld' /\ mu = h
  BY <1>4, MutexKept DEF Moved, LockedSteps, MutexHeld
<1>9. Carries(h)'
  BY <1>4 DEF Moved, Carries, Known, Owing, NewNode
<1> HIDE DEF n, k, ip, rec
<1>10. RowsKnown'
  BY <1>1, <1>2, <1>3, <1>6 DEF RowsKnown, Known
<1>11. LiveNodes' = LiveNodes /\ LiveClients' = LiveClients /\ n \in LiveNodes
  BY <1>1, <1>2, <1>3, <1>6 DEF LiveNodes, LiveClients
<1>12. ASSUME ~restored PROVE AssignmentsApart'
  BY <1>2, <1>3, <1>5, <1>6, <1>11, <1>12 DEF AssignmentsApart, IpFree, ensureUniquePeerKey,
     LiveNodes
<1>13. ASSUME ~restored PROVE RowsAlive'
  <2>1. \A j \in RowKeys' : j = k \/ j \in RowKeys
    BY <1>2, <1>3, <1>6, <1>11 DEF RowKeys, LiveNodes
  <2> QED BY <1>6, <1>13, <2>1 DEF RowsAlive
<1>14. op'[h].pc \in Owing /\ Others(h)
  BY <1>4 DEF Moved, Owing
<1>15. drawn \subseteq drawn' /\ dead' \subseteq dead
  BY <1>6
<1> QED BY <1>6, <1>7, <1>8, <1>9, <1>10, <1>12, <1>13, <1>14, <1>15, AssigningStep

\* A client is created with its key and its address.
LEMMA ProvisionCreateKeeps ==
    ASSUME TunnelInv, NEW h \in Handlers, ProvisionCreate(h)
    PROVE  TunnelInv'
<1> USE DEF TunnelInv, ProvisionCreate
<1> DEFINE c == op[h].id
           k == op[h].key
           ip == op[h].ip
           rec == [st |-> "live", key |-> k, ip |-> ip, via |-> op[h].via]
<1>1. c \in Clients /\ k \in Keys /\ k \in drawn /\ ip \in Ips /\ ip # 0 /\ client[c].st = "new"
  BY OpFields DEF Carries, TypeOK
<1>2. rec \in ClientRow /\ rec.st = "live" /\ rec.key = k /\ rec.ip = ip
  BY <1>1, OpFields DEF ClientRow
<1>3. /\ client' \in [Clients -> ClientRow] /\ client'[c] = rec
      /\ \A b \in Clients : b # c => client'[b] = client[b]
  BY <1>1, <1>2 DEF TypeOK
<1>4. Moved(h, "lockedApply", None, None, NewNode, 0)
  <2> DEFINE q == [Idle EXCEPT !.pc = "lockedApply"]
  <2>1. q \in Op
    BY IdleTyped DEF Idle, Op, PCs
  <2>2. q.pc = "lockedApply" /\ q.id = None /\ q.key = None /\ q.row = NewNode /\ q.ip = 0
    BY DEF Idle
  <2>3. op' = [op EXCEPT ![h] = q]
    OBVIOUS
  <2> HIDE DEF q
  <2> QED BY <2>1, <2>2, <2>3, Placed DEF Moved
<1>5. ~restored => IpFree(ip, None) /\ ensureUniquePeerKey(k, None) /\ k \notin dead
  BY DEF Reserved, CarriesAlive
<1>6. UNCHANGED <<node, mu, device, restored, drawn, dead>>
  OBVIOUS
<1>7. TypeOK'
  BY <1>3, <1>4 DEF TypeOK, Moved, Others
<1>8. MutexHeld' /\ mu = h
  BY <1>4, MutexKept DEF Moved, LockedSteps, MutexHeld
<1>9. Carries(h)'
  BY <1>4 DEF Moved, Carries, Known, Owing, NewNode
<1> HIDE DEF c, k, ip, rec
<1>10. RowsKnown'
  BY <1>1, <1>2, <1>3, <1>6 DEF RowsKnown, Known
<1>11. LiveNodes' = LiveNodes /\ LiveClients' = LiveClients \union {c} /\ None \notin LiveNodes
       /\ LiveClients \subseteq Clients
  BY <1>1, <1>2, <1>3, <1>6, NoneAssumption DEF LiveNodes, LiveClients
<1>12. ASSUME ~restored PROVE AssignmentsApart'
  <2>1. c \notin LiveClients
    BY <1>1 DEF LiveClients
  <2>2. \A m \in LiveNodes : node[m].ip # ip /\ node[m].key # k
    BY <1>5, <1>11, <1>12 DEF IpFree, ensureUniquePeerKey
  <2>3. \A b \in LiveClients : client[b].ip # ip /\ client[b].key # k
    BY <1>5, <1>12 DEF IpFree, ensureUniquePeerKey
  <2>4. \A b \in LiveClients : client'[b] = client[b]
    BY <1>3, <1>11, <2>1
  <2> QED BY <1>2, <1>3, <1>6, <1>11, <1>12, <2>2, <2>3, <2>4 DEF AssignmentsApart
<1>13. ASSUME ~restored PROVE RowsAlive'
  <2>1. \A j \in RowKeys' : j = k \/ j \in RowKeys
    BY <1>2, <1>3, <1>6, <1>11 DEF RowKeys, LiveNodes
  <2> QED BY <1>5, <1>6, <1>13, <2>1 DEF RowsAlive
<1>14. op'[h].pc \in Owing /\ Others(h)
  BY <1>4 DEF Moved, Owing
<1> QED BY <1>6, <1>7, <1>8, <1>9, <1>10, <1>12, <1>13, <1>14, AssigningStep

\* A client gets another key.
LEMMA RotateClientKeeps ==
    ASSUME TunnelInv, NEW h \in Handlers, NEW c \in Clients, NEW k \in Keys, RotateClient(h, c, k)
    PROVE  TunnelInv'
<1> USE DEF TunnelInv, RotateClient
<1> DEFINE rec == [client[c] EXCEPT !.key = k]
<1>1. client[c].key \in Keys /\ client[c].key \in drawn /\ client[c].ip # 0
  BY DEF TypeOK, RowsKnown
<1>2. /\ rec \in ClientRow /\ rec.st = "live" /\ rec.key = k /\ rec.ip = client[c].ip
      /\ client' = [client EXCEPT ![c] = rec]
  BY DEF ClientRow, TypeOK
<1> HIDE DEF rec
<1>3. /\ client' \in [Clients -> ClientRow] /\ client'[c] = rec
      /\ \A b \in Clients : b # c => client'[b] = client[b]
  BY <1>2 DEF TypeOK
<1>4. Moved(h, "lockedApply", None, client[c].key, NewNode, 0) /\ requests' \in 0..MaxRequests
  <2> DEFINE q == [Idle EXCEPT !.pc = "lockedApply", !.key = client[c].key]
  <2>1. q \in Op
    BY <1>1, IdleTyped DEF Idle, Op, PCs
  <2>2. /\ q.pc = "lockedApply" /\ q.id = None /\ q.key = client[c].key /\ q.row = NewNode
        /\ q.ip = 0
    BY DEF Idle
  <2>3. Begin(h, q)
    OBVIOUS
  <2> HIDE DEF q
  <2> QED BY <2>1, <2>2, <2>3, Begun, Placed DEF Moved
<1>5. /\ UNCHANGED <<node, device, restored, dead>> /\ drawn' = drawn \union {k} /\ k \notin drawn
      /\ mu = None
  BY DEF Locked
<1>6. TypeOK'
  BY <1>3, <1>4, <1>5 DEF TypeOK, Moved, Others, Locked
<1>7. MutexHeld'
  BY <1>4, MutexTaken DEF Moved, LockedSteps
<1>8. Carries(h)'
  BY <1>1, <1>4, <1>5 DEF Moved, Carries, Known, Owing, NewNode
<1>9. RowsKnown'
  BY <1>1, <1>2, <1>3, <1>5 DEF RowsKnown, Known
<1>10. /\ LiveNodes' = LiveNodes /\ LiveClients' = LiveClients
       /\ LiveClients \subseteq Clients /\ LiveNodes \subseteq Nodes /\ c \in LiveClients
  BY <1>2, <1>3, <1>5 DEF LiveNodes, LiveClients
<1>11. /\ \A m \in LiveNodes : node[m].key # k
       /\ \A b \in LiveClients : client[b].key # k
  BY <1>5, NoneAssumption DEF RowsKnown, Known, LiveNodes, LiveClients
<1>12. ASSUME ~restored PROVE AssignmentsApart'
  BY <1>2, <1>3, <1>5, <1>10, <1>11, <1>12 DEF AssignmentsApart
<1>13. ASSUME ~restored PROVE RowsAlive'
  <2>1. \A j \in RowKeys' : j = k \/ j \in RowKeys
    BY <1>2, <1>3, <1>5, <1>10 DEF RowKeys
  <2>2. k \notin dead
    BY <1>5 DEF RowsKnown
  <2> QED BY <1>5, <1>13, <2>1, <2>2 DEF RowsAlive
<1>14. \A b \in Clients : client[b].st = "new" => client'[b].st = "new"
  BY <1>3
<1>15. op'[h].pc \in Owing /\ Others(h)
  BY <1>4 DEF Moved, Owing
<1> QED BY <1>5, <1>6, <1>7, <1>8, <1>9, <1>12, <1>13, <1>14, <1>15, AssigningStep

\* An agent enrols a node, which has neither key nor address.
LEMMA EnrollNodeKeeps ==
    ASSUME TunnelInv, NEW n \in Nodes, EnrollNode(n)
    PROVE  TunnelInv'
<1> USE DEF TunnelInv, EnrollNode
<1> DEFINE rec == [node[n] EXCEPT !.st = "live"]
<1>1. node[n].key = None /\ node[n].ip = 0
  BY DEF RowsKnown, Known
<1>2. /\ rec \in NodeRow /\ rec.st = "live" /\ rec.key = None /\ rec.ip = 0 /\ rec.net = node[n].net
      /\ node' = [node EXCEPT ![n] = rec]
  BY <1>1 DEF NodeRow, TypeOK
<1> HIDE DEF rec
<1>3. node' \in [Nodes -> NodeRow] /\ RowsKnown' /\ Shrunk
  BY <1>2, RowWritten DEF Known
<1>4. /\ \A m \in Nodes : /\ node'[m].key = node[m].key /\ node'[m].ip = node[m].ip
                          /\ node'[m].net = node[m].net
                          /\ m # n => node'[m] = node[m]
      /\ node'[n] = rec
  BY <1>1, <1>2 DEF TypeOK
<1>5. TypeOK'
  BY <1>3 DEF TypeOK
<1>6. MutexHeld' /\ (\A h \in Handlers : Carries(h)') /\ StoppedBare' /\ RevokedOut'
  BY DEF MutexHeld, Carries, Known, StoppedBare, RevokedOut
<1>7. AssignmentsApart'
  BY <1>3, ShrunkApart
<1>8. ASSUME ~restored PROVE RowsAlive' /\ \A h \in Handlers : Reserved(h)' /\ CarriesAlive(h)'
  <2>1. RowsAlive'
    BY <1>3, <1>8, ShrunkAlive DEF TypeOK
  <2>2. ASSUME NEW ip, NEW m, ip # 0, IpFree(ip, m) PROVE IpFree(ip, m)'
    BY <1>3, <2>2 DEF Shrunk, IpFree, LiveNodes, LiveClients
  <2>3. ASSUME NEW k, NEW m, k # None, ensureUniquePeerKey(k, m) PROVE ensureUniquePeerKey(k, m)'
    BY <1>3, <2>3 DEF Shrunk, ensureUniquePeerKey, LiveNodes, LiveClients
  <2>4. ASSUME NEW h \in Handlers PROVE Reserved(h)'
    <3>1. Reserved(h) /\ Carries(h) /\ op' = op
      BY <1>8
    <3>2. op[h].pc = "bootPool" /\ op[h].row.ip # 0 => IpFree(op[h].row.ip, op[h].id)'
      BY <3>1, <2>2 DEF Reserved
    <3>3. op[h].pc = "bootWrite" => IpFree(op[h].ip, op[h].id)' /\ ensureUniquePeerKey(op[h].key, op[h].id)'
      BY <3>1, <2>2, <2>3 DEF Reserved, Carries
    <3>4. op[h].pc = "provCreate" => IpFree(op[h].ip, None)' /\ ensureUniquePeerKey(op[h].key, None)'
      BY <3>1, <2>2, <2>3 DEF Reserved, Carries
    <3> QED BY <3>1, <3>2, <3>3, <3>4 DEF Reserved
  <2>5. \A h \in Handlers : CarriesAlive(h)'
    BY <1>8 DEF CarriesAlive
  <2> QED BY <2>1, <2>4, <2>5
<1>9. ReadCurrent'
  <2>1. PeerNodes' = PeerNodes
    BY <1>1, <1>4 DEF PeerNodes, LiveNodes
  <2>2. PeerNodes \subseteq Nodes /\ LiveClients' = LiveClients
    BY DEF PeerNodes, LiveNodes, LiveClients
  <2>3. PeersNow' = PeersNow
    BY <1>4, <2>1, <2>2 DEF PeersNow
  <2>4. RulesNow' = RulesNow
    BY <1>4, <2>1, <2>2 DEF RulesNow
  <2> QED BY <2>3, <2>4 DEF ReadCurrent
<1> QED BY <1>3, <1>5, <1>6, <1>7, <1>8, <1>9

\* The hub ends and starts again.
LEMMA RestartKeeps ==
    ASSUME TunnelInv, Restart
    PROVE  TunnelInv'
<1> USE DEF TunnelInv, Restart
<1>1. op' \in [Handlers -> Op] /\ \A h \in Handlers : op'[h] = Idle
  BY IdleTyped
<1>2. /\ device' \in [started: BOOLEAN, peers: SUBSET Peer, rules: SUBSET Rule]
      /\ failed' \in BOOLEAN
      /\ \/ device'.peers = {} /\ (failed' \/ ~device'.started)
         \/ device'.started /\ device'.peers = PeersNow /\ device'.rules = RulesNow
  <2>1. CASE device' = [started |-> TRUE, peers |-> PeersNow, rules |-> RulesNow] /\ failed' = FALSE
    BY <2>1, NowTyped
  <2>2. CASE device' = [started |-> TRUE, peers |-> {}, rules |-> {}] /\ failed' = TRUE
    BY <2>2
  <2>3. CASE device' = [started |-> FALSE, peers |-> {}, rules |-> {}] /\ failed' = FALSE
    BY <2>3
  <2> QED BY <2>1, <2>2, <2>3
<1>3. TypeOK'
  BY <1>1, <1>2 DEF TypeOK
<1>4. MutexHeld'
  BY <1>1, NoneAssumption DEF MutexHeld, Idle, LockedSteps
<1>5. RowsKnown' /\ StoppedBare'
  BY <1>2 DEF RowsKnown, Known, StoppedBare
<1>6. \A h \in Handlers : Carries(h)' /\ Reserved(h)' /\ CarriesAlive(h)'
  BY <1>1, IdleTyped DEF Idle, Carries, Known, Owing, Reserved, CarriesAlive, NewNode
<1>7. AssignmentsApart'
  BY TablesKept, ShrunkApart
<1>8. ~restored => RowsAlive'
  BY TablesKept DEF RowsAlive
<1>9. RevokedOut'
  <2>1. \A p \in PeersNow : p.key \in RowKeys
    BY DEF PeersNow, RowKeys, PeerNodes
  <2> QED BY <1>2, <2>1 DEF RevokedOut, RowsAlive
<1>10. ReadCurrent'
  BY <1>1, <1>2, TablesKept DEF ReadCurrent, Idle
<1> QED BY <1>3, <1>4, <1>5, <1>6, <1>7, <1>8, <1>9, <1>10

-----------------------------------------------------------------------------
(* The invariant, and what follows from it.                                *)

\* The initial state has it.
LEMMA InitHolds == Init => TunnelInv
<1> SUFFICES ASSUME Init PROVE TunnelInv
  OBVIOUS
<1> USE DEF Init
<1>1. TypeOK
  <2>1. device \in [started: BOOLEAN, peers: SUBSET Peer, rules: SUBSET Rule]
    OBVIOUS
  <2>2. requests \in 0..MaxRequests
    BY PoolAssumption
  <2>3. node \in [Nodes -> NodeRow] /\ client \in [Clients -> ClientRow] /\ op \in [Handlers -> Op]
    BY IdleTyped
  <2> QED BY <2>1, <2>2, <2>3 DEF TypeOK
<1>2. \A h \in Handlers : op[h] = Idle
  OBVIOUS
<1>3. MutexHeld /\ \A h \in Handlers : Carries(h) /\ Reserved(h) /\ CarriesAlive(h)
  BY <1>2, NoneAssumption, IdleTyped
     DEF MutexHeld, Idle, LockedSteps, Carries, Known, Owing, Reserved, CarriesAlive, NewNode
<1>4. RowsKnown
  BY DEF RowsKnown, Known, NewNode, NewClient
<1>5. LiveNodes = {} /\ LiveClients = {}
  BY DEF LiveNodes, LiveClients, NewNode, NewClient
<1>6. AssignmentsApart /\ RevokedOut /\ StoppedBare /\ ReadCurrent /\ RowsAlive
  BY <1>5 DEF AssignmentsApart, RevokedOut, StoppedBare, ReadCurrent, RowsAlive
<1> QED BY <1>1, <1>3, <1>4, <1>6 DEF TunnelInv

\* A step that changes nothing.
LEMMA StutterHolds ==
    ASSUME TunnelInv, UNCHANGED vars
    PROVE  TunnelInv'
<1> USE DEF TunnelInv, vars
<1>1. TypeOK' /\ MutexHeld' /\ RowsKnown' /\ StoppedBare' /\ RevokedOut'
  BY DEF TypeOK, MutexHeld, RowsKnown, Known, StoppedBare, RevokedOut
<1>2. AssignmentsApart' /\ (~restored => RowsAlive')
  BY TablesKept, ShrunkApart DEF RowsAlive
<1>3. \A h \in Handlers : Carries(h)' /\ (~restored => Reserved(h)' /\ CarriesAlive(h)')
  BY TablesKept DEF Carries, Known, Reserved, CarriesAlive, IpFree, ensureUniquePeerKey
<1>4. ReadCurrent'
  BY TablesKept DEF ReadCurrent
<1> QED BY <1>1, <1>2, <1>3, <1>4

\* Every step keeps the invariant.
LEMMA StepHolds == TunnelInv /\ [Next]_vars => TunnelInv'
<1> SUFFICES ASSUME TunnelInv, [Next]_vars PROVE TunnelInv'
  OBVIOUS
<1>1. CASE Restart
  BY <1>1, RestartKeeps
<1>2. CASE \E n \in Nodes : EnrollNode(n)
  BY <1>2, EnrollNodeKeeps
<1>3. ASSUME NEW h \in Handlers, Step(h) PROVE TunnelInv'
  BY <1>3, ApplyLockKeeps, ApplyReadKeeps, ApplyNothingKeeps, ApplySetKeeps, AbortKeeps,
     BootLockKeeps, BootPoolKeeps, BootWriteKeeps, WriteConfigKeeps, RevokeLockKeeps,
     RevokeWriteKeeps, UpdateWriteKeeps, ProvisionCreateKeeps, StartServerKeeps, StopServerKeeps
     DEF Step
<1>4. ASSUME NEW h \in Handlers, EnableTunnel(h) \/ DisableTunnel(h) PROVE TunnelInv'
  BY <1>4, EnableKeeps, DisableKeeps
<1>5. ASSUME NEW h \in Handlers, NEW n \in Nodes,
             \/ RevokeBegin(h, n) \/ DeleteNode(h, n)
             \/ \E k \in Keys : Bootstrap(h, n, k)
             \/ \E net \in BOOLEAN : CreateNode(h, n, net) \/ UpdateLoad(h, n, net)
      PROVE  TunnelInv'
  BY <1>5, RevokeBeginKeeps, DeleteNodeKeeps, BootstrapKeeps, CreateNodeKeeps, UpdateLoadKeeps
<1>6. ASSUME NEW h \in Handlers, NEW c \in Clients,
             \/ RevokeClient(h, c)
             \/ \E k \in Keys : RotateClient(h, c, k)
             \/ \E k \in Keys, via \in SUBSET Nodes : ProvisionPool(h, c, k, via)
      PROVE  TunnelInv'
  BY <1>6, RevokeClientKeeps, RotateClientKeeps, ProvisionPoolKeeps
<1>7. CASE UNCHANGED vars
  BY <1>7, StutterHolds
<1> QED BY <1>1, <1>2, <1>3, <1>4, <1>5, <1>6, <1>7 DEF Next

\* The inductive invariant of the tunnel: the mutex, what a handler carries and
\* reserves under it, and which handler has what the tables say.
THEOREM TunnelInvariant == Spec => []TunnelInv
  BY InitHolds, StepHolds, PTL DEF Spec

\* Addresses and keys are assigned once (BootstrapNode, ProvisionClient,
\* RotateClient, RevokeNode, handleUpdateNode), for any interleaving.
THEOREM NoSharedAssignment == Spec => []AssignmentsApart
<1>1. TunnelInv => AssignmentsApart
  BY DEF TunnelInv
<1> QED BY <1>1, TunnelInvariant, PTL

\* A revoked or rotated key never comes back to the device
\* (RevokeNode, RevokeClient, RotateClient, handleDeleteNode).
THEOREM RevocationLasts == Spec => []RevokedOut
<1>1. TunnelInv => RevokedOut
  BY DEF TunnelInv
<1> QED BY <1>1, TunnelInvariant, PTL

\* The device ends with the peers and rules of the tables
\* (applyPeersLocked, ApplyPeers).
THEOREM DeviceCurrent == Spec => []PeersCurrent
<1>1. TunnelInv => PeersCurrent
  BY DEF TunnelInv, ReadCurrent, PeersCurrent, Owing
<1> QED BY <1>1, TunnelInvariant, PTL

-----------------------------------------------------------------------------
(* The agents: records.                                                    *)

\* The records nothing has happened to yet.
LEMMA AgentBlanks ==
    /\ A!NoState \in A!State /\ A!NoState.id = None /\ A!NoState.hb = None
    /\ A!NoState.key = 0 /\ A!NoState.psk = 0
    /\ A!NoListeners \in A!Listeners
    /\ A!Off \in A!Agent /\ A!Off.pc = "off" /\ A!Off.wait = None /\ A!Off.mem = A!NoState
    /\ A!Off.disk = A!NoState
    /\ A!NoNode \in A!Node /\ A!NoNode.st = "new" /\ A!NoNode.seen = FALSE
    /\ A!NoCall \in A!Call /\ A!NoCall.kind = "none" /\ A!NoCall.from = None /\ A!NoCall.st = "free"
    /\ A!NoCall.id = None
    /\ A!NoEdit \in A!Edit /\ A!NoEdit.kind = "none" /\ A!NoEdit.overtaken = FALSE
<1>1. /\ A!NoState \in A!State /\ A!NoState.id = None /\ A!NoState.hb = None
      /\ A!NoState.key = 0 /\ A!NoState.psk = 0
  BY DEF A!NoState, A!State
<1>2. A!NoListeners \in A!Listeners
  BY DEF A!NoListeners, A!Listeners
<1>3. /\ A!Off \in A!Agent /\ A!Off.pc = "off" /\ A!Off.wait = None /\ A!Off.mem = A!NoState
      /\ A!Off.disk = A!NoState
  BY <1>1, <1>2 DEF A!Off, A!Agent
<1>4. A!NoNode \in A!Node /\ A!NoNode.st = "new" /\ A!NoNode.seen = FALSE
  BY DEF A!NoNode, A!Node
<1>5. /\ A!NoCall \in A!Call /\ A!NoCall.kind = "none" /\ A!NoCall.from = None /\ A!NoCall.st = "free"
      /\ A!NoCall.id = None
  BY <1>2, <1>4 DEF A!NoCall, A!Call
<1>6. A!NoEdit \in A!Edit /\ A!NoEdit.kind = "none" /\ A!NoEdit.overtaken = FALSE
  BY <1>4 DEF A!NoEdit, A!Edit
<1> QED
  BY <1>1, <1>2, <1>3, <1>4, <1>5, <1>6

\* The fields of an agent, of a request and of a node.
LEMMA AgentFields ==
    /\ \A p \in A!Agent : /\ p.pc \in {"off"} \union A!Joining \union A!Forwarding
                        /\ p.mem \in A!State /\ p.disk \in A!State
                        /\ p.wait \in Handlers \union {None} /\ p.listens \in A!Listeners
    /\ \A s \in A!State : /\ s.id \in Nodes \union {None} /\ s.hb \in Nodes \union {None}
                        /\ s.key \in Nat /\ s.psk \in Nat
    /\ \A q \in A!Call : /\ q.kind \in A!Waiting \union {"none"} /\ q.from \in Agents \union {None}
                       /\ q.token \in Tokens \union {None} /\ q.id \in Nodes \union {None}
                       /\ q.hb \in Nodes \union {None} /\ q.key \in Nat /\ q.row \in A!Node
                       /\ q.code \in Nat /\ q.psk \in Nat /\ q.targets \in A!Listeners
    /\ \A r \in A!Node : /\ r.st \in {"new", "live", "gone"} /\ r.key \in Nat /\ r.psk \in Nat
                       /\ r.seen \in BOOLEAN
    /\ \A q \in A!Call : q.single \in BOOLEAN
    /\ \A e \in A!Edit : e.id \in Nodes \union {None} /\ e.row \in A!Node /\ e.overtaken \in BOOLEAN
  BY DEF A!Agent, A!State, A!Call, A!Node, A!Edit

\* handleNodeTunnelTargets answers with a destination for each port.
LEMMA TargetsType ==
    ASSUME A!AgentAssumption, A!AgentTypeOK, NEW n
    PROVE  A!Targets(n) \in A!Listeners
<1> SUFFICES ASSUME NEW p \in Ports
             PROVE  A!Targets(n)[p] \in Hosts \union {None}
  BY DEF A!Targets, A!Listeners
<1> DEFINE on == {s \in Services : service[s].node = n /\ service[s].port = p}
<1>1. CASE on = {}
  BY <1>1 DEF A!Targets
<1>2. CASE on # {}
  <2>1. \E s \in on : \A x \in on : s >= x
    BY <1>2 DEF A!AgentAssumption
  <2>2. A!Max(on) \in on
    BY <2>1 DEF A!Max
  <2>3. service[A!Max(on)] \in A!Destinations
    BY <2>2 DEF A!AgentTypeOK
  <2>4. service[A!Max(on)].host \in Hosts \union {None}
    BY <2>3 DEF A!Destinations
  <2> QED
    BY <1>2, <2>4 DEF A!Targets
<1> QED
  BY <1>1, <1>2

-----------------------------------------------------------------------------
(* Steps of an agent.                                                      *)

\* What stays when an agent moves.
HubStays == UNCHANGED <<token, row, service, ready, edit, changes, born, touched, revoked>>

\* A node agent a holds already, or that the answer it waits for brings.
OwnId(a, i) ==
    \/ i \in {None, agent[a].mem.id, agent[a].disk.id}
    \/ agent[a].wait # None /\ i = call[agent[a].wait].id

\* What the state p an agent moves to must satisfy.
AgentSettled(a, p) ==
    /\ p \in A!Agent /\ p.wait = None /\ p.pc \notin A!Waiting
    /\ OwnId(a, p.mem.id) /\ OwnId(a, p.disk.id)
    /\ p.pc \in A!Joining => ~A!provisioned(p.disk) /\ a \in outdated'
    /\ p.pc \in A!Forwarding => p.mem.id \in Nodes
    /\ (p.mem.key = 0 => p.mem.psk = 0) /\ (p.disk.key = 0 => p.disk.psk = 0)
    /\ A!provisioned(p.disk) /\ row[p.disk.id].st = "live" /\ p.disk.id \notin touched =>
         row[p.disk.id].key = p.disk.key /\ row[p.disk.id].psk = p.disk.psk
    /\ p.pc \in A!Forwarding /\ a \notin outdated' => p.listens = A!Targets(p.mem.id)

\* An agent that receives, gives up or goes on by itself.
LEMMA AgentSettles ==
    ASSUME A!AgentAssumption, A!AgentInv, HubStays, pairs' \in Nat,
           NEW a \in Agents, NEW p, AgentSettled(a, p), agent' = [agent EXCEPT ![a] = p],
           \/ call' = call
           \/ agent[a].wait # None /\ call' = [call EXCEPT ![agent[a].wait] = A!NoCall],
           outdated' \subseteq Agents,
           \A b \in Agents : b # a => (b \in outdated' <=> b \in outdated)
    PROVE  A!AgentInv'
<1>0. /\ A!AgentTypeOK /\ A!CallsWhole /\ A!AgentsWhole /\ A!NodesApart /\ A!AnswersHold /\ A!TokensSpent
      /\ A!ClaimsHold /\ A!EditsHold /\ A!AgentMatchesHub /\ A!ForwardsAsTold
  BY DEF A!AgentInv
<1>1. agent' \in [Agents -> A!Agent] /\ \A b \in Agents : agent'[b] = IF b = a THEN p ELSE agent[b]
  BY <1>0 DEF A!AgentTypeOK, AgentSettled
<1>2. /\ call' \in [Handlers -> A!Call]
      /\ \A c \in Handlers : call'[c] = call[c] \/ (c = agent[a].wait /\ call'[c] = A!NoCall)
  BY <1>0, AgentBlanks DEF A!AgentTypeOK
<1>3. A!AgentTypeOK'
  BY <1>0, <1>1, <1>2 DEF A!AgentTypeOK, HubStays, A!Destinations
<1>4. A!CallsWhole'
  BY <1>0, <1>2, AgentBlanks DEF A!CallsWhole, A!CallWhole
<1>5. \A b \in Agents : b # a /\ agent[b].wait # None =>
        agent[b].wait \in Handlers /\ call'[agent[b].wait] = call[agent[b].wait]
  <2> SUFFICES ASSUME NEW b \in Agents, b # a, agent[b].wait # None
               PROVE  agent[b].wait \in Handlers /\ call'[agent[b].wait] = call[agent[b].wait]
    OBVIOUS
  <2>1. agent[b].wait \in Handlers
    BY <1>0, AgentFields DEF A!AgentTypeOK
  <2>2. call[agent[b].wait].from = b
    BY <1>0 DEF A!AgentsWhole, A!AgentWhole
  <2>3. agent[a].wait # None => call[agent[a].wait].from = a
    BY <1>0 DEF A!AgentsWhole, A!AgentWhole
  <2> QED
    BY <1>2, <2>1, <2>2, <2>3, AgentBlanks DEF A!AgentAssumption
<1>6. A!AgentsWhole'
  <2> SUFFICES ASSUME NEW b \in Agents PROVE A!AgentWhole(b, agent[b])'
    BY DEF A!AgentsWhole
  <2>1. CASE b = a
    BY <1>1, <2>1 DEF A!AgentWhole, AgentSettled, A!provisioned
  <2>2. CASE b # a
    <3>1. A!AgentWhole(b, agent[b])
      BY <1>0 DEF A!AgentsWhole
    <3> QED
      BY <1>1, <1>5, <2>2, <3>1 DEF A!AgentWhole
  <2> QED
    BY <2>1, <2>2
<1>7. \A n \in Nodes, b \in Agents : A!KnownTo(n, b)' => A!KnownTo(n, b)
  <2> SUFFICES ASSUME NEW n \in Nodes, NEW b \in Agents, A!KnownTo(n, b)'
               PROVE  A!KnownTo(n, b)
    OBVIOUS
  <2>1. CASE \E c \in Handlers : call'[c].from = b /\ call'[c].id = n
    BY <1>2, <2>1, AgentBlanks DEF A!KnownTo, A!AgentAssumption
  <2>2. CASE b # a
    BY <1>1, <2>1, <2>2 DEF A!KnownTo
  <2>3. CASE b = a /\ (p.mem.id = n \/ p.disk.id = n)
    <3>1. agent[a].wait # None => agent[a].wait \in Handlers /\ call[agent[a].wait].from = a
      BY <1>0, AgentFields DEF A!AgentTypeOK, A!AgentsWhole, A!AgentWhole
    <3>2. OwnId(a, n) /\ n # None
      BY <2>3 DEF AgentSettled, A!AgentAssumption
    <3> QED
      BY <2>3, <3>1, <3>2 DEF A!KnownTo, OwnId
  <2> QED
    BY <1>1, <2>1, <2>2, <2>3 DEF A!KnownTo
<1>8. A!NodesApart'
  BY <1>0, <1>7 DEF A!NodesApart, HubStays
<1>t. \A n : A!Targets(n)' = A!Targets(n)
  BY DEF A!Targets, HubStays
<1>9. A!AnswersHold'
  <2> SUFFICES ASSUME NEW b \in Agents PROVE A!AnswerHolds(agent[b])'
    BY DEF A!AnswersHold
  <2>1. CASE b = a
    BY <1>1, <2>1 DEF A!AnswerHolds, AgentSettled
  <2>2. CASE b # a
    <3>1. A!AnswerHolds(agent[b])
      BY <1>0 DEF A!AnswersHold
    <3> QED
      BY <1>1, <1>5, <1>t, <2>2, <3>1 DEF A!AnswerHolds, HubStays
  <2> QED
    BY <2>1, <2>2
<1>10. A!TokensSpent'
  BY <1>0 DEF A!TokensSpent, A!Spent, HubStays
<1>11. A!AgentMatchesHub'
  BY <1>0, <1>1 DEF A!AgentMatchesHub, HubStays, AgentSettled, A!provisioned
<1>12. A!ForwardsAsTold'
  BY <1>0, <1>1, <1>t DEF A!ForwardsAsTold, AgentSettled, A!Forwarding
<1>13. A!ClaimsHold' /\ A!EditsHold'
  BY <1>0, <1>2, AgentBlanks DEF A!ClaimsHold, A!ClaimHolds, A!EditsHold, A!EditHolds, HubStays
<1> QED
  BY <1>3, <1>4, <1>6, <1>8, <1>9, <1>10, <1>11, <1>12, <1>13 DEF A!AgentInv

\* What is known of an agent before a step.
LEMMA AgentKnown ==
    ASSUME A!AgentAssumption, A!AgentInv, NEW a \in Agents
    PROVE  /\ agent \in [Agents -> A!Agent] /\ agent[a] \in A!Agent
           /\ agent[a].pc \in {"off"} \union A!Joining \union A!Forwarding
           /\ agent[a].mem \in A!State /\ agent[a].disk \in A!State
           /\ A!AgentWhole(a, agent[a]) /\ A!AnswerHolds(agent[a])
           /\ agent[a].wait # None => agent[a].wait \in Handlers /\ call[agent[a].wait] \in A!Call
           /\ outdated \subseteq Agents /\ pairs \in Nat
           /\ A!provisioned(agent[a].disk) /\ row[agent[a].disk.id].st = "live"
                /\ agent[a].disk.id \notin touched =>
                row[agent[a].disk.id].key = agent[a].disk.key
                /\ row[agent[a].disk.id].psk = agent[a].disk.psk
           /\ agent[a].pc \in A!Forwarding /\ a \notin outdated =>
                agent[a].listens = A!Targets(agent[a].mem.id)
<1>1. agent \in [Agents -> A!Agent] /\ agent[a] \in A!Agent /\ call \in [Handlers -> A!Call]
  BY DEF A!AgentInv, A!AgentTypeOK
<1>2. /\ agent[a].pc \in {"off"} \union A!Joining \union A!Forwarding
      /\ agent[a].mem \in A!State /\ agent[a].disk \in A!State
      /\ agent[a].wait \in Handlers \union {None}
  BY <1>1, AgentFields
<1>3. A!AgentWhole(a, agent[a]) /\ A!AnswerHolds(agent[a])
  BY DEF A!AgentInv, A!AgentsWhole, A!AnswersHold
<1>4. outdated \subseteq Agents /\ pairs \in Nat
  BY DEF A!AgentInv, A!AgentTypeOK
<1> QED
  BY <1>1, <1>2, <1>3, <1>4 DEF A!AgentInv, A!AgentMatchesHub, A!ForwardsAsTold, A!Forwarding

\* main with a saved state or without one.
LEMMA StartKeeps ==
    ASSUME A!AgentAssumption, A!AgentInv, NEW a \in Agents, A!Start(a)
    PROVE  A!AgentInv'
<1> DEFINE p == [agent[a] EXCEPT !.mem = agent[a].disk,
                                 !.pc = IF A!provisioned(agent[a].disk) THEN "refresh" ELSE "step"]
<1>0. agent[a].pc = "off" /\ outdated' = outdated \union {a} /\ HubStays /\ call' = call
      /\ pairs' = pairs
  BY DEF A!Start, A!hub, HubStays
<1>1. agent[a].wait = None
  BY <1>0, AgentKnown DEF A!AgentWhole, A!Waiting
<1>2. /\ p \in A!Agent /\ p.mem = agent[a].disk /\ p.disk = agent[a].disk /\ p.wait = None
      /\ p.pc = IF A!provisioned(agent[a].disk) THEN "refresh" ELSE "step"
  BY <1>1, AgentKnown DEF A!Agent, A!Joining, A!Forwarding
<1>3. agent' = [agent EXCEPT ![a] = p]
  BY AgentKnown DEF A!Start, A!Agent
<1> HIDE DEF p
<1>4. AgentSettled(a, p)
  <2>1. A!provisioned(agent[a].disk) => agent[a].disk.id \in Nodes
    BY AgentKnown DEF A!provisioned, A!State
  <2> QED
    BY <1>0, <1>2, <2>1, AgentKnown
    DEF AgentSettled, A!AgentWhole, OwnId, A!Waiting, A!Joining, A!Forwarding
<1> QED
  BY <1>0, <1>3, <1>4, AgentKnown, AgentSettles

\* The key pair is drawn when there is none, so the state is not yet provisioned.
LEMMA GenerateKeyPairKeeps ==
    ASSUME A!AgentAssumption, A!AgentInv, NEW a \in Agents, NEW ok \in BOOLEAN,
           A!GenerateKeyPair(a, ok)
    PROVE  A!AgentInv'
<1> DEFINE m == [agent[a].mem EXCEPT !.key = pairs + 1]
           p == [agent[a] EXCEPT !.mem = m, !.pc = "step", !.wait = None,
                                 !.disk = IF ok THEN m ELSE agent[a].disk]
<1>0. /\ agent[a].pc = "step" /\ agent[a].mem.id # None /\ agent[a].mem.key = 0
      /\ pairs' \in Nat /\ HubStays /\ call' = call /\ outdated' = outdated
  BY AgentKnown DEF A!GenerateKeyPair, A!hub, HubStays
<1>1. m \in A!State /\ m.id = agent[a].mem.id /\ m.key # 0 /\ m.psk = agent[a].mem.psk
  BY AgentKnown DEF A!State
<1>2. m.psk = 0
  BY <1>0, <1>1, AgentKnown DEF A!AgentWhole
<1> HIDE DEF m
<1>3. /\ p \in A!Agent /\ p.mem = m /\ p.disk = (IF ok THEN m ELSE agent[a].disk) /\ p.wait = None
      /\ p.pc = "step"
  BY <1>1, AgentKnown DEF A!Agent, A!Joining
<1>4. agent' = [agent EXCEPT ![a] = p]
  BY DEF A!GenerateKeyPair, A!Saved, m
<1> HIDE DEF p
<1>5. AgentSettled(a, p)
  BY <1>0, <1>1, <1>2, <1>3, AgentKnown
  DEF AgentSettled, A!AgentWhole, OwnId, A!Waiting, A!Joining, A!Forwarding, A!provisioned
<1> QED
  BY <1>0, <1>4, <1>5, AgentKnown, AgentSettles

\* The identity of an answer is that of a request of the agent.
LEMMA EnrolledKeeps ==
    ASSUME A!AgentAssumption, A!AgentInv, NEW a \in Agents, NEW ok \in BOOLEAN, A!Enrolled(a, ok)
    PROVE  A!AgentInv'
<1> DEFINE m == [A!NoState EXCEPT !.id = A!Answer(a).id, !.hb = A!Answer(a).hb]
           p == [agent[a] EXCEPT !.mem = m, !.pc = "step", !.wait = None,
                                 !.disk = IF ok THEN m ELSE agent[a].disk]
<1>0. /\ agent[a].wait # None /\ agent[a].pc = "enroll" /\ pairs' = pairs
      /\ HubStays /\ call' = [call EXCEPT ![agent[a].wait] = A!NoCall] /\ outdated' = outdated
  BY DEF A!Enrolled, A!Answered, A!Received, A!hub, HubStays
<1>1. A!Answer(a) \in A!Call /\ A!Answer(a) = call[agent[a].wait]
  BY <1>0, AgentKnown DEF A!Answer
<1>2. m \in A!State /\ m.id = A!Answer(a).id /\ m.key = 0 /\ m.psk = 0
  BY <1>1, AgentFields DEF A!State, A!NoState
<1> HIDE DEF m
<1>3. /\ p \in A!Agent /\ p.mem = m /\ p.disk = (IF ok THEN m ELSE agent[a].disk) /\ p.wait = None
      /\ p.pc = "step"
  BY <1>2, AgentKnown DEF A!Agent, A!Joining
<1>4. agent' = [agent EXCEPT ![a] = p]
  BY DEF A!Enrolled, A!Saved, m
<1> HIDE DEF p
<1>5. AgentSettled(a, p)
  BY <1>0, <1>1, <1>2, <1>3, AgentKnown
  DEF AgentSettled, A!AgentWhole, OwnId, A!Waiting, A!Joining, A!Forwarding, A!provisioned
<1> QED
  BY <1>0, <1>4, <1>5, AgentKnown, AgentSettles

\* The preshared key that is saved is that of the row, unless the row has been
\* touched since the answer was written.
LEMMA BootstrappedKeeps ==
    ASSUME A!AgentAssumption, A!AgentInv, NEW a \in Agents, NEW ok \in BOOLEAN, A!Bootstrapped(a,
           ok)
    PROVE  A!AgentInv'
<1> DEFINE q == call[agent[a].wait]
           m == [agent[a].mem EXCEPT !.psk = q.psk]
           p == [agent[a] EXCEPT !.mem = m, !.pc = IF ok THEN "refresh" ELSE "step", !.wait = None,
                                 !.disk = IF ok THEN m ELSE agent[a].disk]
<1>0. /\ agent[a].wait # None /\ agent[a].pc = "boot" /\ pairs' = pairs
      /\ q.st = "done" /\ q.code = 200
      /\ HubStays /\ call' = [call EXCEPT ![agent[a].wait] = A!NoCall] /\ outdated' = outdated
  BY DEF A!Bootstrapped, A!Answered, A!Answer, A!Received, A!hub, HubStays
<1>1. /\ q \in A!Call /\ q.kind = "boot" /\ q.id = agent[a].mem.id /\ q.key = agent[a].mem.key
      /\ q.id \in Nodes /\ q.psk \in Nat /\ q.key # 0
  <2>1. agent[a].wait \in Handlers /\ q \in A!Call
    BY <1>0, AgentKnown
  <2>2. q.kind = "boot" /\ q.id = agent[a].mem.id /\ q.key = agent[a].mem.key /\ q.key # 0
    BY <1>0, AgentKnown DEF A!AgentWhole
  <2>3. A!CallWhole(q)
    BY <2>1 DEF A!AgentInv, A!CallsWhole
  <2> QED
    BY <2>1, <2>2, <2>3, AgentFields DEF A!CallWhole
<1>2. /\ m \in A!State /\ m.id = agent[a].mem.id /\ m.key = agent[a].mem.key /\ m.psk = q.psk
      /\ m.hb = agent[a].mem.hb
  BY <1>1, AgentKnown DEF A!State
<1>3. row[q.id].st = "live" /\ q.id \notin touched => row[q.id].key = q.key /\ row[q.id].psk = q.psk
  BY <1>0, <1>1, AgentKnown DEF A!AnswerHolds
<1> HIDE DEF m
<1>4. /\ p \in A!Agent /\ p.mem = m /\ p.disk = (IF ok THEN m ELSE agent[a].disk) /\ p.wait = None
      /\ p.pc = IF ok THEN "refresh" ELSE "step"
  BY <1>2, AgentKnown DEF A!Agent, A!Joining, A!Forwarding
<1>5. agent' = [agent EXCEPT ![a] = p]
  BY DEF A!Bootstrapped, A!Saved, A!Answer, m
<1> HIDE DEF p, q
<1>6. AgentSettled(a, p)
  <2>1. a \in outdated
    BY <1>0, AgentKnown DEF A!AgentWhole, A!Joining
  <2>2. /\ agent[a].disk.key = 0 => agent[a].disk.psk = 0
        /\ ~A!provisioned(agent[a].disk)
    BY <1>0, AgentKnown DEF A!AgentWhole, A!Joining
  <2>3. OwnId(a, m.id) /\ OwnId(a, agent[a].disk.id)
    BY <1>2 DEF OwnId
  <2>4. ok => p.disk = m
    BY <1>4
  <2>5. ~ok => p.disk = agent[a].disk
    BY <1>4
  <2> QED
    BY <1>0, <1>1, <1>2, <1>3, <1>4, <2>1, <2>2, <2>3, <2>4, <2>5
    DEF AgentSettled, A!Waiting, A!Joining, A!Forwarding
<1> QED
  BY <1>0, <1>5, <1>6, AgentKnown, AgentSettles

\* A request that failed, was not answered or brought nothing: the agent tries again.
LEMMA GivesUp ==
    ASSUME A!AgentAssumption, A!AgentInv, NEW a \in Agents, agent[a].wait # None,
           agent' = [agent EXCEPT ![a].pc = A!Again(a), ![a].wait = None],
           \/ call' = call
           \/ call' = [call EXCEPT ![agent[a].wait] = A!NoCall],
           HubStays, pairs' = pairs, outdated' = outdated
    PROVE  A!AgentInv'
<1> DEFINE p == [agent[a] EXCEPT !.pc = A!Again(a), !.wait = None]
<1>1. A!Again(a) \in {"step", "refresh"}
  BY DEF A!Again
<1>2. /\ p \in A!Agent /\ p.mem = agent[a].mem /\ p.disk = agent[a].disk /\ p.wait = None
      /\ p.pc = A!Again(a) /\ p.listens = agent[a].listens
  BY <1>1, AgentKnown DEF A!Agent, A!Joining, A!Forwarding
<1>3. agent' = [agent EXCEPT ![a] = p]
  BY AgentKnown DEF A!Agent
<1> HIDE DEF p
<1>4. AgentSettled(a, p)
  <2>1. agent[a].pc \in A!Waiting
    BY AgentKnown DEF A!AgentWhole
  <2>2. CASE agent[a].pc \in {"enroll", "boot"}
    BY <1>2, <2>2, AgentKnown
    DEF AgentSettled, A!AgentWhole, OwnId, A!Again, A!Waiting, A!Joining, A!Forwarding
  <2>3. CASE agent[a].pc \in {"targets", "heartbeat"}
    BY <1>2, <2>3, AgentKnown
    DEF AgentSettled, A!AgentWhole, OwnId, A!Again, A!Waiting, A!Joining, A!Forwarding
  <2> QED
    BY <2>1, <2>2, <2>3 DEF A!Waiting
<1> QED
  BY <1>3, <1>4, AgentKnown, AgentSettles

\* Retry and TimeOut.
LEMMA RetryKeeps ==
    ASSUME A!AgentAssumption, A!AgentInv, NEW a \in Agents, A!Retry(a) \/ A!TimeOut(a)
    PROVE  A!AgentInv'
<1>1. CASE A!Retry(a)
  BY <1>1, GivesUp DEF A!Retry, A!Answered, A!Received, A!hub, HubStays
<1>2. CASE A!TimeOut(a)
  BY <1>2, GivesUp DEF A!TimeOut, A!hub, HubStays
<1> QED
  BY <1>1, <1>2

\* The process ends.
LEMMA Ends ==
    ASSUME A!AgentAssumption, A!AgentInv, NEW a \in Agents,
           NEW d \in {A!NoState, agent[a].disk},
           agent' = [agent EXCEPT ![a] = [A!Off EXCEPT !.disk = d]],
           \/ call' = call
           \/ agent[a].wait # None /\ call' = [call EXCEPT ![agent[a].wait] = A!NoCall],
           HubStays, pairs' = pairs, outdated' = outdated
    PROVE  A!AgentInv'
<1> DEFINE p == [A!Off EXCEPT !.disk = d]
<1>1. d \in A!State
  BY AgentBlanks, AgentKnown
<1>2. p \in A!Agent /\ p.mem = A!NoState /\ p.disk = d /\ p.wait = None /\ p.pc = "off"
  BY <1>1, AgentBlanks DEF A!Off, A!Agent
<1>3. agent' = [agent EXCEPT ![a] = p]
  OBVIOUS
<1> HIDE DEF p
<1>4. AgentSettled(a, p)
  <2>1. OwnId(a, p.mem.id) /\ OwnId(a, p.disk.id)
    BY <1>2, AgentBlanks DEF OwnId
  <2>2. CASE d = A!NoState
    BY <1>2, <2>1, <2>2, AgentBlanks
    DEF AgentSettled, A!Waiting, A!Joining, A!Forwarding, A!provisioned
  <2>3. CASE d = agent[a].disk
    BY <1>2, <2>1, <2>3, AgentBlanks, AgentKnown
    DEF AgentSettled, A!AgentWhole, A!Waiting, A!Joining, A!Forwarding
  <2> QED
    BY <2>2, <2>3
<1> QED
  BY <1>3, <1>4, AgentKnown, AgentSettles

\* Crash and Refused: the state file stays, or is cleared.
LEMMA RefusedKeeps ==
    ASSUME A!AgentAssumption, A!AgentInv, NEW a \in Agents,
           A!Crash(a) \/ \E ok \in BOOLEAN : A!Refused(a, ok)
    PROVE  A!AgentInv'
<1>1. CASE A!Crash(a)
  BY <1>1, Ends DEF A!Crash, A!hub, HubStays
<1>2. ASSUME NEW ok \in BOOLEAN, A!Refused(a, ok)
      PROVE  A!AgentInv'
  <2> DEFINE d == IF agent[a].pc = "boot" /\ ok THEN A!NoState ELSE agent[a].disk
  <2>1. d \in {A!NoState, agent[a].disk} /\ agent' = [agent EXCEPT ![a] = [A!Off EXCEPT !.disk = d]]
    BY <1>2 DEF A!Refused
  <2>2. /\ agent[a].wait # None /\ call' = [call EXCEPT ![agent[a].wait] = A!NoCall]
        /\ HubStays /\ pairs' = pairs /\ outdated' = outdated
    BY <1>2 DEF A!Refused, A!Answered, A!Received, A!hub, HubStays
  <2> HIDE DEF d
  <2> QED
    BY <2>1, <2>2, Ends
<1> QED
  BY <1>1, <1>2

\* After an answer nothing has overtaken the listeners are those of the services.
LEMMA RefreshTargetsKeeps ==
    ASSUME A!AgentAssumption, A!AgentInv, NEW a \in Agents, NEW opened \in SUBSET Ports,
           A!RefreshTargets(a, opened)
    PROVE  A!AgentInv'
<1> DEFINE q == call[agent[a].wait]
           l == A!reconcile(agent[a].listens, q.targets, opened)
           p == [agent[a] EXCEPT !.pc = "refresh", !.wait = None, !.listens = l]
<1>0. /\ agent[a].wait # None /\ agent[a].pc = "targets" /\ pairs' = pairs
      /\ q.st = "done" /\ q.code = 200
      /\ HubStays /\ call' = [call EXCEPT ![agent[a].wait] = A!NoCall]
      /\ outdated' = IF opened = Ports /\ q.row.seen THEN outdated \ {a} ELSE outdated \union {a}
  BY DEF A!RefreshTargets, A!Answered, A!Answer, A!Received, A!hub, HubStays
<1>1. q \in A!Call /\ q.kind = "targets" /\ q.id = agent[a].mem.id
  BY <1>0, AgentKnown DEF A!AgentWhole
<1>2. q.targets \in A!Listeners /\ agent[a].listens \in A!Listeners
  BY <1>1, AgentKnown, AgentFields
<1>3. l \in A!Listeners
  BY <1>2 DEF A!reconcile, A!Listeners
<1>4. opened = Ports => l = q.targets
  BY <1>2 DEF A!reconcile, A!Listeners
<1>5. agent' = [agent EXCEPT ![a] = p]
  BY AgentKnown DEF A!RefreshTargets, A!Answer, A!Agent
<1> HIDE DEF l
<1>6. /\ p \in A!Agent /\ p.mem = agent[a].mem /\ p.disk = agent[a].disk /\ p.wait = None
      /\ p.pc = "refresh" /\ p.listens = l
  BY <1>3, AgentKnown DEF A!Agent, A!Forwarding
<1> HIDE DEF p, q
<1>7. a \notin outdated' => l = A!Targets(agent[a].mem.id)
  <2> HAVE a \notin outdated'
  <2>1. opened = Ports /\ q.row.seen
    BY <1>0
  <2>2. q.targets = A!Targets(q.id)
    BY <1>0, <1>1, <2>1, AgentKnown DEF A!AnswerHolds, q
  <2> QED
    BY <1>1, <1>4, <2>1, <2>2
<1>8. AgentSettled(a, p)
  BY <1>0, <1>6, <1>7, AgentKnown
  DEF AgentSettled, A!AgentWhole, OwnId, A!Waiting, A!Joining, A!Forwarding
<1>9. outdated' \subseteq Agents /\ \A b \in Agents : b # a => (b \in outdated' <=> b \in outdated)
  BY <1>0, AgentKnown
<1> QED
  BY <1>0, <1>5, <1>8, <1>9, AgentKnown, AgentSettles

\* An agent sends a request and waits for its answer.
LEMMA AgentSends ==
    ASSUME A!AgentAssumption, A!AgentInv, HubStays, pairs' = pairs, outdated' = outdated,
           NEW a \in Agents, NEW c \in Handlers, NEW q \in A!Call,
           call[c] = A!NoCall, call' = [call EXCEPT ![c] = q],
           agent' = [agent EXCEPT ![a].pc = q.kind, ![a].wait = c],
           \/ agent[a].pc = "step" /\ q.kind \in {"enroll", "boot"}
           \/ agent[a].pc = "refresh" /\ q.kind \in {"targets", "heartbeat"},
           q.from = a, q.st = "sent", A!CallWhole(q),
           q.id \in {None, agent[a].mem.id}, q.kind # "enroll" => q.id = agent[a].mem.id,
           q.kind = "boot" => q.key = agent[a].mem.key /\ q.key # 0
    PROVE  A!AgentInv'
<1> DEFINE p == [agent[a] EXCEPT !.pc = q.kind, !.wait = c]
<1>0. /\ A!AgentTypeOK /\ A!CallsWhole /\ A!AgentsWhole /\ A!NodesApart /\ A!AnswersHold /\ A!TokensSpent
      /\ A!ClaimsHold /\ A!EditsHold /\ A!AgentMatchesHub /\ A!ForwardsAsTold
  BY DEF A!AgentInv
<1>1. /\ p \in A!Agent /\ p.pc = q.kind /\ p.wait = c /\ p.mem = agent[a].mem
      /\ p.disk = agent[a].disk /\ p.listens = agent[a].listens
  <2>1. agent[a] \in A!Agent /\ q.kind \in {"off"} \union A!Joining \union A!Forwarding
    BY AgentKnown DEF A!Joining, A!Forwarding
  <2> QED
    BY <2>1 DEF A!Agent
<1>2. agent' = [agent EXCEPT ![a] = p]
  BY AgentKnown DEF A!Agent
<1> HIDE DEF p
<1>3. agent' \in [Agents -> A!Agent] /\ \A b \in Agents : agent'[b] = IF b = a THEN p ELSE agent[b]
  BY <1>1, <1>2, AgentKnown
<1>4. call' \in [Handlers -> A!Call] /\ \A d \in Handlers : call'[d] = IF d = c THEN q ELSE call[d]
  BY <1>0 DEF A!AgentTypeOK
<1>5. A!AgentTypeOK'
  BY <1>0, <1>3, <1>4 DEF A!AgentTypeOK, HubStays, A!Destinations
<1>6. A!CallsWhole'
  BY <1>0, <1>4 DEF A!CallsWhole, A!CallWhole
<1>7. \A b \in Agents : b # a /\ agent[b].wait # None =>
        agent[b].wait \in Handlers /\ call'[agent[b].wait] = call[agent[b].wait]
  <2> SUFFICES ASSUME NEW b \in Agents, b # a, agent[b].wait # None
               PROVE  agent[b].wait \in Handlers /\ call'[agent[b].wait] = call[agent[b].wait]
    OBVIOUS
  <2>1. agent[b].wait \in Handlers
    BY AgentKnown
  <2>2. call[agent[b].wait].from = b
    BY <1>0 DEF A!AgentsWhole, A!AgentWhole
  <2> QED
    BY <1>4, <2>1, <2>2, AgentBlanks DEF A!AgentAssumption
<1>8. A!AgentsWhole'
  <2> SUFFICES ASSUME NEW b \in Agents PROVE A!AgentWhole(b, agent[b])'
    BY DEF A!AgentsWhole
  <2>1. CASE b = a
    <3>1. A!AgentWhole(a, agent[a])
      BY AgentKnown
    <3>2. agent'[a] = p /\ call'[c] = q /\ p.wait # None
      BY <1>1, <1>3, <1>4 DEF A!AgentAssumption
    <3>3. /\ p.pc \in A!Waiting
          /\ p.pc \in A!Joining => agent[a].pc \in A!Joining
          /\ p.pc \in A!Forwarding => agent[a].pc \in A!Forwarding
      BY <1>1 DEF A!Waiting, A!Joining, A!Forwarding
    <3> QED
      BY <1>1, <2>1, <3>1, <3>2, <3>3 DEF A!AgentWhole
  <2>2. CASE b # a
    <3>1. A!AgentWhole(b, agent[b])
      BY <1>0 DEF A!AgentsWhole
    <3> QED
      BY <1>3, <1>7, <2>2, <3>1 DEF A!AgentWhole
  <2> QED
    BY <2>1, <2>2
<1>9. \A n \in Nodes, b \in Agents : A!KnownTo(n, b)' => A!KnownTo(n, b)
  BY <1>1, <1>3, <1>4 DEF A!KnownTo, A!AgentAssumption
<1>10. A!NodesApart'
  BY <1>0, <1>9 DEF A!NodesApart, HubStays
<1>11. \A n : A!Targets(n)' = A!Targets(n)
  BY DEF A!Targets, HubStays
<1>12. A!AnswersHold'
  <2> SUFFICES ASSUME NEW b \in Agents PROVE A!AnswerHolds(agent[b])'
    BY DEF A!AnswersHold
  <2>1. CASE b = a
    BY <1>1, <1>3, <1>4, <2>1 DEF A!AnswerHolds
  <2>2. CASE b # a
    <3>1. A!AnswerHolds(agent[b])
      BY <1>0 DEF A!AnswersHold
    <3> QED
      BY <1>3, <1>7, <1>11, <2>2, <3>1 DEF A!AnswerHolds, HubStays
  <2> QED
    BY <2>1, <2>2
<1>13. A!TokensSpent'
  BY <1>0 DEF A!TokensSpent, A!Spent, HubStays
<1>14. A!AgentMatchesHub'
  BY <1>0, <1>1, <1>3 DEF A!AgentMatchesHub, HubStays, A!provisioned
<1>15. A!ForwardsAsTold'
  BY <1>0, <1>1, <1>3, <1>11 DEF A!ForwardsAsTold
<1>16. A!ClaimsHold' /\ A!EditsHold'
  BY <1>0, <1>4 DEF A!ClaimsHold, A!ClaimHolds, A!EditsHold, A!EditHolds, HubStays
<1> QED
  BY <1>5, <1>6, <1>8, <1>10, <1>12, <1>13, <1>14, <1>15, <1>16 DEF A!AgentInv

\* The request for an identity.
LEMMA EnrollKeeps ==
    ASSUME A!AgentAssumption, A!AgentInv, NEW a \in Agents, NEW t \in Tokens, A!Enroll(a, t)
    PROVE  A!AgentInv'
<1> DEFINE r == [A!NoCall EXCEPT !.kind = "enroll", !.token = t]
           q == [r EXCEPT !.from = a, !.st = "sent"]
<1>1. PICK c \in Handlers :
        /\ call[c] = A!NoCall /\ call' = [call EXCEPT ![c] = q]
        /\ agent' = [agent EXCEPT ![a].pc = r.kind, ![a].wait = c]
  BY DEF A!Enroll, A!Send
<1>2. /\ q \in A!Call /\ q.kind = "enroll" /\ q.from = a /\ q.st = "sent" /\ q.token = t
      /\ q.id = None /\ r.kind = "enroll"
  BY AgentBlanks DEF A!NoCall, A!Call, A!Waiting
<1>3. A!CallWhole(q)
  BY <1>2 DEF A!CallWhole
<1>4. agent[a].pc = "step" /\ HubStays /\ pairs' = pairs /\ outdated' = outdated
  BY DEF A!Enroll, A!hub, HubStays
<1> HIDE DEF q, r
<1> QED
  BY <1>1, <1>2, <1>3, <1>4, AgentSends

\* The request that announces the key.
LEMMA SelfBootstrapKeeps ==
    ASSUME A!AgentAssumption, A!AgentInv, NEW a \in Agents, A!SelfBootstrap(a)
    PROVE  A!AgentInv'
<1> DEFINE r == [A!NoCall EXCEPT !.kind = "boot", !.id = agent[a].mem.id, !.hb = agent[a].mem.hb,
                               !.key = agent[a].mem.key]
           q == [r EXCEPT !.from = a, !.st = "sent"]
<1>1. PICK c \in Handlers :
        /\ call[c] = A!NoCall /\ call' = [call EXCEPT ![c] = q]
        /\ agent' = [agent EXCEPT ![a].pc = r.kind, ![a].wait = c]
  BY DEF A!SelfBootstrap, A!Send
<1>2. /\ agent[a].mem.id \in Nodes \union {None} /\ agent[a].mem.hb \in Nodes \union {None}
      /\ agent[a].mem.key \in Nat
  BY AgentKnown, AgentFields
<1>3. /\ q \in A!Call /\ q.kind = "boot" /\ q.from = a /\ q.st = "sent"
      /\ q.id = agent[a].mem.id /\ q.key = agent[a].mem.key /\ r.kind = "boot"
  BY <1>2, AgentBlanks DEF A!NoCall, A!Call, A!Waiting
<1>4. /\ agent[a].pc = "step" /\ agent[a].mem.id # None /\ agent[a].mem.key # 0
      /\ HubStays /\ pairs' = pairs /\ outdated' = outdated
  BY DEF A!SelfBootstrap, A!hub, HubStays
<1> HIDE DEF q, r
<1>5. A!CallWhole(q)
  BY <1>2, <1>3, <1>4 DEF A!CallWhole
<1> QED
  BY <1>1, <1>3, <1>4, <1>5, AgentSends

\* The requests of a provisioned agent.
LEMMA AskKeeps ==
    ASSUME A!AgentAssumption, A!AgentInv, NEW a \in Agents, NEW kind \in {"targets", "heartbeat"},
           A!Ask(a, kind)
    PROVE  A!AgentInv'
<1> DEFINE r == [A!NoCall EXCEPT !.kind = kind, !.id = agent[a].mem.id, !.hb = agent[a].mem.hb]
           q == [r EXCEPT !.from = a, !.st = "sent"]
<1>1. PICK c \in Handlers :
        /\ call[c] = A!NoCall /\ call' = [call EXCEPT ![c] = q]
        /\ agent' = [agent EXCEPT ![a].pc = r.kind, ![a].wait = c]
  BY DEF A!Ask, A!Send
<1>2. agent[a].mem.id \in Nodes \union {None} /\ agent[a].mem.hb \in Nodes \union {None}
  BY AgentKnown, AgentFields
<1>3. /\ q \in A!Call /\ q.kind = kind /\ q.from = a /\ q.st = "sent"
      /\ q.id = agent[a].mem.id /\ r.kind = kind
  BY <1>2, AgentBlanks DEF A!NoCall, A!Call, A!Waiting
<1>4. /\ agent[a].pc = "refresh" /\ HubStays /\ pairs' = pairs /\ outdated' = outdated
  BY DEF A!Ask, A!hub, HubStays
<1>5. agent[a].mem.id \in Nodes
  BY <1>4, AgentKnown DEF A!AgentWhole, A!Forwarding
<1> HIDE DEF q, r
<1>6. A!CallWhole(q)
  BY <1>3, <1>5 DEF A!CallWhole
<1> QED
  BY <1>1, <1>3, <1>4, <1>6, AgentSends

-----------------------------------------------------------------------------
(* Steps of the hub.                                                       *)

\* What is known of a request before a step.
LEMMA CallKnown ==
    ASSUME A!AgentAssumption, A!AgentInv, NEW c \in Handlers, call[c].st # "free"
    PROVE  /\ call \in [Handlers -> A!Call] /\ call[c] \in A!Call /\ A!CallWhole(call[c])
           /\ call[c].kind # "none" /\ call[c].from \in Agents
           /\ \A b \in Agents : agent[b].wait = c => b = call[c].from /\ A!Awaited(c)
<1>1. call \in [Handlers -> A!Call] /\ call[c] \in A!Call /\ A!CallWhole(call[c])
  BY DEF A!AgentInv, A!AgentTypeOK, A!CallsWhole
<1>2. call[c].kind # "none" /\ call[c].from \in Agents
  BY <1>1, AgentBlanks DEF A!CallWhole
<1>3. ASSUME NEW b \in Agents, agent[b].wait = c
      PROVE  b = call[c].from /\ A!Awaited(c)
  <2>1. A!AgentWhole(b, agent[b]) /\ c # None
    BY AgentKnown DEF A!AgentAssumption
  <2> QED
    BY <1>3, <2>1 DEF A!AgentWhole, A!Awaited
<1> QED
  BY <1>1, <1>2, <1>3

\* The request q becomes of call[c] when it keeps its sender and its subject.
SameRequest(c, q) ==
    /\ q \in A!Call /\ A!CallWhole(q)
    /\ q.kind = call[c].kind /\ q.from = call[c].from /\ q.key = call[c].key /\ q.id = call[c].id

\* A request is answered, or goes on, and the nodes keep their keys.
LEMMA CallMoves ==
    ASSUME A!AgentAssumption, A!AgentInv, NEW c \in Handlers, NEW q, call[c].st # "free",
           call' = [call EXCEPT ![c] = q],
           \/ q = A!NoCall /\ ~A!Awaited(c)
           \/ SameRequest(c, q),
           q.kind = "boot" => ~(q.st = "done" /\ q.code = 200),
           q.kind = "targets" /\ q.st = "done" /\ q.code = 200 => q.targets = A!Targets(q.id),
           A!ClaimHolds(q),
           row' \in [Nodes -> A!Node],
           \A n \in Nodes : /\ row'[n].st = row[n].st /\ row'[n].key = row[n].key
                            /\ row'[n].psk = row[n].psk,
           UNCHANGED <<token, service, ready, agent, edit, pairs, changes, born, touched, revoked,
                       outdated>>
    PROVE  A!AgentInv'
<1>0. /\ A!AgentTypeOK /\ A!CallsWhole /\ A!AgentsWhole /\ A!NodesApart /\ A!AnswersHold /\ A!TokensSpent
      /\ A!ClaimsHold /\ A!EditsHold /\ A!AgentMatchesHub /\ A!ForwardsAsTold
  BY DEF A!AgentInv
<1>1. q \in A!Call /\ A!CallWhole(q)
  BY AgentBlanks DEF SameRequest, A!CallWhole
<1>2. call' \in [Handlers -> A!Call] /\ \A d \in Handlers : call'[d] = IF d = c THEN q ELSE call[d]
  BY <1>1, CallKnown
<1>3. A!AgentTypeOK'
  BY <1>0, <1>2 DEF A!AgentTypeOK, A!Destinations
<1>4. A!CallsWhole'
  BY <1>0, <1>1, <1>2 DEF A!CallsWhole, A!CallWhole
<1>5. \A b \in Agents : agent[b].wait # None =>
        /\ agent[b].wait \in Handlers
        /\ IF agent[b].wait = c THEN call'[agent[b].wait] = q /\ SameRequest(c, q)
           ELSE call'[agent[b].wait] = call[agent[b].wait]
  BY <1>2, CallKnown, AgentKnown
<1>6. A!AgentsWhole'
  <2> SUFFICES ASSUME NEW b \in Agents PROVE A!AgentWhole(b, agent[b])'
    BY DEF A!AgentsWhole
  <2>1. A!AgentWhole(b, agent[b])
    BY <1>0 DEF A!AgentsWhole
  <2> QED
    BY <1>5, <2>1 DEF A!AgentWhole, SameRequest
<1>7. \A n \in Nodes, b \in Agents : A!KnownTo(n, b)' => A!KnownTo(n, b)
  <2> SUFFICES ASSUME NEW n \in Nodes, NEW b \in Agents, A!KnownTo(n, b)'
               PROVE  A!KnownTo(n, b)
    OBVIOUS
  <2>1. CASE agent[b].mem.id = n \/ agent[b].disk.id = n
    BY <2>1 DEF A!KnownTo
  <2>2. ASSUME NEW d \in Handlers, call'[d].from = b, call'[d].id = n
        PROVE  A!KnownTo(n, b)
    BY <1>2, <2>2, AgentBlanks DEF A!KnownTo, SameRequest, A!AgentAssumption
  <2> QED
    BY <2>1, <2>2 DEF A!KnownTo
<1>8. A!NodesApart'
  BY <1>0, <1>7 DEF A!NodesApart
<1>9. \A n : A!Targets(n)' = A!Targets(n)
  BY DEF A!Targets
<1>10. A!AnswersHold'
  <2> SUFFICES ASSUME NEW b \in Agents, agent[b].wait # None PROVE A!AnswerHolds(agent[b])'
    BY DEF A!AnswersHold, A!AnswerHolds
  <2>1. A!AnswerHolds(agent[b])
    BY <1>0 DEF A!AnswersHold
  <2>2. CASE agent[b].wait = c
    <3>1. call'[agent[b].wait] = q
      BY <1>5, <2>2
    <3> QED
      BY <1>9, <3>1 DEF A!AnswerHolds
  <2>3. CASE agent[b].wait # c
    <3>1. call'[agent[b].wait] = call[agent[b].wait] /\ A!CallWhole(call[agent[b].wait])
      BY <1>0, <1>5, <2>3 DEF A!CallsWhole
    <3>2. call[agent[b].wait].kind = "boot" => call[agent[b].wait].id \in Nodes
      BY <3>1 DEF A!CallWhole
    <3> QED
      BY <1>9, <2>1, <3>1, <3>2 DEF A!AnswerHolds
  <2> QED
    BY <2>2, <2>3
<1>11. A!TokensSpent'
  BY <1>0 DEF A!TokensSpent, A!Spent
<1>12. A!AgentMatchesHub'
  <2>1. \A b \in Agents : A!provisioned(agent[b].disk) => agent[b].disk.id \in Nodes
    BY AgentKnown DEF A!provisioned, A!State
  <2> QED
    BY <1>0, <2>1 DEF A!AgentMatchesHub, A!AgentTypeOK, A!provisioned
<1>13. A!ForwardsAsTold'
  BY <1>0, <1>9 DEF A!ForwardsAsTold
<1>14. A!ClaimsHold'
  BY <1>0, <1>2 DEF A!ClaimsHold, A!ClaimHolds
<1>15. A!EditsHold'
  BY <1>0 DEF A!EditsHold, A!EditHolds
<1> QED
  BY <1>3, <1>4, <1>6, <1>8, <1>10, <1>11, <1>12, <1>13, <1>14, <1>15 DEF A!AgentInv

\* Nothing but requests, and the last sign of life of nodes, changes.
OnlyCalls ==
    /\ row' \in [Nodes -> A!Node]
    /\ \A n \in Nodes : /\ row'[n].st = row[n].st /\ row'[n].key = row[n].key
                        /\ row'[n].psk = row[n].psk
    /\ UNCHANGED <<token, service, ready, agent, edit, pairs, changes, born, touched, revoked,
                   outdated>>

\* An answer with a code and nothing else.
LEMMA CodeMoves ==
    ASSUME A!AgentAssumption, A!AgentInv, NEW c \in Handlers, NEW code \in Nat, call[c].st # "free",
           A!Reply(c, A!Code(c, code)), OnlyCalls,
           call[c].kind \in {"boot", "targets"} => code # 200
    PROVE  A!AgentInv'
<1> DEFINE f == [A!Code(c, code) EXCEPT !.st = "done"]
           q == IF A!Awaited(c) THEN f ELSE A!NoCall
<1>1. call[c] \in A!Call /\ A!CallWhole(call[c]) /\ call[c].kind # "none"
  BY CallKnown
<1>2. /\ f \in A!Call /\ f.kind = call[c].kind /\ f.from = call[c].from /\ f.key = call[c].key
      /\ f.id = call[c].id /\ f.token = call[c].token /\ f.st = "done" /\ f.code = code
  BY <1>1 DEF A!Code, A!Call
<1>3. call' = [call EXCEPT ![c] = q]
  BY DEF A!Reply
<1> HIDE DEF f
<1>4. SameRequest(c, f)
  BY <1>1, <1>2 DEF SameRequest, A!CallWhole
<1>5. \/ q = A!NoCall /\ ~A!Awaited(c)
      \/ SameRequest(c, q)
  BY <1>4
<1>6. /\ q.kind = "boot" => ~(q.st = "done" /\ q.code = 200)
      /\ q.kind = "targets" /\ q.st = "done" /\ q.code = 200 => q.targets = A!Targets(q.id)
      /\ A!ClaimHolds(q)
  BY <1>2, AgentBlanks DEF A!ClaimHolds
<1> HIDE DEF q
<1> QED
  BY <1>3, <1>5, <1>6, CallMoves DEF OnlyCalls

\* loadNode and authorizeNodeHeartbeat answer 404, 401 or nothing.
LEMMA DeniedCode ==
    ASSUME NEW c
    PROVE  A!Denied(c) \in {0, 401, 404}
  BY DEF A!Denied

\* A request that has been checked, or has loaded its node, goes on.
LEMMA CheckedMoves ==
    ASSUME A!AgentAssumption, A!AgentInv, NEW c \in Handlers, NEW q \in A!Call, call[c].st # "free",
           call' = [call EXCEPT ![c] = q], q.st \in {"checked", "loaded"},
           q.kind = call[c].kind, q.from = call[c].from, q.key = call[c].key, q.id = call[c].id,
           q.token = call[c].token,
           q.st = "loaded" => call[c].kind = "boot" /\ q.row.st = "live",
           call[c].kind = "enroll" => q.single = token[call[c].token].single,
           OnlyCalls
    PROVE  A!AgentInv'
<1>1. call[c] \in A!Call /\ A!CallWhole(call[c]) /\ call[c].kind # "none"
  BY CallKnown
<1>2. SameRequest(c, q) /\ A!ClaimHolds(q)
  BY <1>1 DEF SameRequest, A!CallWhole, A!ClaimHolds
<1> QED
  BY <1>2, CallMoves DEF OnlyCalls

\* handleEnrollNode up to the transaction.
LEMMA EnrollCheckKeeps ==
    ASSUME A!AgentAssumption, A!AgentInv, NEW c \in Handlers, A!EnrollCheck(c)
    PROVE  A!AgentInv'
<1> DEFINE b == token[call[c].token].single
<1>1. call[c].kind = "enroll" /\ call[c].st # "free" /\ OnlyCalls
  BY DEF A!EnrollCheck, A!hub, OnlyCalls, A!AgentInv, A!AgentTypeOK
<1>2. CASE \E code \in Nat : A!Reply(c, A!Code(c, code))
  BY <1>1, <1>2, CodeMoves
<1>3. CASE call' = [call EXCEPT ![c].st = "checked", ![c].single = b]
  <2>1. /\ call[c] \in A!Call /\ call[c].row \in A!Node /\ call \in [Handlers -> A!Call]
        /\ call[c].token \in Tokens
    BY <1>1, CallKnown, AgentFields DEF A!CallWhole
  <2>2. b \in BOOLEAN
    BY <2>1 DEF A!AgentInv, A!AgentTypeOK, A!Token
  <2> DEFINE q == [call[c] EXCEPT !.st = "checked", !.single = b]
  <2>3. call' = [call EXCEPT ![c] = q]
    BY <1>3, <2>1 DEF A!Call
  <2> HIDE DEF b
  <2>4. /\ q \in A!Call /\ q.kind = call[c].kind /\ q.from = call[c].from /\ q.key = call[c].key
        /\ q.id = call[c].id /\ q.token = call[c].token /\ q.st = "checked" /\ q.single = b
    BY <2>1, <2>2 DEF A!Call
  <2> HIDE DEF q
  <2> QED
    BY <1>1, <2>3, <2>4, CheckedMoves DEF b
<1> QED
  BY <1>2, <1>3 DEF A!EnrollCheck

\* An error of the database, or a limit.
LEMMA FailsKeeps ==
    ASSUME A!AgentAssumption, A!AgentInv, NEW c \in Handlers, NEW code \in {429, 500}, A!Fails(c,
           code)
    PROVE  A!AgentInv'
<1>1. call[c].st # "free" /\ OnlyCalls /\ A!Reply(c, A!Code(c, code))
  BY DEF A!Fails, A!hub, OnlyCalls, A!AgentInv, A!AgentTypeOK
<1> QED
  BY <1>1, CodeMoves

\* An answer nobody waits for.
LEMMA DiscardKeeps ==
    ASSUME A!AgentAssumption, A!AgentInv, NEW c \in Handlers, A!Discard(c)
    PROVE  A!AgentInv'
<1>1. /\ call[c].st # "free" /\ ~A!Awaited(c) /\ OnlyCalls
      /\ call' = [call EXCEPT ![c] = A!NoCall]
  BY DEF A!Discard, A!hub, OnlyCalls, A!AgentInv, A!AgentTypeOK
<1> QED
  BY <1>1, CallMoves, AgentBlanks DEF OnlyCalls, A!ClaimHolds

\* handleNodeTunnelTargets answers with the services of now.
LEMMA TargetsServeKeeps ==
    ASSUME A!AgentAssumption, A!AgentInv, NEW c \in Handlers, A!TargetsServe(c)
    PROVE  A!AgentInv'
<1>1. call[c].kind = "targets" /\ call[c].st # "free" /\ OnlyCalls
  BY DEF A!TargetsServe, A!hub, OnlyCalls, A!AgentInv, A!AgentTypeOK
<1>2. CASE A!Denied(c) # 0
  BY <1>1, <1>2, CodeMoves, DeniedCode DEF A!TargetsServe
<1>3. CASE A!Denied(c) = 0
  <2> DEFINE T == A!Targets(call[c].id)
             r == [call[c].row EXCEPT !.seen = TRUE]
             ok == 200
             g == [call[c] EXCEPT !.code = ok, !.targets = T]
             f == [g EXCEPT !.row = r, !.st = "done"]
             q == IF A!Awaited(c) THEN f ELSE A!NoCall
  <2>1. call[c] \in A!Call /\ A!CallWhole(call[c]) /\ call[c].kind # "none"
    BY <1>1, CallKnown
  <2>2. T \in A!Listeners
    BY TargetsType DEF A!AgentInv
  <2>k. ok \in Nat
    OBVIOUS
  <2> HIDE DEF T
  <2>3. call' = [call EXCEPT ![c] = q]
    <3>1. A!Reply(c, [A!Code(c, 200) EXCEPT !.targets = T, !.row.seen = TRUE])
      BY <1>3 DEF A!TargetsServe, T
    <3>2. [[A!Code(c, 200) EXCEPT !.targets = T, !.row.seen = TRUE] EXCEPT !.st = "done"] = f
      BY <2>1 DEF A!Code, A!Call
    <3> QED
      BY <3>1, <3>2 DEF A!Reply
  <2>r. r \in A!Node
    BY <2>1, AgentFields DEF A!Node
  <2> HIDE DEF r, ok
  <2>4. /\ f \in A!Call /\ f.kind = call[c].kind /\ f.from = call[c].from /\ f.key = call[c].key
        /\ f.id = call[c].id /\ f.token = call[c].token /\ f.st = "done" /\ f.targets = T
    <3>1. /\ g \in A!Call /\ g.kind = call[c].kind /\ g.from = call[c].from /\ g.key = call[c].key
          /\ g.id = call[c].id /\ g.token = call[c].token /\ g.targets = T
      BY <2>1, <2>2, <2>k DEF A!Call
    <3> HIDE DEF g
    <3> QED
      BY <2>r, <3>1 DEF A!Call
  <2> HIDE DEF f
  <2>5. SameRequest(c, f)
    BY <2>1, <2>4 DEF SameRequest, A!CallWhole
  <2>6. /\ (q = A!NoCall /\ ~A!Awaited(c)) \/ SameRequest(c, q)
        /\ q.kind = "boot" => ~(q.st = "done" /\ q.code = 200)
        /\ q.kind = "targets" /\ q.st = "done" /\ q.code = 200 => q.targets = A!Targets(q.id)
        /\ A!ClaimHolds(q)
    BY <1>1, <2>4, <2>5, AgentBlanks DEF T, A!ClaimHolds
  <2> HIDE DEF q
  <2> QED
    BY <1>1, <2>3, <2>6, CallMoves DEF OnlyCalls
<1> QED
  BY <1>2, <1>3

\* handleHeartbeatNode up to the write.
LEMMA HeartbeatLoadKeeps ==
    ASSUME A!AgentAssumption, A!AgentInv, NEW c \in Handlers, A!HeartbeatLoad(c)
    PROVE  A!AgentInv'
<1>1. call[c].kind = "heartbeat" /\ call[c].st # "free" /\ OnlyCalls
  BY DEF A!HeartbeatLoad, A!hub, OnlyCalls, A!AgentInv, A!AgentTypeOK
<1>2. CASE A!Denied(c) # 0
  BY <1>1, <1>2, CodeMoves, DeniedCode DEF A!HeartbeatLoad
<1>3. CASE A!Denied(c) = 0
  <2>1. call[c] \in A!Call /\ call \in [Handlers -> A!Call] /\ A!CallWhole(call[c])
    BY <1>1, CallKnown
  <2>2. row[call[c].id] \in A!Node
    BY <1>1, <2>1 DEF A!CallWhole, A!AgentInv, A!AgentTypeOK
  <2> DEFINE q == [call[c] EXCEPT !.st = "checked", !.row = row[call[c].id]]
  <2>3. call' = [call EXCEPT ![c] = q]
    BY <1>3, <2>1 DEF A!HeartbeatLoad, A!Call
  <2>4. /\ q \in A!Call /\ q.kind = call[c].kind /\ q.from = call[c].from /\ q.key = call[c].key
        /\ q.id = call[c].id /\ q.token = call[c].token /\ q.st = "checked"
    BY <2>1, <2>2 DEF A!Call
  <2> HIDE DEF q
  <2> QED
    BY <1>1, <2>3, <2>4, CheckedMoves
<1> QED
  BY <1>2, <1>3

\* UpdateHeartbeat does not touch the identity and the keys of the node.
LEMMA HeartbeatWriteKeeps ==
    ASSUME A!AgentAssumption, A!AgentInv, NEW c \in Handlers, A!HeartbeatWrite(c)
    PROVE  A!AgentInv'
<1>1. /\ call[c].kind = "heartbeat" /\ call[c].st # "free"
      /\ UNCHANGED <<token, service, ready, agent, edit, pairs, changes, born, touched, revoked,
                     outdated>>
  BY DEF A!HeartbeatWrite
<1>2. row \in [Nodes -> A!Node] /\ call[c].id \in Nodes
  BY <1>1, CallKnown DEF A!CallWhole, A!AgentInv, A!AgentTypeOK
<1>3. OnlyCalls
  <2>1. CASE row[call[c].id].st # "live"
    BY <1>1, <1>2, <2>1 DEF OnlyCalls, A!HeartbeatWrite
  <2>2. CASE row[call[c].id].st = "live"
    <3> DEFINE n == call[c].id
               r == [row[n] EXCEPT !.seen = TRUE]
    <3>1. row' = [row EXCEPT ![n] = r]
      BY <2>2 DEF A!HeartbeatWrite, A!UpdateHeartbeat
    <3>2. r \in A!Node /\ r.st = row[n].st /\ r.key = row[n].key /\ r.psk = row[n].psk
      BY <1>2 DEF A!Node
    <3> HIDE DEF r
    <3> QED
      BY <1>1, <1>2, <3>1, <3>2 DEF OnlyCalls
  <2> QED
    BY <2>1, <2>2
<1>4. \E code \in Nat : A!Reply(c, A!Code(c, code))
  BY DEF A!HeartbeatWrite
<1> QED
  BY <1>1, <1>3, <1>4, CodeMoves

\* A node of a request of agent x is known to no other agent.
LEMMA KnownBySender ==
    ASSUME A!AgentAssumption, A!AgentInv, NEW c \in Handlers, NEW n \in Nodes, NEW x \in Agents,
           call[c].from = x, call[c].id = n
    PROVE  /\ row[n].st # "new"
           /\ \A b \in Agents : A!KnownTo(n, b) => b = x
<1>1. A!KnownTo(n, x)
  BY DEF A!KnownTo
<1> QED
  BY <1>1 DEF A!AgentInv, A!NodesApart

\* Outrun marks the updates of one node and leaves the others.
LEMMA OutrunIs ==
    ASSUME A!AgentTypeOK, NEW n
    PROVE  /\ A!Outrun(n) \in [Editors -> A!Edit]
           /\ \A e \in Editors :
                /\ A!Outrun(n)[e].kind = edit[e].kind /\ A!Outrun(n)[e].id = edit[e].id
                /\ A!Outrun(n)[e].row = edit[e].row
                /\ IF edit[e].id = n THEN A!Outrun(n)[e].overtaken ELSE A!Outrun(n)[e] = edit[e]
<1> SUFFICES ASSUME NEW e \in Editors
             PROVE  /\ A!Outrun(n)[e] \in A!Edit
                    /\ A!Outrun(n)[e].kind = edit[e].kind /\ A!Outrun(n)[e].id = edit[e].id
                    /\ A!Outrun(n)[e].row = edit[e].row
                    /\ IF edit[e].id = n THEN A!Outrun(n)[e].overtaken ELSE A!Outrun(n)[e] = edit[e]
  BY DEF A!Outrun
<1>1. edit[e] \in A!Edit
  BY DEF A!AgentTypeOK
<1>2. A!Outrun(n)[e] = IF edit[e].id = n THEN [edit[e] EXCEPT !.overtaken = TRUE] ELSE edit[e]
  BY DEF A!Outrun
<1> QED
  BY <1>1, <1>2 DEF A!Edit

\* BootstrapNode has written the key and a new preshared key.
LEMMA Served ==
    ASSUME A!AgentAssumption, A!AgentInv, NEW c \in Handlers, NEW q, NEW r \in A!Node,
           call[c].st = "loaded", call[c].kind = "boot",
           call' = [call EXCEPT ![c] = q],
           \/ q = A!NoCall /\ ~A!Awaited(c)
           \/ SameRequest(c, q) /\ q.st = "done" /\ (q.code = 200 => q.psk = pairs + 1),
           row[call[c].id].st = "live",
           row' = [row EXCEPT ![call[c].id] = r],
           r.st = "live", r.key = call[c].key, r.psk = pairs + 1,
           edit' = A!Outrun(call[c].id),
           revoked' = revoked \ {call[c].id},
           touched' = IF A!Awaited(c) THEN touched \ {call[c].id} ELSE touched \union {call[c].id},
           pairs' = pairs + 1,
           UNCHANGED <<token, service, ready, agent, changes, born, outdated>>
    PROVE  A!AgentInv'
<1> DEFINE n == call[c].id
           x == call[c].from
<1>0. /\ A!AgentTypeOK /\ A!CallsWhole /\ A!AgentsWhole /\ A!NodesApart /\ A!AnswersHold /\ A!TokensSpent
      /\ A!ClaimsHold /\ A!EditsHold /\ A!AgentMatchesHub /\ A!ForwardsAsTold
  BY DEF A!AgentInv
<1>1. q \in A!Call /\ A!CallWhole(q)
  BY AgentBlanks DEF SameRequest, A!CallWhole
<1>2. call' \in [Handlers -> A!Call] /\ \A d \in Handlers : call'[d] = IF d = c THEN q ELSE call[d]
  BY <1>1, CallKnown
<1>3. n \in Nodes /\ x \in Agents /\ call[c].key \in Nat
  BY CallKnown, AgentFields DEF A!CallWhole
<1>4. \A b \in Agents : A!KnownTo(n, b) => b = x
  BY <1>3, KnownBySender
<1>5. row \in [Nodes -> A!Node] /\ pairs \in Nat /\ touched \subseteq Nodes /\ revoked \subseteq Nodes
  BY <1>0 DEF A!AgentTypeOK
<1>6. /\ row' \in [Nodes -> A!Node]
      /\ row'[n].st = row[n].st /\ row'[n].key = call[c].key /\ row'[n].psk = pairs + 1
      /\ \A m \in Nodes : m # n => row'[m] = row[m]
  BY <1>3, <1>5
<1>e. /\ edit' \in [Editors -> A!Edit]
      /\ \A e \in Editors :
           /\ edit'[e].kind = edit[e].kind /\ edit'[e].id = edit[e].id /\ edit'[e].row = edit[e].row
           /\ IF edit[e].id = n THEN edit'[e].overtaken ELSE edit'[e] = edit[e]
  BY <1>0, OutrunIs
<1>7. A!AgentTypeOK'
  BY <1>0, <1>2, <1>3, <1>5, <1>6, <1>e DEF A!AgentTypeOK, A!Destinations
<1>8. A!CallsWhole'
  BY <1>0, <1>1, <1>2 DEF A!CallsWhole, A!CallWhole
<1>9. \A b \in Agents : agent[b].wait # None =>
        /\ agent[b].wait \in Handlers
        /\ IF agent[b].wait = c
           THEN call'[agent[b].wait] = q /\ SameRequest(c, q) /\ b = x /\ A!Awaited(c)
                /\ (q.code = 200 => q.psk = pairs + 1)
           ELSE call'[agent[b].wait] = call[agent[b].wait]
  BY <1>2, CallKnown, AgentKnown
<1>10. A!AgentsWhole'
  <2> SUFFICES ASSUME NEW b \in Agents PROVE A!AgentWhole(b, agent[b])'
    BY DEF A!AgentsWhole
  <2>1. A!AgentWhole(b, agent[b])
    BY <1>0 DEF A!AgentsWhole
  <2> QED
    BY <1>9, <2>1 DEF A!AgentWhole, SameRequest
<1>11. \A m \in Nodes, b \in Agents : A!KnownTo(m, b)' => A!KnownTo(m, b)
  <2> SUFFICES ASSUME NEW m \in Nodes, NEW b \in Agents, A!KnownTo(m, b)'
               PROVE  A!KnownTo(m, b)
    OBVIOUS
  <2>1. CASE agent[b].mem.id = m \/ agent[b].disk.id = m
    BY <2>1 DEF A!KnownTo
  <2>2. ASSUME NEW d \in Handlers, call'[d].from = b, call'[d].id = m
        PROVE  A!KnownTo(m, b)
    BY <1>2, <2>2, AgentBlanks DEF A!KnownTo, SameRequest, A!AgentAssumption
  <2> QED
    BY <2>1, <2>2 DEF A!KnownTo
<1>12. A!NodesApart'
  <2>1. \A m \in Nodes : row'[m].st = row[m].st
    BY <1>6
  <2> QED
    BY <1>0, <1>11, <2>1 DEF A!NodesApart
<1>13. \A m : A!Targets(m)' = A!Targets(m)
  BY DEF A!Targets
<1>14. A!AnswersHold'
  <2> SUFFICES ASSUME NEW b \in Agents, agent[b].wait # None PROVE A!AnswerHolds(agent[b])'
    BY DEF A!AnswersHold, A!AnswerHolds
  <2>1. A!AnswerHolds(agent[b])
    BY <1>0 DEF A!AnswersHold
  <2>2. CASE agent[b].wait = c
    <3>1. /\ call'[agent[b].wait] = q /\ q.kind = "boot" /\ q.id = n /\ q.key = call[c].key
          /\ (q.code = 200 => q.psk = pairs + 1)
      BY <1>9, <2>2 DEF SameRequest
    <3> QED
      BY <1>6, <3>1 DEF A!AnswerHolds
  <2>3. CASE agent[b].wait # c
    <3> DEFINE w == call[agent[b].wait]
    <3>1. call'[agent[b].wait] = w /\ A!CallWhole(w) /\ w.from = b
      BY <1>0, <1>9, <2>3 DEF A!CallsWhole, A!AgentsWhole, A!AgentWhole
    <3>2. w.kind = "boot" => w.id \in Nodes
      BY <3>1 DEF A!CallWhole
    <3>3. CASE w.id = n
      <4>1. A!KnownTo(n, b)
        BY <1>9, <3>1, <3>3 DEF A!KnownTo
      <4>2. b = x
        BY <1>4, <4>1
      <4>3. n \in touched'
        BY <2>3, <4>2 DEF A!Awaited
      <4> QED
        BY <1>13, <2>1, <3>1, <3>3, <4>3 DEF A!AnswerHolds
    <3>4. CASE w.id # n
      <4>1. w.id \in touched' <=> w.id \in touched
        BY <3>4
      <4>2. w.kind = "boot" => row'[w.id] = row[w.id]
        BY <1>6, <3>2, <3>4
      <4>3. (w.kind = "boot" /\ w.st = "done" /\ w.code = 200 /\ row'[w.id].st = "live"
               /\ w.id \notin touched') => (row'[w.id].key = w.key /\ row'[w.id].psk = w.psk)
        BY <2>1, <4>1, <4>2 DEF A!AnswerHolds
      <4>4. w.kind = "targets" /\ w.st = "done" /\ w.code = 200 /\ w.row.seen =>
             w.targets = A!Targets(w.id)
        BY <2>1 DEF A!AnswerHolds
      <4>5. agent'[b].wait = agent[b].wait
        OBVIOUS
      <4> HIDE DEF w
      <4> QED
        BY <1>13, <3>1, <4>3, <4>4, <4>5 DEF A!AnswerHolds
    <3> QED
      BY <3>3, <3>4
  <2> QED
    BY <2>2, <2>3
<1>15. A!TokensSpent'
  BY <1>0 DEF A!TokensSpent, A!Spent
<1>16. A!AgentMatchesHub'
  <2>1. \A m \in revoked' : row'[m].key = 0
    BY <1>0, <1>5, <1>6 DEF A!AgentMatchesHub
  <2>2. ASSUME NEW b \in Agents, A!provisioned(agent[b].disk), agent[b].disk.id \notin touched',
               row'[agent[b].disk.id].st = "live"
        PROVE  /\ row'[agent[b].disk.id].key = agent[b].disk.key
               /\ row'[agent[b].disk.id].psk = agent[b].disk.psk
    <3>1. agent[b].disk.id \in Nodes
      BY <2>2, AgentKnown DEF A!provisioned, A!State
    <3>2. agent[b].disk.id # n
      <4> SUFFICES ASSUME agent[b].disk.id = n PROVE FALSE
        OBVIOUS
      <4>1. A!KnownTo(n, b)
        BY DEF A!KnownTo
      <4>2. b = x
        BY <1>4, <4>1
      <4>3. agent[x].wait = c
        BY <2>2 DEF A!Awaited
      <4>4. c # None
        BY DEF A!AgentAssumption
      <4>5. agent[x].pc = "boot"
        BY <1>3, <4>3, <4>4, AgentKnown DEF A!AgentWhole
      <4> QED
        BY <1>3, <2>2, <4>2, <4>5, AgentKnown DEF A!AgentWhole, A!Joining
    <3> QED
      BY <1>6, <2>2, <3>1, <3>2, AgentKnown
  <2> QED
    BY <2>1, <2>2 DEF A!AgentMatchesHub, A!provisioned
<1>17. A!ForwardsAsTold'
  BY <1>0, <1>13 DEF A!ForwardsAsTold
<1>18. A!ClaimsHold'
  BY <1>0, <1>2, AgentBlanks DEF A!ClaimsHold, A!ClaimHolds
<1>19. A!EditsHold'
  <2> SUFFICES ASSUME NEW e \in Editors, edit[e].kind # "none" PROVE A!EditHolds(edit[e])'
    BY <1>e DEF A!EditsHold, A!EditHolds
  <2>1. A!EditHolds(edit[e])
    BY <1>0 DEF A!EditsHold
  <2>2. CASE edit[e].id = n
    BY <1>6, <1>e, <2>1, <2>2 DEF A!EditHolds
  <2>3. CASE edit[e].id # n
    BY <1>6, <1>e, <2>1, <2>3 DEF A!EditHolds
  <2> QED
    BY <2>2, <2>3
<1> QED
  BY <1>7, <1>8, <1>10, <1>12, <1>14, <1>15, <1>16, <1>17, <1>18, <1>19 DEF A!AgentInv

\* handleNodeSelfBootstrap, refused or let through.
LEMMA AgentBootCheckKeeps ==
    ASSUME A!AgentAssumption, A!AgentInv, NEW c \in Handlers, A!BootCheck(c)
    PROVE  A!AgentInv'
<1>1. call[c].kind = "boot" /\ call[c].st # "free" /\ OnlyCalls
  BY DEF A!BootCheck, A!hub, OnlyCalls, A!AgentInv, A!AgentTypeOK
<1>2. CASE A!Denied(c) # 0
  BY <1>1, <1>2, CodeMoves, DeniedCode DEF A!BootCheck
<1>3. CASE A!Denied(c) = 0
  <2>1. call[c] \in A!Call /\ call \in [Handlers -> A!Call]
    BY <1>1, CallKnown
  <2> DEFINE q == [call[c] EXCEPT !.st = "checked"]
  <2>2. call' = [call EXCEPT ![c] = q]
    BY <1>3, <2>1 DEF A!BootCheck, A!Call
  <2>3. /\ q \in A!Call /\ q.kind = call[c].kind /\ q.from = call[c].from /\ q.key = call[c].key
        /\ q.id = call[c].id /\ q.token = call[c].token /\ q.st = "checked"
    BY <2>1 DEF A!Call
  <2> HIDE DEF q
  <2> QED
    BY <1>1, <2>2, <2>3, CheckedMoves
<1> QED
  BY <1>2, <1>3

\* BootstrapNode up to the write.
LEMMA AgentBootLoadKeeps ==
    ASSUME A!AgentAssumption, A!AgentInv, NEW c \in Handlers, A!BootLoad(c)
    PROVE  A!AgentInv'
<1>1. call[c].kind = "boot" /\ call[c].st # "free" /\ OnlyCalls
  BY DEF A!BootLoad, A!hub, OnlyCalls, A!AgentInv, A!AgentTypeOK
<1>2. CASE \E code \in {412, 500} : A!Reply(c, A!Code(c, code))
  BY <1>1, <1>2, CodeMoves
<1>3. CASE /\ row[call[c].id].st = "live"
           /\ call' = [call EXCEPT ![c].st = "loaded", ![c].row = row[call[c].id]]
  <2>1. call[c] \in A!Call /\ call \in [Handlers -> A!Call] /\ A!CallWhole(call[c])
    BY <1>1, CallKnown
  <2>2. row[call[c].id] \in A!Node
    BY <1>1, <2>1 DEF A!CallWhole, A!AgentInv, A!AgentTypeOK
  <2> DEFINE q == [call[c] EXCEPT !.st = "loaded", !.row = row[call[c].id]]
  <2>3. call' = [call EXCEPT ![c] = q]
    BY <1>3, <2>1 DEF A!Call
  <2>4. /\ q \in A!Call /\ q.kind = call[c].kind /\ q.from = call[c].from /\ q.key = call[c].key
        /\ q.id = call[c].id /\ q.token = call[c].token /\ q.st = "loaded"
        /\ q.row = row[call[c].id]
    BY <2>1, <2>2 DEF A!Call
  <2> HIDE DEF q
  <2>5. q.row.st = "live"
    BY <1>3, <2>4
  <2> QED
    BY <1>1, <2>3, <2>4, <2>5, CheckedMoves
<1> QED
  BY <1>2, <1>3 DEF A!BootLoad

\* BootstrapNode's write: answered, failed after it, or the node is gone.
LEMMA AgentBootWriteKeeps ==
    ASSUME A!AgentAssumption, A!AgentInv, NEW c \in Handlers, NEW answered \in BOOLEAN,
           A!BootWrite(c, answered)
    PROVE  A!AgentInv'
<1>1. /\ call[c].st = "loaded" /\ call[c].st # "free"
      /\ UNCHANGED <<token, service, ready, agent, changes, born, outdated>>
  BY DEF A!BootWrite
<1>k. call[c].kind = "boot"
  BY <1>1, CallKnown DEF A!CallWhole
<1>2. CASE /\ A!Reply(c, A!Code(c, 500))
           /\ UNCHANGED <<row, edit, touched, revoked, pairs>>
  <2>1. OnlyCalls
    BY <1>1, <1>2 DEF OnlyCalls, A!AgentInv, A!AgentTypeOK
  <2> QED
    BY <1>1, <1>2, <2>1, CodeMoves
<1>3. CASE /\ pairs' = pairs + 1
           /\ A!UpdateRow(call[c].id, [call[c].row EXCEPT !.key = call[c].key, !.psk = pairs + 1])
           /\ edit' = A!Outrun(call[c].id) /\ revoked' = revoked \ {call[c].id}
           /\ touched' = IF A!Awaited(c) THEN touched \ {call[c].id}
                         ELSE touched \union {call[c].id}
           /\ A!Reply(c, IF answered THEN [A!Code(c, 200) EXCEPT !.psk = pairs + 1]
                         ELSE A!Code(c, 500))
  <2> DEFINE k == pairs + 1
             w == [call[c].row EXCEPT !.key = call[c].key, !.psk = k]
             h == IF answered THEN 200 ELSE 500
             g == [call[c] EXCEPT !.code = h, !.st = "done"]
             f == IF answered THEN [g EXCEPT !.psk = k] ELSE g
             q == IF A!Awaited(c) THEN f ELSE A!NoCall
  <2>1. call[c] \in A!Call /\ A!CallWhole(call[c]) /\ call[c].kind # "none" /\ k \in Nat /\ h \in Nat
    BY <1>1, CallKnown DEF A!AgentInv, A!AgentTypeOK
  <2>2. /\ pairs' = k /\ revoked' = revoked \ {call[c].id} /\ row[call[c].id].st = "live"
        /\ row' = [row EXCEPT ![call[c].id] = w]
        /\ edit' = A!Outrun(call[c].id)
        /\ touched' = IF A!Awaited(c) THEN touched \ {call[c].id} ELSE touched \union {call[c].id}
    BY <1>3 DEF A!UpdateRow
  <2>3. call' = [call EXCEPT ![c] = q]
    <3>1. A!Reply(c, IF answered THEN [A!Code(c, h) EXCEPT !.psk = k] ELSE A!Code(c, h))
      BY <1>3
    <3> HIDE DEF k, h
    <3>2. CASE answered
      <4>1. [[A!Code(c, h) EXCEPT !.psk = k] EXCEPT !.st = "done"] = [g EXCEPT !.psk = k]
        BY <2>1, <3>2 DEF A!Code, A!Call
      <4> QED
        BY <3>1, <3>2, <4>1 DEF A!Reply
    <3>3. CASE ~answered
      <4>1. [A!Code(c, h) EXCEPT !.st = "done"] = g
        BY <2>1, <3>3 DEF A!Code, A!Call
      <4> QED
        BY <3>1, <3>3, <4>1 DEF A!Reply
    <3> QED
      BY <3>2, <3>3
  <2> HIDE DEF k, h
  <2>w. w \in A!Node /\ w.st = "live" /\ w.key = call[c].key /\ w.psk = k
    <3>1. call[c].row \in A!Node /\ call[c].row.st = "live" /\ call[c].key \in Nat
      BY <1>1, <2>1, AgentFields DEF A!CallWhole
    <3> QED
      BY <2>1, <3>1 DEF A!Node
  <2> HIDE DEF w
  <2>4. /\ g \in A!Call /\ g.kind = call[c].kind /\ g.from = call[c].from /\ g.key = call[c].key
        /\ g.id = call[c].id /\ g.token = call[c].token /\ g.code = h /\ g.st = "done"
    BY <2>1 DEF A!Call
  <2> HIDE DEF g
  <2>5. /\ f \in A!Call /\ f.kind = call[c].kind /\ f.from = call[c].from /\ f.key = call[c].key
        /\ f.id = call[c].id /\ f.token = call[c].token /\ f.st = "done"
        /\ f.code = 200 => f.psk = k
    BY <2>1, <2>4 DEF A!Call, h
  <2> HIDE DEF f
  <2>6. SameRequest(c, f)
    BY <2>1, <2>5 DEF SameRequest, A!CallWhole
  <2>7. \/ q = A!NoCall /\ ~A!Awaited(c)
        \/ SameRequest(c, q) /\ q.st = "done" /\ (q.code = 200 => q.psk = k)
    BY <2>5, <2>6
  <2> HIDE DEF q
  <2> QED
    BY <1>1, <1>k, <2>2, <2>w, <2>3, <2>7, Served DEF k
<1> QED
  BY <1>2, <1>3 DEF A!BootWrite

\* EnrollWithToken has inserted a node nobody knew.
LEMMA Inserted ==
    ASSUME A!AgentAssumption, A!AgentInv, NEW c \in Handlers, NEW n \in Nodes, NEW q,
           call[c].st # "free", call[c].kind = "enroll",
           call' = [call EXCEPT ![c] = q],
           \/ q = A!NoCall /\ ~A!Awaited(c)
           \/ /\ q \in A!Call /\ A!CallWhole(q) /\ q.kind = "enroll"
              /\ q.from = call[c].from /\ q.id = n,
           row[n].st = "new", row' = [row EXCEPT ![n].st = "live"],
           token' \in [Tokens -> A!Token], born' \in [Tokens -> SUBSET Nodes], A!TokensSpent',
           \A u \in Tokens : token'[u].row = token[u].row /\ token'[u].single = token[u].single,
           q.st # "checked",
           UNCHANGED <<service, ready, agent, edit, pairs, changes, touched, revoked, outdated>>
    PROVE  A!AgentInv'
<1> DEFINE x == call[c].from
<1>0. /\ A!AgentTypeOK /\ A!CallsWhole /\ A!AgentsWhole /\ A!NodesApart /\ A!AnswersHold
      /\ A!ClaimsHold /\ A!EditsHold /\ A!AgentMatchesHub /\ A!ForwardsAsTold
  BY DEF A!AgentInv
<1>1. q \in A!Call /\ A!CallWhole(q)
  BY AgentBlanks DEF A!CallWhole
<1>2. call' \in [Handlers -> A!Call] /\ \A d \in Handlers : call'[d] = IF d = c THEN q ELSE call[d]
  BY <1>1, CallKnown
<1>3. row \in [Nodes -> A!Node] /\ revoked \subseteq Nodes
  BY <1>0 DEF A!AgentTypeOK
<1>4. /\ row' \in [Nodes -> A!Node] /\ row'[n].st = "live" /\ row'[n].key = row[n].key
      /\ \A m \in Nodes : m # n => row'[m] = row[m]
  <2> DEFINE r == [row[n] EXCEPT !.st = "live"]
  <2>1. row' = [row EXCEPT ![n] = r]
    BY <1>3 DEF A!Node
  <2>2. r \in A!Node /\ r.st = "live" /\ r.key = row[n].key
    BY <1>3 DEF A!Node
  <2> HIDE DEF r
  <2> QED
    BY <1>3, <2>1, <2>2
<1>5. \A b \in Agents : ~A!KnownTo(n, b)
  BY <1>0 DEF A!NodesApart
<1>6. A!AgentTypeOK'
  BY <1>0, <1>2, <1>4 DEF A!AgentTypeOK, A!Destinations
<1>7. A!CallsWhole'
  BY <1>0, <1>1, <1>2 DEF A!CallsWhole, A!CallWhole
<1>8. \A b \in Agents : agent[b].wait # None =>
        /\ agent[b].wait \in Handlers
        /\ IF agent[b].wait = c
           THEN call'[agent[b].wait] = q /\ q.kind = "enroll" /\ q.from = x /\ b = x
           ELSE call'[agent[b].wait] = call[agent[b].wait]
  BY <1>2, CallKnown, AgentKnown
<1>9. A!AgentsWhole'
  <2> SUFFICES ASSUME NEW b \in Agents PROVE A!AgentWhole(b, agent[b])'
    BY DEF A!AgentsWhole
  <2>1. A!AgentWhole(b, agent[b])
    BY <1>0 DEF A!AgentsWhole
  <2> QED
    BY <1>8, <2>1 DEF A!AgentWhole
<1>10. \A m \in Nodes, b \in Agents : A!KnownTo(m, b)' => A!KnownTo(m, b) \/ (m = n /\ b = x)
  <2> SUFFICES ASSUME NEW m \in Nodes, NEW b \in Agents, A!KnownTo(m, b)'
               PROVE  A!KnownTo(m, b) \/ (m = n /\ b = x)
    OBVIOUS
  <2>1. CASE agent[b].mem.id = m \/ agent[b].disk.id = m
    BY <2>1 DEF A!KnownTo
  <2>2. ASSUME NEW d \in Handlers, call'[d].from = b, call'[d].id = m
        PROVE  A!KnownTo(m, b) \/ (m = n /\ b = x)
    BY <1>2, <2>2, AgentBlanks DEF A!KnownTo, A!AgentAssumption
  <2> QED
    BY <2>1, <2>2 DEF A!KnownTo
<1>11. A!NodesApart'
  <2> SUFFICES ASSUME NEW m \in Nodes, NEW b \in Agents, A!KnownTo(m, b)'
               PROVE  row'[m].st # "new" /\ \A d \in Agents : A!KnownTo(m, d)' => d = b
    BY DEF A!NodesApart
  <2>1. CASE m = n
    BY <1>4, <1>5, <1>10, <2>1
  <2>2. CASE m # n
    BY <1>0, <1>4, <1>10, <2>2 DEF A!NodesApart
  <2> QED
    BY <2>1, <2>2
<1>12. \A m : A!Targets(m)' = A!Targets(m)
  BY DEF A!Targets
<1>13. A!AnswersHold'
  <2> SUFFICES ASSUME NEW b \in Agents, agent[b].wait # None PROVE A!AnswerHolds(agent[b])'
    BY DEF A!AnswersHold, A!AnswerHolds
  <2>1. A!AnswerHolds(agent[b])
    BY <1>0 DEF A!AnswersHold
  <2>2. CASE agent[b].wait = c
    <3>1. call'[agent[b].wait] = q /\ q.kind = "enroll"
      BY <1>8, <2>2
    <3> QED
      BY <3>1 DEF A!AnswerHolds
  <2>3. CASE agent[b].wait # c
    <3> DEFINE w == call[agent[b].wait]
    <3>1. call'[agent[b].wait] = w /\ A!CallWhole(w) /\ w.from = b
      BY <1>0, <1>8, <2>3 DEF A!CallsWhole, A!AgentsWhole, A!AgentWhole
    <3>2. w.id # n
      BY <1>5, <1>8, <3>1 DEF A!KnownTo
    <3>3. w.kind = "boot" => row'[w.id] = row[w.id]
      BY <1>4, <3>1, <3>2 DEF A!CallWhole
    <3>4. (w.kind = "boot" /\ w.st = "done" /\ w.code = 200 /\ row'[w.id].st = "live"
             /\ w.id \notin touched') => (row'[w.id].key = w.key /\ row'[w.id].psk = w.psk)
      BY <2>1, <3>3 DEF A!AnswerHolds
    <3>5. w.kind = "targets" /\ w.st = "done" /\ w.code = 200 /\ w.row.seen =>
           w.targets = A!Targets(w.id)
      BY <2>1 DEF A!AnswerHolds
    <3> QED
      BY <1>12, <3>1, <3>4, <3>5 DEF A!AnswerHolds
  <2> QED
    BY <2>2, <2>3
<1>14. A!AgentMatchesHub'
  <2>1. \A m \in revoked' : row'[m].key = 0
    BY <1>0, <1>3, <1>4 DEF A!AgentMatchesHub
  <2>2. ASSUME NEW b \in Agents, A!provisioned(agent[b].disk), agent[b].disk.id \notin touched',
               row'[agent[b].disk.id].st = "live"
        PROVE  /\ row'[agent[b].disk.id].key = agent[b].disk.key
               /\ row'[agent[b].disk.id].psk = agent[b].disk.psk
    <3>1. agent[b].disk.id \in Nodes
      BY <2>2, AgentKnown DEF A!provisioned, A!State
    <3>2. agent[b].disk.id # n
      BY <1>5 DEF A!KnownTo
    <3> QED
      BY <1>4, <2>2, <3>1, <3>2, AgentKnown
  <2> QED
    BY <2>1, <2>2 DEF A!AgentMatchesHub, A!provisioned
<1>15. A!ForwardsAsTold'
  BY <1>0, <1>12 DEF A!ForwardsAsTold
<1>16. A!ClaimsHold'
  BY <1>0, <1>2 DEF A!ClaimsHold, A!ClaimHolds, A!CallsWhole, A!CallWhole
<1>17. A!EditsHold'
  BY <1>0, <1>4 DEF A!EditsHold, A!EditHolds
<1> QED
  BY <1>6, <1>7, <1>9, <1>11, <1>13, <1>14, <1>15, <1>16, <1>17 DEF A!AgentInv

\* EnrollWithToken: the claim decides, and the node is new to everyone.
LEMMA EnrollWithTokenKeeps ==
    ASSUME A!AgentAssumption, A!AgentInv, NEW c \in Handlers, NEW n \in Nodes,
           A!EnrollWithToken(c, n)
    PROVE  A!AgentInv'
<1> DEFINE t == call[c].token
<1>1. /\ call[c].kind = "enroll" /\ call[c].st = "checked" /\ row[n].st = "new"
      /\ UNCHANGED <<service, ready, agent, edit, pairs, changes, touched, revoked, outdated>>
  BY DEF A!EnrollWithToken
<1>2. /\ call[c] \in A!Call /\ A!CallWhole(call[c]) /\ t \in Tokens /\ call[c].kind # "none"
      /\ call[c].st # "free"
  BY <1>1, CallKnown DEF A!CallWhole
<1>s. token[t].row => call[c].single = token[t].single
  BY <1>1 DEF A!AgentInv, A!ClaimsHold, A!ClaimHolds
<1>3. CASE call[c].single /\ ~A!Claimable(t)
  <2>1. OnlyCalls
    BY <1>1, <1>3 DEF A!EnrollWithToken, OnlyCalls, A!AgentInv, A!AgentTypeOK
  <2>2. A!Reply(c, A!Code(c, 401))
    BY <1>3 DEF A!EnrollWithToken
  <2> QED
    BY <1>1, <1>2, <2>1, <2>2, CodeMoves
<1>4. CASE ~(call[c].single /\ ~A!Claimable(t))
  <2> DEFINE h == 201
             f == [call[c] EXCEPT !.code = h, !.id = n, !.hb = n, !.st = "done"]
             q == IF A!Awaited(c) THEN f ELSE A!NoCall
  <2>1. h \in Nat
    OBVIOUS
  <2>2. /\ row' = [row EXCEPT ![n].st = "live"]
        /\ born' = [born EXCEPT ![t] = @ \union {n}]
        /\ token' = IF call[c].single
                    THEN [token EXCEPT ![t].active = FALSE, ![t].used = TRUE] ELSE token
        /\ A!Reply(c, [A!Code(c, 201) EXCEPT !.id = n, !.hb = n])
    BY <1>4 DEF A!EnrollWithToken
  <2>3. call' = [call EXCEPT ![c] = q]
    <3>1. f = [[A!Code(c, 201) EXCEPT !.id = n, !.hb = n] EXCEPT !.st = "done"]
      BY <1>2 DEF A!Code, A!Call
    <3> QED
      BY <2>2, <3>1 DEF A!Reply
  <2> HIDE DEF h
  <2>4. /\ f \in A!Call /\ f.kind = "enroll" /\ f.from = call[c].from /\ f.id = n /\ f.token = t
        /\ f.st = "done"
    BY <1>1, <1>2, <2>1 DEF A!Call
  <2> HIDE DEF f
  <2>5. A!CallWhole(f)
    BY <1>1, <1>2, <2>4 DEF A!CallWhole
  <2>6. \/ q = A!NoCall /\ ~A!Awaited(c)
        \/ q \in A!Call /\ A!CallWhole(q) /\ q.kind = "enroll" /\ q.from = call[c].from /\ q.id = n
    BY <2>4, <2>5
  <2>c. q.st # "checked"
    BY <2>4, AgentBlanks
  <2> HIDE DEF q
  <2>7. token \in [Tokens -> A!Token] /\ born \in [Tokens -> SUBSET Nodes]
    BY DEF A!AgentInv, A!AgentTypeOK
  <2>8. /\ token' \in [Tokens -> A!Token]
        /\ \A u \in Tokens : u # t => token'[u] = token[u]
        /\ token'[t].row = token[t].row /\ token'[t].single = token[t].single
        /\ call[c].single => token'[t].used
    <3> DEFINE k == [token[t] EXCEPT !.active = FALSE, !.used = TRUE]
    <3>1. token[t] \in A!Token
      BY <1>2, <2>7
    <3>2. k \in A!Token /\ k.row = token[t].row /\ k.single = token[t].single /\ k.used
      BY <3>1 DEF A!Token
    <3>3. CASE call[c].single
      <4>1. token' = [token EXCEPT ![t] = k]
        BY <2>2, <2>7, <3>1, <3>3 DEF A!Token
      <4> HIDE DEF k
      <4> QED
        BY <1>2, <2>7, <3>2, <4>1
    <3>4. CASE ~call[c].single
      BY <2>2, <2>7, <3>4
    <3> QED
      BY <3>3, <3>4
  <2>9. /\ born' \in [Tokens -> SUBSET Nodes] /\ born'[t] = born[t] \union {n}
        /\ \A u \in Tokens : u # t => born'[u] = born[u]
    BY <1>2, <2>2, <2>7
  <2>10. A!TokensSpent'
    <3> SUFFICES ASSUME NEW u \in Tokens PROVE A!Spent(u)'
      BY DEF A!TokensSpent
    <3>1. A!Spent(u)
      BY DEF A!AgentInv, A!TokensSpent
    <3>2. CASE u # t
      BY <2>8, <2>9, <3>1, <3>2 DEF A!Spent
    <3>3. CASE u = t
      <4> SUFFICES ASSUME token[t].row, token[t].single
                   PROVE  born'[t] = {n} /\ token'[t].used
        BY <2>8, <3>3 DEF A!Spent
      <4>1. born[t] = {}
        BY <1>s, <1>4, <3>1, <3>3 DEF A!Spent, A!Claimable
      <4> QED
        BY <1>s, <2>8, <2>9, <4>1
    <3> QED
      BY <3>2, <3>3
  <2>11. \A u \in Tokens : token'[u].row = token[u].row /\ token'[u].single = token[u].single
    BY <2>8
  <2>12. token' \in [Tokens -> A!Token] /\ born' \in [Tokens -> SUBSET Nodes]
         /\ row' = [row EXCEPT ![n].st = "live"]
    BY <2>2, <2>8, <2>9
  <2> HIDE DEF t
  <2> QED
    BY <1>1, <1>2, <2>3, <2>6, <2>c, <2>10, <2>11, <2>12, Inserted
<1> QED
  BY <1>3, <1>4

-----------------------------------------------------------------------------
(* Steps of administrators, and the theorems.                              *)

\* A step that touches neither nodes nor services nor anything under way.
LEMMA TokenStep ==
    ASSUME A!AgentAssumption, A!AgentInv, token' \in [Tokens -> A!Token], ready' \in BOOLEAN,
           changes' \in Nat, A!TokensSpent', A!ClaimsHold', edit' \in [Editors -> A!Edit], A!EditsHold',
           UNCHANGED <<row, service, agent, call, pairs, born, touched, revoked, outdated>>
    PROVE  A!AgentInv'
<1>0. /\ A!AgentTypeOK /\ A!CallsWhole /\ A!AgentsWhole /\ A!NodesApart /\ A!AnswersHold
      /\ A!ClaimsHold /\ A!EditsHold /\ A!AgentMatchesHub /\ A!ForwardsAsTold
  BY DEF A!AgentInv
<1>1. A!AgentTypeOK'
  BY <1>0 DEF A!AgentTypeOK, A!Destinations
<1>2. A!CallsWhole' /\ A!AgentsWhole'
  BY <1>0 DEF A!CallsWhole, A!AgentsWhole, A!AgentWhole
<1>3. A!NodesApart'
  BY <1>0 DEF A!NodesApart, A!KnownTo
<1>4. \A m : A!Targets(m)' = A!Targets(m)
  BY DEF A!Targets
<1>5. A!AnswersHold' /\ A!ForwardsAsTold'
  BY <1>0, <1>4 DEF A!AnswersHold, A!AnswerHolds, A!ForwardsAsTold
<1>6. A!AgentMatchesHub'
  BY <1>0 DEF A!AgentMatchesHub
<1> QED
  BY <1>1, <1>2, <1>3, <1>5, <1>6 DEF A!AgentInv

\* Administrators create, delete and outlive enrolment tokens.
LEMMA TokenStepsKeep ==
    ASSUME A!AgentAssumption, A!AgentInv, NEW t \in Tokens, NEW b \in BOOLEAN,
           A!CreateToken(t, b) \/ A!DeleteToken(t, b)
    PROVE  A!AgentInv'
<1>1. /\ token \in [Tokens -> A!Token] /\ born \in [Tokens -> SUBSET Nodes] /\ ready \in BOOLEAN
      /\ changes \in Nat /\ A!TokensSpent /\ edit \in [Editors -> A!Edit] /\ A!EditsHold /\ A!ClaimsHold
      /\ A!CallsWhole
  BY DEF A!AgentInv, A!AgentTypeOK
<1>2. /\ A!NewToken(b) \in A!Token /\ ~A!NewToken(b).used
      /\ A!NoToken \in A!Token /\ ~A!NoToken.row
  BY DEF A!NewToken, A!NoToken, A!Token
<1>3. /\ UNCHANGED <<row, service, agent, call, edit, pairs, born, touched, revoked, outdated>>
      /\ ready' \in BOOLEAN /\ changes' \in Nat
  BY <1>1 DEF A!CreateToken, A!DeleteToken, A!Change
<1>4. PICK k \in A!Token :
        /\ token' = [token EXCEPT ![t] = k]
        /\ \/ ~k.row
           \/ born[t] = {} /\ ~k.used
           \/ k.row = token[t].row /\ k.single = token[t].single /\ k.used = token[t].used
        /\ \/ ~k.row \/ (k.row = token[t].row /\ k.single = token[t].single)
           \/ \A c \in Handlers : call[c].token # t
  <2>1. CASE A!CreateToken(t, b)
    BY <1>2, <2>1 DEF A!CreateToken
  <2>2. CASE A!DeleteToken(t, b) /\ b
    BY <1>2, <2>2 DEF A!DeleteToken
  <2>3. CASE A!DeleteToken(t, b) /\ ~b
    <3> DEFINE k == [token[t] EXCEPT !.expired = TRUE]
    <3>1. token' = [token EXCEPT ![t] = k]
      BY <2>3 DEF A!DeleteToken
    <3>2. /\ k \in A!Token /\ k.row = token[t].row /\ k.single = token[t].single
          /\ k.used = token[t].used
      BY <1>1 DEF A!Token
    <3> HIDE DEF k
    <3> QED
      BY <3>1, <3>2
  <2> QED
    BY <2>1, <2>2, <2>3
<1>5. token' \in [Tokens -> A!Token] /\ \A u \in Tokens : token'[u] = IF u = t THEN k ELSE token[u]
  BY <1>1, <1>4
<1>6. A!TokensSpent'
  <2> SUFFICES ASSUME NEW u \in Tokens PROVE A!Spent(u)'
    BY DEF A!TokensSpent
  <2>1. A!Spent(u) /\ born'[u] = born[u]
    BY <1>1, <1>3 DEF A!TokensSpent
  <2> QED
    BY <1>4, <1>5, <2>1 DEF A!Spent
<1>7. A!ClaimsHold'
  BY <1>1, <1>3, <1>4, <1>5 DEF A!ClaimsHold, A!ClaimHolds, A!CallsWhole, A!CallWhole
<1>8. A!EditsHold'
  BY <1>1, <1>3 DEF A!EditsHold, A!EditHolds
<1> QED
  BY <1>1, <1>3, <1>5, <1>6, <1>7, <1>8, TokenStep

\* What TokenStep needs of a step that changes no token.
LEMMA OtherStep ==
    ASSUME A!AgentAssumption, A!AgentInv, ready' \in BOOLEAN, changes' \in Nat,
           edit' \in [Editors -> A!Edit], A!EditsHold',
           UNCHANGED <<token, row, service, agent, call, pairs, born, touched, revoked, outdated>>
    PROVE  A!AgentInv'
<1>1. token \in [Tokens -> A!Token] /\ A!TokensSpent /\ A!ClaimsHold
  BY DEF A!AgentInv, A!AgentTypeOK
<1>2. A!TokensSpent' /\ A!ClaimsHold'
  BY <1>1 DEF A!TokensSpent, A!Spent, A!ClaimsHold, A!ClaimHolds
<1> QED
  BY <1>1, <1>2, TokenStep

\* handleUpdateTunnelSettings.
LEMMA SetReadyKeeps ==
    ASSUME A!AgentAssumption, A!AgentInv, A!SetReady
    PROVE  A!AgentInv'
<1>1. ready \in BOOLEAN /\ changes \in Nat /\ edit \in [Editors -> A!Edit] /\ A!EditsHold
  BY DEF A!AgentInv, A!AgentTypeOK
<1>2. /\ UNCHANGED <<token, row, service, agent, call, edit, pairs, born, touched, revoked, outdated>>
      /\ ready' \in BOOLEAN /\ changes' \in Nat
  BY <1>1 DEF A!SetReady, A!Change
<1>3. A!EditsHold'
  BY <1>1, <1>2 DEF A!EditsHold, A!EditHolds
<1> QED
  BY <1>1, <1>2, <1>3, OtherStep

\* A request of an administrator loads a live node.
LEMMA EditLoadKeeps ==
    ASSUME A!AgentAssumption, A!AgentInv, NEW e \in Editors, NEW n \in Nodes,
           NEW kind \in {"update", "revoke"}, NEW r \in A!Node, A!EditLoad(e, n, kind, r),
           r.st = row[n].st, r.key = row[n].key, r.psk = row[n].psk
    PROVE  A!AgentInv'
<1> DEFINE w == [A!NoEdit EXCEPT !.kind = kind, !.id = n, !.row = r]
<1>1. ready \in BOOLEAN /\ changes \in Nat /\ edit \in [Editors -> A!Edit] /\ A!EditsHold
  BY DEF A!AgentInv, A!AgentTypeOK
<1>2. /\ UNCHANGED <<token, row, service, ready, agent, call, pairs, born, touched, revoked, outdated>>
      /\ changes' \in Nat /\ row[n].st = "live" /\ edit' = [edit EXCEPT ![e] = w]
  BY <1>1 DEF A!EditLoad, A!Change
<1>3. w \in A!Edit /\ w.kind = kind /\ w.id = n /\ w.row = r
  BY AgentBlanks DEF A!NoEdit, A!Edit
<1> HIDE DEF w
<1>4. edit' \in [Editors -> A!Edit] /\ \A f \in Editors : edit'[f] = IF f = e THEN w ELSE edit[f]
  BY <1>1, <1>2, <1>3
<1>5. A!EditsHold'
  <2> SUFFICES ASSUME NEW f \in Editors PROVE A!EditHolds(edit[f])'
    BY DEF A!EditsHold
  <2>1. CASE f = e
    BY <1>2, <1>3, <1>4, <2>1 DEF A!EditHolds
  <2>2. CASE f # e
    <3>1. A!EditHolds(edit[f])
      BY <1>1 DEF A!EditsHold
    <3> QED
      BY <1>2, <1>4, <2>2, <3>1 DEF A!EditHolds
  <2> QED
    BY <2>1, <2>2
<1> QED
  BY <1>1, <1>2, <1>4, <1>5, OtherStep

\* handleUpdateNode and RevokeNode up to the write, and their ends without one.
LEMMA EditStepsKeep ==
    ASSUME A!AgentAssumption, A!AgentInv, NEW e \in Editors,
           \/ A!EditFails(e)
           \/ \E n \in Nodes : A!RevokeLoad(e, n) \/ \E mtls \in BOOLEAN : A!UpdateLoad(e, n, mtls)
    PROVE  A!AgentInv'
<1>1. /\ ready \in BOOLEAN /\ changes \in Nat /\ edit \in [Editors -> A!Edit] /\ A!EditsHold
      /\ row \in [Nodes -> A!Node]
  BY DEF A!AgentInv, A!AgentTypeOK
<1>2. CASE A!EditFails(e)
  <2>1. /\ UNCHANGED <<token, row, service, ready, agent, call, pairs, changes, born, touched, revoked,
                       outdated>>
        /\ edit' = [edit EXCEPT ![e] = A!NoEdit]
    BY <1>2 DEF A!EditFails
  <2>2. edit' \in [Editors -> A!Edit]
    BY <1>1, <2>1, AgentBlanks
  <2>3. A!EditsHold'
    BY <1>1, <2>1, AgentBlanks DEF A!EditsHold, A!EditHolds
  <2> QED
    BY <1>1, <2>1, <2>2, <2>3, OtherStep
<1>3. ASSUME NEW n \in Nodes, A!RevokeLoad(e, n)
      PROVE  A!AgentInv'
  BY <1>1, <1>3, EditLoadKeeps DEF A!RevokeLoad
<1>4. ASSUME NEW n \in Nodes, NEW mtls \in BOOLEAN, A!UpdateLoad(e, n, mtls)
      PROVE  A!AgentInv'
  <2> DEFINE r == [row[n] EXCEPT !.mtls = mtls]
  <2>1. A!EditLoad(e, n, "update", r)
    BY <1>4 DEF A!UpdateLoad
  <2>2. r \in A!Node /\ r.st = row[n].st /\ r.key = row[n].key /\ r.psk = row[n].psk
    BY <1>1 DEF A!Node
  <2> HIDE DEF r
  <2> QED
    BY <2>1, <2>2, EditLoadKeeps
<1> QED
  BY <1>2, <1>3, <1>4

\* Node n becomes r: its keys stay, or it is marked.
KeysFollow(n, r) ==
    \/ /\ r.key = row[n].key /\ r.psk = row[n].psk
       /\ touched' = touched /\ revoked' = revoked
    \/ touched' = touched \union {n} /\ revoked' = revoked \ {n}
    \/ r.key = 0 /\ touched' = touched \union {n} /\ revoked' = revoked \union {n}

\* Edits that go on are those of before, overtaken where the keys of n changed.
EditsFollow(n, r) ==
    \A e \in Editors : edit'[e].kind # "none" =>
        /\ edit'[e].kind = edit[e].kind /\ edit'[e].id = edit[e].id /\ edit'[e].row = edit[e].row
        /\ \/ edit'[e].overtaken /\ edit[e].id = n
           \/ /\ edit'[e].overtaken = edit[e].overtaken
              /\ edit[e].id # n \/ r.st # "live" \/ (r.key = row[n].key /\ r.psk = row[n].psk)

\* An administrator writes or deletes a node.
LEMMA NodeWritten ==
    ASSUME A!AgentAssumption, A!AgentInv, NEW n \in Nodes, NEW r \in A!Node,
           UNCHANGED <<token, service, ready, agent, call, pairs, born, outdated>>,
           changes' \in Nat, row[n].st = "live", row' = [row EXCEPT ![n] = r], r.st # "new",
           KeysFollow(n, r), edit' \in [Editors -> A!Edit], EditsFollow(n, r)
    PROVE  A!AgentInv'
<1>0. /\ A!AgentTypeOK /\ A!CallsWhole /\ A!AgentsWhole /\ A!NodesApart /\ A!AnswersHold /\ A!TokensSpent
      /\ A!ClaimsHold /\ A!EditsHold /\ A!AgentMatchesHub /\ A!ForwardsAsTold
  BY DEF A!AgentInv
<1>1. row \in [Nodes -> A!Node] /\ touched \subseteq Nodes /\ revoked \subseteq Nodes
  BY <1>0 DEF A!AgentTypeOK
<1>4. /\ row' \in [Nodes -> A!Node] /\ \A m \in Nodes : row'[m] = IF m = n THEN r ELSE row[m]
      /\ touched' \subseteq Nodes /\ revoked' \subseteq Nodes
  BY <1>1 DEF KeysFollow
<1>5. A!AgentTypeOK'
  BY <1>0, <1>4 DEF A!AgentTypeOK, A!Destinations
<1>6. A!CallsWhole' /\ A!AgentsWhole' /\ A!TokensSpent'
  BY <1>0 DEF A!CallsWhole, A!AgentsWhole, A!AgentWhole, A!TokensSpent, A!Spent
<1>7. A!NodesApart'
  <2>1. \A m \in Nodes, b \in Agents : A!KnownTo(m, b)' = A!KnownTo(m, b)
    BY DEF A!KnownTo
  <2>2. \A m \in Nodes : row[m].st # "new" => row'[m].st # "new"
    BY <1>4
  <2> QED
    BY <1>0, <2>1, <2>2 DEF A!NodesApart
<1>8. \A m : A!Targets(m)' = A!Targets(m)
  BY DEF A!Targets
<1>9. \A m \in Nodes : \A k, x :
        (row[m].st = "live" /\ m \notin touched => row[m].key = k /\ row[m].psk = x) =>
        (row'[m].st = "live" /\ m \notin touched' => row'[m].key = k /\ row'[m].psk = x)
  BY <1>4 DEF KeysFollow
<1>10. A!AnswersHold'
  <2> SUFFICES ASSUME NEW b \in Agents, agent[b].wait # None PROVE A!AnswerHolds(agent[b])'
    BY DEF A!AnswersHold, A!AnswerHolds
  <2> DEFINE w == call[agent[b].wait]
  <2>1. A!AnswerHolds(agent[b])
    BY <1>0 DEF A!AnswersHold
  <2>2. A!CallWhole(w) /\ call'[agent'[b].wait] = w /\ agent'[b].wait # None
    BY <1>0, AgentKnown DEF A!CallsWhole
  <2>3. (w.kind = "boot" /\ w.st = "done" /\ w.code = 200 /\ row'[w.id].st = "live"
           /\ w.id \notin touched') => (row'[w.id].key = w.key /\ row'[w.id].psk = w.psk)
    <3> SUFFICES ASSUME w.kind = "boot", w.st = "done", w.code = 200, row'[w.id].st = "live",
                        w.id \notin touched'
                 PROVE  row'[w.id].key = w.key /\ row'[w.id].psk = w.psk
      OBVIOUS
    <3>1. w.id \in Nodes
      BY <2>2 DEF A!CallWhole
    <3>2. row[w.id].st = "live" /\ w.id \notin touched =>
            row[w.id].key = w.key /\ row[w.id].psk = w.psk
      BY <2>1 DEF A!AnswerHolds
    <3> HIDE DEF w
    <3> QED
      BY <1>9, <3>1, <3>2
  <2>4. w.kind = "targets" /\ w.st = "done" /\ w.code = 200 /\ w.row.seen =>
        w.targets = A!Targets(w.id)
    BY <2>1 DEF A!AnswerHolds
  <2> HIDE DEF w
  <2> QED
    BY <1>8, <2>2, <2>3, <2>4 DEF A!AnswerHolds
<1>11. A!AgentMatchesHub'
  <2>1. \A m \in revoked' : row'[m].key = 0
    BY <1>0, <1>1, <1>4 DEF A!AgentMatchesHub, KeysFollow
  <2>2. ASSUME NEW b \in Agents, A!provisioned(agent[b].disk), agent[b].disk.id \notin touched',
               row'[agent[b].disk.id].st = "live"
        PROVE  /\ row'[agent[b].disk.id].key = agent[b].disk.key
               /\ row'[agent[b].disk.id].psk = agent[b].disk.psk
    <3>1. agent[b].disk.id \in Nodes
      BY <2>2, AgentKnown DEF A!provisioned, A!State
    <3> QED
      BY <1>9, <2>2, <3>1, AgentKnown
  <2> QED
    BY <2>1, <2>2 DEF A!AgentMatchesHub, A!provisioned
<1>12. A!ForwardsAsTold'
  BY <1>0, <1>8 DEF A!ForwardsAsTold
<1>13. A!ClaimsHold'
  BY <1>0 DEF A!ClaimsHold, A!ClaimHolds
<1>14. A!EditsHold'
  <2> SUFFICES ASSUME NEW e \in Editors, edit'[e].kind # "none" PROVE A!EditHolds(edit[e])'
    BY DEF A!EditsHold, A!EditHolds
  <2>1. A!EditHolds(edit[e]) /\ edit[e].kind # "none"
    BY <1>0 DEF A!EditsHold, EditsFollow
  <2> QED
    BY <1>4, <2>1 DEF A!EditHolds, EditsFollow
<1> QED
  BY <1>5, <1>6, <1>7, <1>10, <1>11, <1>12, <1>13, <1>14 DEF A!AgentInv

\* handleDeleteNode.
LEMMA AgentDeleteNodeKeeps ==
    ASSUME A!AgentAssumption, A!AgentInv, NEW n \in Nodes, A!DeleteNode(n)
    PROVE  A!AgentInv'
<1> DEFINE r == [row[n] EXCEPT !.st = "gone"]
<1>1. row \in [Nodes -> A!Node] /\ changes \in Nat /\ edit \in [Editors -> A!Edit]
  BY DEF A!AgentInv, A!AgentTypeOK
<1>2. r \in A!Node /\ r.st = "gone" /\ r.key = row[n].key /\ r.psk = row[n].psk
  BY <1>1 DEF A!Node
<1>3. /\ UNCHANGED <<token, service, ready, agent, call, edit, pairs, born, touched, revoked, outdated>>
      /\ changes' \in Nat /\ row[n].st = "live" /\ row' = [row EXCEPT ![n] = r]
  BY <1>1 DEF A!DeleteNode, A!Change, A!Node
<1> HIDE DEF r
<1>4. KeysFollow(n, r) /\ EditsFollow(n, r)
  BY <1>2, <1>3 DEF KeysFollow, EditsFollow
<1> QED
  BY <1>1, <1>2, <1>3, <1>4, NodeWritten

\* What an edit that is about to be written holds.
LEMMA EditKnown ==
    ASSUME A!AgentAssumption, A!AgentInv, NEW e \in Editors, edit[e].kind # "none"
    PROVE  /\ edit[e].id \in Nodes /\ edit[e].row \in A!Node /\ edit[e].row.st = "live"
           /\ edit[e].overtaken \in BOOLEAN /\ A!EditHolds(edit[e])
           /\ edit \in [Editors -> A!Edit] /\ A!AgentTypeOK /\ changes \in Nat
<1>1. edit \in [Editors -> A!Edit] /\ A!AgentTypeOK /\ A!EditHolds(edit[e]) /\ changes \in Nat
  BY DEF A!AgentInv, A!AgentTypeOK, A!EditsHold
<1> QED
  BY <1>1, AgentFields DEF A!EditHolds

\* handleUpdateNode writes back what it loaded: the keys of now, unless a
\* bootstrap or a revocation came between.
LEMMA AgentUpdateWriteKeeps ==
    ASSUME A!AgentAssumption, A!AgentInv, NEW e \in Editors, A!UpdateWrite(e)
    PROVE  A!AgentInv'
<1>0. PICK n, r : n = edit[e].id /\ r = edit[e].row
  OBVIOUS
<1>1. /\ edit[e].kind = "update" /\ edit[e].kind # "none"
      /\ row[n].st = "live" /\ row' = [row EXCEPT ![n] = r]
      /\ edit' = [IF edit[e].overtaken THEN A!Outrun(n) ELSE edit EXCEPT ![e] = A!NoEdit]
      /\ touched' = IF edit[e].overtaken THEN touched \union {n} ELSE touched
      /\ revoked' = IF edit[e].overtaken THEN revoked \ {n} ELSE revoked
      /\ UNCHANGED <<token, service, ready, agent, call, pairs, changes, born, outdated>>
  BY <1>0 DEF A!UpdateWrite, A!UpdateRow
<1>2. /\ n \in Nodes /\ r \in A!Node /\ r.st = "live" /\ edit \in [Editors -> A!Edit]
      /\ A!AgentTypeOK /\ changes \in Nat
      /\ ~edit[e].overtaken => r.key = row[n].key /\ r.psk = row[n].psk
  BY <1>0, <1>1, EditKnown DEF A!EditHolds
<1>5. /\ n \in Nodes /\ r \in A!Node /\ r.st # "new" /\ changes' \in Nat
      /\ row[n].st = "live" /\ row' = [row EXCEPT ![n] = r]
      /\ UNCHANGED <<token, service, ready, agent, call, pairs, born, outdated>>
  BY <1>1, <1>2
<1>3. CASE edit[e].overtaken
  <2>1. /\ edit' \in [Editors -> A!Edit]
        /\ \A f \in Editors : edit'[f] = IF f = e THEN A!NoEdit ELSE A!Outrun(n)[f]
    BY <1>1, <1>2, <1>3, OutrunIs, AgentBlanks
  <2>2. EditsFollow(n, r) /\ KeysFollow(n, r)
    BY <1>1, <1>2, <1>3, <2>1, OutrunIs, AgentBlanks DEF EditsFollow, KeysFollow
  <2> QED
    BY <1>5, <2>1, <2>2, NodeWritten
<1>4. CASE ~edit[e].overtaken
  <2>1. /\ edit' \in [Editors -> A!Edit]
        /\ \A f \in Editors : edit'[f] = IF f = e THEN A!NoEdit ELSE edit[f]
    BY <1>1, <1>2, <1>4, AgentBlanks
  <2>2. EditsFollow(n, r) /\ KeysFollow(n, r)
    BY <1>1, <1>2, <1>4, <2>1, AgentBlanks DEF EditsFollow, KeysFollow
  <2> QED
    BY <1>5, <2>1, <2>2, NodeWritten
<1> QED
  BY <1>2, <1>3, <1>4

\* RevokeNode: the keys go, and every update under way is overtaken.
LEMMA AgentRevokeWriteKeeps ==
    ASSUME A!AgentAssumption, A!AgentInv, NEW e \in Editors, A!RevokeWrite(e)
    PROVE  A!AgentInv'
<1> DEFINE n == edit[e].id
           r == [edit[e].row EXCEPT !.key = 0, !.psk = 0]
<1>1. /\ edit[e].kind # "none" /\ row[n].st = "live" /\ row' = [row EXCEPT ![n] = r]
      /\ edit' = [A!Outrun(n) EXCEPT ![e] = A!NoEdit]
      /\ touched' = touched \union {n} /\ revoked' = revoked \union {n}
      /\ UNCHANGED <<token, service, ready, agent, call, pairs, changes, born, outdated>>
  BY DEF A!RevokeWrite, A!UpdateRow
<1>2. /\ n \in Nodes /\ edit[e].row \in A!Node /\ edit[e].row.st = "live"
      /\ edit \in [Editors -> A!Edit] /\ A!AgentTypeOK /\ changes \in Nat
  BY <1>1, EditKnown
<1>3. r \in A!Node /\ r.st = "live" /\ r.key = 0
  BY <1>2 DEF A!Node
<1> HIDE DEF r, n
<1>4. /\ edit' \in [Editors -> A!Edit]
      /\ \A f \in Editors : edit'[f] = IF f = e THEN A!NoEdit ELSE A!Outrun(n)[f]
  BY <1>1, <1>2, OutrunIs, AgentBlanks
<1>5. EditsFollow(n, r) /\ KeysFollow(n, r)
  BY <1>1, <1>2, <1>3, <1>4, OutrunIs, AgentBlanks DEF EditsFollow, KeysFollow
<1>6. r.st # "new" /\ changes' \in Nat
  BY <1>1, <1>2, <1>3
<1> QED
  BY <1>1, <1>2, <1>3, <1>4, <1>5, <1>6, NodeWritten

\* An answer composed before a change of a service is marked, nothing else moves.
LEMMA ChangeServiceKeeps ==
    ASSUME A!AgentAssumption, A!AgentInv, NEW s \in Services, NEW to \in A!Destinations,
           A!ChangeService(s, to)
    PROVE  A!AgentInv'
<1>0. /\ A!AgentTypeOK /\ A!CallsWhole /\ A!AgentsWhole /\ A!NodesApart /\ A!AnswersHold /\ A!TokensSpent
      /\ A!ClaimsHold /\ A!EditsHold /\ A!AgentMatchesHub /\ A!ForwardsAsTold
  BY DEF A!AgentInv
<1>1. /\ UNCHANGED <<token, row, ready, agent, edit, pairs, born, touched, revoked>>
      /\ outdated' = Agents /\ service' = [service EXCEPT ![s] = to] /\ call' = A!Overtake
      /\ changes' \in Nat
  BY <1>0 DEF A!ChangeService, A!Change, A!AgentTypeOK
<1>2. /\ call' \in [Handlers -> A!Call]
      /\ \A c \in Handlers :
           /\ call'[c].kind = call[c].kind /\ call'[c].from = call[c].from
           /\ call'[c].st = call[c].st /\ call'[c].token = call[c].token
           /\ call'[c].id = call[c].id /\ call'[c].key = call[c].key
           /\ call[c].kind # "targets" => call'[c] = call[c]
           /\ call[c].kind = "targets" => ~call'[c].row.seen
  <2> SUFFICES ASSUME NEW c \in Handlers
               PROVE  /\ call'[c] \in A!Call
                      /\ call'[c].kind = call[c].kind /\ call'[c].from = call[c].from
                      /\ call'[c].st = call[c].st /\ call'[c].token = call[c].token
                      /\ call'[c].id = call[c].id /\ call'[c].key = call[c].key
                      /\ call[c].kind # "targets" => call'[c] = call[c]
                      /\ call[c].kind = "targets" => ~call'[c].row.seen
    BY <1>1 DEF A!Overtake
  <2>1. call[c] \in A!Call
    BY <1>0 DEF A!AgentTypeOK
  <2>2. CASE call[c].kind # "targets"
    BY <1>1, <2>1, <2>2 DEF A!Overtake
  <2>3. CASE call[c].kind = "targets"
    <3> DEFINE r == [call[c].row EXCEPT !.seen = FALSE]
               f == [call[c] EXCEPT !.row = r]
    <3>1. call[c].row \in A!Node
      BY <2>1, AgentFields
    <3>4. r \in A!Node /\ r.seen = FALSE
      BY <3>1 DEF A!Node
    <3>2. call'[c] = f
      BY <1>1, <2>1, <2>3 DEF A!Overtake, A!Call
    <3> HIDE DEF r
    <3>3. /\ f \in A!Call /\ f.kind = call[c].kind /\ f.from = call[c].from /\ f.st = call[c].st
          /\ f.token = call[c].token /\ f.id = call[c].id /\ f.key = call[c].key /\ f.row = r
      BY <2>1, <3>4 DEF A!Call
    <3> HIDE DEF f
    <3> QED
      BY <2>3, <3>2, <3>3, <3>4
  <2> QED
    BY <2>2, <2>3
<1>3. A!AgentTypeOK'
  <2>1. service' \in [Services -> A!Destinations]
    BY <1>0, <1>1 DEF A!AgentTypeOK
  <2> QED
    BY <1>0, <1>1, <1>2, <2>1 DEF A!AgentTypeOK, A!Destinations
<1>4. A!CallsWhole'
  <2> SUFFICES ASSUME NEW c \in Handlers PROVE A!CallWhole(call[c])'
    BY DEF A!CallsWhole
  <2>1. A!CallWhole(call[c])
    BY <1>0 DEF A!CallsWhole
  <2> QED
    BY <1>2, <2>1 DEF A!CallWhole
<1>5. A!AgentsWhole'
  <2> SUFFICES ASSUME NEW b \in Agents PROVE A!AgentWhole(b, agent[b])'
    BY DEF A!AgentsWhole
  <2>1. A!AgentWhole(b, agent[b]) /\ (agent[b].wait # None => agent[b].wait \in Handlers)
    BY AgentKnown
  <2> QED
    BY <1>1, <1>2, <2>1 DEF A!AgentWhole
<1>6. A!NodesApart'
  <2>1. \A m \in Nodes, b \in Agents : A!KnownTo(m, b)' => A!KnownTo(m, b)
    BY <1>1, <1>2 DEF A!KnownTo
  <2> QED
    BY <1>0, <1>1, <2>1 DEF A!NodesApart
<1>7. A!AnswersHold'
  <2> SUFFICES ASSUME NEW b \in Agents, agent[b].wait # None PROVE A!AnswerHolds(agent[b])'
    BY <1>1 DEF A!AnswersHold, A!AnswerHolds
  <2>1. A!AnswerHolds(agent[b]) /\ agent[b].wait \in Handlers
    BY AgentKnown
  <2>2. CASE call[agent[b].wait].kind = "targets"
    BY <1>1, <1>2, <2>1, <2>2 DEF A!AnswerHolds
  <2>3. CASE call[agent[b].wait].kind # "targets"
    <3>1. call'[agent'[b].wait] = call[agent[b].wait]
      BY <1>1, <1>2, <2>1, <2>3
    <3> QED
      BY <1>1, <2>1, <2>3, <3>1 DEF A!AnswerHolds
  <2> QED
    BY <2>2, <2>3
<1>8. A!TokensSpent' /\ A!AgentMatchesHub'
  BY <1>0, <1>1 DEF A!TokensSpent, A!Spent, A!AgentMatchesHub
<1>9. A!ForwardsAsTold'
  BY <1>1 DEF A!ForwardsAsTold
<1>10. A!ClaimsHold'
  <2> SUFFICES ASSUME NEW c \in Handlers, call[c].kind = "enroll" PROVE A!ClaimHolds(call[c])'
    BY <1>2 DEF A!ClaimsHold, A!ClaimHolds
  <2> QED
    BY <1>0, <1>1, <1>2 DEF A!ClaimsHold, A!ClaimHolds
<1>11. A!EditsHold'
  BY <1>0, <1>1 DEF A!EditsHold, A!EditHolds
<1> QED
  BY <1>3, <1>4, <1>5, <1>6, <1>7, <1>8, <1>9, <1>10, <1>11 DEF A!AgentInv

\* The initial states satisfy the invariant.
LEMMA AgentInit ==
    ASSUME A!AgentAssumption, A!Init
    PROVE  A!AgentInv
<1>1. A!AgentTypeOK
  <2>1. /\ \A t \in Tokens : token[t] \in A!Token
        /\ token \in [Tokens -> A!Token]
    BY DEF A!Init, A!NoToken, A!NewToken, A!Token
  <2>2. service \in [Services -> A!Destinations]
    BY DEF A!Init, A!Destinations
  <2> QED
    BY <2>1, <2>2, AgentBlanks DEF A!AgentTypeOK, A!Init
<1>2. A!CallsWhole
  BY AgentBlanks DEF A!CallsWhole, A!CallWhole, A!Init
<1>3. A!AgentsWhole
  <2> SUFFICES ASSUME NEW a \in Agents PROVE A!AgentWhole(a, A!Off)
    BY DEF A!AgentsWhole, A!Init
  <2> QED
    BY AgentBlanks DEF A!AgentWhole, A!Waiting, A!Joining, A!Forwarding
<1>4. A!NodesApart
  <2> SUFFICES ASSUME NEW n \in Nodes, NEW a \in Agents, A!KnownTo(n, a) PROVE FALSE
    BY DEF A!NodesApart
  <2> QED
    BY AgentBlanks DEF A!KnownTo, A!Init, A!AgentAssumption
<1>5. A!AnswersHold
  BY AgentBlanks DEF A!AnswersHold, A!AnswerHolds, A!Init
<1>6. A!TokensSpent
  BY DEF A!TokensSpent, A!Spent, A!Init, A!NoToken, A!NewToken
<1>7. A!AgentMatchesHub
  BY AgentBlanks DEF A!AgentMatchesHub, A!Init, A!provisioned
<1>8. A!ForwardsAsTold
  BY AgentBlanks DEF A!ForwardsAsTold, A!Init
<1>9. A!ClaimsHold /\ A!EditsHold
  BY AgentBlanks DEF A!ClaimsHold, A!ClaimHolds, A!EditsHold, A!EditHolds, A!Init
<1> QED
  BY <1>1, <1>2, <1>3, <1>4, <1>5, <1>6, <1>7, <1>8, <1>9 DEF A!AgentInv

\* Every step keeps the invariant.
LEMMA AgentStep ==
    ASSUME A!AgentAssumption, A!AgentInv, [A!Next]_A!agentVars
    PROVE  A!AgentInv'
<1>1. ASSUME NEW a \in Agents,
             \/ A!Start(a) \/ A!SelfBootstrap(a) \/ A!Retry(a) \/ A!TimeOut(a) \/ A!Crash(a)
             \/ \E t \in Tokens : A!Enroll(a, t)
             \/ \E ok \in BOOLEAN :
                  A!GenerateKeyPair(a, ok) \/ A!Enrolled(a, ok) \/ A!Bootstrapped(a, ok) \/ A!Refused(a, ok)
             \/ A!fetchTargets(a) \/ A!sendHeartbeat(a)
             \/ \E opened \in SUBSET Ports : A!RefreshTargets(a, opened)
      PROVE  A!AgentInv'
  BY <1>1, StartKeeps, SelfBootstrapKeeps, RetryKeeps, RefusedKeeps, EnrollKeeps,
     GenerateKeyPairKeeps, EnrolledKeeps, BootstrappedKeeps, AskKeeps, RefreshTargetsKeeps
  DEF A!fetchTargets, A!sendHeartbeat
<1>2. ASSUME NEW c \in Handlers,
             \/ A!EnrollCheck(c) \/ A!TargetsServe(c) \/ A!HeartbeatLoad(c) \/ A!HeartbeatWrite(c)
             \/ A!Discard(c) \/ A!BootCheck(c) \/ A!BootLoad(c)
             \/ \E n \in Nodes : A!EnrollWithToken(c, n)
             \/ \E code \in {429, 500} : A!Fails(c, code)
             \/ \E answered \in BOOLEAN : A!BootWrite(c, answered)
      PROVE  A!AgentInv'
  BY <1>2, EnrollCheckKeeps, TargetsServeKeeps, HeartbeatLoadKeeps, HeartbeatWriteKeeps,
     DiscardKeeps, EnrollWithTokenKeeps, FailsKeeps, AgentBootCheckKeeps, AgentBootLoadKeeps, AgentBootWriteKeeps
<1>3. CASE UNCHANGED A!agentVars
  <2>1. /\ ready' \in BOOLEAN /\ changes' \in Nat /\ edit' \in [Editors -> A!Edit]
        /\ UNCHANGED <<token, row, service, agent, call, pairs, born, touched, revoked, outdated>>
    BY <1>3 DEF A!AgentInv, A!AgentTypeOK, A!agentVars
  <2>2. A!EditsHold'
    BY <1>3 DEF A!AgentInv, A!EditsHold, A!EditHolds, A!agentVars
  <2> QED
    BY <2>1, <2>2, OtherStep
<1>4. ASSUME NEW e \in Editors,
             \/ A!UpdateWrite(e) \/ A!RevokeWrite(e) \/ A!EditFails(e)
             \/ \E n \in Nodes : A!RevokeLoad(e, n) \/ \E mtls \in BOOLEAN : A!UpdateLoad(e, n, mtls)
      PROVE  A!AgentInv'
  BY <1>4, AgentUpdateWriteKeeps, AgentRevokeWriteKeeps, EditStepsKeep
<1> QED
  BY <1>1, <1>2, <1>3, <1>4, TokenStepsKeep, AgentDeleteNodeKeeps, ChangeServiceKeeps, SetReadyKeeps DEF A!Next

\* The invariant behind the properties of agents holds in every state of every
\* hub with any number of agents, tokens, nodes and services (node_enrollment.go,
\* provision.go, tunnel.go).
THEOREM AgentInvariant == A!Spec => []A!AgentInv
<1>1. A!Init => A!AgentInv
  BY AgentAssumption, AgentInit
<1>2. A!AgentInv /\ [A!Next]_A!agentVars => A!AgentInv'
  BY AgentAssumption, AgentStep
<1> QED
  BY <1>1, <1>2, PTL DEF A!Spec

\* Agent counts as everyone does.
LEMMA CountsAlike ==
    \A S : A!IsFiniteSet(S) = IsFiniteSet(S) /\ A!Cardinality(S) = Cardinality(S)
  BY DEF A!IsFiniteSet, IsFiniteSet, A!Cardinality, Cardinality

\* EnrolledOnce: a single-use token enrols at most one node, and is used exactly
\* when it has enrolled one (EnrollWithToken).
THEOREM EnrolsOnce == A!Spec => []EnrolledOnce
<1>1. A!AgentInv => EnrolledOnce
  <2> SUFFICES ASSUME A!AgentInv, NEW t \in Tokens, token[t].row, token[t].single
               PROVE  Cardinality(born[t]) <= 1 /\ (token[t].used <=> born[t] # {})
    BY CountsAlike DEF EnrolledOnce, A!EnrolledOnce
  <2>1. A!Spent(t)
    BY DEF A!AgentInv, A!TokensSpent
  <2>2. CASE born[t] = {} /\ ~token[t].used
    <3>1. Cardinality({}) = 0
      BY FS_EmptySet
    <3> QED
      BY <2>2, <3>1
  <2>3. ASSUME NEW n \in Nodes, born[t] = {n}, token[t].used
        PROVE  Cardinality(born[t]) <= 1 /\ (token[t].used <=> born[t] # {})
    <3>1. Cardinality({n}) = 1
      BY FS_Singleton
    <3> QED
      BY <2>3, <3>1
  <2> QED
    BY <2>1, <2>2, <2>3 DEF A!Spent
<1> QED
  BY <1>1, AgentInvariant, PTL

\* AgentInStep: the saved keys of an agent are those of its node, and its
\* listeners those of the last answer that nothing has overtaken
\* (provisioner.step, BootstrapNode, UpdateHeartbeat, reconcile).
THEOREM AgentKeepsStep == A!Spec => []AgentInStep
<1>1. A!AgentInv => AgentInStep
  BY DEF A!AgentInv, AgentInStep
<1> QED
  BY <1>1, AgentInvariant, PTL
=============================================================================
