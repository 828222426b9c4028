------------------------------ MODULE Routing ------------------------------
(***************************************************************************)
(* How a change of a service reaches the proxies: the services table, the  *)
(* route cache behind the proxy (Redis, or one map per process), the LRU   *)
(* of compiled routes in each process, and the bus that announces changed  *)
(* hosts (internal/proxy routing_runtime.go, config_cache.go, lru.go,      *)
(* config_bus.go, manager.go; internal/http/resources.go).                 *)
(*                                                                         *)
(* A service row is its host, its enabled flag and a version standing for  *)
(* the rest of its columns.  Wild is the one wildcard host; it matches     *)
(* every host.  Choosing among the routes of a host by path is left out.   *)
(* Each database, Redis or lock section is one action.                     *)
(***************************************************************************)
EXTENDS Integers, Sequences, FiniteSets

CONSTANTS
    Instances,   \* hub processes
    Hosts,       \* hosts without wildcard
    Services,    \* primary keys of services
    Resolvers,   \* requests being routed
    Admins,      \* change handlers in flight
    Wild,        \* the wildcard host
    None,
    Setups,      \* installations to consider: the hubs that run, whether they
                 \* share a Redis, the hosts clients ask for, the change
                 \* handlers that may overlap, the changes they make, the rows
                 \* they write and how often, and whether cache lifetimes
                 \* count meanwhile
    LocalTTL,    \* RouteLocalCacheTTL, in whole ticks
    SharedTTL,   \* lifetime in the shared cache, in whole ticks
    Capacity,    \* RouteLocalCacheSize
    BusCapacity, \* capacity of a subscriber's channel
    MaxVersion   \* bound on the writes of new content

Changes == {"create", "update", "delete", "redeploy"}

\* What a request writes; the version is given to it when it is written.
NewRow == [host: Hosts \union {Wild}, enabled: BOOLEAN, ver: {0}]

ASSUME BoundsAssumption ==
    /\ LocalTTL \in Nat /\ SharedTTL \in Nat /\ Capacity \in Nat \ {0}
    /\ BusCapacity \in Nat \ {0} /\ MaxVersion \in Nat
ASSUME SetupsAssumption ==
    Setups \subseteq [hubs: SUBSET Instances, redis: BOOLEAN, asked: SUBSET Hosts,
                      handlers: SUBSET Admins, changes: SUBSET Changes, rows: SUBSET NewRow,
                      writes: 0..MaxVersion, slow: BOOLEAN]
ASSUME NamesAssumption ==
    Wild \notin Hosts /\ None \notin Hosts \union {Wild} /\ "redis" \notin Instances

VARIABLES
    setup,     \* the installation, which stays as it is
    services,  \* services table; host None is no row
    version,   \* versions written so far
    shared,    \* route cache: Redis, or one per instance
    local,     \* per instance: LRU of compiled routes, most recent first
    bus,       \* per instance: announced hosts not yet handled
    res,       \* program counter and local variables of each resolver
    adm,       \* program counter and local variables of each change handler
    missed,    \* history: caches that a change did not reach, because its handler
               \* gave up halfway or its announcement was lost
    lost,      \* history: hosts of rows that a handler wrote, replaced or deleted
               \* without knowing of them, until they are invalidated
    since      \* history: ticks since the routes of a host changed, while
               \* some cache or request still holds older ones

vars == <<setup, services, version, shared, local, bus, res, adm, missed, lost, since>>

UseRedis == setup.redis
Caches == Instances \union {"redis"}
CacheOf(i) == IF UseRedis THEN "redis" ELSE i
MaxSince == SharedTTL + LocalTTL + 1

Row == [host: Hosts \union {Wild}, enabled: BOOLEAN, ver: 0..MaxVersion]
NoRow == [host |-> None, enabled |-> FALSE, ver |-> 0]
Routes == SUBSET (Services \X (0..MaxVersion))

\* raced and slow are history: the routes were outdated and held across an
\* invalidation of their host, or across a tick, before they were stored.
Entry == [routes: Routes, ttl: -1..(SharedTTL + LocalTTL), raced: BOOLEAN, slow: BOOLEAN]
Element == [host: Hosts, entry: Entry]
NoEntry == [routes |-> {}, ttl |-> -2, raced |-> FALSE, slow |-> FALSE]

Res == [pc: {"idle", "shared", "drop", "db", "setShared", "add"},
        inst: Instances \union {None}, host: Hosts \union {None},
        entry: Entry \union {NoEntry}]
IdleRes == [pc |-> "idle", inst |-> None, host |-> None, entry |-> NoEntry]

Adm == [pc: {"idle", "write", "delete", "apRoute", "apRead", "apSave", "invLocal",
             "invShared", "publish", "compare", "done"},
        inst: Instances \union {None}, id: Services \union {None}, row: Row \union {NoRow},
        prev: Hosts \union {Wild, None},  \* previousHost, still to be invalidated
        host: Hosts \union {Wild, None}]  \* argument of InvalidateHost
IdleAdm == [pc |-> "idle", inst |-> None, id |-> None, row |-> NoRow,
            prev |-> None, host |-> None]

Init ==
    /\ setup \in Setups
    /\ services \in [Services -> {NoRow} \union {row \in setup.rows : row.enabled}]
    /\ version = 0
    /\ shared = [c \in Caches |-> [h \in Hosts |-> NoEntry]]
    /\ local = [i \in Instances |-> <<>>]
    /\ bus = [i \in Instances |-> <<>>]
    /\ res = [r \in Resolvers |-> IdleRes]
    /\ adm = [a \in Admins |-> IdleAdm]
    /\ missed = {}
    /\ lost = {}
    /\ since = [h \in Hosts |-> 0]

-----------------------------------------------------------------------------
(* The routing store and the LRU.                                          *)

\* Enabled services at host x.
At(db, x) == {<<s, db[s].ver>> : s \in {s \in Services : db[s].host = x /\ db[s].enabled}}

\* GetRoutesForHost: services at the host itself, else the wildcard ones.
RoutesOf(db, h) == IF At(db, h) # {} THEN At(db, h) ELSE At(db, Wild)

Valid(e) == e # NoEntry /\ e.ttl >= 0
Current(e, h) == e.routes = RoutesOf(services, h)

\* An entry as it enters the shared cache, and as it ages by one tick; what an
\* expired one held is never read.
Kept(e) == [e EXCEPT !.ttl = SharedTTL]
Aged(e) ==
    IF e.ttl <= 0 THEN [routes |-> {}, ttl |-> -1, raced |-> FALSE, slow |-> FALSE]
    ELSE [e EXCEPT !.ttl = @ - 1]

Has(lru, h) == \E k \in 1..Len(lru) : lru[k].host = h
Place(lru, h) == CHOOSE k \in 1..Len(lru) : lru[k].host = h
Find(lru, h) == lru[Place(lru, h)].entry
Remove(lru, h) ==
    IF ~Has(lru, h) THEN lru
    ELSE SubSeq(lru, 1, Place(lru, h) - 1) \o SubSeq(lru, Place(lru, h) + 1, Len(lru))

\* Add: the element moves or is put in front; the last one of too many goes.
Add(lru, h, e) ==
    LET added == <<[host |-> h, entry |-> e]>> \o Remove(lru, h)
    IN  SubSeq(added, 1, IF Len(added) > Capacity THEN Capacity ELSE Len(added))

-----------------------------------------------------------------------------
(* resolveRoutesForHost.                                                   *)

ReturnRes(r) == res' = [res EXCEPT ![r] = IdleRes]

\* localCache.Get: a hit moves to the front and is served; an expired element
\* is removed.
ResolveLocal(r, i, h) ==
    /\ res[r].pc = "idle"
    /\ \/ /\ Has(local[i], h) /\ Find(local[i], h).ttl >= 0
          /\ local' = [local EXCEPT ![i] = Add(@, h, Find(@, h))]
          /\ UNCHANGED res
       \/ /\ ~(Has(local[i], h) /\ Find(local[i], h).ttl >= 0)
          /\ local' = [local EXCEPT ![i] = Remove(@, h)]
          /\ res' = [res EXCEPT ![r] = [IdleRes EXCEPT !.pc = "shared", !.inst = i, !.host = h]]
    /\ UNCHANGED <<setup, services, version, shared, bus, adm, missed, lost, since>>

\* cache.GetRoutesForHost: a hit, an expired element still in the map of a
\* process, or a miss.
ResolveShared(r) ==
    LET e == shared[CacheOf(res[r].inst)][res[r].host] IN
    /\ res[r].pc = "shared"
    /\ \/ e # NoEntry /\ e.ttl >= 0
          /\ res' = [res EXCEPT ![r] = [@ EXCEPT !.pc = "add", !.entry = Kept(e)]]
       \/ e # NoEntry /\ e.ttl < 0
          /\ res' = [res EXCEPT ![r].pc = "drop"]
       \/ e = NoEntry
          /\ res' = [res EXCEPT ![r].pc = "db"]
    /\ UNCHANGED <<setup, services, version, shared, local, bus, adm, missed, lost, since>>

\* The expired element is deleted under a second lock without another look.
ResolveDrop(r) ==
    /\ res[r].pc = "drop"
    /\ shared' = [shared EXCEPT ![CacheOf(res[r].inst)][res[r].host] = NoEntry]
    /\ res' = [res EXCEPT ![r].pc = "db"]
    /\ UNCHANGED <<setup, services, version, local, bus, adm, missed, lost, since>>

ResolveStore(r) ==
    /\ res[r].pc = "db"
    /\ res' = [res EXCEPT ![r] = [@ EXCEPT !.pc = "setShared",
         !.entry = [routes |-> RoutesOf(services, res[r].host), ttl |-> SharedTTL,
                    raced |-> FALSE, slow |-> FALSE]]]
    /\ UNCHANGED <<setup, services, version, shared, local, bus, adm, missed, lost, since>>

\* SetRoutesForHost; an error of Redis is ignored.
SetShared(r) ==
    /\ res[r].pc = "setShared"
    /\ \/ shared' = [shared EXCEPT ![CacheOf(res[r].inst)][res[r].host] =
                       Kept(res[r].entry)]
       \/ UseRedis /\ UNCHANGED shared
    /\ res' = [res EXCEPT ![r].pc = "add"]
    /\ UNCHANGED <<setup, services, version, local, bus, adm, missed, lost, since>>

\* Mutant: the compiled routes get the lifetime of the shared cache.
MutLocalLife(e) == [e EXCEPT !.ttl = SharedTTL]

\* Whatever the shared cache had left, the LRU counts its own lifetime.
LocalLife(e) == [e EXCEPT !.ttl = LocalTTL]

AddLocal(r) ==
    /\ res[r].pc = "add"
    /\ local' = [local EXCEPT ![res[r].inst] = Add(@, res[r].host, LocalLife(res[r].entry))]
    /\ ReturnRes(r)
    /\ UNCHANGED <<setup, services, version, shared, bus, adm, missed, lost, since>>

\* A database or Redis error, or routes that do not compile.
ResolveFails(r) ==
    /\ res[r].pc # "idle"
    /\ ReturnRes(r)
    /\ UNCHANGED <<setup, services, version, shared, local, bus, adm, missed, lost, since>>

-----------------------------------------------------------------------------
(* Change handlers.                                                        *)

Goto(a, where) == adm' = [adm EXCEPT ![a].pc = where]

\* A new row of service s, by a handler that is going to invalidate the hosts
\* it knows of; history notes which hosts it changes.
WriteService(s, row, known) ==
    LET db == [services EXCEPT ![s] = row] IN
    /\ services' = db
    /\ lost' = lost \union
         (IF row = services[s] THEN {} ELSE {services[s].host, row.host} \ (known \union {None}))
    /\ since' = [h \in Hosts |-> IF RoutesOf(db, h) = RoutesOf(services, h) THEN since[h] ELSE 0]

\* handleUpdateService up to its write: the row that was loaded, with the
\* columns the request names.
LoadService(a, i, s, to) ==
    /\ adm[a].pc = "idle"
    /\ services[s] # NoRow
    /\ version < setup.writes
    /\ version' = version + 1
    /\ adm' = [adm EXCEPT ![a] = [pc |-> "write", inst |-> i, id |-> s,
                 row |-> [to EXCEPT !.ver = version + 1], prev |-> services[s].host, host |-> None]]
    /\ UNCHANGED <<setup, services, shared, local, bus, res, missed, lost, since>>

\* Save writes every column, and inserts the row if it is gone.
SaveService(a) ==
    /\ adm[a].pc = "write"
    /\ WriteService(adm[a].id, adm[a].row, {adm[a].prev, adm[a].row.host})
    /\ adm' = [adm EXCEPT ![a] = [@ EXCEPT !.pc = "apRoute", !.row = NoRow]]
    /\ UNCHANGED <<setup, version, shared, local, bus, res, missed>>

\* handleCreateService inserts under a key no handler knows yet.
CreateService(a, i, s, to) ==
    /\ adm[a].pc = "idle"
    /\ version < setup.writes
    /\ services[s] = NoRow /\ \A b \in Admins : adm[b].id # s
    /\ version' = version + 1
    /\ WriteService(s, [to EXCEPT !.ver = version + 1], {to.host})
    /\ adm' = [adm EXCEPT ![a] = [IdleAdm EXCEPT !.pc = "apRoute", !.inst = i, !.id = s]]
    /\ UNCHANGED <<setup, shared, local, bus, res, missed>>

\* handleDeleteService loads the row, then deletes it.
LoadForDelete(a, i, s) ==
    /\ adm[a].pc = "idle"
    /\ services[s] # NoRow
    /\ adm' = [adm EXCEPT ![a] = [IdleAdm EXCEPT !.pc = "delete", !.inst = i, !.id = s,
                                                 !.host = services[s].host]]
    /\ UNCHANGED <<setup, services, version, shared, local, bus, res, missed, lost, since>>

DeleteService(a) ==
    /\ adm[a].pc = "delete"
    /\ services[adm[a].id] # NoRow
    /\ WriteService(adm[a].id, NoRow, {adm[a].host})
    /\ Goto(a, "invLocal")
    /\ UNCHANGED <<setup, version, shared, local, bus, res, missed>>

\* A redeploy, or a change of a service group, calls ApplyServiceChange alone.
Redeploy(a, i, s) ==
    /\ adm[a].pc = "idle"
    /\ adm' = [adm EXCEPT ![a] = [IdleAdm EXCEPT !.pc = "apRoute", !.inst = i, !.id = s]]
    /\ UNCHANGED <<setup, services, version, shared, local, bus, res, missed, lost, since>>

\* ApplyServiceChange: the host to invalidate.
ApplyRoute(a) ==
    /\ adm[a].pc = "apRoute"
    /\ services[adm[a].id] # NoRow
    /\ adm' = [adm EXCEPT ![a] = [@ EXCEPT !.pc = "apRead", !.host = services[adm[a].id].host]]
    /\ UNCHANGED <<setup, services, version, shared, local, bus, res, missed, lost, since>>

\* The row is read and saved whole again with its next revision.
ApplyRead(a) ==
    /\ adm[a].pc = "apRead"
    /\ services[adm[a].id] # NoRow
    /\ adm' = [adm EXCEPT ![a] = [@ EXCEPT !.pc = "apSave", !.row = services[adm[a].id]]]
    /\ UNCHANGED <<setup, services, version, shared, local, bus, res, missed, lost, since>>

ApplySave(a) ==
    /\ adm[a].pc = "apSave"
    /\ WriteService(adm[a].id, adm[a].row, {adm[a].host})
    /\ adm' = [adm EXCEPT ![a] = [@ EXCEPT !.pc = "invLocal", !.row = NoRow]]
    /\ UNCHANGED <<setup, version, shared, local, bus, res, missed>>

\* The host InvalidateHost was called with concerns host h.
Concerns(x, h) == x = h \/ x = Wild

\* localCache.Remove, or Purge for a wildcard host.
DropLocal(lru, x) == IF x = Wild THEN <<>> ELSE Remove(lru, x)

\* A request holds routes that are no longer those of its host.
Outdated(r) == res[r].pc \in {"setShared", "add"} /\ ~Current(res[r].entry, res[r].host)

\* History: requests on these instances that hold outdated routes of a
\* concerned host.
Race(is, x) ==
    res' = [r \in Resolvers |->
        IF /\ Outdated(r) /\ res[r].inst \in is /\ Concerns(x, res[r].host)
        THEN [res[r] EXCEPT !.entry.raced = TRUE] ELSE res[r]]

\* InvalidateHost: the LRU of this process, the shared cache, the bus.
InvalidateLocal(a) ==
    /\ adm[a].pc = "invLocal"
    /\ local' = [local EXCEPT ![adm[a].inst] = DropLocal(@, adm[a].host)]
    /\ Race({adm[a].inst}, adm[a].host)
    /\ Goto(a, "invShared")
    /\ UNCHANGED <<setup, services, version, shared, bus, missed, lost, since>>

InvalidateShared(a) ==
    /\ adm[a].pc = "invShared"
    /\ shared' = [shared EXCEPT ![CacheOf(adm[a].inst)] =
         [h \in Hosts |-> IF Concerns(adm[a].host, h) THEN NoEntry ELSE @[h]]]
    /\ Race({i \in Instances : CacheOf(i) = CacheOf(adm[a].inst)}, adm[a].host)
    /\ lost' = {h \in lost : ~Concerns(adm[a].host, h)}
    /\ Goto(a, "publish")
    /\ UNCHANGED <<setup, services, version, local, bus, missed, since>>

\* The next thing after an InvalidateHost: the handler of an update looks
\* whether the service moved, the others are done.
Published(a) ==
    adm' = [adm EXCEPT ![a] = IF @.prev # None THEN [@ EXCEPT !.pc = "compare"]
                              ELSE [IdleAdm EXCEPT !.pc = "done", !.inst = adm[a].inst]]

\* The in-memory bus drops the event when the channel is full.
PublishMemory(a) ==
    /\ adm[a].pc = "publish"
    /\ ~UseRedis
    /\ bus' = [bus EXCEPT ![adm[a].inst] =
                 IF Len(@) < BusCapacity THEN Append(@, adm[a].host) ELSE @]
    /\ missed' = missed \union (setup.hubs \ {i \in {adm[a].inst} : Len(bus[i]) < BusCapacity})
    /\ Published(a)
    /\ UNCHANGED <<setup, services, version, shared, local, res, lost, since>>

\* Redis delivers to the instances connected at this moment.
PublishRedis(a) ==
    /\ adm[a].pc = "publish"
    /\ UseRedis
    /\ \E got \in SUBSET {i \in setup.hubs : Len(bus[i]) < BusCapacity} :
         /\ bus' = [i \in Instances |-> IF i \in got THEN Append(bus[i], adm[a].host) ELSE bus[i]]
         /\ missed' = missed \union (setup.hubs \ got)
    /\ Published(a)
    /\ UNCHANGED <<setup, services, version, shared, local, res, lost, since>>

\* Mutant: a service that moved leaves the routes of its old host alone.
MutForgetPrevious(a) ==
    /\ adm[a].pc = "compare"
    /\ Goto(a, "done")
    /\ UNCHANGED <<setup, services, version, shared, local, bus, res, missed, lost, since>>

\* handleUpdateService invalidates the previous host if the service moved.  A
\* row gone by now compares as the one ApplyServiceChange began with.
ComparePrevious(a) ==
    LET now == IF services[adm[a].id] = NoRow THEN adm[a].host ELSE services[adm[a].id].host IN
    /\ adm[a].pc = "compare"
    /\ adm' = [adm EXCEPT ![a] =
         IF now # adm[a].prev
         THEN [@ EXCEPT !.pc = "invLocal", !.host = adm[a].prev, !.prev = None]
         ELSE [IdleAdm EXCEPT !.pc = "done", !.inst = adm[a].inst]]
    /\ UNCHANGED <<setup, services, version, shared, local, bus, res, missed, lost, since>>

ChangeDone(a) ==
    /\ adm[a].pc = "done"
    /\ adm' = [adm EXCEPT ![a] = IdleAdm]
    /\ UNCHANGED <<setup, services, version, shared, local, bus, res, missed, lost, since>>

\* A call fails, finds no row, or the client goes away.
ChangeFails(a) ==
    /\ adm[a].pc \notin {"idle", "done"}
    /\ missed' = missed \union (IF adm[a].pc \in {"write", "delete"} THEN {}
                                ELSE setup.hubs \union {CacheOf(i) : i \in setup.hubs})
    /\ adm' = [adm EXCEPT ![a] = IdleAdm]
    /\ UNCHANGED <<setup, services, version, shared, local, bus, res, lost, since>>

-----------------------------------------------------------------------------
\* The goroutine of Start handles one announced host.
HandleEvent(i) ==
    /\ bus[i] # <<>>
    /\ local' = [local EXCEPT ![i] = DropLocal(@, Head(bus[i]))]
    /\ bus' = [bus EXCEPT ![i] = Tail(@)]
    /\ UNCHANGED <<setup, services, version, shared, res, adm, missed, lost, since>>

\* SyncAllServicesFromDB.
PurgeLocal(i) ==
    /\ local[i] # <<>>
    /\ local' = [local EXCEPT ![i] = <<>>]
    /\ UNCHANGED <<setup, services, version, shared, bus, res, adm, missed, lost, since>>

\* Redis removes an expired key; the map of a process keeps it until looked at.
AgeShared(e) ==
    IF e = NoEntry \/ (UseRedis /\ e.ttl = 0) THEN NoEntry
    ELSE Aged(e)

\* Some cache or request holds outdated routes of host h.
Lingers(h) ==
    \/ \E c \in Caches : Valid(shared[c][h]) /\ ~Current(shared[c][h], h)
    \/ \E i \in Instances : /\ Has(local[i], h)
                             /\ Valid(Find(local[i], h)) /\ ~Current(Find(local[i], h), h)
    \/ \E r \in Resolvers : res[r].host = h /\ Outdated(r)

Tick ==
    /\ setup.slow
    /\ shared' = [c \in Caches |-> [h \in Hosts |-> AgeShared(shared[c][h])]]
    /\ local' = [i \in Instances |-> [k \in DOMAIN local[i] |->
         [local[i][k] EXCEPT !.entry = Aged(@)]]]
    /\ res' = [r \in Resolvers |-> IF Outdated(r) THEN [res[r] EXCEPT !.entry.slow = TRUE]
                                   ELSE res[r]]
    /\ since' = [h \in Hosts |-> IF ~Lingers(h) THEN 0
                                 ELSE IF since[h] < MaxSince THEN since[h] + 1 ELSE MaxSince]
    /\ UNCHANGED <<setup, services, version, bus, adm, missed, lost>>

ResolveStep(r) ==
    \/ ResolveShared(r) \/ ResolveDrop(r) \/ ResolveStore(r) \/ SetShared(r) \/ AddLocal(r)

ChangeStep(a) ==
    \/ SaveService(a) \/ DeleteService(a) \/ ApplyRoute(a) \/ ApplyRead(a) \/ ApplySave(a)
    \/ InvalidateLocal(a) \/ InvalidateShared(a) \/ PublishMemory(a) \/ PublishRedis(a)
    \/ ComparePrevious(a) \/ ChangeDone(a)

Next ==
    \/ Tick
    \/ \E i \in setup.hubs :
         \/ HandleEvent(i)
         \/ PurgeLocal(i)
         \/ \E r \in Resolvers, h \in setup.asked : ResolveLocal(r, i, h)
         \/ \E a \in setup.handlers, s \in Services :
              \/ "delete" \in setup.changes /\ LoadForDelete(a, i, s)
              \/ "redeploy" \in setup.changes /\ Redeploy(a, i, s)
              \/ "update" \in setup.changes /\ \E to \in setup.rows : LoadService(a, i, s, to)
              \/ "create" \in setup.changes /\ \E to \in setup.rows : CreateService(a, i, s, to)
    \/ \E r \in Resolvers : ResolveStep(r) \/ ResolveFails(r)
    \/ \E a \in Admins : ChangeStep(a) \/ ChangeFails(a)

Spec == Init /\ [][Next]_vars

-----------------------------------------------------------------------------
(* Properties.                                                             *)

\* Rows, cache entries, announced hosts and handler variables keep their types.
TypeOK ==
    /\ setup \in Setups
    /\ services \in [Services -> Row \union {NoRow}]
    /\ version \in 0..MaxVersion
    /\ shared \in [Caches -> [Hosts -> Entry \union {NoEntry}]]
    /\ local \in [Instances -> Seq(Element)]
    /\ bus \in [Instances -> Seq(Hosts \union {Wild})]
    /\ res \in [Resolvers -> Res]
    /\ adm \in [Admins -> Adm]
    /\ missed \in SUBSET Caches
    /\ lost \in SUBSET (Hosts \union {Wild})
    /\ since \in [Hosts -> 0..MaxSince]

\* A host none of whose changes went by unseen.
Tracked(h) == {h, Wild} \intersect lost = {}

Announced(i, h) == \E k \in DOMAIN bus[i] : Concerns(bus[i][k], h)

\* When every change handler has reported success, a process that heard of
\* every change holds no outdated routes for any host, the one the service
\* moved away from and those a wildcard covers included, and neither does the
\* cache it shares, however the handlers overlapped:
\* an update that loaded a service before it was deleted and inserts it again
\* makes it visible like any other.  Excepted are routes that a request read
\* before the invalidation and stored after it, routes whose removal is still
\* announced on the bus, and a host that one handler gave the service and
\* another one replaced, deleted or wrote back unseen; nothing is promised of
\* the caches a change did not reach, because its handler gave up halfway or its
\* announcement was lost (handleUpdateService, handleDeleteService,
\* ServiceStore.Update, InvalidateHost).
SuccessVisible ==
    (\A a \in Admins : adm[a].pc \in {"idle", "done"}) =>
        \A i \in setup.hubs, h \in {x \in Hosts : Tracked(x)} :
            /\ CacheOf(i) \notin missed =>
                 LET e == shared[CacheOf(i)][h] IN Valid(e) => e.raced \/ Current(e, h)
            /\ i \notin missed /\ Has(local[i], h) =>
                 LET e == Find(local[i], h) IN
                 Valid(e) => e.raced \/ Current(e, h) \/ Announced(i, h)

\* Whatever announcement was lost and whatever invalidation failed, no process
\* serves routes that were outdated more than the two cache lifetimes ago,
\* unless a single request held them across a tick before storing them.
StaleBounded ==
    \A i \in Instances, h \in Hosts : Has(local[i], h) =>
        LET e == Find(local[i], h) IN
        Valid(e) /\ ~e.slow /\ ~Current(e, h)
            => since[h] <= SharedTTL + LocalTTL

-----------------------------------------------------------------------------
(* The inductive invariants behind them.                                   *)

Elements(lru) == {lru[k] : k \in DOMAIN lru}
Held(i) == Elements(local[i])
Once(lru) == \A j, k \in DOMAIN lru : lru[j].host = lru[k].host => j = k

\* A handler or request under way knows what it works on, and the LRU has a
\* host once.
Applying == {"apRead", "apSave", "invLocal", "invShared", "publish", "compare"}
AdmWhole(d) ==
    d.pc \notin {"idle", "done"} =>
        /\ d.inst \in setup.hubs /\ d.id \in Services
        /\ d.pc \in Applying \union {"delete"} => d.host \in Hosts \union {Wild}
        /\ d.pc = "compare" => d.prev # None
ResWhole(q) ==
    q.pc # "idle" =>
        /\ q.inst \in setup.hubs /\ q.host \in Hosts
        /\ q.pc \in {"setShared", "add"} => q.entry \in Entry
Whole ==
    /\ \A a \in Admins : AdmWhole(adm[a])
    /\ \A r \in Resolvers : ResWhole(res[r])
    /\ \A i \in Instances : Once(local[i])

\* The time outdated routes have left and the time they have been outdated.
Overdue(e, h) == Valid(e) /\ ~e.slow /\ ~Current(e, h)
SharedAge(e, h) ==
    e.ttl <= SharedTTL /\ (Overdue(e, h) => since[h] + e.ttl <= SharedTTL)
LocalAge(x) ==
    /\ x.entry.ttl <= LocalTTL
    /\ Overdue(x.entry, x.host) => since[x.host] + x.entry.ttl <= SharedTTL + LocalTTL
ResAge(r) ==
    Outdated(r) /\ ~res[r].entry.slow =>
        since[res[r].host] <= IF res[r].pc = "setShared" THEN 0 ELSE SharedTTL
AgesInStep ==
    /\ \A c \in Caches, h \in Hosts : SharedAge(shared[c][h], h)
    /\ \A i \in Instances : \A x \in Held(i) : LocalAge(x)
    /\ \A r \in Resolvers : ResAge(r)

\* Handler a is going to invalidate host h: with its first InvalidateHost,
\* which is still before one of these steps, or with the second one, for the
\* host the service was moved away from; or it works where the caches of
\* instance i are out of its reach, which it is going to note.
First(a, h, before) ==
    \/ adm[a].pc = "apRoute" /\ Concerns(services[adm[a].id].host, h)
    \/ adm[a].pc \in before /\ Concerns(adm[a].host, h)
Now(a) == IF services[adm[a].id] = NoRow THEN adm[a].host ELSE services[adm[a].id].host
Second(a, h) ==
    /\ Concerns(adm[a].prev, h)
    /\ adm[a].pc = "apRoute" \/ (adm[a].pc \in Applying /\ adm[a].prev \notin {adm[a].host, Now(a)})
Beyond(a, i) ==
    CacheOf(adm[a].inst) # CacheOf(i) /\ adm[a].pc \in {"apRoute"} \union (Applying \ {"compare"})
Due(a, i, h, before) == First(a, h, before) \/ Second(a, h) \/ Beyond(a, i)

BeforePublish == {"apRead", "apSave", "invLocal", "invShared"}
BeforeCompare == BeforePublish \union {"publish"}
ToShared(i, h) == \E a \in Admins : Due(a, i, h, BeforePublish)
ToLocal(i, h) == \E a \in Admins : Due(a, i, h, BeforeCompare)

Unseen(e, h) == Valid(e) /\ ~e.raced /\ ~Current(e, h)

\* Outdated routes of a tracked host have an invalidation to come, in the
\* cache and with the requests that hold them, and in the LRU.
SharedComing(i, h) ==
    /\ Unseen(shared[CacheOf(i)][h], h) => ToShared(i, h)
    /\ \A r \in Resolvers :
         Outdated(r) /\ ~res[r].entry.raced /\ res[r].inst = i /\ res[r].host = h => ToShared(i, h)
LocalComing(i, h) ==
    \A x \in Held(i) : x.host = h /\ Unseen(x.entry, h) => ToLocal(i, h) \/ Announced(i, h)
ChangesComing ==
    \A i \in setup.hubs :
        /\ CacheOf(i) \in missed => i \in missed
        /\ \A h \in Hosts : Tracked(h) =>
             /\ CacheOf(i) \notin missed => SharedComing(i, h)
             /\ i \notin missed => LocalComing(i, h)

RouteInv == TypeOK /\ Whole /\ AgesInStep /\ ChangesComing
=============================================================================
