---------------------------- MODULE UpkeepProofs ----------------------------
(***************************************************************************)
(* Proofs about the authentication cache: no hub serves an entry past the  *)
(* expiry of its token, and on a hub that runs alone an entry is older     *)
(* than its user only while an invalidation is due or after a fill was     *)
(* raced.  Both follow from CacheInv of AuthCache.                         *)
(*                                                                         *)
(* Proofs about the asynchronous audit sink: no event that entered the     *)
(* channel vanishes, is written twice or overtakes another one, and when   *)
(* run has ended those sent before Close are written or lost by a failed   *)
(* batch or an eviction.  Both follow from SinkInv of AuditSink.           *)
(***************************************************************************)
EXTENDS Upkeep, FiniteSetTheorems, SequenceTheorems, TLAPS

USE OwnerAssumption, BoundsAssumption, SetupsAssumption, NoneAssumption

-----------------------------------------------------------------------------
(* Constants and small operators.                                          *)

\* The empty entry and the idle handler are of their types.
LEMMA Blanks ==
    /\ NoEntry \in Entry /\ NoEntry.ver = -1 /\ NoEntry.ttl = -1 /\ NoEntry.raced = FALSE
    /\ NoIndex \in Index
    /\ Idle \in Req /\ Idle.pc = "idle"
PROOF
<1>1. NoEntry \in Entry /\ NoEntry.ver = -1 /\ NoEntry.ttl = -1 /\ NoEntry.raced = FALSE
  BY DEF Entry, NoEntry
<1>2. NoIndex \in Index
  BY DEF Index, NoIndex
<1>3. Idle \in Req /\ Idle.pc = "idle"
  BY <1>1 DEF Req, Idle, PCs
<1> QED
  BY <1>1, <1>2, <1>3

\* An entry loses time and nothing else (the ages of Tick).
LEMMA Ages ==
    ASSUME NEW e \in Entry
    PROVE  /\ AgeLocal(e) \in Entry
           /\ AgeLocal(e).ver = e.ver /\ AgeLocal(e).raced = e.raced
           /\ AgeLocal(e).ttl = IF e.ttl < 0 THEN e.ttl ELSE e.ttl - 1
           /\ AgeRedis(e) \in Entry
PROOF
<1>1. e.ttl \in -1..CacheTTL
  BY DEF Entry
<1>2. CASE e.ttl < 0
  BY <1>1, <1>2, Blanks DEF AgeLocal, AgeRedis
<1>3. CASE e.ttl >= 0
  <2>1. [e EXCEPT !.ttl = e.ttl - 1] \in Entry
    BY <1>1, <1>3 DEF Entry
  <2>2. /\ [e EXCEPT !.ttl = e.ttl - 1].ver = e.ver
        /\ [e EXCEPT !.ttl = e.ttl - 1].raced = e.raced
        /\ [e EXCEPT !.ttl = e.ttl - 1].ttl = e.ttl - 1
    BY DEF Entry
  <2> QED
    BY <1>1, <1>3, <2>1, <2>2, Blanks DEF AgeLocal, AgeRedis
<1> QED
  BY <1>1, <1>2, <1>3

\* The index of a user in Redis ages within its type.
LEMMA IndexAges ==
    ASSUME NEW x \in Index
    PROVE  AgeIndex(x) \in Index
PROOF
<1>1. x.ttl \in 0..CacheTTL
  BY DEF Index
<1>2. CASE x.ttl <= 1
  BY <1>2, Blanks DEF AgeIndex
<1>3. CASE x.ttl > 1
  <2>1. [x EXCEPT !.ttl = x.ttl - 1] \in Index
    BY <1>1, <1>3 DEF Index
  <2> QED
    BY <1>1, <1>3, <2>1 DEF AgeIndex
<1> QED
  BY <1>1, <1>2, <1>3

\* The fields of a handler.
LEMMA Fields ==
    ASSUME NEW h \in Req
    PROVE  /\ h.pc \in PCs /\ h.inst \in Instances \union {None}
           /\ h.tok \in Tokens \union {None} /\ h.user \in Users \union {None}
           /\ h.entry \in Entry /\ h.members \in SUBSET Tokens
           /\ h.entry.ver \in -1..MaxVersion /\ h.entry.ttl \in -1..CacheTTL
           /\ h.entry.raced \in BOOLEAN
PROOF
  BY DEF Req, Entry

\* A hub that runs alone is the only one.
LEMMA OneHub ==
    ASSUME setup \in Setups, Cardinality(setup.hubs) = 1,
           NEW i \in setup.hubs, NEW j \in setup.hubs
    PROVE  i = j
PROOF
<1>1. setup.hubs \in SUBSET Instances
  OBVIOUS
<1>2. IsFiniteSet(setup.hubs)
  BY <1>1, InstancesAssumption, FS_Subset
<1>3. PICK x : setup.hubs = {x}
  BY <1>2, FS_Singleton
<1> QED
  BY <1>3

-----------------------------------------------------------------------------
(* What holds after a step of one handler that leaves users and lifetimes.  *)

\* The tables a handler's own bookkeeping depends on stay.
Still == UNCHANGED <<setup, version, life>>

\* An invalidation that is due stays due when one handler moves on without
\* giving one up.
LEMMA PendingKept ==
    ASSUME req \in [Requests -> Req],
           NEW r \in Requests, NEW q, req' = [req EXCEPT ![r] = q],
           \A i, u : Owes(req[r], i, u) => Owes(q, i, u)
    PROVE  \A i, u : Pending(i, u) => Pending(i, u)'
PROOF
<1> SUFFICES ASSUME NEW i, NEW u, Pending(i, u)
             PROVE  Pending(i, u)'
  OBVIOUS
<1>1. PICK x \in Requests : Owes(req[x], i, u)
  BY DEF Pending
<1>2. Owes(req'[x], i, u)
  BY <1>1
<1> QED
  BY <1>1, <1>2 DEF Pending, Owes

\* A handler that moves on keeps the invariants of the handlers if its own
\* next state does.
LEMMA HandlerMoves ==
    ASSUME CacheInv, Still,
           NEW r \in Requests, NEW q \in Req, req' = [req EXCEPT ![r] = q],
           \A i, u : Owes(req[r], i, u) => Owes(q, i, u),
           Placed(q), FillDies(q),
           Cardinality(setup.hubs) = 1 => FillCurrent(q)
    PROVE  /\ req' \in [Requests -> Req]
           /\ HandlersPlaced' /\ FillsDieWithToken' /\ FillsStaleOnlyByRace'
           /\ \A i, u : Pending(i, u) => Pending(i, u)'
PROOF
<1>0. req \in [Requests -> Req] /\ HandlersPlaced /\ FillsDieWithToken /\ FillsStaleOnlyByRace
  BY DEF CacheInv, TypeOK
<1>1. req' \in [Requests -> Req]
  BY <1>0
<1>2. \A i, u : Pending(i, u) => Pending(i, u)'
  BY <1>0, PendingKept
<1>3. \A x \in Requests : req'[x] = IF x = r THEN q ELSE req[x]
  BY <1>0
<1>4. HandlersPlaced'
  BY <1>0, <1>3 DEF HandlersPlaced, Placed, Still
<1>5. FillsDieWithToken'
  BY <1>0, <1>3 DEF FillsDieWithToken, FillDies, Still
<1>6. FillsStaleOnlyByRace'
  <2> SUFFICES ASSUME Cardinality(setup.hubs) = 1, NEW x \in Requests,
                      req'[x].pc \in Filling, req'[x].entry.ver < version[req'[x].user],
                      ~req'[x].entry.raced
               PROVE  Pending(req[x].inst, req[x].user)'
    BY DEF FillsStaleOnlyByRace, FillCurrent, Still
  <2>1. FillCurrent(req[x])
    BY <1>0 DEF FillsStaleOnlyByRace
  <2>2. Pending(req'[x].inst, req'[x].user)
    BY <1>3, <2>1 DEF FillCurrent
  <2>3. \A i, u : i = req'[x].inst /\ u = req'[x].user => Pending(i, u)'
    BY <1>2, <2>2
  <2> QED
    BY <2>3 DEF Pending, Owes
<1> QED
  BY <1>1, <1>2, <1>4, <1>5, <1>6

\* Entries that stay or go break no property of the map.
LEMMA MapShrinks ==
    ASSUME CacheInv, Still,
           authCache' \in [Instances -> [Tokens -> Entry]],
           \A i \in Instances, t \in Tokens :
               authCache'[i][t] = authCache[i][t] \/ authCache'[i][t] = NoEntry,
           \A i \in setup.hubs, t \in Tokens :
               Cached(i, t)' /\ Pending(i, Owner[t]) => Pending(i, Owner[t])'
    PROVE  EntryDiesWithToken' /\ StaleOnlyByRace'
PROOF
<1>0. TypeOK /\ EntryDiesWithToken /\ StaleOnlyByRace
  BY DEF CacheInv
<1>1. EntryDiesWithToken'
  BY <1>0 DEF EntryDiesWithToken, Cached, Still
<1>2. StaleOnlyByRace'
  <2> SUFFICES ASSUME Cardinality(setup.hubs) = 1, NEW i \in setup.hubs, NEW t \in Tokens,
                      Cached(i, t)', authCache'[i][t].ver < version[Owner[t]],
                      ~authCache'[i][t].raced
               PROVE  Pending(i, Owner[t])'
    BY DEF StaleOnlyByRace, Still
  <2>1. i \in Instances
    BY <1>0 DEF TypeOK
  <2>2. authCache'[i][t] = authCache[i][t] /\ Cached(i, t)
    BY <2>1 DEF Cached
  <2> QED
    BY <1>0, <2>2 DEF StaleOnlyByRace
<1> QED
  BY <1>1, <1>2

\* The map and its index are left alone.
LEMMA MapStays ==
    ASSUME CacheInv, Still, UNCHANGED <<authCache, userTokens>>,
           \A i, u : Pending(i, u) => Pending(i, u)'
    PROVE  EntryDiesWithToken' /\ StaleOnlyByRace' /\ Indexed'
PROOF
<1>1. TypeOK /\ Indexed
  BY DEF CacheInv
<1>2. EntryDiesWithToken' /\ StaleOnlyByRace'
  BY <1>1, MapShrinks DEF TypeOK
<1>3. Indexed'
  BY <1>1 DEF Indexed, Cached
<1> QED
  BY <1>2, <1>3

-----------------------------------------------------------------------------
(* AuthenticateAccessToken.                                                *)

\* Return: a handler that owes nothing goes idle.
LEMMA Returns ==
    ASSUME CacheInv, Still, NEW r \in Requests, Return(r), \A i, u : ~Owes(req[r], i, u)
    PROVE  /\ req' \in [Requests -> Req]
           /\ HandlersPlaced' /\ FillsDieWithToken' /\ FillsStaleOnlyByRace'
           /\ \A i, u : Pending(i, u) => Pending(i, u)'
PROOF
<1>1. Placed(Idle) /\ FillDies(Idle) /\ FillCurrent(Idle)
  BY Blanks DEF Placed, FillDies, FillCurrent, Filling
<1> QED
  BY <1>1, Blanks, HandlerMoves DEF Return

\* Goto: a handler that moves on with what it has.
LEMMA Goes ==
    ASSUME CacheInv, Still, NEW r \in Requests, NEW w \in PCs, Goto(r, w),
           \A i, u : Owes(req[r], i, u) => Owes([req[r] EXCEPT !.pc = w], i, u),
           req[r].pc # "idle",
           w \in Filling => req[r].pc \in Filling,
           w \in {"lookup", "drop", "read"} =>
               req[r].pc \in {"lookup", "drop", "read"} \union Filling,
           w \in {"invMembers", "invDelete", "invLocal"} =>
               req[r].pc \in {"invMembers", "invDelete", "invLocal"}
    PROVE  /\ req' \in [Requests -> Req]
           /\ HandlersPlaced' /\ FillsDieWithToken' /\ FillsStaleOnlyByRace'
           /\ \A i, u : Pending(i, u) => Pending(i, u)'
PROOF
<1> DEFINE q == [req[r] EXCEPT !.pc = w]
<1>0. req \in [Requests -> Req] /\ HandlersPlaced /\ FillsDieWithToken /\ FillsStaleOnlyByRace
  BY DEF CacheInv, TypeOK
<1>1. req' = [req EXCEPT ![r] = q]
  BY <1>0 DEF Goto
<1>2. /\ q \in Req /\ q.pc = w /\ q.inst = req[r].inst /\ q.tok = req[r].tok
      /\ q.user = req[r].user /\ q.entry = req[r].entry
  BY <1>0 DEF Req
<1> HIDE DEF q
<1>3. Placed(q)
  BY <1>0, <1>2 DEF HandlersPlaced, Placed, Filling
<1>4. FillDies(q)
  BY <1>0, <1>2 DEF FillsDieWithToken, FillDies
<1>5. Cardinality(setup.hubs) = 1 => FillCurrent(q)
  BY <1>0, <1>2 DEF FillsStaleOnlyByRace, FillCurrent
<1>6. \A i, u : Owes(req[r], i, u) => Owes(q, i, u)
  BY DEF q
<1> QED
  BY <1>1, <1>2, <1>3, <1>4, <1>5, <1>6, HandlerMoves

\* An idle handler, or one past its arrival, owes no invalidation.
LEMMA OwesNothing ==
    ASSUME NEW h, h.pc \in {"idle", "lookup", "drop", "read", "fill", "setRedis", "setLocal"}
    PROVE  \A i, u : ~Owes(h, i, u)
PROOF
  BY DEF Owes

\* Arrive.
LEMMA ArriveKeeps ==
    ASSUME CacheInv, NEW r \in Requests, NEW i \in setup.hubs, NEW t \in Tokens, Arrive(r, i, t)
    PROVE  CacheInv'
PROOF
<1> DEFINE q == [Idle EXCEPT !.pc = "lookup", !.inst = i, !.tok = t, !.user = Owner[t]]
<1>0. TypeOK /\ i \in Instances /\ Still
  BY DEF CacheInv, TypeOK, Arrive, Still
<1>1. q \in Req /\ q.pc = "lookup" /\ q.inst = i /\ q.tok = t /\ q.user = Owner[t]
  BY <1>0, Blanks DEF Idle, Req, PCs
<1>2. req' = [req EXCEPT ![r] = q]
  BY DEF Arrive
<1> HIDE DEF q
<1>3. Placed(q) /\ FillDies(q) /\ FillCurrent(q)
  BY <1>1 DEF Placed, FillDies, FillCurrent, Filling
<1>4. \A j, u : ~Owes(req[r], j, u)
  BY OwesNothing DEF Arrive
<1>5. /\ req' \in [Requests -> Req]
      /\ HandlersPlaced' /\ FillsDieWithToken' /\ FillsStaleOnlyByRace'
      /\ \A j, u : Pending(j, u) => Pending(j, u)'
  BY <1>0, <1>1, <1>2, <1>3, <1>4, HandlerMoves
<1>6. EntryDiesWithToken' /\ StaleOnlyByRace' /\ Indexed'
  BY <1>0, <1>5, MapStays DEF Arrive
<1> QED
  BY <1>0, <1>5, <1>6 DEF CacheInv, TypeOK, Arrive

\* LookupRedis and LookupLocal.
LEMMA LookupKeeps ==
    ASSUME CacheInv, NEW r \in Requests, LookupRedis(r) \/ LookupLocal(r)
    PROVE  CacheInv'
PROOF
<1>0. /\ TypeOK /\ Still /\ UNCHANGED <<authCache, userTokens, redis, redisUser>>
      /\ req[r].pc = "lookup"
      /\ Return(r) \/ Goto(r, "drop") \/ Goto(r, "read")
  BY DEF CacheInv, LookupRedis, LookupLocal, Still
<1>1. \A i, u : ~Owes(req[r], i, u)
  BY <1>0, OwesNothing
<1>2. /\ req' \in [Requests -> Req]
      /\ HandlersPlaced' /\ FillsDieWithToken' /\ FillsStaleOnlyByRace'
      /\ \A j, u : Pending(j, u) => Pending(j, u)'
  <2>1. CASE Return(r)
    BY <1>0, <1>1, <2>1, Returns
  <2>2. CASE Goto(r, "drop")
    BY <1>0, <1>1, <2>2, Goes DEF PCs, Filling
  <2>3. CASE Goto(r, "read")
    BY <1>0, <1>1, <2>3, Goes DEF PCs, Filling
  <2> QED
    BY <1>0, <2>1, <2>2, <2>3
<1>3. EntryDiesWithToken' /\ StaleOnlyByRace' /\ Indexed'
  BY <1>0, <1>2, MapStays
<1> QED
  BY <1>0, <1>2, <1>3 DEF CacheInv, TypeOK, Still

\* DropExpired: the entry goes, whatever it has become, and its token stays listed.
LEMMA DropExpiredKeeps ==
    ASSUME CacheInv, NEW r \in Requests, DropExpired(r)
    PROVE  CacheInv'
PROOF
<1>0. TypeOK /\ Indexed /\ Still /\ req[r].pc = "drop" /\ Goto(r, "read")
  BY DEF CacheInv, DropExpired, Still
<1>1. req[r].inst \in Instances /\ req[r].tok \in Tokens
  <2>1. Placed(req[r])
    BY DEF CacheInv, HandlersPlaced
  <2> QED
    BY <1>0, <2>1 DEF Placed, TypeOK
<1>2. \A i, u : ~Owes(req[r], i, u)
  BY <1>0, OwesNothing
<1>3. /\ req' \in [Requests -> Req]
      /\ HandlersPlaced' /\ FillsDieWithToken' /\ FillsStaleOnlyByRace'
      /\ \A j, u : Pending(j, u) => Pending(j, u)'
  BY <1>0, <1>2, Goes DEF PCs, Filling
<1>4. \A i \in Instances, t \in Tokens :
        authCache'[i][t] = IF i = req[r].inst /\ t = req[r].tok THEN NoEntry ELSE authCache[i][t]
  BY <1>0, <1>1 DEF DropExpired, TypeOK
<1>5. authCache' \in [Instances -> [Tokens -> Entry]]
  BY <1>0, <1>1, Blanks DEF DropExpired, TypeOK
<1>6. EntryDiesWithToken' /\ StaleOnlyByRace'
  BY <1>0, <1>3, <1>4, <1>5, MapShrinks
<1>7. Indexed'
  BY <1>0, <1>4 DEF Indexed, Cached, DropExpired
<1> QED
  BY <1>0, <1>3, <1>5, <1>6, <1>7 DEF CacheInv, TypeOK, DropExpired

\* ReadUser: what was just read is current.
LEMMA ReadUserKeeps ==
    ASSUME CacheInv, NEW r \in Requests, ReadUser(r)
    PROVE  CacheInv'
PROOF
<1> DEFINE e == [NoEntry EXCEPT !.ver = version[req[r].user]]
           q == [req[r] EXCEPT !.pc = "fill", !.entry = e]
<1>0. TypeOK /\ Still /\ req[r].pc = "read" /\ req[r] \in Req /\ Placed(req[r])
  BY DEF CacheInv, TypeOK, HandlersPlaced, ReadUser, Still
<1>1. req[r].tok \in Tokens /\ req[r].user \in Users
  BY <1>0 DEF Placed
<1>2. e \in Entry /\ e.ver = version[req[r].user] /\ e.ttl = -1
  <2>1. version[req[r].user] \in -1..MaxVersion
    BY <1>0, <1>1 DEF TypeOK
  <2> QED
    BY <2>1, Blanks DEF Entry
<1>3. req' = [req EXCEPT ![r] = q]
  BY <1>0 DEF ReadUser, TypeOK
<1> HIDE DEF e
<1>4. /\ q \in Req /\ q.pc = "fill" /\ q.inst = req[r].inst /\ q.tok = req[r].tok
      /\ q.user = req[r].user /\ q.entry = e
  BY <1>0, <1>2 DEF Req, PCs
<1> HIDE DEF q
<1>5. Placed(q)
  BY <1>0, <1>4 DEF Placed, Filling
<1>6. FillDies(q)
  BY <1>0, <1>1, <1>2, <1>4 DEF FillDies, TypeOK
<1>7. FillCurrent(q)
  BY <1>0, <1>1, <1>2, <1>4 DEF FillCurrent, TypeOK
<1>8. \A j, u : ~Owes(req[r], j, u)
  BY <1>0, OwesNothing
<1>9. /\ req' \in [Requests -> Req]
      /\ HandlersPlaced' /\ FillsDieWithToken' /\ FillsStaleOnlyByRace'
      /\ \A j, u : Pending(j, u) => Pending(j, u)'
  BY <1>0, <1>3, <1>4, <1>5, <1>6, <1>7, <1>8, HandlerMoves
<1>10. EntryDiesWithToken' /\ StaleOnlyByRace' /\ Indexed'
  BY <1>0, <1>9, MapStays DEF ReadUser
<1> QED
  BY <1>0, <1>9, <1>10 DEF CacheInv, TypeOK, ReadUser

\* FixExpiry: the lifetime is cut at the token's.
LEMMA FixExpiryKeeps ==
    ASSUME CacheInv, NEW r \in Requests, FixExpiry(r)
    PROVE  CacheInv'
PROOF
<1> DEFINE n == CacheLife(req[r].tok)
           e == [req[r].entry EXCEPT !.ttl = n]
           w == IF UseRedis THEN "setRedis" ELSE "setLocal"
           q == [req[r] EXCEPT !.pc = w, !.entry = e]
<1>0. TypeOK /\ Still /\ req[r].pc = "fill" /\ req[r] \in Req /\ Placed(req[r])
  BY DEF CacheInv, TypeOK, HandlersPlaced, FixExpiry, Still
<1>1. req[r].tok \in Tokens
  BY <1>0 DEF Placed, Filling
<1>2. n \in 0..CacheTTL /\ n <= life[req[r].tok]
  BY <1>0, <1>1 DEF CacheLife, TypeOK
<1>3. \A j, u : ~Owes(req[r], j, u)
  BY <1>0, OwesNothing
<1>4. /\ req' \in [Requests -> Req]
      /\ HandlersPlaced' /\ FillsDieWithToken' /\ FillsStaleOnlyByRace'
      /\ \A j, u : Pending(j, u) => Pending(j, u)'
  <2>1. CASE Return(r)
    BY <1>0, <1>3, <2>1, Returns
  <2>2. CASE ~Return(r)
    <3>1. req' = [req EXCEPT ![r] = q]
      BY <1>0, <2>2 DEF FixExpiry, TypeOK, Req
    <3> HIDE DEF n
    <3>2. e \in Entry /\ e.ver = req[r].entry.ver /\ e.raced = req[r].entry.raced /\ e.ttl = n
      BY <1>0, <1>2 DEF Req, Entry
    <3>3. w \in {"setRedis", "setLocal"}
      OBVIOUS
    <3> HIDE DEF e, w
    <3>4. /\ q \in Req /\ q.pc = w /\ q.inst = req[r].inst /\ q.tok = req[r].tok
          /\ q.user = req[r].user /\ q.entry = e
      BY <1>0, <3>2, <3>3 DEF Req, PCs
    <3> HIDE DEF q
    <3>5. Placed(q)
      BY <1>0, <3>3, <3>4 DEF Placed, Filling
    <3>6. FillDies(q)
      BY <1>2, <3>2, <3>4 DEF FillDies
    <3>7. Cardinality(setup.hubs) = 1 => FillCurrent(q)
      <4>1. Cardinality(setup.hubs) = 1 => FillCurrent(req[r])
        BY DEF CacheInv, FillsStaleOnlyByRace
      <4> QED
        BY <1>0, <3>2, <3>4, <4>1 DEF FillCurrent, Filling
    <3> QED
      BY <1>0, <1>3, <3>1, <3>4, <3>5, <3>6, <3>7, HandlerMoves
  <2> QED
    BY <2>1, <2>2
<1>5. EntryDiesWithToken' /\ StaleOnlyByRace' /\ Indexed'
  BY <1>0, <1>4, MapStays DEF FixExpiry
<1> QED
  BY <1>0, <1>4, <1>5 DEF CacheInv, TypeOK, FixExpiry

\* SetRedis: what Redis holds is of no consequence for the local map.
LEMMA SetRedisKeeps ==
    ASSUME CacheInv, NEW r \in Requests, SetRedis(r)
    PROVE  CacheInv'
PROOF
<1>0. /\ TypeOK /\ Still /\ req[r].pc = "setRedis" /\ req[r] \in Req /\ Placed(req[r])
      /\ Goto(r, "setLocal")
  BY DEF CacheInv, TypeOK, HandlersPlaced, SetRedis, Still
<1>1. req[r].tok \in Tokens /\ req[r].user \in Users
  BY <1>0 DEF Placed, Filling
<1>2. \A j, u : ~Owes(req[r], j, u)
  BY <1>0, OwesNothing
<1>3. /\ req' \in [Requests -> Req]
      /\ HandlersPlaced' /\ FillsDieWithToken' /\ FillsStaleOnlyByRace'
      /\ \A j, u : Pending(j, u) => Pending(j, u)'
  BY <1>0, <1>2, Goes DEF PCs, Filling
<1>4. EntryDiesWithToken' /\ StaleOnlyByRace' /\ Indexed'
  BY <1>0, <1>3, MapStays DEF SetRedis
<1>5. redis' \in [Tokens -> Entry]
  BY <1>0, <1>1, Fields, Blanks DEF SetRedis, TypeOK
<1>6. redisUser' \in [Users -> Index]
  <2>1. CASE req[r].entry.ttl > 0
    <3>1. redisUser[req[r].user].tokens \in SUBSET Tokens
      BY <1>0, <1>1 DEF TypeOK, Index
    <3>2. [tokens |-> redisUser[req[r].user].tokens \union {req[r].tok},
           ttl |-> req[r].entry.ttl] \in Index
      BY <1>0, <1>1, <2>1, <3>1, Fields DEF Index
    <3> QED
      BY <1>0, <1>1, <2>1, <3>2, Fields DEF SetRedis, TypeOK
  <2>2. CASE ~(req[r].entry.ttl > 0)
    BY <1>0, <1>1, <2>2, Fields, Blanks DEF SetRedis, TypeOK
  <2> QED
    BY <2>1, <2>2
<1> QED
  BY <1>0, <1>3, <1>4, <1>5, <1>6 DEF CacheInv, TypeOK, SetRedis

\* SetLocal: the entry is stored with what held for it on the way, and listed.
LEMMA SetLocalKeeps ==
    ASSUME CacheInv, NEW r \in Requests, SetLocal(r)
    PROVE  CacheInv'
PROOF
<1> DEFINE i == req[r].inst
           t == req[r].tok
<1>0. /\ TypeOK /\ Still /\ req[r].pc = "setLocal" /\ req[r] \in Req /\ Return(r)
      /\ Placed(req[r]) /\ FillDies(req[r])
      /\ Cardinality(setup.hubs) = 1 => FillCurrent(req[r])
      /\ EntryDiesWithToken /\ StaleOnlyByRace /\ Indexed
  BY DEF CacheInv, TypeOK, HandlersPlaced, FillsDieWithToken, FillsStaleOnlyByRace,
         SetLocal, Still
<1>1. i \in setup.hubs /\ i \in Instances /\ t \in Tokens /\ req[r].user = Owner[t]
  BY <1>0 DEF Placed, Filling, TypeOK
<1>2. \A j, u : ~Owes(req[r], j, u)
  BY <1>0, OwesNothing
<1>3. /\ req' \in [Requests -> Req]
      /\ HandlersPlaced' /\ FillsDieWithToken' /\ FillsStaleOnlyByRace'
      /\ \A j, u : Pending(j, u) => Pending(j, u)'
  BY <1>0, <1>2, Returns
<1>4. \A j \in Instances, s \in Tokens :
        authCache'[j][s] = IF j = i /\ s = t THEN req[r].entry ELSE authCache[j][s]
  BY <1>0, <1>1 DEF SetLocal, TypeOK
<1>5. authCache' \in [Instances -> [Tokens -> Entry]]
  BY <1>0, <1>1, Fields DEF SetLocal, TypeOK
<1>6. userTokens' \in [Instances -> [Users -> SUBSET Tokens]]
  BY <1>0, <1>1 DEF SetLocal, TypeOK
<1>7. \A j \in Instances, u \in Users :
        /\ userTokens[j][u] \subseteq userTokens'[j][u]
        /\ j = i /\ u = Owner[t] => t \in userTokens'[j][u]
  BY <1>0, <1>1 DEF SetLocal, TypeOK
<1> HIDE DEF i, t
<1>8. EntryDiesWithToken'
  BY <1>0, <1>1, <1>4 DEF EntryDiesWithToken, Cached, FillDies, Filling, Still, t
<1>9. Indexed'
  BY <1>0, <1>1, <1>4, <1>7 DEF Indexed, Cached
<1>10. StaleOnlyByRace'
  <2> SUFFICES ASSUME Cardinality(setup.hubs) = 1, NEW j \in setup.hubs, NEW s \in Tokens,
                      Cached(j, s)', authCache'[j][s].ver < version[Owner[s]],
                      ~authCache'[j][s].raced
               PROVE  Pending(j, Owner[s])'
    BY <1>0 DEF StaleOnlyByRace, Still
  <2>1. j \in Instances
    BY <1>0 DEF TypeOK
  <2>2. CASE j = i /\ s = t
    BY <1>0, <1>1, <1>3, <1>4, <2>1, <2>2 DEF FillCurrent, Filling, i
  <2>3. CASE ~(j = i /\ s = t)
    BY <1>0, <1>3, <1>4, <2>1, <2>3 DEF StaleOnlyByRace, Cached
  <2> QED
    BY <2>2, <2>3
<1> QED
  BY <1>0, <1>3, <1>5, <1>6, <1>8, <1>9, <1>10 DEF CacheInv, TypeOK, SetLocal

-----------------------------------------------------------------------------
(* Changes and invalidations.                                              *)

\* ChangeUser and ChangeGroup: whose version grows is owed an invalidation on
\* the only hub there is.
LEMMA ChangeKeeps ==
    ASSUME CacheInv, NEW r \in Requests, NEW i \in setup.hubs, NEW v, NEW w,
           req[r].pc = "idle",
           UNCHANGED <<setup, life, authCache, userTokens, redis, redisUser>>,
           version' \in [Users -> 0..MaxVersion],
           \/ v \in Users /\ w \in {"invMembers", "invLocal"}
           \/ v = None /\ w \in {"allRedis", "allLocal"},
           \A u \in Users : version'[u] # version[u] => v \in {u, None},
           Invalidating(r, i, v, w)
    PROVE  CacheInv'
PROOF
<1> DEFINE q == [Idle EXCEPT !.pc = w, !.inst = i, !.user = v]
<1>0. /\ TypeOK /\ HandlersPlaced /\ FillsDieWithToken /\ EntryDiesWithToken /\ Indexed
      /\ FillsStaleOnlyByRace /\ StaleOnlyByRace /\ i \in Instances
  BY DEF CacheInv, TypeOK
<1>1. q \in Req /\ q.pc = w /\ q.inst = i /\ q.user = v
  BY <1>0, Blanks DEF Idle, Req, PCs
<1>2. req' = [req EXCEPT ![r] = q]
  BY DEF Invalidating
<1> HIDE DEF q
<1>3. \A x \in Requests : req'[x] = IF x = r THEN q ELSE req[x]
  BY <1>0, <1>2 DEF TypeOK
<1>4. req' \in [Requests -> Req]
  BY <1>0, <1>1, <1>2 DEF TypeOK
<1>5. \A j, u : Pending(j, u) => Pending(j, u)'
  <2>1. \A j, u : ~Owes(req[r], j, u)
    BY OwesNothing
  <2> QED
    BY <1>0, <1>2, <2>1, PendingKept DEF TypeOK
<1>6. \A u \in Users : version'[u] # version[u] => Pending(i, u)'
  <2> SUFFICES ASSUME NEW u \in Users, version'[u] # version[u]
               PROVE  Owes(req'[r], i, u)
    BY DEF Pending, Owes
  <2>1. v = u \/ v = None
    OBVIOUS
  <2> QED
    BY <1>1, <1>3, <2>1 DEF Owes
<1>7. HandlersPlaced'
  BY <1>0, <1>1, <1>3 DEF HandlersPlaced, Placed, Filling
<1>8. FillsDieWithToken'
  BY <1>0, <1>1, <1>3 DEF FillsDieWithToken, FillDies, Filling
<1>9. EntryDiesWithToken' /\ Indexed'
  BY <1>0 DEF EntryDiesWithToken, Indexed, Cached
<1>10. FillsStaleOnlyByRace'
  <2> SUFFICES ASSUME Cardinality(setup.hubs) = 1, NEW x \in Requests,
                      req'[x].pc \in Filling, req'[x].entry.ver < version'[req'[x].user],
                      ~req'[x].entry.raced
               PROVE  Pending(req[x].inst, req[x].user)'
    BY DEF FillsStaleOnlyByRace, FillCurrent
  <2>1. x # r /\ req'[x] = req[x]
    BY <1>1, <1>3 DEF Filling
  <2>2. FillCurrent(req[x]) /\ Placed(req[x])
    BY <1>0 DEF FillsStaleOnlyByRace, HandlersPlaced
  <2>3. req[x].inst = i /\ req[x].user \in Users
    BY <1>0, <2>1, <2>2, OneHub DEF Placed, Filling, TypeOK
  <2>4. Pending(i, req[x].user)'
    <3>1. CASE version'[req[x].user] = version[req[x].user]
      BY <1>5, <2>1, <2>2, <2>3, <3>1 DEF FillCurrent
    <3>2. CASE version'[req[x].user] # version[req[x].user]
      <4> DEFINE u == req[x].user
      <4>1. \E y \in Requests : Owes(req'[y], i, u)
        BY <1>6, <2>3, <3>2 DEF Pending, Owes
      <4> QED
        BY <2>1, <4>1 DEF Pending, Owes
    <3> QED
      BY <3>1, <3>2
  <2> QED
    BY <2>1, <2>3, <2>4 DEF Pending, Owes
<1>11. StaleOnlyByRace'
  <2> SUFFICES ASSUME Cardinality(setup.hubs) = 1, NEW j \in setup.hubs, NEW t \in Tokens,
                      Cached(j, t), authCache[j][t].ver < version'[Owner[t]],
                      ~authCache[j][t].raced
               PROVE  Pending(j, Owner[t])'
    BY DEF StaleOnlyByRace, Cached
  <2>1. j = i
    BY <1>0, OneHub DEF TypeOK
  <2> QED
    BY <1>0, <1>5, <1>6, <2>1 DEF StaleOnlyByRace
<1> QED
  BY <1>0, <1>4, <1>7, <1>8, <1>9, <1>10, <1>11 DEF CacheInv, TypeOK

\* ChangeUser.
LEMMA ChangeUserKeeps ==
    ASSUME CacheInv, NEW r \in Requests, NEW i \in setup.hubs, NEW u \in Users,
           ChangeUser(r, i, u)
    PROVE  CacheInv'
PROOF
<1> DEFINE w == IF UseRedis THEN "invMembers" ELSE "invLocal"
<1>1. TypeOK
  BY DEF CacheInv
<1>2. w \in {"invMembers", "invLocal"} /\ Invalidating(r, i, u, w)
  BY DEF ChangeUser
<1> HIDE DEF w
<1>3. version' \in [Users -> 0..MaxVersion]
  BY <1>1 DEF ChangeUser, TypeOK
<1>4. \A x \in Users : version'[x] # version[x] => u \in {x, None}
  BY <1>1 DEF ChangeUser, TypeOK
<1> QED
  BY <1>2, <1>3, <1>4, ChangeKeeps DEF ChangeUser

\* ChangeGroup.
LEMMA ChangeGroupKeeps ==
    ASSUME CacheInv, NEW r \in Requests, NEW i \in setup.hubs, ChangeGroup(r, i)
    PROVE  CacheInv'
PROOF
<1> DEFINE w == IF UseRedis THEN "allRedis" ELSE "allLocal"
<1>1. TypeOK
  BY DEF CacheInv
<1>2. w \in {"allRedis", "allLocal"} /\ Invalidating(r, i, None, w)
  BY DEF ChangeGroup
<1> HIDE DEF w
<1>3. version' \in [Users -> 0..MaxVersion]
  BY <1>1 DEF ChangeGroup, TypeOK
<1> QED
  BY <1>2, <1>3, ChangeKeeps DEF ChangeGroup

\* InvalidateMembers: the handler still owes the local invalidation.
LEMMA InvalidateMembersKeeps ==
    ASSUME CacheInv, NEW r \in Requests, InvalidateMembers(r)
    PROVE  CacheInv'
PROOF
<1>0. /\ TypeOK /\ Still /\ req[r].pc = "invMembers" /\ req[r] \in Req /\ Placed(req[r])
  BY DEF CacheInv, TypeOK, HandlersPlaced, InvalidateMembers, Still
<1>1. PICK w \in {"invDelete", "invLocal"}, m \in SUBSET Tokens :
        req' = [req EXCEPT ![r] = [req[r] EXCEPT !.pc = w, !.members = m]]
  <2>1. redisUser[req[r].user].tokens \in SUBSET Tokens
    BY <1>0 DEF TypeOK, Index, Placed
  <2>2. [req[r] EXCEPT !.pc = "invLocal"] =
        [req[r] EXCEPT !.pc = "invLocal", !.members = req[r].members]
    BY <1>0 DEF Req
  <2>3. req[r].members \in SUBSET Tokens
    BY <1>0 DEF Req
  <2>4. CASE Goto(r, "invLocal")
    BY <1>0, <2>2, <2>3, <2>4 DEF Goto, TypeOK
  <2>5. CASE ~Goto(r, "invLocal")
    BY <1>0, <2>1, <2>5 DEF InvalidateMembers, TypeOK
  <2> QED
    BY <2>4, <2>5
<1> DEFINE q == [req[r] EXCEPT !.pc = w, !.members = m]
<1>2. /\ q \in Req /\ q.pc = w /\ q.inst = req[r].inst /\ q.tok = req[r].tok
      /\ q.user = req[r].user
  BY <1>0 DEF Req, PCs
<1>3. req' = [req EXCEPT ![r] = q]
  BY <1>1
<1> HIDE DEF q
<1>4. Placed(q) /\ FillDies(q) /\ FillCurrent(q)
  BY <1>0, <1>2 DEF Placed, FillDies, FillCurrent, Filling
<1>5. \A j, u : Owes(req[r], j, u) => Owes(q, j, u)
  BY <1>0, <1>2 DEF Owes
<1>6. /\ req' \in [Requests -> Req]
      /\ HandlersPlaced' /\ FillsDieWithToken' /\ FillsStaleOnlyByRace'
      /\ \A j, u : Pending(j, u) => Pending(j, u)'
  BY <1>0, <1>2, <1>3, <1>4, <1>5, HandlerMoves
<1>7. EntryDiesWithToken' /\ StaleOnlyByRace' /\ Indexed'
  BY <1>0, <1>6, MapStays DEF InvalidateMembers
<1> QED
  BY <1>0, <1>6, <1>7 DEF CacheInv, TypeOK, InvalidateMembers

\* InvalidateDelete and FlushRedis: Redis is emptied, the local map is due next.
LEMMA RedisCleared ==
    ASSUME CacheInv, NEW r \in Requests, InvalidateDelete(r) \/ FlushRedis(r)
    PROVE  CacheInv'
PROOF
<1>0. /\ TypeOK /\ Still /\ UNCHANGED <<authCache, userTokens>> /\ req[r] \in Req
      /\ Placed(req[r])
      /\ \/ req[r].pc = "invDelete" /\ Goto(r, "invLocal")
         \/ req[r].pc = "allRedis" /\ Goto(r, "allLocal")
  BY DEF CacheInv, TypeOK, HandlersPlaced, InvalidateDelete, FlushRedis, Still
<1>1. /\ req' \in [Requests -> Req]
      /\ HandlersPlaced' /\ FillsDieWithToken' /\ FillsStaleOnlyByRace'
      /\ \A j, u : Pending(j, u) => Pending(j, u)'
  <2>1. CASE req[r].pc = "invDelete" /\ Goto(r, "invLocal")
    <3>1. \A j, u : Owes(req[r], j, u) => Owes([req[r] EXCEPT !.pc = "invLocal"], j, u)
      BY <1>0, <2>1 DEF Owes, Req
    <3> QED
      BY <1>0, <2>1, <3>1, Goes DEF PCs, Filling
  <2>2. CASE req[r].pc = "allRedis" /\ Goto(r, "allLocal")
    <3>1. \A j, u : Owes(req[r], j, u) => Owes([req[r] EXCEPT !.pc = "allLocal"], j, u)
      BY <1>0, <2>2 DEF Owes, Req
    <3> QED
      BY <1>0, <2>2, <3>1, Goes DEF PCs, Filling
  <2> QED
    BY <1>0, <2>1, <2>2
<1>2. EntryDiesWithToken' /\ StaleOnlyByRace' /\ Indexed'
  BY <1>0, <1>1, MapStays
<1>3. redis' \in [Tokens -> Entry] /\ redisUser' \in [Users -> Index]
  <2>1. CASE InvalidateDelete(r)
    <3>1. redis' \in [Tokens -> Entry]
      BY <1>0, <2>1, Blanks DEF InvalidateDelete, TypeOK
    <3>2. req[r].user \in Users
      BY <1>0, <2>1 DEF InvalidateDelete, Placed
    <3>3. redisUser' = redisUser \/ redisUser' = [redisUser EXCEPT ![req[r].user] = NoIndex]
      BY <2>1 DEF InvalidateDelete
    <3> QED
      BY <1>0, <3>1, <3>2, <3>3, Blanks DEF TypeOK
  <2>2. CASE FlushRedis(r)
    BY <1>0, <2>2, Blanks DEF FlushRedis, TypeOK
  <2> QED
    BY <2>1, <2>2
<1> QED
  BY <1>0, <1>1, <1>2, <1>3 DEF CacheInv, TypeOK, Still

\* RaceFills: the handler goes idle; fills of the users on its hub are marked,
\* and what other handlers owe stays owed.
LEMMA Races ==
    ASSUME CacheInv, Still, NEW r \in Requests, NEW i, NEW us, RaceFills(r, i, us),
           \A j, u : Owes(req[r], j, u) => j = i /\ (u \in us \/ u \notin Users)
    PROVE  /\ req' \in [Requests -> Req]
           /\ HandlersPlaced' /\ FillsDieWithToken' /\ FillsStaleOnlyByRace'
           /\ \A j, u : Pending(j, u) /\ u \in Users /\ ~(j = i /\ u \in us) => Pending(j, u)'
PROOF
<1>0. /\ req \in [Requests -> Req] /\ HandlersPlaced /\ FillsDieWithToken
      /\ FillsStaleOnlyByRace /\ TypeOK
  BY DEF CacheInv, TypeOK
<1> DEFINE Marked(x) == req[x].pc \in Filling /\ req[x].inst = i /\ req[x].user \in us
           Mark(h) == [h EXCEPT !.entry.raced = TRUE]
<1>1. \A x \in Requests : req'[x] = IF x = r THEN Idle
                                     ELSE IF Marked(x) THEN Mark(req[x]) ELSE req[x]
  BY DEF RaceFills, Filling
<1>2. ASSUME NEW h \in Req
      PROVE  /\ Mark(h) \in Req /\ Mark(h).pc = h.pc /\ Mark(h).inst = h.inst
             /\ Mark(h).tok = h.tok /\ Mark(h).user = h.user
             /\ Mark(h).entry.ttl = h.entry.ttl /\ Mark(h).entry.raced
  BY <1>2 DEF Req, Entry
<1> HIDE DEF Mark
<1>3. req' \in [Requests -> Req]
  <2>1. req' = [x \in Requests |-> req'[x]]
    BY DEF RaceFills
  <2>2. \A x \in Requests : req'[x] \in Req
    BY <1>0, <1>1, <1>2, Blanks
  <2> QED
    BY <2>1, <2>2
<1>4. \A j, u : Pending(j, u) /\ u \in Users /\ ~(j = i /\ u \in us) => Pending(j, u)'
  <2> SUFFICES ASSUME NEW j, NEW u \in Users, Pending(j, u), ~(j = i /\ u \in us)
               PROVE  Pending(j, u)'
    OBVIOUS
  <2>1. PICK x \in Requests : Owes(req[x], j, u)
    BY DEF Pending
  <2>2. x # r
    BY <2>1
  <2>3. ~Marked(x)
    BY <2>1 DEF Owes, Filling
  <2>4. Owes(req'[x], j, u)
    BY <1>1, <2>1, <2>2, <2>3
  <2> QED
    BY <2>4 DEF Pending, Owes
<1>5. HandlersPlaced'
  <2> SUFFICES ASSUME NEW x \in Requests
               PROVE  Placed(req[x])'
    BY DEF HandlersPlaced
  <2>1. Placed(req[x]) /\ req[x] \in Req
    BY <1>0 DEF HandlersPlaced
  <2> QED
    BY <1>1, <1>2, <2>1, Blanks DEF Placed, Filling, Still
<1>6. FillsDieWithToken'
  <2> SUFFICES ASSUME NEW x \in Requests
               PROVE  FillDies(req[x])'
    BY DEF FillsDieWithToken
  <2>1. FillDies(req[x]) /\ req[x] \in Req
    BY <1>0 DEF FillsDieWithToken
  <2> QED
    BY <1>1, <1>2, <2>1, Blanks DEF FillDies, Filling, Still
<1>7. FillsStaleOnlyByRace'
  <2> SUFFICES ASSUME Cardinality(setup.hubs) = 1, NEW x \in Requests,
                      req'[x].pc \in Filling, req'[x].entry.ver < version[req'[x].user],
                      ~req'[x].entry.raced
               PROVE  Pending(req[x].inst, req[x].user)'
    BY DEF FillsStaleOnlyByRace, FillCurrent, Still
  <2>1. x # r
    BY <1>1, Blanks DEF Filling
  <2>2. ~Marked(x) /\ req'[x] = req[x]
    BY <1>0, <1>1, <1>2, <2>1
  <2>3. FillCurrent(req[x]) /\ Placed(req[x])
    BY <1>0 DEF FillsStaleOnlyByRace, HandlersPlaced
  <2>4. req[x].user \in Users
    BY <2>2, <2>3 DEF Placed, Filling
  <2>5. Pending(req[x].inst, req[x].user)
    BY <2>2, <2>3 DEF FillCurrent
  <2>6. \E y \in Requests : Owes(req'[y], req[x].inst, req[x].user)
    <3>1. \A j, u : j = req[x].inst /\ u = req[x].user => Pending(j, u)'
      BY <1>4, <2>2, <2>4, <2>5
    <3> QED
      BY <3>1 DEF Pending, Owes
  <2> QED
    BY <2>2, <2>6 DEF Pending, Owes
<1> QED
  BY <1>3, <1>4, <1>5, <1>6, <1>7

\* InvalidateLocal: the index lists every entry of the user.
LEMMA InvalidateLocalKeeps ==
    ASSUME CacheInv, NEW r \in Requests, InvalidateLocal(r)
    PROVE  CacheInv'
PROOF
<1> DEFINE i == req[r].inst
           v == req[r].user
<1>0. /\ TypeOK /\ Still /\ Indexed /\ req[r].pc = "invLocal" /\ Placed(req[r])
      /\ RaceFills(r, i, {v})
  BY DEF CacheInv, HandlersPlaced, InvalidateLocal, Still
<1>1. i \in Instances /\ v \in Users
  BY <1>0 DEF Placed, TypeOK
<1>2. \A j, u : Owes(req[r], j, u) => j = i /\ (u \in {v} \/ u \notin Users)
  BY <1>0 DEF Owes
<1>3. authCache' \in [Instances -> [Tokens -> Entry]]
  BY <1>0, <1>1, Blanks DEF InvalidateLocal, TypeOK
<1>4. \A j \in Instances, t \in Tokens :
        authCache'[j][t] = IF j = i /\ t \in userTokens[i][v] THEN NoEntry ELSE authCache[j][t]
  BY <1>0, <1>1 DEF InvalidateLocal, TypeOK
<1>5. /\ userTokens' \in [Instances -> [Users -> SUBSET Tokens]]
      /\ \A j \in Instances, u \in Users :
           userTokens'[j][u] = IF j = i /\ u = v THEN {} ELSE userTokens[j][u]
  BY <1>0, <1>1 DEF InvalidateLocal, TypeOK
<1> HIDE DEF i, v
<1>6. /\ req' \in [Requests -> Req]
      /\ HandlersPlaced' /\ FillsDieWithToken' /\ FillsStaleOnlyByRace'
      /\ \A j, u : Pending(j, u) /\ u \in Users /\ ~(j = i /\ u \in {v}) => Pending(j, u)'
  BY <1>0, <1>2, Races
<1>7. \A j \in Instances, t \in Tokens : Cached(j, t)' => ~(j = i /\ Owner[t] = v)
  BY <1>0, <1>1, <1>4 DEF Cached, Indexed
<1>8. EntryDiesWithToken' /\ StaleOnlyByRace'
  <2>1. \A j \in setup.hubs, t \in Tokens :
          Cached(j, t)' /\ Pending(j, Owner[t]) => Pending(j, Owner[t])'
    BY <1>0, <1>6, <1>7 DEF TypeOK
  <2> QED
    BY <1>0, <1>3, <1>4, <2>1, MapShrinks
<1>9. Indexed'
  BY <1>0, <1>4, <1>5, <1>7 DEF Indexed, Cached
<1> QED
  BY <1>0, <1>3, <1>5, <1>6, <1>8, <1>9 DEF CacheInv, TypeOK, InvalidateLocal

\* InvalidateAllLocal: nothing is left of the map.
LEMMA InvalidateAllLocalKeeps ==
    ASSUME CacheInv, NEW r \in Requests, InvalidateAllLocal(r)
    PROVE  CacheInv'
PROOF
<1> DEFINE i == req[r].inst
<1>0. /\ TypeOK /\ Still /\ Indexed /\ req[r].pc = "allLocal" /\ Placed(req[r])
      /\ RaceFills(r, i, Users)
  BY DEF CacheInv, HandlersPlaced, InvalidateAllLocal, Still
<1>1. i \in Instances
  BY <1>0 DEF Placed, TypeOK
<1>2. \A j, u : Owes(req[r], j, u) => j = i /\ (u \in Users \/ u \notin Users)
  BY <1>0 DEF Owes
<1>3. authCache' \in [Instances -> [Tokens -> Entry]]
  BY <1>0, <1>1, Blanks DEF InvalidateAllLocal, TypeOK
<1>4. \A j \in Instances, t \in Tokens :
        authCache'[j][t] = IF j = i THEN NoEntry ELSE authCache[j][t]
  BY <1>0, <1>1 DEF InvalidateAllLocal, TypeOK
<1>5. /\ userTokens' \in [Instances -> [Users -> SUBSET Tokens]]
      /\ \A j \in Instances, u \in Users :
           userTokens'[j][u] = IF j = i THEN {} ELSE userTokens[j][u]
  BY <1>0, <1>1 DEF InvalidateAllLocal, TypeOK
<1> HIDE DEF i
<1>6. /\ req' \in [Requests -> Req]
      /\ HandlersPlaced' /\ FillsDieWithToken' /\ FillsStaleOnlyByRace'
      /\ \A j, u : Pending(j, u) /\ u \in Users /\ ~(j = i /\ u \in Users) => Pending(j, u)'
  BY <1>0, <1>2, Races
<1>7. \A j \in Instances, t \in Tokens : Cached(j, t)' => j # i
  BY <1>4 DEF Cached
<1>8. EntryDiesWithToken' /\ StaleOnlyByRace'
  <2>1. \A j \in setup.hubs, t \in Tokens :
          Cached(j, t)' /\ Pending(j, Owner[t]) => Pending(j, Owner[t])'
    BY <1>0, <1>6, <1>7 DEF TypeOK
  <2> QED
    BY <1>0, <1>3, <1>4, <2>1, MapShrinks
<1>9. Indexed'
  BY <1>0, <1>4, <1>5, <1>7 DEF Indexed, Cached
<1> QED
  BY <1>0, <1>3, <1>5, <1>6, <1>8, <1>9 DEF CacheInv, TypeOK, InvalidateAllLocal

-----------------------------------------------------------------------------
(* The janitor, time, and the theorems.                                    *)

\* sweepAuthCache: whatever goes leaves the index too.
LEMMA SweepKeeps ==
    ASSUME CacheInv, NEW i \in setup.hubs, sweepAuthCache(i)
    PROVE  CacheInv'
PROOF
<1>0. /\ TypeOK /\ Still /\ Indexed /\ i \in Instances
      /\ UNCHANGED <<redis, redisUser, req>>
  BY DEF CacheInv, TypeOK, sweepAuthCache, Still
<1>1. PICK away :
        /\ authCache' = [authCache EXCEPT ![i] =
             [t \in Tokens |-> IF t \in away THEN NoEntry ELSE authCache[i][t]]]
        /\ userTokens' = [userTokens EXCEPT ![i] = [u \in Users |-> userTokens[i][u] \ away]]
  BY <1>0 DEF sweepAuthCache, TypeOK
<1>2. /\ authCache' \in [Instances -> [Tokens -> Entry]]
      /\ \A j \in Instances, t \in Tokens :
           authCache'[j][t] = IF j = i /\ t \in away THEN NoEntry ELSE authCache[j][t]
  BY <1>0, <1>1, Blanks DEF TypeOK
<1>3. /\ userTokens' \in [Instances -> [Users -> SUBSET Tokens]]
      /\ \A j \in Instances, u \in Users :
           userTokens'[j][u] = IF j = i THEN userTokens[j][u] \ away ELSE userTokens[j][u]
  BY <1>0, <1>1 DEF TypeOK
<1>4. \A j, u : Pending(j, u) <=> Pending(j, u)'
  BY <1>0 DEF Pending, Owes
<1>5. EntryDiesWithToken' /\ StaleOnlyByRace'
  BY <1>0, <1>2, <1>4, MapShrinks
<1>6. Indexed'
  <2> SUFFICES ASSUME NEW j \in Instances, NEW t \in Tokens, authCache'[j][t] # NoEntry
               PROVE  t \in userTokens'[j][Owner[t]]
    BY DEF Indexed, Cached
  <2>1. authCache[j][t] # NoEntry /\ ~(j = i /\ t \in away)
    BY <1>2
  <2>2. t \in userTokens[j][Owner[t]]
    BY <1>0, <2>1 DEF Indexed, Cached
  <2> QED
    BY <1>3, <2>1, <2>2
<1>7. HandlersPlaced' /\ FillsDieWithToken'
  BY <1>0 DEF CacheInv, HandlersPlaced, Placed, FillsDieWithToken, FillDies, Still
<1>8. FillsStaleOnlyByRace'
  BY <1>0 DEF CacheInv, FillsStaleOnlyByRace, FillCurrent, Pending, Owes, Still
<1> QED
  BY <1>0, <1>2, <1>3, <1>5, <1>6, <1>7, <1>8 DEF CacheInv, TypeOK, Still

\* Tick: an entry and its token lose time together.
LEMMA TickKeeps ==
    ASSUME CacheInv, Tick
    PROVE  CacheInv'
PROOF
<1>0. /\ TypeOK /\ HandlersPlaced /\ FillsDieWithToken /\ EntryDiesWithToken /\ Indexed
      /\ FillsStaleOnlyByRace /\ StaleOnlyByRace
      /\ UNCHANGED <<setup, version, userTokens>>
  BY DEF CacheInv, Tick
<1>1. /\ life' \in [Tokens -> 0..CacheTTL + 1]
      /\ \A t \in Tokens : \A n \in -1..CacheTTL :
           n <= life[t] => n < 0 \/ n - 1 <= life'[t]
  <2>1. \A t \in Tokens : life[t] \in 0..CacheTTL + 1 /\ life'[t] = AgeToken(life[t])
    BY <1>0 DEF Tick, TypeOK
  <2>2. \A t \in Tokens : AgeToken(life[t]) \in 0..CacheTTL + 1
    BY <2>1 DEF AgeToken
  <2> QED
    BY <2>1, <2>2 DEF Tick, AgeToken
<1>2. \A i \in Instances, t \in Tokens :
        authCache[i][t] \in Entry /\ authCache'[i][t] = AgeLocal(authCache[i][t])
  BY <1>0 DEF Tick, TypeOK
<1>3. authCache' \in [Instances -> [Tokens -> Entry]]
  BY <1>2, Ages DEF Tick
<1>4. \A i \in Instances, t \in Tokens : Cached(i, t)' => Cached(i, t)
  <2>1. AgeLocal(NoEntry) = NoEntry
    BY Blanks DEF AgeLocal
  <2> QED
    BY <1>2, <2>1 DEF Cached
<1>5. redis' \in [Tokens -> Entry] /\ redisUser' \in [Users -> Index]
  BY <1>0, Ages, IndexAges DEF Tick, TypeOK
<1>6. \A r \in Requests :
        /\ req[r] \in Req /\ req'[r] \in Req
        /\ req'[r].pc = req[r].pc /\ req'[r].inst = req[r].inst /\ req'[r].tok = req[r].tok
        /\ req'[r].user = req[r].user /\ req'[r].entry = AgeLocal(req[r].entry)
  <2> SUFFICES ASSUME NEW r \in Requests
               PROVE  /\ req[r] \in Req /\ req'[r] \in Req
                      /\ req'[r].pc = req[r].pc /\ req'[r].inst = req[r].inst
                      /\ req'[r].tok = req[r].tok /\ req'[r].user = req[r].user
                      /\ req'[r].entry = AgeLocal(req[r].entry)
    OBVIOUS
  <2> DEFINE e == AgeLocal(req[r].entry)
  <2>1. req[r] \in Req /\ req'[r] = [req[r] EXCEPT !.entry = e]
    BY <1>0 DEF Tick, TypeOK
  <2>2. e \in Entry
    BY <2>1, Fields, Ages
  <2> HIDE DEF e
  <2>3. req'[r] \in Req /\ req'[r].entry = e
    BY <2>1, <2>2 DEF Req
  <2> QED
    BY <2>1, <2>3 DEF Req, e
<1>7. req' \in [Requests -> Req]
  BY <1>6 DEF Tick
<1>8. \A i, u : Pending(i, u) <=> Pending(i, u)'
  <2> SUFFICES ASSUME NEW i, NEW u
               PROVE  Pending(i, u) <=> Pending(i, u)'
    OBVIOUS
  <2>1. \A r \in Requests : Owes(req[r], i, u) <=> Owes(req'[r], i, u)
    BY <1>6 DEF Owes
  <2> QED
    BY <2>1 DEF Pending, Owes
<1>9. HandlersPlaced'
  BY <1>0, <1>6 DEF HandlersPlaced, Placed
<1>10. FillsDieWithToken'
  <2> SUFFICES ASSUME NEW r \in Requests, req'[r].pc \in Filling
               PROVE  req'[r].entry.ttl <= life'[req'[r].tok]
    BY DEF FillsDieWithToken, FillDies
  <2>1. Placed(req[r]) /\ FillDies(req[r]) /\ req[r].entry \in Entry
    BY <1>0, <1>6, Fields DEF HandlersPlaced, FillsDieWithToken
  <2>2. req[r].tok \in Tokens /\ req[r].entry.ttl <= life[req[r].tok]
    BY <1>6, <2>1 DEF Placed, FillDies
  <2>3. /\ req[r].entry.ttl \in -1..CacheTTL
        /\ req'[r].entry.ttl = IF req[r].entry.ttl < 0 THEN req[r].entry.ttl
                               ELSE req[r].entry.ttl - 1
    BY <1>6, <2>1, Fields, Ages
  <2> QED
    BY <1>1, <1>6, <2>2, <2>3
<1>11. EntryDiesWithToken'
  <2> SUFFICES ASSUME NEW i \in Instances, NEW t \in Tokens, Cached(i, t)',
                      authCache'[i][t].ttl >= 0
               PROVE  authCache'[i][t].ttl <= life'[t]
    BY DEF EntryDiesWithToken
  <2>1. /\ authCache[i][t].ttl \in -1..CacheTTL
        /\ authCache'[i][t].ttl = IF authCache[i][t].ttl < 0 THEN authCache[i][t].ttl
                                  ELSE authCache[i][t].ttl - 1
    BY <1>2, Ages DEF Entry
  <2>2. authCache[i][t].ttl <= life[t]
    BY <1>0, <1>4, <2>1 DEF EntryDiesWithToken
  <2> QED
    BY <1>1, <2>1, <2>2
<1>12. Indexed'
  BY <1>0, <1>4 DEF Indexed, Cached
<1>13. FillsStaleOnlyByRace'
  <2> SUFFICES ASSUME Cardinality(setup.hubs) = 1, NEW r \in Requests,
                      req'[r].pc \in Filling, req'[r].entry.ver < version[req'[r].user],
                      ~req'[r].entry.raced
               PROVE  Pending(req[r].inst, req[r].user)'
    BY <1>0 DEF FillsStaleOnlyByRace, FillCurrent
  <2>1. req'[r].entry.ver = req[r].entry.ver /\ req'[r].entry.raced = req[r].entry.raced
    BY <1>6, Fields, Ages
  <2>2. Pending(req[r].inst, req[r].user)
    BY <1>0, <1>6, <2>1 DEF FillsStaleOnlyByRace, FillCurrent
  <2>3. \A i, u : i = req[r].inst /\ u = req[r].user => Pending(i, u)'
    BY <1>8, <2>2
  <2> QED
    BY <1>6, <2>3 DEF Pending, Owes
<1>14. StaleOnlyByRace'
  <2> SUFFICES ASSUME Cardinality(setup.hubs) = 1, NEW i \in setup.hubs, NEW t \in Tokens,
                      Cached(i, t)', authCache'[i][t].ver < version[Owner[t]],
                      ~authCache'[i][t].raced
               PROVE  Pending(i, Owner[t])'
    BY <1>0 DEF StaleOnlyByRace
  <2>1. i \in Instances
    BY <1>0 DEF TypeOK
  <2>2. /\ authCache'[i][t].ver = authCache[i][t].ver
        /\ authCache'[i][t].raced = authCache[i][t].raced
    BY <1>2, <2>1, Ages
  <2> QED
    BY <1>0, <1>4, <1>8, <2>1, <2>2 DEF StaleOnlyByRace
<1> QED
  BY <1>0, <1>1, <1>3, <1>5, <1>7, <1>9, <1>10, <1>11, <1>12, <1>13, <1>14
  DEF CacheInv, TypeOK

\* Stuttering steps.
LEMMA StutterKeeps ==
    ASSUME CacheInv, UNCHANGED vars
    PROVE  CacheInv'
PROOF
  BY DEF CacheInv, vars, TypeOK, HandlersPlaced, Placed, FillsDieWithToken, FillDies,
         EntryDiesWithToken, Indexed, Cached, FillsStaleOnlyByRace, FillCurrent,
         StaleOnlyByRace, Pending, Owes

\* The hub starts with empty caches and idle handlers.
LEMMA Starts ==
    ASSUME Init
    PROVE  CacheInv
PROOF
<1>1. TypeOK
  <2>1. version \in [Users -> 0..MaxVersion]
    BY DEF Init
  <2> QED
    BY <2>1, Blanks DEF Init, TypeOK
<1>2. \A r \in Requests : req[r] = Idle
  BY DEF Init
<1>3. HandlersPlaced /\ FillsDieWithToken /\ FillsStaleOnlyByRace
  BY <1>2, Blanks DEF HandlersPlaced, Placed, FillsDieWithToken, FillDies,
                      FillsStaleOnlyByRace, FillCurrent, Filling
<1>4. \A i \in Instances, t \in Tokens : ~Cached(i, t)
  BY DEF Init, Cached
<1>5. EntryDiesWithToken /\ Indexed
  BY <1>4 DEF EntryDiesWithToken, Indexed
<1>6. StaleOnlyByRace
  BY <1>1, <1>4 DEF StaleOnlyByRace, TypeOK
<1> QED
  BY <1>1, <1>3, <1>5, <1>6 DEF CacheInv

\* Every step of a hub keeps the invariant of the authentication cache, for any
\* instances, users, tokens, handlers, lifetimes and cache sizes.
THEOREM CacheInvariant == Spec => []CacheInv
PROOF
<1>1. Init => CacheInv
  BY Starts
<1>2. CacheInv /\ [Next]_vars => CacheInv'
  <2> SUFFICES ASSUME CacheInv, [Next]_vars
               PROVE  CacheInv'
    OBVIOUS
  <2>1. CASE Tick
    BY <2>1, TickKeeps
  <2>2. CASE \E i \in setup.hubs : sweepAuthCache(i)
    BY <2>2, SweepKeeps
  <2>3. ASSUME NEW r \in Requests, Step(r)
        PROVE  CacheInv'
    BY <2>3, LookupKeeps, DropExpiredKeeps, ReadUserKeeps, FixExpiryKeeps, SetRedisKeeps,
       SetLocalKeeps, InvalidateMembersKeeps, RedisCleared, InvalidateLocalKeeps,
       InvalidateAllLocalKeeps DEF Step
  <2>4. ASSUME NEW r \in Requests, NEW i \in setup.hubs,
               \/ ChangeGroup(r, i)
               \/ \E t \in Tokens : Arrive(r, i, t)
               \/ \E u \in Users : ChangeUser(r, i, u)
        PROVE  CacheInv'
    BY <2>4, ChangeGroupKeeps, ArriveKeeps, ChangeUserKeeps
  <2>5. CASE UNCHANGED vars
    BY <2>5, StutterKeeps
  <2> QED
    BY <2>1, <2>2, <2>3, <2>4, <2>5 DEF Next
<1> QED
  BY <1>1, <1>2, PTL DEF Spec

\* AuthenticateAccessToken never serves a token from the local map after the
\* token has expired (cacheExpiry of storeCachedAuthResult).
THEOREM NoEntryOutlivesToken == Spec => []EntryDiesWithToken
PROOF
<1>1. CacheInv => EntryDiesWithToken
  BY DEF CacheInv
<1> QED
  BY <1>1, CacheInvariant, PTL

\* On a hub that runs alone a stale entry has an invalidation to come, or a
\* fill overtook one (InvalidateUser, InvalidateAll and their index).
THEOREM StaleOnlyRaced == Spec => []StaleOnlyByRace
PROOF
<1>1. CacheInv => StaleOnlyByRace
  BY DEF CacheInv
<1> QED
  BY <1>1, CacheInvariant, PTL

-----------------------------------------------------------------------------
(* AuditSink: sequences of events and their order.                         *)

\* The events of a sequence, when it grows or shrinks.
LEMMA ElementsOf ==
    ASSUME NEW X, NEW s \in Seq(X)
    PROVE  /\ K!Elements(s) \subseteq X /\ Len(s) \in Nat
           /\ \A i \in 1..Len(s) : s[i] \in K!Elements(s)
           /\ s = <<>> <=> K!Elements(s) = {}
           /\ s # <<>> => /\ Head(s) \in X /\ Tail(s) \in Seq(X)
                          /\ K!Elements(s) = {Head(s)} \union K!Elements(Tail(s))
           /\ \A e \in X : /\ Append(s, e) \in Seq(X)
                           /\ K!Elements(Append(s, e)) = K!Elements(s) \union {e}
<1> USE DEF K!Elements
<1> DEFINE n == Len(s)
<1>1. n \in Nat /\ \A i \in 1..n : s[i] \in X
  BY LenProperties, ElementOfSeq
<1>2. s = <<>> <=> n = 0
  BY EmptySeq
<1>3. s = <<>> <=> K!Elements(s) = {}
  <2>1. n # 0 => 1 \in 1..n
    BY <1>1
  <2>2. n = 0 => 1..n = {}
    BY <1>1
  <2>3. n # 0 => s[1] \in K!Elements(s)
    BY <2>1
  <2>4. n = 0 => K!Elements(s) = {}
    BY <2>2
  <2> QED
    BY <1>2, <2>3, <2>4
<1>4. ASSUME s # <<>>
      PROVE  /\ Head(s) \in X /\ Tail(s) \in Seq(X)
             /\ K!Elements(s) = {Head(s)} \union K!Elements(Tail(s))
  <2> DEFINE t == Tail(s)
  <2>1. Head(s) \in X /\ t \in Seq(X) /\ Len(t) = n - 1 /\ \A i \in 1..Len(t) : t[i] = s[i + 1]
    BY <1>4, HeadTailProperties
  <2>2. Head(s) = s[1]
    BY <1>4
  <2>3. n # 0
    BY <1>2, <1>4
  <2> HIDE DEF n, t
  <2>4. \A i \in 1..n - 1 : t[i] = s[i + 1] /\ i + 1 \in 1..n
    BY <1>1, <2>1
  <2>5. 1 \in 1..n /\ \A i \in 1..n : i # 1 => i - 1 \in 1..n - 1 /\ (i - 1) + 1 = i
    BY <1>1, <2>3
  <2>6. {s[i] : i \in 1..n} \subseteq {s[1]} \union {t[i] : i \in 1..n - 1}
    <3> SUFFICES ASSUME NEW i \in 1..n, i # 1 PROVE s[i] \in {t[k] : k \in 1..n - 1}
      OBVIOUS
    <3>1. t[i - 1] = s[i]
      BY <2>4, <2>5
    <3> QED
      BY <2>5, <3>1
  <2>7. {s[1]} \union {t[i] : i \in 1..n - 1} \subseteq {s[i] : i \in 1..n}
    BY <2>4, <2>5
  <2>8. {s[1]} \union {t[i] : i \in 1..n - 1} = {s[i] : i \in 1..n}
    BY <2>6, <2>7, Zenon
  <2> QED
    BY <2>1, <2>2, <2>8 DEF t, n
<1>5. ASSUME NEW e \in X
      PROVE  Append(s, e) \in Seq(X) /\ K!Elements(Append(s, e)) = K!Elements(s) \union {e}
  <2> DEFINE t == Append(s, e)
  <2>1. t \in Seq(X) /\ Len(t) = n + 1 /\ t[n + 1] = e /\ \A i \in 1..n : t[i] = s[i]
    BY AppendProperties
  <2> HIDE DEF t, n
  <2>2. \A i \in 1..n : i \in 1..n + 1
    BY <1>1
  <2>3. n + 1 \in 1..n + 1 /\ \A i \in 1..n + 1 : i = n + 1 \/ i \in 1..n
    BY <1>1
  <2>4. {t[i] : i \in 1..n + 1} = {s[i] : i \in 1..n} \union {e}
    <3>1. {t[i] : i \in 1..n + 1} \subseteq {s[i] : i \in 1..n} \union {e}
      BY <2>1, <2>3
    <3>2. {s[i] : i \in 1..n} \union {e} \subseteq {t[i] : i \in 1..n + 1}
      BY <2>1, <2>2, <2>3
    <3> QED
      BY <3>1, <3>2, Zenon
  <2> QED
    BY <2>1, <2>4 DEF t, n
<1>6. K!Elements(s) \subseteq X /\ \A i \in 1..n : s[i] \in K!Elements(s)
  BY <1>1
<1> QED
  BY <1>1, <1>3, <1>4, <1>5, <1>6

\* Those of two sequences, one after the other.
LEMMA ElementsJoin ==
    ASSUME NEW X, NEW s \in Seq(X), NEW t \in Seq(X)
    PROVE  s \o t \in Seq(X) /\ K!Elements(s \o t) = K!Elements(s) \union K!Elements(t)
<1> DEFINE z == s \o t
           n == Len(s)
           m == Len(t)
<1>1. /\ z \in Seq(X) /\ Len(z) = n + m
      /\ \A i \in 1..n + m : z[i] = IF i <= n THEN s[i] ELSE t[i - n]
  BY ConcatProperties
<1>2. n \in Nat /\ m \in Nat
  BY LenProperties
<1> HIDE DEF z, n, m
<1>3. ASSUME NEW i \in 1..n + m PROVE z[i] \in {s[k] : k \in 1..n} \union {t[k] : k \in 1..m}
  <2>1. i <= n => i \in 1..n
    BY <1>2
  <2>2. ~(i <= n) => i - n \in 1..m
    BY <1>2
  <2> QED
    BY <1>1, <2>1, <2>2
<1>4. ASSUME NEW i \in 1..n PROVE s[i] \in {z[k] : k \in 1..n + m}
  <2>1. i \in 1..n + m /\ i <= n
    BY <1>2
  <2> QED
    BY <1>1, <2>1
<1>5. ASSUME NEW i \in 1..m PROVE t[i] \in {z[k] : k \in 1..n + m}
  <2>1. n + i \in 1..n + m /\ ~(n + i <= n) /\ (n + i) - n = i
    BY <1>2
  <2>2. z[n + i] = t[(n + i) - n]
    BY <1>1, <2>1
  <2> QED
    BY <2>1, <2>2
<1>6. {z[k] : k \in 1..n + m} = {s[k] : k \in 1..n} \union {t[k] : k \in 1..m}
  <2>1. {z[k] : k \in 1..n + m} \subseteq {s[k] : k \in 1..n} \union {t[k] : k \in 1..m}
    BY <1>3
  <2>2. {s[k] : k \in 1..n} \union {t[k] : k \in 1..m} \subseteq {z[k] : k \in 1..n + m}
    BY <1>4, <1>5
  <2> QED
    BY <2>1, <2>2, Zenon
<1> QED
  BY <1>1, <1>6 DEF K!Elements, z, n, m

\* A sequence in the order that a relation gives.
Sorted(s, R) == \A i, j \in 1..Len(s) : i < j => <<s[i], s[j]>> \in R
Across(X, Y, R) == \A e \in X, f \in Y : <<e, f>> \in R

\* Order is kept when an event is added that may follow the others.
LEMMA SortedAppend ==
    ASSUME NEW X, NEW R, NEW s \in Seq(X), NEW e \in X, Sorted(s, R), Across(K!Elements(s), {e}, R)
    PROVE  Sorted(Append(s, e), R)
<1> DEFINE t == Append(s, e)
           n == Len(s)
<1>1. t \in Seq(X) /\ Len(t) = n + 1 /\ t[n + 1] = e /\ \A i \in 1..n : t[i] = s[i]
  BY AppendProperties
<1>2. n \in Nat /\ \A i \in 1..n : s[i] \in K!Elements(s)
  BY ElementsOf
<1>3. \A i, j \in 1..n : i < j => <<s[i], s[j]>> \in R
  BY DEF Sorted
<1>4. \A i \in 1..n : <<s[i], e>> \in R
  BY <1>2 DEF Across
<1> HIDE DEF t, n
<1>5. ASSUME NEW i \in 1..n + 1, NEW j \in 1..n + 1, i < j PROVE <<t[i], t[j]>> \in R
  <2>1. i \in 1..n /\ (j = n + 1 \/ j \in 1..n)
    BY <1>2, <1>5
  <2> QED
    BY <1>1, <1>3, <1>4, <1>5, <2>1
<1> QED
  BY <1>1, <1>5 DEF Sorted, t

\* When one sequence of events follows another.
LEMMA SortedJoin ==
    ASSUME NEW X, NEW R, NEW s \in Seq(X), NEW t \in Seq(X), Sorted(s, R), Sorted(t, R),
           Across(K!Elements(s), K!Elements(t), R)
    PROVE  Sorted(s \o t, R)
<1> DEFINE z == s \o t
           n == Len(s)
           m == Len(t)
<1>1. /\ z \in Seq(X) /\ Len(z) = n + m
      /\ \A i \in 1..n + m : z[i] = IF i <= n THEN s[i] ELSE t[i - n]
  BY ConcatProperties
<1>2. n \in Nat /\ m \in Nat /\ \A i \in 1..n, j \in 1..m : <<s[i], t[j]>> \in R
  BY ElementsOf DEF Across
<1>3. /\ \A i, j \in 1..n : i < j => <<s[i], s[j]>> \in R
      /\ \A i, j \in 1..m : i < j => <<t[i], t[j]>> \in R
  BY DEF Sorted
<1> HIDE DEF z, n, m
<1>4. ASSUME NEW i \in 1..n + m, NEW j \in 1..n + m, i < j PROVE <<z[i], z[j]>> \in R
  <2>1. CASE j <= n
    <3>1. i \in 1..n /\ j \in 1..n /\ i <= n
      BY <1>2, <1>4, <2>1
    <3> QED
      BY <1>1, <1>3, <1>4, <2>1, <3>1
  <2>2. CASE ~(j <= n) /\ i <= n
    <3>1. i \in 1..n /\ j - n \in 1..m
      BY <1>2, <2>2
    <3> QED
      BY <1>1, <1>2, <2>2, <3>1
  <2>3. CASE ~(j <= n) /\ ~(i <= n)
    <3>1. i - n \in 1..m /\ j - n \in 1..m /\ i - n < j - n
      BY <1>2, <1>4, <2>3
    <3> QED
      BY <1>1, <1>3, <2>3, <3>1
  <2> QED
    BY <2>1, <2>2, <2>3
<1> QED
  BY <1>1, <1>4 DEF Sorted, z

\* When the first event is taken off.
LEMMA SortedTail ==
    ASSUME NEW X, NEW R, NEW s \in Seq(X), s # <<>>, Sorted(s, R)
    PROVE  Sorted(Tail(s), R) /\ Across({Head(s)}, K!Elements(Tail(s)), R)
<1> DEFINE t == Tail(s)
           n == Len(s)
<1>1. t \in Seq(X) /\ Len(t) = n - 1 /\ (\A i \in 1..Len(t) : t[i] = s[i + 1]) /\ Head(s) = s[1]
  BY HeadTailProperties
<1>2. n \in Nat /\ n # 0
  BY LenProperties, EmptySeq
<1>3. \A i, j \in 1..n : i < j => <<s[i], s[j]>> \in R
  BY DEF Sorted
<1> HIDE DEF t, n
<1>4. \A i \in 1..n - 1 : t[i] = s[i + 1] /\ i + 1 \in 1..n /\ 1 < i + 1 /\ 1 \in 1..n
  BY <1>1, <1>2
<1>5. ASSUME NEW i \in 1..n - 1, NEW j \in 1..n - 1, i < j PROVE <<t[i], t[j]>> \in R
  <2>1. i + 1 < j + 1
    BY <1>5
  <2> QED
    BY <1>3, <1>4, <2>1
<1>6. \A i \in 1..n - 1 : <<s[1], t[i]>> \in R
  BY <1>3, <1>4
<1> QED
  BY <1>1, <1>5, <1>6 DEF Sorted, Across, K!Elements, t

\* The places events pass through: store, batch, buffer and channel.
Arranged(l, b, u, v, R) ==
    /\ Sorted(l, R) /\ Sorted(b, R) /\ Sorted(u, R) /\ Sorted(v, R)
    /\ Across(K!Elements(l), K!Elements(b) \union K!Elements(u) \union K!Elements(v), R)
    /\ Across(K!Elements(b), K!Elements(u) \union K!Elements(v), R)
    /\ Across(K!Elements(u), K!Elements(v), R)

\* Moving events along keeps their order.
LEMMA PlacesMove ==
    ASSUME NEW X, NEW R, NEW l \in Seq(X), NEW b \in Seq(X), NEW u \in Seq(X), NEW v \in Seq(X),
           Arranged(l, b, u, v, R)
    PROVE  /\ v # <<>> => /\ Arranged(l, b, Append(u, Head(v)), Tail(v), R)
                          /\ Arranged(l, b, u, Tail(v), R)
           /\ b = <<>> => Arranged(l, u, <<>>, v, R)
           /\ Arranged(l \o b, <<>>, u, v, R) /\ Arranged(l, <<>>, u, v, R)
<1> USE DEF Arranged
<1>0. <<>> \in Seq(X) /\ K!Elements(<<>>) = {}
  <2>1. <<>> \in Seq(X)
    BY EmptySeq
  <2> QED
    BY <2>1, ElementsOf
<1>1. Sorted(<<>>, R)
  <2>1. Len(<<>>) = 0 /\ \A i \in 1..0 : FALSE
    BY EmptySeq
  <2> QED
    BY <2>1 DEF Sorted
<1> DEFINE El(s) == K!Elements(s)
<1>2. ASSUME v # <<>>
      PROVE  Arranged(l, b, Append(u, Head(v)), Tail(v), R) /\ Arranged(l, b, u, Tail(v), R)
  <2> DEFINE h == Head(v)
             t == Tail(v)
             w == Append(u, h)
  <2>1. h \in X /\ t \in Seq(X) /\ El(v) = {h} \union El(t)
    BY <1>2, ElementsOf
  <2>2. w \in Seq(X) /\ El(w) = El(u) \union {h}
    BY <2>1, ElementsOf
  <2>3. Sorted(t, R) /\ Across({h}, El(t), R)
    BY <1>2, SortedTail
  <2>4. Across(El(u), {h}, R) /\ Across(El(u), El(t), R)
    BY <2>1 DEF Across
  <2>5. Sorted(w, R)
    BY <2>1, <2>4, SortedAppend
  <2> HIDE DEF h, t, w, El
  <2>6. /\ Across(El(l), El(b) \union El(w) \union El(t), R) /\ Across(El(b), El(w) \union El(t), R)
        /\ Across(El(l), El(b) \union El(u) \union El(t), R) /\ Across(El(b), El(u) \union El(t), R)
    <3>1. Across(El(l), El(b) \union El(u) \union El(v), R) /\ Across(El(b), El(u) \union El(v), R)
      BY DEF El
    <3> QED
      BY <2>1, <2>2, <3>1, Zenon DEF Across
  <2>7. Across(El(w), El(t), R)
    BY <2>2, <2>3, <2>4, Zenon DEF Across
  <2> QED
    BY <2>3, <2>4, <2>5, <2>6, <2>7, Zenon DEF h, t, w, El
<1>3. ASSUME b = <<>> PROVE Arranged(l, u, <<>>, v, R)
  BY <1>0, <1>1, <1>3 DEF Across
<1>4. Arranged(l, <<>>, u, v, R)
  BY <1>0, <1>1 DEF Across
<1>5. Arranged(l \o b, <<>>, u, v, R)
  <2> DEFINE z == l \o b
  <2>1. z \in Seq(X) /\ El(z) = El(l) \union El(b)
    BY ElementsJoin
  <2>2. Across(El(l), El(b), R)
    BY DEF Across
  <2>3. Sorted(z, R)
    BY <2>2, SortedJoin
  <2> HIDE DEF z
  <2>4. Across(El(z), El(u) \union El(v), R)
    BY <2>1 DEF Across
  <2>5. Arranged(z, <<>>, u, v, R)
    BY <1>0, <1>1, <2>3, <2>4 DEF Across
  <2> QED
    BY <2>5 DEF z
<1> QED
  BY <1>2, <1>3, <1>4, <1>5

\* A new event enters the channel, or the store.
LEMMA PlacesGrow ==
    ASSUME NEW X, NEW R, NEW l \in Seq(X), NEW b \in Seq(X), NEW u \in Seq(X), NEW v \in Seq(X),
           Arranged(l, b, u, v, R), NEW e \in X
    PROVE  /\ Across(K!Elements(l) \union K!Elements(b) \union K!Elements(u) \union K!Elements(v), {e}, R)
                => Arranged(l, b, u, Append(v, e), R)
           /\ /\ Across(K!Elements(l), {e}, R)
              /\ Across({e}, K!Elements(b) \union K!Elements(u) \union K!Elements(v), R)
              => Arranged(Append(l, e), b, u, v, R)
<1> DEFINE El(s) == K!Elements(s)
<1>0. /\ Across(El(l), El(b) \union El(u) \union El(v), R) /\ Across(El(b), El(u) \union El(v), R)
      /\ Across(El(u), El(v), R)
      /\ Sorted(l, R) /\ Sorted(b, R) /\ Sorted(u, R) /\ Sorted(v, R)
  BY DEF Arranged
<1>1. ASSUME Across(El(l) \union El(b) \union El(u) \union El(v), {e}, R)
      PROVE  Arranged(l, b, u, Append(v, e), R)
  <2> DEFINE w == Append(v, e)
  <2>1. El(w) = El(v) \union {e}
    BY ElementsOf
  <2>2. Sorted(w, R)
    <3>1. Across(El(v), {e}, R)
      BY <1>1 DEF Across
    <3> QED
      BY <1>0, <3>1, SortedAppend
  <2> HIDE DEF w, El
  <2>3. /\ Across(El(l), El(b) \union El(u) \union El(w), R) /\ Across(El(b), El(u) \union El(w), R)
        /\ Across(El(u), El(w), R)
    BY <1>0, <1>1, <2>1, Zenon DEF Across
  <2> QED
    BY <1>0, <2>2, <2>3, Zenon DEF Arranged, w, El
<1>2. ASSUME Across(El(l), {e}, R), Across({e}, El(b) \union El(u) \union El(v), R)
      PROVE  Arranged(Append(l, e), b, u, v, R)
  <2> DEFINE w == Append(l, e)
  <2>1. El(w) = El(l) \union {e}
    BY ElementsOf
  <2>2. Sorted(w, R)
    BY <1>0, <1>2, SortedAppend
  <2> HIDE DEF w, El
  <2>3. Across(El(w), El(b) \union El(u) \union El(v), R)
    BY <1>0, <1>2, <2>1, Zenon DEF Across
  <2> QED
    BY <1>0, <2>2, <2>3, Zenon DEF Arranged, w, El
<1> QED
  BY <1>1, <1>2, Zenon

\* The order of the sink's events, as a relation.
Order == {x \in K!Event \X K!Event : K!Follows(x[1], x[2])}

\* What PlacesInOrder says in these terms.
LEMMA OrderIs ==
    ASSUME NEW s \in Seq(K!Event)
    PROVE  /\ K!InOrder(s) <=> Sorted(s, Order)
           /\ \A X, Y \in SUBSET K!Event : K!AllFollow(X, Y) <=> Across(X, Y, Order)
<1>1. \A e, f : <<e, f>> \in Order <=> e \in K!Event /\ f \in K!Event /\ K!Follows(e, f)
  BY DEF Order
<1>2. \A i \in 1..Len(s) : s[i] \in K!Event
  BY ElementOfSeq
<1>3. K!InOrder(s) <=> Sorted(s, Order)
  BY <1>1, <1>2, Zenon DEF K!InOrder, Sorted
<1>4. ASSUME NEW X \in SUBSET K!Event, NEW Y \in SUBSET K!Event
      PROVE  K!AllFollow(X, Y) <=> Across(X, Y, Order)
  <2>1. /\ \A x \in X : x \in K!Event
        /\ \A y \in Y : y \in K!Event
    BY <1>4
  <2> QED
    BY <1>1, <2>1, Zenon DEF K!AllFollow, Across
<1> QED
  BY <1>3, <1>4

\* Order in more room.
LEMMA ArrangedMore ==
    ASSUME NEW R, NEW T, R \subseteq T, NEW l, NEW b, NEW u, NEW v, Arranged(l, b, u, v, R)
    PROVE  Arranged(l, b, u, v, T)
<1>1. \A s : Sorted(s, R) => Sorted(s, T)
  BY DEF Sorted
<1>2. \A X, Y : Across(X, Y, R) => Across(X, Y, T)
  BY DEF Across
<1> QED
  BY <1>1, <1>2, Zenon DEF Arranged

\* What is known of the variables.
LEMMA SinkTypes ==
    ASSUME K!TypeOK
    PROVE  /\ events \in Seq(K!Event) /\ buffer \in Seq(K!Event) /\ batch \in Seq(K!Event)
           /\ log \in Seq(K!Event) /\ sent \in Seq(K!Event)
           /\ K!Elements(events) \subseteq K!Event /\ K!Elements(buffer) \subseteq K!Event
           /\ K!Elements(batch) \subseteq K!Event /\ K!Elements(log) \subseteq K!Event
           /\ K!Elements(sent) \subseteq K!Event /\ Len(sent) \in Nat
<1>1. /\ events \in Seq(K!Event) /\ buffer \in Seq(K!Event) /\ batch \in Seq(K!Event)
      /\ log \in Seq(K!Event) /\ sent \in Seq(K!Event)
  BY DEF K!TypeOK
<1> QED
  BY <1>1, ElementsOf

\* The places as the invariant has them.
LEMMA ArrangedNow ==
    ASSUME K!SinkInv PROVE Arranged(log, batch, buffer, events, Order)
<1>1. K!TypeOK /\ K!PlacesInOrder
  BY DEF K!SinkInv
<1>2. /\ events \in Seq(K!Event) /\ buffer \in Seq(K!Event) /\ batch \in Seq(K!Event)
      /\ log \in Seq(K!Event)
      /\ K!Elements(events) \subseteq K!Event /\ K!Elements(buffer) \subseteq K!Event
      /\ K!Elements(batch) \subseteq K!Event /\ K!Elements(log) \subseteq K!Event
  BY <1>1, SinkTypes
<1>3. Sorted(log, Order) /\ Sorted(batch, Order) /\ Sorted(buffer, Order) /\ Sorted(events, Order)
  BY <1>1, <1>2, OrderIs DEF K!PlacesInOrder
<1>4. /\ Across(K!Elements(log), K!Elements(batch) \union K!Elements(buffer) \union K!Elements(events), Order)
      /\ Across(K!Elements(batch), K!Elements(buffer) \union K!Elements(events), Order)
      /\ Across(K!Elements(buffer), K!Elements(events), Order)
  <2>1. \A X, Y \in SUBSET K!Event : K!AllFollow(X, Y) => Across(X, Y, Order)
    BY <1>2, OrderIs
  <2>2. /\ K!Elements(batch) \union K!Elements(buffer) \union K!Elements(events) \in SUBSET K!Event
        /\ K!Elements(buffer) \union K!Elements(events) \in SUBSET K!Event
        /\ K!Elements(log) \in SUBSET K!Event /\ K!Elements(batch) \in SUBSET K!Event
        /\ K!Elements(buffer) \in SUBSET K!Event /\ K!Elements(events) \in SUBSET K!Event
    BY <1>2
  <2> QED
    BY <1>1, <2>1, <2>2, Zenon DEF K!PlacesInOrder
<1> QED
  BY <1>3, <1>4 DEF Arranged

\* And what is to be shown after a step.
LEMMA ArrangedNext ==
    ASSUME Arranged(log', batch', buffer', events', Order')
    PROVE  K!PlacesInOrder'
<1> DEFINE F(e, f) == /\ e # f
                      /\ \/ e \in direct' \/ f \in direct'
                         \/ \E a, b \in 1..Len(sent') : a < b /\ sent'[a] = e /\ sent'[b] = f
<1>1. \A e, f : <<e, f>> \in Order' => F(e, f)
  BY DEF Order, K!Follows
<1> HIDE DEF F
<1>2. \A s : Sorted(s, Order') => \A i, j \in 1..Len(s) : i < j => F(s[i], s[j])
  BY <1>1 DEF Sorted
<1>3. \A X, Y : Across(X, Y, Order') => \A e \in X, f \in Y : F(e, f)
  BY <1>1 DEF Across
<1>4. K!InOrder(log)' /\ K!InOrder(batch)' /\ K!InOrder(buffer)' /\ K!InOrder(events)'
  BY <1>2 DEF Arranged, K!InOrder, K!Follows, F
<1>5. /\ \A e \in K!Elements(log)', f \in K!Elements(batch)' \union K!Elements(buffer)' \union K!Elements(events)' : F(e, f)
      /\ \A e \in K!Elements(batch)', f \in K!Elements(buffer)' \union K!Elements(events)' : F(e, f)
      /\ \A e \in K!Elements(buffer)', f \in K!Elements(events)' : F(e, f)
  BY <1>3 DEF Arranged, K!Elements
<1> QED
  BY <1>4, <1>5, Zenon DEF K!PlacesInOrder, K!AllFollow, K!Follows, F

\* The order does not change unless events enter the channel or are written
\* directly, and never loses what it had.
LEMMA OrderGrows ==
    ASSUME K!TypeOK, direct \subseteq direct',
           sent' = sent \/ \E e \in K!Event : sent' = Append(sent, e)
    PROVE  Order \subseteq Order'
<1> DEFINE n == Len(sent)
           m == Len(sent')
<1>1. n \in Nat /\ sent \in Seq(K!Event)
  BY SinkTypes
<1>2. m \in Nat /\ n <= m /\ \A i \in 1..n : sent'[i] = sent[i]
  <2>1. CASE sent' = sent
    BY <1>1, <2>1
  <2>2. CASE \E e \in K!Event : sent' = Append(sent, e)
    <3>1. PICK e \in K!Event : sent' = Append(sent, e)
      BY <2>2
    <3> DEFINE t == Append(sent, e)
    <3>2. Len(t) = n + 1 /\ \A i \in 1..n : t[i] = sent[i]
      BY <1>1, AppendProperties
    <3> HIDE DEF t
    <3>3. sent' = t
      BY <3>1 DEF t
    <3> QED
      BY <1>1, <3>2, <3>3
  <2> QED
    BY <2>1, <2>2
<1> HIDE DEF n, m
<1>3. \A i \in 1..n : i \in 1..m
  BY <1>1, <1>2
<1>4. ASSUME NEW x \in Order PROVE x \in Order'
  <2>1. x \in K!Event \X K!Event /\ K!Follows(x[1], x[2])
    BY <1>4 DEF Order
  <2> DEFINE e == x[1]
             f == x[2]
  <2>2. /\ e # f
        /\ \/ e \in direct \/ f \in direct
           \/ \E a, b \in 1..n : a < b /\ sent[a] = e /\ sent[b] = f
    BY <2>1 DEF K!Follows, n
  <2> HIDE DEF e, f
  <2>3. /\ e # f
        /\ \/ e \in direct' \/ f \in direct'
           \/ \E a, b \in 1..m : a < b /\ sent'[a] = e /\ sent'[b] = f
    BY <1>2, <1>3, <2>2
  <2> QED
    BY <2>1, <2>3 DEF Order, K!Follows, e, f, m, K!Event
<1> QED
  BY <1>4

\* The events of each place, before and after a step.
LEMMA ElementsNext ==
    /\ K!Elements(log)' = K!Elements(log') /\ K!Elements(batch)' = K!Elements(batch')
    /\ K!Elements(buffer)' = K!Elements(buffer') /\ K!Elements(events)' = K!Elements(events')
    /\ K!Elements(sent)' = K!Elements(sent')
BY DEF K!Elements

\* A step of run or Close, which leaves the handlers alone.
LEMMA RunStep ==
    ASSUME K!SinkInv, K!TypeOK', UNCHANGED <<prod, drawn, sent, direct>>,
           Arranged(log', batch', buffer', events', Order), K!PlacesHold', K!ClosesInOrder'
    PROVE  K!SinkInv'
<1>1. K!EventsApart'
  BY DEF K!SinkInv, K!EventsApart, K!Busy, K!Elements
<1>2. Order \subseteq Order'
  BY OrderGrows DEF K!SinkInv
<1>3. Arranged(log', batch', buffer', events', Order')
  BY <1>2, ArrangedMore
<1>4. K!PlacesInOrder'
  BY <1>3, ArrangedNext
<1> QED
  BY <1>1, <1>4 DEF K!SinkInv

\* What the invariant says of the places.
LEMMA SinkFacts ==
    ASSUME K!SinkInv
    PROVE  /\ K!TypeOK /\ Arranged(log, batch, buffer, events, Order)
           /\ events \in Seq(K!Event) /\ buffer \in Seq(K!Event) /\ batch \in Seq(K!Event)
           /\ log \in Seq(K!Event) /\ sent \in Seq(K!Event) /\ Len(sent) \in Nat
           /\ K!Elements(sent) = (K!Elements(log) \ direct) \union K!Elements(batch)
                                   \union K!Elements(buffer) \union K!Elements(events) \union gone
           /\ gone \intersect (K!Elements(log) \union K!Elements(batch) \union K!Elements(buffer)
                                   \union K!Elements(events)) = {}
           /\ K!Elements(<<>>) = {} /\ <<>> \in Seq(K!Event)
           /\ atClose \in Nat /\ atClose <= Len(sent)
           /\ sink \in {"drain", "lastWrite", "done"} => cancelled
           /\ sink \in {"select", "drain", "done"} => batch = <<>>
           /\ sink \in {"lastWrite", "done"} => \A i \in 1..atClose :
                sent[i] \in K!Elements(log) \union K!Elements(batch) \union gone
<1>1. K!TypeOK /\ K!PlacesHold /\ K!ClosesInOrder
  BY DEF K!SinkInv
<1>2. Arranged(log, batch, buffer, events, Order)
  BY ArrangedNow
<1>3. <<>> \in Seq(K!Event)
  BY EmptySeq
<1>4. K!Elements(<<>>) = {}
  BY <1>3, ElementsOf
<1>5. atClose \in Nat
  BY <1>1 DEF K!TypeOK
<1> QED
  BY <1>1, <1>2, <1>3, <1>4, <1>5, SinkTypes DEF K!PlacesHold, K!ClosesInOrder

\* The move of an event from the channel to the buffer.
LEMMA TakenIs ==
    ASSUME K!SinkInv, events # <<>>
    PROVE  /\ Tail(events) \in Seq(K!Event) /\ Head(events) \in K!Event
           /\ Append(buffer, Head(events)) \in Seq(K!Event)
           /\ Len(Tail(events)) <= Cap
           /\ K!Elements(events) = {Head(events)} \union K!Elements(Tail(events))
           /\ K!Elements(Append(buffer, Head(events))) = K!Elements(buffer) \union {Head(events)}
           /\ Arranged(log, batch, Append(buffer, Head(events)), Tail(events), Order)
           /\ Arranged(log, batch, buffer, Tail(events), Order)
<1>1. /\ K!TypeOK /\ Arranged(log, batch, buffer, events, Order)
      /\ events \in Seq(K!Event) /\ buffer \in Seq(K!Event) /\ batch \in Seq(K!Event) /\ log \in Seq(K!Event)
  BY SinkFacts
<1>2. /\ Tail(events) \in Seq(K!Event) /\ Head(events) \in K!Event
      /\ K!Elements(events) = {Head(events)} \union K!Elements(Tail(events))
  BY <1>1, ElementsOf
<1>3. /\ Append(buffer, Head(events)) \in Seq(K!Event)
      /\ K!Elements(Append(buffer, Head(events))) = K!Elements(buffer) \union {Head(events)}
  BY <1>1, <1>2, ElementsOf
<1>4. /\ Arranged(log, batch, Append(buffer, Head(events)), Tail(events), Order)
      /\ Arranged(log, batch, buffer, Tail(events), Order)
  BY <1>1, PlacesMove
<1>5. Len(Tail(events)) <= Cap
  <2> DEFINE n == Len(events)
             m == Len(Tail(events))
  <2>1. m = n - 1 /\ n \in Nat /\ n <= Cap /\ Cap \in Nat
    BY <1>1, HeadTailProperties, LenProperties, SinkAssumption DEF K!TypeOK, K!SinkAssumption
  <2> HIDE DEF n, m
  <2>2. m <= Cap
    BY <2>1
  <2> QED
    BY <2>2 DEF m
<1> QED
  BY <1>2, <1>3, <1>4, <1>5

\* run takes an event (the receive case of its select, and the drain).
LEMMA ReceiveKeeps == ASSUME K!SinkInv, K!Receive \/ K!Drain PROVE K!SinkInv'
<1>0. events # <<>>
  BY DEF K!Receive, K!Drain
<1> DEFINE h == Head(events)
           t == Tail(events)
           w == Append(buffer, h)
<1>1. /\ t \in Seq(K!Event) /\ h \in K!Event /\ w \in Seq(K!Event) /\ Len(t) <= Cap
      /\ K!Elements(events) = {h} \union K!Elements(t)
      /\ K!Elements(w) = K!Elements(buffer) \union {h}
      /\ Arranged(log, batch, w, t, Order)
  BY <1>0, TakenIs
<1>2. /\ K!TypeOK
      /\ buffer \in Seq(K!Event) /\ batch \in Seq(K!Event)
      /\ log \in Seq(K!Event)
      /\ K!Elements(sent) = (K!Elements(log) \ direct) \union K!Elements(batch)
                              \union K!Elements(buffer) \union K!Elements(events) \union gone
      /\ gone \intersect (K!Elements(log) \union K!Elements(batch) \union K!Elements(buffer)
                              \union K!Elements(events)) = {}
      /\ K!Elements(<<>>) = {} /\ <<>> \in Seq(K!Event)
      /\ atClose <= Len(sent)
      /\ sink \in {"drain", "lastWrite", "done"} => cancelled
      /\ sink \in {"select", "drain", "done"} => batch = <<>>
  BY SinkFacts
<1>3. /\ events' = t /\ UNCHANGED <<policy, cancelled, log, prod, drawn, sent, gone, direct, atClose>>
      /\ \/ batch' = batch /\ buffer' = w /\ sink' = sink /\ sink \in {"select", "drain"}
         \/ batch' = w /\ buffer' = <<>> /\ sink' = "write" /\ sink = "select"
  BY DEF K!Receive, K!Drain, K!Flush
<1> HIDE DEF h, t, w
<1>4. CASE batch' = batch /\ buffer' = w /\ sink' = sink /\ sink \in {"select", "drain"}
  <2>1. K!TypeOK'
    BY <1>1, <1>2, <1>3, <1>4 DEF K!TypeOK
  <2>2. Arranged(log', batch', buffer', events', Order)
    BY <1>1, <1>3, <1>4
  <2>3. K!PlacesHold'
    <3>1. /\ K!Elements(sent) = (K!Elements(log) \ direct) \union K!Elements(batch)
                              \union K!Elements(w) \union K!Elements(t) \union gone
          /\ gone \intersect (K!Elements(log) \union K!Elements(batch) \union K!Elements(w)
                              \union K!Elements(t)) = {}
      BY <1>1, <1>2
    <3> QED
      BY <1>3, <1>4, <3>1, ElementsNext DEF K!PlacesHold
  <2>4. K!ClosesInOrder'
    BY <1>2, <1>3, <1>4 DEF K!ClosesInOrder
  <2> QED
    BY <1>3, <2>1, <2>2, <2>3, <2>4, RunStep
<1>5. CASE batch' = w /\ buffer' = <<>> /\ sink' = "write" /\ sink = "select"
  <2>0. batch = <<>>
    BY <1>2, <1>5
  <2>1. K!TypeOK'
    BY <1>1, <1>2, <1>3, <1>5 DEF K!TypeOK
  <2>2. Arranged(log', batch', buffer', events', Order)
    <3>1. Arranged(log, w, <<>>, t, Order)
      BY <1>1, <1>2, <2>0, PlacesMove
    <3> QED
      BY <1>3, <1>5, <3>1
  <2>3. K!PlacesHold'
    <3>1. /\ K!Elements(sent) = (K!Elements(log) \ direct) \union K!Elements(w)
                              \union K!Elements(<<>>) \union K!Elements(t) \union gone
          /\ gone \intersect (K!Elements(log) \union K!Elements(w) \union K!Elements(<<>>)
                              \union K!Elements(t)) = {}
      BY <1>1, <1>2, <2>0
    <3> QED
      BY <1>3, <1>5, <3>1, ElementsNext DEF K!PlacesHold
  <2>4. K!ClosesInOrder'
    BY <1>2, <1>3, <1>5 DEF K!ClosesInOrder
  <2> QED
    BY <1>3, <2>1, <2>2, <2>3, <2>4, RunStep
<1> QED
  BY <1>3, <1>4, <1>5

\* run flushes its buffer (the ticker, and the end of the drain), or stops,
\* or is closed.
LEMMA FlushKeeps ==
    ASSUME K!SinkInv, K!FlushTicker \/ K!Stop \/ K!DrainEnd \/ K!Close PROVE K!SinkInv'
<1>1. /\ K!TypeOK /\ Arranged(log, batch, buffer, events, Order)
      /\ buffer \in Seq(K!Event) /\ batch \in Seq(K!Event)
      /\ log \in Seq(K!Event) /\ events \in Seq(K!Event)
      /\ K!Elements(sent) = (K!Elements(log) \ direct) \union K!Elements(batch)
                              \union K!Elements(buffer) \union K!Elements(events) \union gone
      /\ gone \intersect (K!Elements(log) \union K!Elements(batch) \union K!Elements(buffer)
                              \union K!Elements(events)) = {}
      /\ K!Elements(<<>>) = {} /\ <<>> \in Seq(K!Event)
      /\ atClose \in Nat /\ atClose <= Len(sent) /\ Len(sent) \in Nat /\ sent \in Seq(K!Event)
      /\ sink \in {"drain", "lastWrite", "done"} => cancelled
      /\ sink \in {"select", "drain", "done"} => batch = <<>>
      /\ sink \in {"lastWrite", "done"} => \A i \in 1..atClose :
           sent[i] \in K!Elements(log) \union K!Elements(batch) \union gone
  BY SinkFacts
<1>2. CASE K!FlushTicker \/ K!DrainEnd
  <2>0. batch = <<>>
    BY <1>1, <1>2 DEF K!FlushTicker, K!DrainEnd
  <2>1. /\ batch' = buffer /\ buffer' = <<>>
        /\ UNCHANGED <<policy, events, cancelled, log, prod, drawn, sent, gone, direct, atClose>>
        /\ sink' \in {"write", "lastWrite", "done"}
        /\ sink' = "done" => buffer = <<>>
        /\ sink' # "write" => cancelled /\ events = <<>>
    BY <1>1, <1>2 DEF K!FlushTicker, K!DrainEnd, K!Flush
  <2>2. K!TypeOK'
    BY <1>1, <2>1 DEF K!TypeOK
  <2>3. Arranged(log', batch', buffer', events', Order)
    <3>1. Arranged(log, buffer, <<>>, events, Order)
      BY <1>1, <2>0, PlacesMove
    <3> QED
      BY <2>1, <3>1
  <2>4. K!PlacesHold'
    <3>1. /\ K!Elements(sent) = (K!Elements(log) \ direct) \union K!Elements(buffer)
                              \union K!Elements(<<>>) \union K!Elements(events) \union gone
          /\ gone \intersect (K!Elements(log) \union K!Elements(buffer) \union K!Elements(<<>>)
                              \union K!Elements(events)) = {}
      BY <1>1, <2>0
    <3> QED
      BY <2>1, <3>1, ElementsNext DEF K!PlacesHold
  <2>5. K!ClosesInOrder'
    <3>1. ASSUME sink' # "write", NEW i \in 1..atClose
          PROVE  sent[i] \in K!Elements(log) \union K!Elements(buffer) \union gone
      <4>1. i \in 1..Len(sent)
        BY <1>1
      <4>2. sent[i] \in K!Elements(sent)
        BY <1>1, <4>1, ElementsOf
      <4>3. K!Elements(events) = {} /\ K!Elements(batch) = {}
        BY <1>1, <2>0, <2>1, <3>1
      <4> QED
        BY <1>1, <4>2, <4>3
    <3> QED
      BY <1>1, <2>1, <3>1, ElementsNext DEF K!ClosesInOrder
  <2> QED
    BY <2>1, <2>2, <2>3, <2>4, <2>5, RunStep
<1>3. CASE K!Stop \/ K!Close
  <2>1. /\ UNCHANGED <<policy, events, buffer, batch, log, prod, drawn, sent, gone, direct>>
        /\ \/ sink = "select" /\ cancelled /\ sink' = "drain" /\ UNCHANGED <<cancelled, atClose>>
           \/ ~cancelled /\ cancelled' = TRUE /\ atClose' = Len(sent) /\ sink' = sink
    BY <1>3 DEF K!Stop, K!Close
  <2>2. K!TypeOK'
    BY <1>1, <2>1 DEF K!TypeOK
  <2>3. Arranged(log', batch', buffer', events', Order)
    BY <1>1, <2>1
  <2>4. K!PlacesHold'
    BY <1>1, <2>1, ElementsNext DEF K!PlacesHold
  <2>5. K!ClosesInOrder'
    BY <1>1, <2>1, ElementsNext DEF K!ClosesInOrder
  <2> QED
    BY <2>1, <2>2, <2>3, <2>4, <2>5, RunStep
<1> QED
  BY <1>2, <1>3

\* No event is in two places.
LEMMA PlacesApart ==
    ASSUME NEW l, NEW b, NEW u, NEW v, Arranged(l, b, u, v, Order)
    PROVE  /\ K!Elements(l) \intersect (K!Elements(b) \union K!Elements(u) \union K!Elements(v)) = {}
           /\ K!Elements(b) \intersect (K!Elements(u) \union K!Elements(v)) = {}
           /\ K!Elements(u) \intersect K!Elements(v) = {}
<1>1. \A e : <<e, e>> \notin Order
  BY DEF Order, K!Follows
<1>2. \A X, Y : Across(X, Y, Order) => X \intersect Y = {}
  BY <1>1, Zenon DEF Across
<1> QED
  BY <1>2, Zenon DEF Arranged

\* The store takes a batch, or refuses it.
LEMMA CreateBatchKeeps == ASSUME K!SinkInv, K!CreateBatch PROVE K!SinkInv'
<1>1. /\ K!TypeOK /\ Arranged(log, batch, buffer, events, Order)
      /\ buffer \in Seq(K!Event) /\ batch \in Seq(K!Event)
      /\ log \in Seq(K!Event) /\ events \in Seq(K!Event)
      /\ K!Elements(sent) = (K!Elements(log) \ direct) \union K!Elements(batch)
                              \union K!Elements(buffer) \union K!Elements(events) \union gone
      /\ gone \intersect (K!Elements(log) \union K!Elements(batch) \union K!Elements(buffer)
                              \union K!Elements(events)) = {}
      /\ K!Elements(<<>>) = {} /\ <<>> \in Seq(K!Event)
      /\ atClose <= Len(sent)
      /\ sink \in {"drain", "lastWrite", "done"} => cancelled
      /\ sink \in {"lastWrite", "done"} => \A i \in 1..atClose :
           sent[i] \in K!Elements(log) \union K!Elements(batch) \union gone
  BY SinkFacts
<1>2. K!Elements(batch) \intersect direct = {}
  <2>1. K!Elements(sent) \intersect direct = {}
    BY DEF K!SinkInv, K!EventsApart
  <2> QED
    BY <1>1, <2>1
<1>3. /\ K!Elements(log) \intersect K!Elements(batch) = {}
      /\ K!Elements(batch) \intersect (K!Elements(buffer) \union K!Elements(events)) = {}
  BY <1>1, PlacesApart
<1>4. log \o batch \in Seq(K!Event) /\ K!Elements(log \o batch) = K!Elements(log) \union K!Elements(batch)
  BY <1>1, ElementsJoin
<1>5. Arranged(log \o batch, <<>>, buffer, events, Order) /\ Arranged(log, <<>>, buffer, events, Order)
  BY <1>1, PlacesMove
<1> DEFINE z == log \o batch
<1>6. /\ batch' = <<>> /\ UNCHANGED <<policy, events, buffer, cancelled, prod, drawn, sent, direct, atClose>>
      /\ \/ log' = z /\ gone' = gone
         \/ log' = log /\ gone' = gone \union K!Elements(batch)
      /\ sink' \in {"select", "done"} /\ (sink' = "done" => sink = "lastWrite")
  BY DEF K!CreateBatch
<1> HIDE DEF z
<1>7. K!TypeOK'
  <2>1. log' \in Seq(K!Event) /\ gone' \in SUBSET K!Event
    BY <1>1, <1>4, <1>6, SinkTypes DEF K!TypeOK, z
  <2> QED
    BY <1>1, <1>6, <2>1 DEF K!TypeOK
<1>8. Arranged(log', batch', buffer', events', Order)
  BY <1>5, <1>6 DEF z
<1>9. K!PlacesHold'
  <2>1. CASE log' = z /\ gone' = gone
    <3>1. /\ K!Elements(sent) = (K!Elements(z) \ direct) \union K!Elements(<<>>)
                              \union K!Elements(buffer) \union K!Elements(events) \union gone
          /\ gone \intersect (K!Elements(z) \union K!Elements(<<>>) \union K!Elements(buffer)
                              \union K!Elements(events)) = {}
      BY <1>1, <1>2, <1>4 DEF z
    <3> QED
      BY <1>6, <2>1, <3>1, ElementsNext DEF K!PlacesHold
  <2>2. CASE log' = log /\ gone' = gone \union K!Elements(batch)
    <3>1. /\ K!Elements(sent) = (K!Elements(log) \ direct) \union K!Elements(<<>>)
                              \union K!Elements(buffer) \union K!Elements(events) \union gone'
          /\ gone' \intersect (K!Elements(log) \union K!Elements(<<>>) \union K!Elements(buffer)
                              \union K!Elements(events)) = {}
      BY <1>1, <1>3, <2>2
    <3> QED
      BY <1>6, <2>2, <3>1, ElementsNext DEF K!PlacesHold
  <2> QED
    BY <1>6, <2>1, <2>2
<1>10. K!ClosesInOrder'
  <2>1. K!Elements(log') \union gone' = K!Elements(log) \union K!Elements(batch) \union gone
    BY <1>4, <1>6 DEF z
  <2>2. sink' = "done" => \A i \in 1..atClose : sent[i] \in K!Elements(log') \union K!Elements(batch') \union gone'
    BY <1>1, <1>6, <2>1
  <2> QED
    BY <1>1, <1>6, <2>2, ElementsNext DEF K!ClosesInOrder
<1> QED
  BY <1>6, <1>7, <1>8, <1>9, <1>10, RunStep

\* Event e is in the hands of handler p and of nobody else.
Mine(p, e) ==
    /\ e \in K!Event /\ e \notin K!Elements(sent) \union direct
    /\ \A q \in Producers : q # p /\ K!Busy(q) => prod[q].ev # e

\* What a step of handler p does with its event e and the places.
Keeps(p, e) == K!Busy(p)' => prod'[p].ev = e
Rests(p, e) == Keeps(p, e) /\ UNCHANGED <<events, sent, log, gone, direct>>
Sends(p, e) == ~K!Busy(p)' /\ K!Room /\ K!Enqueue(e) /\ UNCHANGED <<log, gone, direct>>
Evicts(p, e) ==
    /\ Keeps(p, e) /\ events # <<>>
    /\ events' = Tail(events) /\ gone' = gone \union {Head(events)}
    /\ UNCHANGED <<sent, log, direct>>
Stores(p, e) ==
    /\ ~K!Busy(p)' /\ log' = Append(log, e) /\ direct' = direct \union {e}
    /\ UNCHANGED <<events, sent, gone>>
Handles(p, e) ==
    /\ Mine(p, e)
    /\ drawn' \in 0..MaxEvents /\ drawn <= drawn' /\ e <= drawn'
    /\ prod' \in [Producers -> [pc: {"idle", "blocked", "evict", "resend", "sync"}, ev: 0..MaxEvents]]
    /\ \A q \in Producers : q # p => prod'[q] = prod[q]
    /\ UNCHANGED <<policy, buffer, batch, sink, cancelled, atClose>>
    /\ Rests(p, e) \/ Sends(p, e) \/ Evicts(p, e) \/ Stores(p, e)

\* Every action of a handler is such a step.
LEMMA HandlerSteps ==
    ASSUME K!SinkInv, NEW p \in Producers, K!Write(p)
    PROVE  \E e \in K!Event : Handles(p, e)
<1>0. K!TypeOK /\ K!EventsApart
  BY DEF K!SinkInv
<1> DEFINE Proc == [pc: {"idle", "blocked", "evict", "resend", "sync"}, ev: 0..MaxEvents]
<1>1. /\ MaxEvents \in Nat /\ drawn \in 0..MaxEvents /\ prod \in [Producers -> Proc] /\ prod[p] \in Proc
      /\ policy \in K!Policies
  BY <1>0, SinkAssumption DEF K!TypeOK, K!SinkAssumption
<1>2. K!Idle \in Proc /\ K!Idle.pc = "idle"
  BY <1>1 DEF K!Idle
<1>3. ASSUME K!Busy(p)
      PROVE  /\ Mine(p, prod[p].ev) /\ prod[p].ev \in K!Event /\ prod[p].ev <= drawn
  <2> DEFINE e == prod[p].ev
  <2>1. /\ e \in 1..drawn /\ e \notin K!Elements(sent) \union direct
        /\ \A q \in Producers : K!Busy(q) /\ prod[q].ev = e => q = p
    BY <1>0, <1>3 DEF K!EventsApart
  <2> HIDE DEF e
  <2>2. e \in K!Event /\ e <= drawn
    BY <1>1, <2>1 DEF K!Event
  <2>3. Mine(p, e)
    BY <2>1, <2>2, Zenon DEF Mine
  <2> QED
    BY <2>2, <2>3 DEF e
<1>4. ASSUME drawn < MaxEvents
      PROVE  Mine(p, drawn + 1) /\ drawn + 1 \in K!Event /\ drawn + 1 \in 0..MaxEvents
  <2>1. drawn + 1 \in K!Event /\ drawn + 1 \in 0..MaxEvents
    BY <1>1, <1>4 DEF K!Event
  <2>2. drawn + 1 \notin K!Elements(sent) \union direct
    <3>1. \A e \in K!Elements(sent) \union direct : e <= drawn
      BY <1>0 DEF K!EventsApart
    <3> QED
      BY <1>1, <3>1
  <2>3. ASSUME NEW q \in Producers, K!Busy(q) PROVE prod[q].ev # drawn + 1
    <3>1. prod[q].ev \in 1..drawn
      BY <1>0, <2>3 DEF K!EventsApart
    <3> QED
      BY <1>1, <3>1
  <2> QED
    BY <2>1, <2>2, <2>3 DEF Mine
<1>5. CASE K!WriteEvent(p)
  <2>1. drawn < MaxEvents /\ drawn' = drawn + 1 /\ prod[p].pc = "idle"
    BY <1>5 DEF K!WriteEvent
  <2> DEFINE e == drawn + 1
  <2>2. drawn <= drawn' /\ e <= drawn' /\ drawn' \in 0..MaxEvents
    BY <1>1, <2>1
  <2>3. CASE K!Room /\ K!Enqueue(e) /\ prod' = prod
    <3>1. Sends(p, e)
      BY <1>5, <2>1, <2>3 DEF Sends, K!Busy, K!WriteEvent
    <3> QED
      BY <1>1, <1>4, <1>5, <2>1, <2>2, <2>3, <3>1 DEF Handles, K!WriteEvent, K!runVars
  <2>4. CASE /\ prod' = [prod EXCEPT ![p] = IF K!FullBranch[policy] = "idle" THEN K!Idle
                                            ELSE [pc |-> K!FullBranch[policy], ev |-> e]]
             /\ UNCHANGED <<events, sent>>
    <3> DEFINE r == IF K!FullBranch[policy] = "idle" THEN K!Idle ELSE [pc |-> K!FullBranch[policy], ev |-> e]
    <3>1. K!FullBranch[policy] \in {"blocked", "idle", "evict", "sync"}
      BY <1>1 DEF K!FullBranch, K!Policies
    <3>2. r \in Proc /\ (r.pc # "idle" => r.ev = e)
      BY <1>1, <1>2, <2>1, <3>1
    <3> HIDE DEF r
    <3>3. prod' = [prod EXCEPT ![p] = r]
      BY <2>4 DEF r
    <3>4. /\ prod' \in [Producers -> Proc] /\ prod'[p] = r
          /\ \A q \in Producers : q # p => prod'[q] = prod[q]
      BY <1>1, <3>2, <3>3
    <3>5. Rests(p, e)
      BY <1>5, <2>4, <3>2, <3>4 DEF Rests, Keeps, K!Busy, K!WriteEvent
    <3> QED
      BY <1>4, <1>5, <2>1, <2>2, <3>4, <3>5 DEF Handles, K!WriteEvent, K!runVars
  <2> QED
    BY <1>5, <2>3, <2>4 DEF K!WriteEvent
<1> DEFINE e == prod[p].ev
<1>6. ASSUME prod' = [prod EXCEPT ![p] = K!Idle]
      PROVE  /\ prod' \in [Producers -> Proc] /\ ~K!Busy(p)'
             /\ \A q \in Producers : q # p => prod'[q] = prod[q]
  <2>1. prod'[p] = K!Idle
    BY <1>1, <1>6
  <2> QED
    BY <1>1, <1>2, <1>6, <2>1 DEF K!Busy
<1>7. ASSUME K!Busy(p), drawn' = drawn, prod' \in [Producers -> Proc],
             \A q \in Producers : q # p => prod'[q] = prod[q],
             UNCHANGED <<policy, buffer, batch, sink, cancelled, atClose>>,
             Rests(p, e) \/ Sends(p, e) \/ Evicts(p, e) \/ Stores(p, e)
      PROVE  \E x \in K!Event : Handles(p, x)
  <2>1. drawn' \in 0..MaxEvents /\ drawn <= drawn' /\ e <= drawn'
    BY <1>1, <1>3, <1>7
  <2> QED
    BY <1>3, <1>7, <2>1 DEF Handles
<1>8. CASE K!BlockedSend(p)
  <2>1. K!Busy(p)
    BY <1>8 DEF K!BlockedSend, K!Busy
  <2>2. Sends(p, e)
    BY <1>6, <1>8 DEF K!BlockedSend, Sends
  <2> QED
    BY <1>6, <1>7, <1>8, <2>1, <2>2 DEF K!BlockedSend, K!runVars
<1>9. CASE K!BlockedCancel(p)
  <2>1. K!Busy(p)
    BY <1>9 DEF K!BlockedCancel, K!Busy
  <2>2. Rests(p, e)
    BY <1>6, <1>9 DEF K!BlockedCancel, Rests, Keeps
  <2> QED
    BY <1>6, <1>7, <1>9, <2>1, <2>2 DEF K!BlockedCancel, K!runVars
<1>10. CASE K!Evict(p)
  <2>1. K!Busy(p)
    BY <1>10 DEF K!Evict, K!Busy
  <2>2. prod' = [prod EXCEPT ![p].pc = "resend"]
    BY <1>10 DEF K!Evict
  <2>3. /\ prod' \in [Producers -> Proc] /\ prod'[p].ev = e
        /\ \A q \in Producers : q # p => prod'[q] = prod[q]
    BY <1>1, <2>2
  <2>4. Rests(p, e) \/ Evicts(p, e)
    BY <1>10, <2>3 DEF K!Evict, Rests, Evicts, Keeps
  <2> QED
    BY <1>7, <1>10, <2>1, <2>3, <2>4 DEF K!Evict, K!runVars
<1>11. CASE K!Resend(p)
  <2>1. K!Busy(p)
    BY <1>11 DEF K!Resend, K!Busy
  <2>2. Sends(p, e) \/ Rests(p, e)
    BY <1>6, <1>11 DEF K!Resend, Sends, Rests, Keeps
  <2> QED
    BY <1>6, <1>7, <1>11, <2>1, <2>2 DEF K!Resend, K!runVars
<1>12. CASE K!SyncCreate(p)
  <2>1. K!Busy(p)
    BY <1>12 DEF K!SyncCreate, K!Busy
  <2>2. Stores(p, e) \/ Rests(p, e)
    BY <1>6, <1>12 DEF K!SyncCreate, Stores, Rests, Keeps
  <2> QED
    BY <1>6, <1>7, <1>12, <2>1, <2>2 DEF K!SyncCreate, K!runVars
<1> QED
  BY <1>5, <1>8, <1>9, <1>10, <1>11, <1>12 DEF K!Write

\* The event sent is last of those sent.
LEMMA SentGrows ==
    ASSUME K!TypeOK, NEW e \in K!Event, sent' = Append(sent, e)
    PROVE  /\ sent' \in Seq(K!Event) /\ Len(sent') = Len(sent) + 1 /\ Len(sent) \in Nat
           /\ sent'[Len(sent) + 1] = e
           /\ \A i \in 1..Len(sent) : sent'[i] = sent[i] /\ i \in 1..Len(sent')
           /\ K!Elements(sent') = K!Elements(sent) \union {e}
<1>1. sent \in Seq(K!Event) /\ Len(sent) \in Nat
  BY SinkTypes
<1>2. /\ sent' \in Seq(K!Event) /\ K!Elements(sent') = K!Elements(sent) \union {e}
  BY <1>1, ElementsOf
<1> DEFINE n == Len(sent)
           t == Append(sent, e)
<1>3. Len(t) = n + 1 /\ t[n + 1] = e /\ \A i \in 1..n : t[i] = sent[i]
  BY <1>1, AppendProperties
<1> HIDE DEF t, n
<1>4. sent' = t /\ n \in Nat
  BY <1>1 DEF t, n
<1>5. Len(sent') = n + 1 /\ sent'[n + 1] = e /\ \A i \in 1..n : sent'[i] = sent[i] /\ i \in 1..Len(sent')
  BY <1>3, <1>4
<1> QED
  BY <1>1, <1>2, <1>5 DEF n

\* A handler's step leaves every event in one hand.
LEMMA ApartNext ==
    ASSUME K!SinkInv, NEW p \in Producers, NEW e \in K!Event, Handles(p, e)
    PROVE  K!EventsApart'
<1>0. K!TypeOK /\ K!EventsApart
  BY DEF K!SinkInv
<1>1. /\ e \notin K!Elements(sent) \union direct
      /\ drawn \in Nat /\ drawn' \in Nat /\ drawn <= drawn' /\ e <= drawn' /\ e \in Nat /\ 1 <= e
      /\ \A x \in K!Event : x \in Nat
      /\ K!Elements(sent) \subseteq K!Event /\ direct \subseteq K!Event
  BY <1>0, SinkTypes, SinkAssumption DEF Handles, Mine, K!Event, K!TypeOK, K!SinkAssumption
<1>2. \/ sent' = sent /\ direct' = direct /\ Keeps(p, e)
      \/ sent' = Append(sent, e) /\ direct' = direct /\ ~K!Busy(p)'
      \/ sent' = sent /\ direct' = direct \union {e} /\ ~K!Busy(p)'
  BY DEF Handles, Rests, Sends, Evicts, Stores, K!Enqueue
<1>3. /\ \/ K!Elements(sent') \union direct' = K!Elements(sent) \union direct /\ Keeps(p, e)
         \/ K!Elements(sent') \union direct' = K!Elements(sent) \union direct \union {e} /\ ~K!Busy(p)'
      /\ K!Elements(sent') \intersect direct' = {}
  <2>1. K!Elements(sent) \intersect direct = {}
    BY <1>0 DEF K!EventsApart
  <2>2. sent' = Append(sent, e) => K!Elements(sent') = K!Elements(sent) \union {e}
    BY <1>0, SentGrows
  <2> QED
    BY <1>1, <1>2, <2>1, <2>2
<1>4. \A x \in K!Elements(sent') \union direct' : x <= drawn'
  <2>1. \A x \in K!Elements(sent) \union direct : x <= drawn /\ x \in Nat
    BY <1>0, <1>1 DEF K!EventsApart
  <2> QED
    BY <1>1, <1>3, <2>1
<1>5. \A i, j \in 1..Len(sent') : sent'[i] = sent'[j] => i = j
  <2>1. \A i, j \in 1..Len(sent) : sent[i] = sent[j] => i = j
    BY <1>0 DEF K!EventsApart
  <2>2. CASE sent' = sent
    BY <2>1, <2>2
  <2>3. CASE sent' = Append(sent, e)
    <3> DEFINE n == Len(sent)
    <3>1. /\ Len(sent') = n + 1 /\ n \in Nat /\ sent'[n + 1] = e
          /\ \A i \in 1..n : sent'[i] = sent[i]
      BY <1>0, <2>3, SentGrows
    <3>2. \A i \in 1..n : sent[i] # e
      <4>1. \A i \in 1..n : sent[i] \in K!Elements(sent)
        BY DEF K!Elements
      <4> QED
        BY <1>1, <4>1
    <3> HIDE DEF n
    <3>3. \A i \in 1..n + 1 : i = n + 1 \/ i \in 1..n
      BY <3>1
    <3> QED
      BY <2>1, <3>1, <3>2, <3>3 DEF n
  <2> QED
    BY <1>2, <2>2, <2>3
<1>6. ASSUME NEW q \in Producers, K!Busy(q)'
      PROVE  /\ prod'[q].ev \in 1..drawn' /\ prod'[q].ev \notin K!Elements(sent') \union direct'
             /\ \A r \in Producers : K!Busy(r)' /\ prod'[r].ev = prod'[q].ev => r = q
  <2>0. \A r \in Producers : r # p => /\ prod'[r] = prod[r] /\ (K!Busy(r)' => K!Busy(r))
                                      /\ (K!Busy(r) => prod[r].ev # e)
    BY DEF Handles, Mine, K!Busy
  <2>1. CASE q = p
    <3>1. prod'[p].ev = e /\ K!Elements(sent') \union direct' = K!Elements(sent) \union direct
      BY <1>3, <1>6, <2>1 DEF Keeps
    <3>2. e \in 1..drawn'
      BY <1>1
    <3>3. \A r \in Producers : K!Busy(r)' /\ prod'[r].ev = e => r = p
      BY <2>0
    <3> QED
      BY <1>1, <2>1, <3>1, <3>2, <3>3
  <2>2. CASE q # p
    <3>1. prod'[q] = prod[q] /\ K!Busy(q) /\ prod[q].ev # e
      BY <1>6, <2>0, <2>2
    <3>2. /\ prod[q].ev \in 1..drawn /\ prod[q].ev \notin K!Elements(sent) \union direct
          /\ \A r \in Producers : K!Busy(r) /\ prod[r].ev = prod[q].ev => r = q
      BY <1>0, <3>1 DEF K!EventsApart
    <3>3. prod[q].ev \in 1..drawn'
      BY <1>1, <3>2
    <3>4. prod[q].ev \notin K!Elements(sent') \union direct'
      BY <1>3, <3>1, <3>2
    <3>5. ASSUME NEW r \in Producers, K!Busy(r)', prod'[r].ev = prod'[q].ev PROVE r = q
      <4>1. r # p
        BY <1>3, <3>1, <3>5 DEF Keeps
      <4> QED
        BY <2>0, <3>1, <3>2, <3>5, <4>1
    <3> QED
      BY <3>1, <3>3, <3>4, <3>5
  <2> QED
    BY <2>1, <2>2
<1>7. K!Elements(sent)' = K!Elements(sent')
  BY ElementsNext
<1> QED
  BY <1>3, <1>4, <1>5, <1>6, <1>7 DEF K!EventsApart, K!Busy

\* A handler's step keeps the rest of the invariant.
LEMMA HandlerStep ==
    ASSUME K!SinkInv, NEW p \in Producers, NEW e \in K!Event, Handles(p, e),
           events' \in Seq(K!Event), Len(events') <= Cap, log' \in Seq(K!Event),
           sent' = sent \/ sent' = Append(sent, e),
           gone' \in SUBSET K!Event, direct \subseteq direct', direct' \in SUBSET K!Event,
           K!Elements(log) \union gone \subseteq K!Elements(log') \union gone',
           Arranged(log', batch, buffer, events', Order'),
           K!Elements(sent') = (K!Elements(log') \ direct') \union K!Elements(batch)
                              \union K!Elements(buffer) \union K!Elements(events') \union gone',
           gone' \intersect (K!Elements(log') \union K!Elements(batch) \union K!Elements(buffer)
                              \union K!Elements(events')) = {}
    PROVE  K!SinkInv'
<1>0. K!TypeOK /\ UNCHANGED <<policy, buffer, batch, sink, cancelled, atClose>>
  BY DEF K!SinkInv, Handles
<1>1. sent' \in Seq(K!Event)
  BY <1>0, SinkTypes, SentGrows
<1>2. K!TypeOK'
  <2>1. K!Event' = K!Event
    BY DEF K!Event
  <2> QED
    BY <1>0, <1>1, <2>1 DEF K!TypeOK, Handles
<1>3. K!EventsApart'
  BY ApartNext
<1>4. K!PlacesInOrder'
  BY <1>0, ArrangedNext
<1>5. K!PlacesHold'
  BY <1>0, ElementsNext DEF K!PlacesHold
<1>6. K!ClosesInOrder'
  <2>1. /\ atClose \in Nat /\ atClose <= Len(sent) /\ Len(sent) \in Nat
        /\ sink \in {"drain", "lastWrite", "done"} => cancelled
        /\ sink \in {"select", "drain", "done"} => batch = <<>>
        /\ sink \in {"lastWrite", "done"} => \A i \in 1..atClose :
             sent[i] \in K!Elements(log) \union K!Elements(batch) \union gone
    BY SinkFacts
  <2>2. atClose <= Len(sent') /\ \A i \in 1..atClose : sent'[i] = sent[i]
    <3>1. CASE sent' = sent
      BY <2>1, <3>1
    <3>2. CASE sent' = Append(sent, e)
      <4> DEFINE n == Len(sent)
      <4>1. Len(sent') = n + 1 /\ \A i \in 1..n : sent'[i] = sent[i]
        BY <1>0, <3>2, SentGrows
      <4> HIDE DEF n
      <4>2. n \in Nat /\ atClose <= n /\ atClose \in Nat
        BY <2>1 DEF n
      <4> QED
        BY <4>1, <4>2
    <3> QED
      BY <3>1, <3>2
  <2>3. sink \in {"lastWrite", "done"} => \A i \in 1..atClose :
             sent'[i] \in K!Elements(log') \union K!Elements(batch) \union gone'
    BY <2>1, <2>2
  <2> QED
    BY <1>0, <2>1, <2>2, <2>3, ElementsNext DEF K!ClosesInOrder
<1> QED
  BY <1>2, <1>3, <1>4, <1>5, <1>6 DEF K!SinkInv

\* A handler's event may follow every event that is in one of the places,
\* and when it is written directly be followed by every one as well.
LEMMA NewFollows ==
    ASSUME K!SinkInv, NEW p \in Producers, NEW e \in K!Event, Handles(p, e),
           Sends(p, e) \/ Stores(p, e)
    PROVE  LET All == K!Elements(log) \union K!Elements(batch) \union K!Elements(buffer)
                        \union K!Elements(events)
           IN  /\ Order \subseteq Order'
               /\ Across(All, {e}, Order')
               /\ Stores(p, e) => Across({e}, All, Order')
<1> DEFINE All == K!Elements(log) \union K!Elements(batch) \union K!Elements(buffer)
                    \union K!Elements(events)
<1>0. K!TypeOK /\ e \notin K!Elements(sent) \union direct
  BY DEF K!SinkInv, Handles, Mine
<1>1. /\ direct' = direct \/ direct' = direct \union {e}
      /\ sent' = sent \/ sent' = Append(sent, e)
  BY DEF Sends, Stores, K!Enqueue
<1>2. Order \subseteq Order'
  BY <1>0, <1>1, OrderGrows
<1>3. All \subseteq K!Elements(sent) \union direct /\ All \subseteq K!Event
  BY <1>0, SinkFacts, SinkTypes
<1> HIDE DEF All
<1>4. \A x, y \in K!Event : <<x, y>> \in Order' <=>
         /\ x # y
         /\ \/ x \in direct' \/ y \in direct'
            \/ \E a, b \in 1..Len(sent') : a < b /\ sent'[a] = x /\ sent'[b] = y
  BY DEF Order, K!Follows, K!Event
<1>5. ASSUME NEW f \in All
      PROVE  <<f, e>> \in Order' /\ (Stores(p, e) => <<e, f>> \in Order')
  <2>1. f \in K!Event /\ f # e /\ (f \in direct \/ f \in K!Elements(sent))
    BY <1>0, <1>3
  <2>2. CASE Stores(p, e)
    <3>1. e \in direct'
      BY <2>2 DEF Stores
    <3> QED
      BY <1>4, <2>1, <3>1
  <2>3. CASE Sends(p, e) /\ f \in direct
    <3>1. f \in direct' /\ (Stores(p, e) => e \in direct')
      BY <2>3 DEF Sends, Stores
    <3> QED
      BY <1>4, <2>1, <3>1
  <2>4. CASE Sends(p, e) /\ ~Stores(p, e) /\ f \in K!Elements(sent)
    <3> DEFINE n == Len(sent)
    <3>1. PICK a \in 1..n : sent[a] = f
      BY <2>4 DEF K!Elements
    <3>2. sent' = Append(sent, e)
      BY <2>4 DEF Sends, K!Enqueue
    <3>3. Len(sent') = n + 1 /\ n \in Nat /\ sent'[n + 1] = e /\ \A i \in 1..n : sent'[i] = sent[i]
      BY <1>0, <3>2, SentGrows
    <3> HIDE DEF n
    <3>4. a \in 1..n + 1 /\ n + 1 \in 1..n + 1 /\ a < n + 1 /\ sent'[a] = f
      BY <3>1, <3>3
    <3>5. \E c, d \in 1..Len(sent') : c < d /\ sent'[c] = f /\ sent'[d] = e
      BY <3>3, <3>4
    <3> QED
      BY <1>4, <2>1, <2>4, <3>5
  <2> QED
    BY <2>1, <2>2, <2>3, <2>4
<1>6. Across(All, {e}, Order') /\ (Stores(p, e) => Across({e}, All, Order'))
  BY <1>5 DEF Across
<1> QED
  BY <1>2, <1>6 DEF All

\* A step of a handler keeps the invariant.
LEMMA WriteKeeps == ASSUME K!SinkInv, NEW p \in Producers, K!Write(p) PROVE K!SinkInv'
<1>1. PICK e \in K!Event : Handles(p, e)
  BY HandlerSteps
<1>2. /\ K!TypeOK /\ Arranged(log, batch, buffer, events, Order)
      /\ buffer \in Seq(K!Event) /\ batch \in Seq(K!Event)
      /\ log \in Seq(K!Event) /\ events \in Seq(K!Event)
      /\ K!Elements(sent) = (K!Elements(log) \ direct) \union K!Elements(batch)
                              \union K!Elements(buffer) \union K!Elements(events) \union gone
      /\ gone \intersect (K!Elements(log) \union K!Elements(batch) \union K!Elements(buffer)
                              \union K!Elements(events)) = {}
  BY SinkFacts
<1>3. /\ gone \in SUBSET K!Event /\ direct \in SUBSET K!Event /\ Len(events) <= Cap
      /\ e \notin K!Elements(sent) \union direct
  BY <1>1, <1>2 DEF K!TypeOK, Handles, Mine
<1>4. CASE Rests(p, e)
  <2>1. UNCHANGED <<events, sent, log, gone, direct>>
    BY <1>4 DEF Rests
  <2>2. Order \subseteq Order'
    BY <1>2, <2>1, OrderGrows
  <2>3. Arranged(log', batch, buffer, events', Order')
    BY <1>2, <2>1, <2>2, ArrangedMore
  <2> QED
    BY <1>1, <1>2, <1>3, <2>1, <2>3, HandlerStep
<1>5. CASE Evicts(p, e)
  <2>0. events # <<>>
    BY <1>5 DEF Evicts
  <2> DEFINE h == Head(events)
             t == Tail(events)
  <2>1. events' = t /\ gone' = gone \union {h} /\ UNCHANGED <<sent, log, direct>>
    BY <1>5 DEF Evicts
  <2>2. /\ t \in Seq(K!Event) /\ h \in K!Event /\ Len(t) <= Cap
        /\ K!Elements(events) = {h} \union K!Elements(t)
        /\ Arranged(log, batch, buffer, t, Order)
    BY <2>0, TakenIs
  <2>3. h \notin K!Elements(t)
    <3>1. Sorted(events, Order)
      BY <1>2 DEF Arranged
    <3>2. Across({h}, K!Elements(t), Order)
      BY <1>2, <2>0, <3>1, SortedTail
    <3>3. <<h, h>> \notin Order
      BY DEF Order, K!Follows
    <3> QED
      BY <3>2, <3>3 DEF Across
  <2>4. h \notin K!Elements(log) \union K!Elements(batch) \union K!Elements(buffer)
    BY <1>2, <2>2, PlacesApart
  <2> HIDE DEF h, t
  <2>5. Order \subseteq Order'
    BY <1>2, <2>1, OrderGrows
  <2>6. Arranged(log', batch, buffer, events', Order')
    BY <2>1, <2>2, <2>5, ArrangedMore
  <2>7. K!Elements(sent') = (K!Elements(log') \ direct') \union K!Elements(batch)
                              \union K!Elements(buffer) \union K!Elements(events') \union gone'
    BY <1>2, <2>1, <2>2
  <2>8. gone' \intersect (K!Elements(log') \union K!Elements(batch) \union K!Elements(buffer)
                              \union K!Elements(events')) = {}
    BY <1>2, <2>1, <2>2, <2>3, <2>4
  <2>9. /\ gone' \in SUBSET K!Event
        /\ K!Elements(log) \union gone \subseteq K!Elements(log') \union gone'
    BY <1>3, <2>1, <2>2
  <2> QED
    BY <1>1, <1>2, <1>3, <2>1, <2>2, <2>6, <2>7, <2>8, <2>9, HandlerStep
<1>6. CASE Sends(p, e)
  <2> DEFINE t == Append(events, e)
  <2>1. events' = t /\ sent' = Append(sent, e) /\ UNCHANGED <<log, gone, direct>>
    BY <1>6 DEF Sends, K!Enqueue
  <2>2. t \in Seq(K!Event) /\ K!Elements(t) = K!Elements(events) \union {e}
    BY <1>2, ElementsOf
  <2>3. Len(t) <= Cap
    <3> DEFINE n == Len(events)
               m == Len(t)
    <3>1. m = n + 1 /\ n \in Nat /\ n < Cap /\ Cap \in Nat
      BY <1>2, <1>6, AppendProperties, LenProperties, SinkAssumption
      DEF Sends, K!Room, K!SinkAssumption
    <3> HIDE DEF n, m
    <3>2. m <= Cap
      BY <3>1
    <3> QED
      BY <3>2 DEF m
  <2>4. K!Elements(sent') = K!Elements(sent) \union {e}
    BY <1>2, <2>1, SentGrows
  <2>5. /\ Order \subseteq Order'
        /\ Across(K!Elements(log) \union K!Elements(batch) \union K!Elements(buffer)
                        \union K!Elements(events), {e}, Order')
    BY <1>1, <1>6, NewFollows
  <2>6. Arranged(log, batch, buffer, t, Order')
    <3>1. Arranged(log, batch, buffer, events, Order')
      BY <1>2, <2>5, ArrangedMore
    <3> QED
      BY <1>2, <2>5, <3>1, PlacesGrow
  <2> HIDE DEF t
  <2>7. Arranged(log', batch, buffer, events', Order')
    BY <2>1, <2>6
  <2>8. K!Elements(sent') = (K!Elements(log') \ direct') \union K!Elements(batch)
                              \union K!Elements(buffer) \union K!Elements(events') \union gone'
    BY <1>2, <2>1, <2>2, <2>4
  <2>9. gone' \intersect (K!Elements(log') \union K!Elements(batch) \union K!Elements(buffer)
                              \union K!Elements(events')) = {}
    BY <1>2, <1>3, <2>1, <2>2
  <2> QED
    BY <1>1, <1>2, <1>3, <2>1, <2>2, <2>3, <2>7, <2>8, <2>9, HandlerStep
<1>7. CASE Stores(p, e)
  <2> DEFINE t == Append(log, e)
  <2>1. log' = t /\ direct' = direct \union {e} /\ UNCHANGED <<events, sent, gone>>
    BY <1>7 DEF Stores
  <2>2. t \in Seq(K!Event) /\ K!Elements(t) = K!Elements(log) \union {e}
    BY <1>2, ElementsOf
  <2>3. /\ Order \subseteq Order'
        /\ Across(K!Elements(log) \union K!Elements(batch) \union K!Elements(buffer)
                        \union K!Elements(events), {e}, Order')
        /\ Across({e}, K!Elements(log) \union K!Elements(batch) \union K!Elements(buffer)
                        \union K!Elements(events), Order')
    BY <1>1, <1>7, NewFollows
  <2>4. /\ Across(K!Elements(log), {e}, Order')
        /\ Across({e}, K!Elements(batch) \union K!Elements(buffer) \union K!Elements(events), Order')
    BY <2>3 DEF Across
  <2>5. Arranged(t, batch, buffer, events, Order')
    <3>1. Arranged(log, batch, buffer, events, Order')
      BY <1>2, <2>3, ArrangedMore
    <3> QED
      BY <1>2, <2>4, <3>1, PlacesGrow
  <2> HIDE DEF t
  <2>6. Arranged(log', batch, buffer, events', Order')
    BY <2>1, <2>5
  <2>7. K!Elements(sent') = (K!Elements(log') \ direct') \union K!Elements(batch)
                              \union K!Elements(buffer) \union K!Elements(events') \union gone'
    BY <1>2, <1>3, <2>1, <2>2
  <2>8. gone' \intersect (K!Elements(log') \union K!Elements(batch) \union K!Elements(buffer)
                              \union K!Elements(events')) = {}
    BY <1>2, <1>3, <2>1, <2>2
  <2>9. direct' \in SUBSET K!Event /\ direct \subseteq direct' /\ gone' \in SUBSET K!Event
        /\ K!Elements(log) \union gone \subseteq K!Elements(log') \union gone'
    BY <1>3, <2>1, <2>2
  <2> QED
    BY <1>1, <1>2, <1>3, <2>1, <2>2, <2>6, <2>7, <2>8, <2>9, HandlerStep
<1> QED
  BY <1>1, <1>4, <1>5, <1>6, <1>7 DEF Handles

\* Init.
LEMMA SinkStarts == ASSUME K!Init PROVE K!SinkInv
<1>1. <<>> \in Seq(K!Event) /\ Len(<<>>) = 0
  BY EmptySeq
<1>2. K!Elements(<<>>) = {}
  BY <1>1, ElementsOf
<1>3. MaxEvents \in Nat /\ Cap \in Nat \ {0}
  BY SinkAssumption DEF K!SinkAssumption
<1>4. K!TypeOK
  <2>1. prod \in [Producers -> [pc: {"idle", "blocked", "evict", "resend", "sync"}, ev: 0..MaxEvents]]
    BY <1>3 DEF K!Init, K!Idle
  <2>2. 0 \in 0..MaxEvents /\ 0 <= Cap
    BY <1>3
  <2> QED
    BY <1>1, <2>1, <2>2 DEF K!Init, K!TypeOK
<1>5. K!EventsApart
  BY <1>1, <1>2 DEF K!Init, K!EventsApart, K!Busy, K!Idle
<1>6. K!PlacesInOrder
  BY <1>1, <1>2 DEF K!Init, K!PlacesInOrder, K!InOrder, K!AllFollow
<1>7. K!PlacesHold
  BY <1>2 DEF K!Init, K!PlacesHold
<1>8. K!ClosesInOrder
  BY <1>1 DEF K!Init, K!ClosesInOrder
<1> QED
  BY <1>4, <1>5, <1>6, <1>7, <1>8 DEF K!SinkInv

\* What the invariant says of the sink.
LEMMA SinkSays == ASSUME K!SinkInv PROVE SinkKeepsEvents
<1>1. /\ Arranged(log, batch, buffer, events, Order)
      /\ buffer \in Seq(K!Event) /\ batch \in Seq(K!Event)
      /\ log \in Seq(K!Event) /\ events \in Seq(K!Event)
      /\ K!Elements(sent) = (K!Elements(log) \ direct) \union K!Elements(batch)
                              \union K!Elements(buffer) \union K!Elements(events) \union gone
      /\ gone \intersect (K!Elements(log) \union K!Elements(batch) \union K!Elements(buffer)
                              \union K!Elements(events)) = {}
      /\ K!Elements(<<>>) = {}
      /\ sink \in {"select", "drain", "done"} => batch = <<>>
      /\ sink \in {"lastWrite", "done"} => \A i \in 1..atClose :
           sent[i] \in K!Elements(log) \union K!Elements(batch) \union gone
  BY SinkFacts
<1> DEFINE lb == log \o batch
           lbu == lb \o buffer
           kept == lbu \o events
<1>2. lb \in Seq(K!Event) /\ K!Elements(lb) = K!Elements(log) \union K!Elements(batch)
  BY <1>1, ElementsJoin
<1>3. Sorted(lb, Order)
  <2>1. Across(K!Elements(log), K!Elements(batch), Order) /\ Sorted(log, Order) /\ Sorted(batch, Order)
    BY <1>1 DEF Arranged, Across
  <2> QED
    BY <1>1, <2>1, SortedJoin
<1> HIDE DEF lb
<1>4. lbu \in Seq(K!Event) /\ K!Elements(lbu) = K!Elements(lb) \union K!Elements(buffer)
  BY <1>1, <1>2, ElementsJoin
<1>5. Sorted(lbu, Order)
  <2>1. Across(K!Elements(lb), K!Elements(buffer), Order) /\ Sorted(buffer, Order)
    BY <1>1, <1>2 DEF Arranged, Across
  <2> QED
    BY <1>1, <1>2, <1>3, <2>1, SortedJoin
<1> HIDE DEF lbu
<1>6. kept \in Seq(K!Event) /\ K!Elements(kept) = K!Elements(lbu) \union K!Elements(events)
  BY <1>1, <1>4, ElementsJoin
<1>7. Sorted(kept, Order)
  <2>1. Across(K!Elements(lbu), K!Elements(events), Order) /\ Sorted(events, Order)
    BY <1>1, <1>2, <1>4 DEF Arranged, Across
  <2> QED
    BY <1>1, <1>4, <1>5, <2>1, SortedJoin
<1> HIDE DEF kept
<1>8. K!InOrder(kept)
  BY <1>6, <1>7, OrderIs
<1>9. (K!Elements(batch) \union K!Elements(buffer) \union K!Elements(events)) \intersect direct = {}
  <2>1. K!Elements(sent) \intersect direct = {}
    BY DEF K!SinkInv, K!EventsApart
  <2> QED
    BY <1>1, <2>1
<1>10. /\ K!Elements(sent) = (K!Elements(kept) \ direct) \union gone
       /\ K!Elements(kept) \intersect gone = {}
  BY <1>1, <1>2, <1>4, <1>6, <1>9
<1>11. K!SentAccounted
  BY <1>8, <1>10 DEF K!SentAccounted, kept, lbu, lb
<1>12. K!DrainedAtClose
  BY <1>1 DEF K!DrainedAtClose
<1> QED
  BY <1>11, <1>12 DEF SinkKeepsEvents

\* SinkInv is inductive, for any handlers, any number of events, any capacity
\* of the channel and any batch size (WriteEvent, run and Close of logger.go).
THEOREM SinkInvariant == K!Spec => []K!SinkInv
<1>1. K!Init => K!SinkInv
  BY SinkStarts
<1>2. K!SinkInv /\ [K!Next]_K!vars => K!SinkInv'
  <2> SUFFICES ASSUME K!SinkInv, [K!Next]_K!vars PROVE K!SinkInv'
    OBVIOUS
  <2>1. CASE K!run
    BY <2>1, ReceiveKeeps, FlushKeeps, CreateBatchKeeps DEF K!run
  <2>2. CASE K!Close
    BY <2>2, FlushKeeps
  <2>3. ASSUME NEW p \in Producers, K!Write(p) PROVE K!SinkInv'
    BY <2>3, WriteKeeps
  <2>4. CASE UNCHANGED K!vars
    <3>1. K!TypeOK'
      BY <2>4 DEF K!vars, K!SinkInv, K!TypeOK, K!Event
    <3>2. Arranged(log', batch', buffer', events', Order)
      BY <2>4, ArrangedNow DEF K!vars
    <3>3. K!PlacesHold' /\ K!ClosesInOrder'
      BY <2>4, ElementsNext DEF K!vars, K!SinkInv, K!PlacesHold, K!ClosesInOrder
    <3> QED
      BY <2>4, <3>1, <3>2, <3>3, RunStep DEF K!vars
  <2> QED
    BY <2>1, <2>2, <2>3, <2>4 DEF K!Next, K!Finished
<1> QED
  BY <1>1, <1>2, PTL DEF K!Spec

\* Events keep the order in which they entered the channel, none is written
\* twice or forgotten, and once run has ended every event sent before Close is
\* in the store unless its batch failed or it was evicted.
THEOREM SinkLosesNothing == K!Spec => []SinkKeepsEvents
<1>1. K!SinkInv => SinkKeepsEvents
  BY SinkSays
<1> QED
  BY <1>1, SinkInvariant, PTL

=============================================================================
