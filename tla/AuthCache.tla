----------------------------- MODULE AuthCache -----------------------------
(***************************************************************************)
(* The authentication cache of the hub: per instance a map from access     *)
(* token to the user it authenticated (authCache) with an index by user    *)
(* (userTokens), and in front of it an optional Redis cache shared by the  *)
(* instances (internal/auth/service.go and cache.go).                      *)
(*                                                                         *)
(* A user record with its groups is abstracted to a version number; an     *)
(* administrative change writes a new version and invalidates.  Lifetimes  *)
(* are counted down by Tick.  A request runs on one instance; each lock    *)
(* section and each call to Redis or to the database is one action.        *)
(***************************************************************************)
EXTENDS Integers, FiniteSets, FiniteSetsExt

CONSTANTS
    Instances,   \* hub processes
    Users,
    Tokens,      \* access tokens
    Owner,       \* Owner[t] is the user token t names
    Requests,    \* request handlers in flight
    None,
    CacheTTL,    \* AUTH_CACHE_TTL, in ticks
    MaxEntries,  \* authCacheMaxEntries
    Setups,      \* installations to consider: the hubs that run, whether they
                 \* share a Redis, and the tokens clients hold
    MaxVersion   \* bound on the changes of a user

ASSUME OwnerAssumption == Owner \in [Tokens -> Users]
ASSUME BoundsAssumption ==
    CacheTTL \in Nat \ {0} /\ MaxEntries \in Nat /\ MaxVersion \in Nat
ASSUME SetupsAssumption ==
    Setups \subseteq [hubs: SUBSET Instances, redis: BOOLEAN, held: SUBSET Tokens]
ASSUME InstancesAssumption == IsFiniteSet(Instances)
ASSUME NoneAssumption ==
    None \notin Users /\ None \notin Tokens /\ None \notin Instances

VARIABLES
    setup,      \* the installation, which stays as it is
    version,    \* users and group_members tables
    life,       \* time until a token expires, CacheTTL + 1 if far off
    authCache,  \* per instance: token -> entry
    userTokens, \* per instance: user -> tokens
    redis,      \* Redis entries
    redisUser,  \* Redis set of tokens per user, with its own expiry
    req         \* program counter and local variables of each handler

vars == <<setup, version, life, authCache, userTokens, redis, redisUser, req>>

\* An entry stored by a request that read the user before an invalidation it
\* then overtook is raced (history).  ver -1 is no entry.
Entry == [ver: -1..MaxVersion, ttl: -1..CacheTTL, raced: BOOLEAN]
NoEntry == [ver |-> -1, ttl |-> -1, raced |-> FALSE]

Index == [tokens: SUBSET Tokens, ttl: 0..CacheTTL]
NoIndex == [tokens |-> {}, ttl |-> 0]

PCs == {"idle", "lookup", "drop", "read", "fill", "setRedis", "setLocal",
        "invMembers", "invDelete", "invLocal", "allRedis", "allLocal"}

Req == [pc: PCs, inst: Instances \union {None}, tok: Tokens \union {None},
        user: Users \union {None}, entry: Entry, members: SUBSET Tokens]

Idle == [pc |-> "idle", inst |-> None, tok |-> None, user |-> None,
         entry |-> NoEntry, members |-> {}]

UseRedis == setup.redis

Init ==
    /\ setup \in Setups
    /\ version = [u \in Users |-> 0]
    /\ life \in {f \in [Tokens -> 0..CacheTTL + 1] : \A t \in Tokens : f[t] > 0 <=> t \in setup.held}
    /\ authCache = [i \in Instances |-> [t \in Tokens |-> NoEntry]]
    /\ userTokens = [i \in Instances |-> [u \in Users |-> {}]]
    /\ redis = [t \in Tokens |-> NoEntry]
    /\ redisUser = [u \in Users |-> NoIndex]
    /\ req = [r \in Requests |-> Idle]

Cached(i, t) == authCache[i][t] # NoEntry

Goto(r, where) == req' = [req EXCEPT ![r].pc = where]
Return(r) == req' = [req EXCEPT ![r] = Idle]

-----------------------------------------------------------------------------
(* AuthenticateAccessToken: lookup, read, fill.                            *)

\* ParseToken refuses an expired token before the cache is looked at.
Arrive(r, i, t) ==
    /\ req[r].pc = "idle"
    /\ life[t] > 0
    /\ req' = [req EXCEPT ![r] = [Idle EXCEPT !.pc = "lookup", !.inst = i, !.tok = t,
                                              !.user = Owner[t]]]
    /\ UNCHANGED <<setup, version, life, authCache, userTokens, redis, redisUser>>

\* Mutant: a hit extends the life of the entry.
MutSlidingLife(r) ==
    /\ UseRedis
    /\ req[r].pc = "lookup"
    /\ redis[req[r].tok] # NoEntry
    /\ redis' = [redis EXCEPT ![req[r].tok].ttl = CacheTTL]
    /\ Return(r)
    /\ UNCHANGED <<setup, version, life, authCache, userTokens, redisUser>>

\* A Redis hit is served; the session row is checked elsewhere (Sessions).
LookupRedis(r) ==
    /\ UseRedis
    /\ req[r].pc = "lookup"
    /\ redis[req[r].tok] # NoEntry
    /\ Return(r)
    /\ UNCHANGED <<setup, version, life, authCache, userTokens, redis, redisUser>>

\* A Redis miss or error, or no Redis: the local map decides.
LookupLocal(r) ==
    /\ req[r].pc = "lookup"
    /\ LET e == authCache[req[r].inst][req[r].tok] IN
         \/ e # NoEntry /\ e.ttl >= 0 /\ Return(r)
         \/ e # NoEntry /\ e.ttl < 0 /\ Goto(r, "drop")
         \/ e = NoEntry /\ Goto(r, "read")
    /\ UNCHANGED <<setup, version, life, authCache, userTokens, redis, redisUser>>

\* The expired entry is deleted under a second lock, without looking at it
\* again and without touching the index.
DropExpired(r) ==
    /\ req[r].pc = "drop"
    /\ authCache' = [authCache EXCEPT ![req[r].inst][req[r].tok] = NoEntry]
    /\ Goto(r, "read")
    /\ UNCHANGED <<setup, version, life, userTokens, redis, redisUser>>

\* Mutant: entries live on past the token.
MutCacheLife(t) == CacheTTL

\* cacheExpiry of storeCachedAuthResult: CacheTTL, cut at the token's expiry.
CacheLife(t) == IF life[t] < CacheTTL THEN life[t] ELSE CacheTTL

\* The user and the groups are read.
ReadUser(r) ==
    /\ req[r].pc = "read"
    /\ req' = [req EXCEPT ![r] = [@ EXCEPT !.pc = "fill",
                                          !.entry = [NoEntry EXCEPT !.ver = version[req[r].user]]]]
    /\ UNCHANGED <<setup, version, life, authCache, userTokens, redis, redisUser>>

\* storeCachedAuthResult fixes the expiry; an expired token is not stored.
FixExpiry(r) ==
    /\ req[r].pc = "fill"
    /\ \/ /\ CacheLife(req[r].tok) > 0
          /\ req' = [req EXCEPT ![r] = [@ EXCEPT
               !.pc = IF UseRedis THEN "setRedis" ELSE "setLocal",
               !.entry.ttl = CacheLife(req[r].tok)]]
       \/ /\ CacheLife(req[r].tok) = 0
          /\ Return(r)
    /\ UNCHANGED <<setup, version, life, authCache, userTokens, redis, redisUser>>

\* RedisAuthCache.Set: entry, index member and expiry in one transaction; the
\* index takes the lifetime of this entry whatever it had before.  A lifetime
\* that ran out since FixExpiry stores an entry that Get refuses and deletes,
\* and makes Redis drop the index.  Or the call fails and is ignored.
SetRedis(r) ==
    /\ req[r].pc = "setRedis"
    /\ \/ /\ req[r].entry.ttl > 0
          /\ redis' = [redis EXCEPT ![req[r].tok] = req[r].entry]
          /\ redisUser' = [redisUser EXCEPT ![req[r].user] =
               [tokens |-> @.tokens \union {req[r].tok}, ttl |-> req[r].entry.ttl]]
       \/ /\ req[r].entry.ttl <= 0
          /\ redis' = [redis EXCEPT ![req[r].tok] = NoEntry]
          /\ redisUser' = [redisUser EXCEPT ![req[r].user] = NoIndex]
       \/ UNCHANGED <<redis, redisUser>>
    /\ Goto(r, "setLocal")
    /\ UNCHANGED <<setup, version, life, authCache, userTokens>>

\* Mutant: the index is not extended.
MutSetUnindexed(r) ==
    /\ req[r].pc = "setLocal"
    /\ authCache' = [authCache EXCEPT ![req[r].inst][req[r].tok] = req[r].entry]
    /\ Return(r)
    /\ UNCHANGED <<setup, version, life, userTokens, redis, redisUser>>

\* The local map and its index, under the write lock.
SetLocal(r) ==
    /\ req[r].pc = "setLocal"
    /\ authCache' = [authCache EXCEPT ![req[r].inst][req[r].tok] = req[r].entry]
    /\ userTokens' = [userTokens EXCEPT ![req[r].inst][req[r].user] =
                        @ \union {req[r].tok}]
    /\ Return(r)
    /\ UNCHANGED <<setup, version, life, redis, redisUser>>

-----------------------------------------------------------------------------
(* Changes of a user and their invalidation.                               *)

Invalidating(r, i, u, where) ==
    req' = [req EXCEPT ![r] = [Idle EXCEPT !.pc = where, !.inst = i, !.user = u]]

\* The write of a handler that ends in InvalidateUser.
ChangeUser(r, i, u) ==
    /\ req[r].pc = "idle"
    /\ version[u] < MaxVersion
    /\ version' = [version EXCEPT ![u] = @ + 1]
    /\ Invalidating(r, i, u, IF UseRedis THEN "invMembers" ELSE "invLocal")
    /\ UNCHANGED <<setup, life, authCache, userTokens, redis, redisUser>>

\* RedisAuthCache.InvalidateUser, SMEMBERS.
InvalidateMembers(r) ==
    /\ req[r].pc = "invMembers"
    /\ \/ req' = [req EXCEPT ![r] = [@ EXCEPT !.pc = "invDelete",
                                             !.members = redisUser[req[r].user].tokens]]
       \/ Goto(r, "invLocal")
    /\ UNCHANGED <<setup, version, life, authCache, userTokens, redis, redisUser>>

\* RedisAuthCache.InvalidateUser, deletion of what SMEMBERS returned.
InvalidateDelete(r) ==
    /\ req[r].pc = "invDelete"
    /\ \/ /\ redis' = [t \in Tokens |-> IF t \in req[r].members THEN NoEntry ELSE redis[t]]
          /\ redisUser' = [redisUser EXCEPT ![req[r].user] = NoIndex]
       \/ UNCHANGED <<redis, redisUser>>
    /\ Goto(r, "invLocal")
    /\ UNCHANGED <<setup, version, life, authCache, userTokens>>

\* History: a fill of u on instance i that is already past its read is raced.
RaceFills(r, i, us) ==
    req' = [x \in Requests |->
        IF x = r THEN Idle
        ELSE IF req[x].pc \in {"fill", "setRedis", "setLocal"} /\ req[x].inst = i /\ req[x].user \in us
        THEN [req[x] EXCEPT !.entry.raced = TRUE]
        ELSE req[x]]

\* InvalidateUser, the local map: exactly the tokens the index lists.
InvalidateLocal(r) ==
    /\ req[r].pc = "invLocal"
    /\ LET i == req[r].inst
           u == req[r].user
       IN  /\ authCache' = [authCache EXCEPT ![i] =
                [t \in Tokens |-> IF t \in userTokens[i][u] THEN NoEntry ELSE @[t]]]
           /\ userTokens' = [userTokens EXCEPT ![i][u] = {}]
           /\ RaceFills(r, i, {u})
    /\ UNCHANGED <<setup, version, life, redis, redisUser>>

\* The write of a group handler, which ends in InvalidateAll.
ChangeGroup(r, i) ==
    /\ req[r].pc = "idle"
    /\ \A u \in Users : version[u] < MaxVersion
    /\ version' = [u \in Users |-> version[u] + 1]
    /\ Invalidating(r, i, None, IF UseRedis THEN "allRedis" ELSE "allLocal")
    /\ UNCHANGED <<setup, life, authCache, userTokens, redis, redisUser>>

\* Flush deletes the entries it scans until a call fails, not the index sets.
FlushRedis(r) ==
    /\ req[r].pc = "allRedis"
    /\ \E gone \in SUBSET Tokens :
         redis' = [t \in Tokens |-> IF t \in gone THEN NoEntry ELSE redis[t]]
    /\ Goto(r, "allLocal")
    /\ UNCHANGED <<setup, version, life, authCache, userTokens, redisUser>>

InvalidateAllLocal(r) ==
    /\ req[r].pc = "allLocal"
    /\ authCache' = [authCache EXCEPT ![req[r].inst] = [t \in Tokens |-> NoEntry]]
    /\ userTokens' = [userTokens EXCEPT ![req[r].inst] = [u \in Users |-> {}]]
    /\ RaceFills(r, req[r].inst, Users)
    /\ UNCHANGED <<setup, version, life, redis, redisUser>>

-----------------------------------------------------------------------------
(* The janitor and the passage of time.                                    *)

\* The sets of excess entries sweepAuthCache may evict: the soonest to expire.
Evictions(kept, i) ==
    LET excess == Cardinality(kept) - MaxEntries IN
    IF excess <= 0 THEN {{}}
    ELSE {E \in kSubset(excess, kept) :
            \A t \in E, s \in kept \ E : authCache[i][t].ttl <= authCache[i][s].ttl}

\* sweepAuthCache: expired entries, then the excess, and their index entries.
sweepAuthCache(i) ==
    LET present == {t \in Tokens : Cached(i, t)}
        expired == {t \in present : authCache[i][t].ttl < 0}
    IN  \E E \in Evictions(present \ expired, i) :
          LET gone == expired \union E IN
          /\ gone # {}
          /\ authCache' = [authCache EXCEPT ![i] =
               [t \in Tokens |-> IF t \in gone THEN NoEntry ELSE @[t]]]
          /\ userTokens' = [userTokens EXCEPT ![i] =
               [u \in Users |-> @[u] \ gone]]
          /\ UNCHANGED <<setup, version, life, redis, redisUser, req>>

\* Redis removes a key when its lifetime ends; a local entry stays, expired.
AgeRedis(e) == IF e = NoEntry \/ e.ttl <= 1 THEN NoEntry ELSE [e EXCEPT !.ttl = @ - 1]
AgeIndex(x) == IF x.ttl <= 1 THEN NoIndex ELSE [x EXCEPT !.ttl = @ - 1]
AgeLocal(e) == IF e.ttl < 0 THEN e ELSE [e EXCEPT !.ttl = @ - 1]
AgeToken(n) == IF n = 0 \/ n = CacheTTL + 1 THEN n ELSE n - 1

Tick ==
    /\ life' = [t \in Tokens |-> AgeToken(life[t])]
    /\ authCache' = [i \in Instances |-> [t \in Tokens |-> AgeLocal(authCache[i][t])]]
    /\ redis' = [t \in Tokens |-> AgeRedis(redis[t])]
    /\ redisUser' = [u \in Users |-> AgeIndex(redisUser[u])]
    /\ req' = [r \in Requests |-> [req[r] EXCEPT !.entry = AgeLocal(@)]]
    /\ UNCHANGED <<setup, version, userTokens>>

Step(r) ==
    \/ LookupRedis(r) \/ LookupLocal(r) \/ DropExpired(r) \/ ReadUser(r) \/ FixExpiry(r)
    \/ SetRedis(r) \/ SetLocal(r)
    \/ InvalidateMembers(r) \/ InvalidateDelete(r) \/ InvalidateLocal(r)
    \/ FlushRedis(r) \/ InvalidateAllLocal(r)

Next ==
    \/ Tick
    \/ \E i \in setup.hubs : sweepAuthCache(i)
    \/ \E r \in Requests :
         \/ Step(r)
         \/ \E i \in setup.hubs :
              \/ ChangeGroup(r, i)
              \/ \E t \in Tokens : Arrive(r, i, t)
              \/ \E u \in Users : ChangeUser(r, i, u)

Spec == Init /\ [][Next]_vars

\* Handlers finish what they started and time passes.
FairSpec == Spec /\ WF_vars(Tick) /\ \A r \in Requests : WF_vars(Step(r))

-----------------------------------------------------------------------------
(* Properties.                                                             *)

\* Versions, entries, indexes and handler variables keep their types.
TypeOK ==
    /\ setup \in Setups
    /\ version \in [Users -> 0..MaxVersion]
    /\ life \in [Tokens -> 0..CacheTTL + 1]
    /\ authCache \in [Instances -> [Tokens -> Entry]]
    /\ userTokens \in [Instances -> [Users -> SUBSET Tokens]]
    /\ redis \in [Tokens -> Entry]
    /\ redisUser \in [Users -> Index]
    /\ req \in [Requests -> Req]

\* No instance serves a token from its local map after the token expired: an
\* entry that is still valid has at most the token's own time left.
EntryDiesWithToken ==
    \A i \in Instances, t \in Tokens :
        Cached(i, t) /\ authCache[i][t].ttl >= 0 => authCache[i][t].ttl <= life[t]

\* Handler h has written a change of user u and is yet to invalidate on instance i.
Owes(h, i, u) ==
    /\ h.inst = i
    /\ \/ h.pc \in {"invMembers", "invDelete", "invLocal"} /\ h.user = u
       \/ h.pc \in {"allRedis", "allLocal"}

Pending(i, u) == \E r \in Requests : Owes(req[r], i, u)

\* On a hub that runs alone, an entry older than the user's current version is either
\* about to be invalidated or was stored by a request that read the user
\* before an invalidation and stored after it.
StaleOnlyByRace ==
    Cardinality(setup.hubs) = 1 => \A i \in setup.hubs, t \in Tokens :
        Cached(i, t) /\ authCache[i][t].ver < version[Owner[t]] =>
            authCache[i][t].raced \/ Pending(i, Owner[t])

\* What any instance would serve for token t, from Redis or from its map.
Served(t) ==
    {redis[t].ver : x \in {y \in {1} : redis[t] # NoEntry}} \union
    {authCache[i][t].ver : i \in {j \in Instances : Cached(j, t) /\ authCache[j][t].ttl >= 0}}

\* Once users and groups stop changing, every instance sooner or later serves
\* only the current version, whatever invalidations were raced, failed at
\* Redis or happened on another instance: entries are not extended by use.
EventuallyCurrent ==
    <>[](\A t \in Tokens : \A v \in Served(t) : v = version[Owner[t]])

-----------------------------------------------------------------------------
(* The inductive invariant behind the two safety properties.               *)

Filling == {"fill", "setRedis", "setLocal"}

\* A handler runs on a hub that is up, and works for the owner of its token.
Placed(h) ==
    /\ h.pc # "idle" => h.inst \in setup.hubs
    /\ h.pc \in {"lookup", "drop", "read"} \union Filling =>
         h.tok \in Tokens /\ h.user = Owner[h.tok]
    /\ h.pc \in {"invMembers", "invDelete", "invLocal"} => h.user \in Users

HandlersPlaced == \A r \in Requests : Placed(req[r])

\* The entry a fill is about to store has no more time than the token.
FillDies(h) == h.pc \in Filling => h.entry.ttl <= life[h.tok]

FillsDieWithToken == \A r \in Requests : FillDies(req[r])

\* InvalidateUser finds every entry of a user: the index lists it.
Indexed ==
    \A i \in Instances, t \in Tokens : Cached(i, t) => t \in userTokens[i][Owner[t]]

\* A fill that holds an old version was raced or will be.
FillCurrent(h) ==
    h.pc \in Filling /\ h.entry.ver < version[h.user] =>
        h.entry.raced \/ Pending(h.inst, h.user)

FillsStaleOnlyByRace ==
    Cardinality(setup.hubs) = 1 => \A r \in Requests : FillCurrent(req[r])

CacheInv ==
    /\ TypeOK /\ HandlersPlaced
    /\ FillsDieWithToken /\ EntryDiesWithToken
    /\ Indexed /\ FillsStaleOnlyByRace /\ StaleOnlyByRace
=============================================================================
