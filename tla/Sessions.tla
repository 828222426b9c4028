------------------------------ MODULE Sessions ------------------------------
(***************************************************************************)
(* Login sessions of the Portlyn hub: the rows of the sessions table, the  *)
(* access and refresh tokens that name them, and the request handlers that *)
(* create, authenticate, rotate and revoke them (internal/auth/sessions.go *)
(* and service.go over internal/store/session_store.go).                   *)
(*                                                                         *)
(* A handler is a sequence of database calls.  Each call is one action, so *)
(* the handlers of any number of hub instances sharing one database        *)
(* interleave between calls.  A random pair (token_id, refresh_token_hash) *)
(* is always drawn and written together, so one element of Tokens stands   *)
(* for the pair: presenting t to AuthenticateAccessToken presents the JWT  *)
(* whose TokenID is t, presenting it to RefreshSession presents the        *)
(* refresh token whose hash is stored beside t.                            *)
(*                                                                         *)
(* The auth-result cache is the subject of module AuthCache.  Here a       *)
(* lookup may hit or miss whenever the token is unexpired, which covers    *)
(* every content the cache can have.  Remaining lifetimes count down with  *)
(* Tick, so no clock grows without bound.                                  *)
(***************************************************************************)
EXTENDS Integers, FiniteSets

CONSTANTS
    Users,          \* user ids
    SessionIds,     \* primary keys of the sessions table
    Tokens,         \* random (token_id, refresh token) pairs
    Requests,       \* request handlers in flight
    None,           \* no user, session or token
    TokenTTL,       \* lifetime of an access JWT, in ticks
    RefreshTTL,     \* lifetime of a session without refresh, in ticks
    MaxPassword     \* bound on the number of password changes of a user

ASSUME TTLAssumption == TokenTTL \in Nat \ {0} /\ RefreshTTL \in Nat \ {0}
ASSUME PasswordAssumption == MaxPassword \in Nat
ASSUME NoneAssumption ==
    None \notin Users /\ None \notin SessionIds /\ None \notin Tokens

VARIABLES
    users,      \* users table: active, password version, must_change_password
    sessions,   \* sessions table
    jwt,        \* signed access tokens: user they name, lifetime left
    used,       \* random pairs already drawn
    req,        \* program counter and local variables of each handler
    redeemed,   \* history: <<old, new>> for every rotation that committed
    barred      \* history: handlers whose user was inactive or gone when the
                \* request arrived, and has not been reactivated since

vars == <<users, sessions, jwt, used, req, redeemed, barred>>

-----------------------------------------------------------------------------
(* Types.                                                                  *)

User == [exists: BOOLEAN, active: BOOLEAN,
         pw: 0..MaxPassword, mustChange: BOOLEAN]

\* A row that was never created is "none"; RevokedAt # nil is "revoked".
\* ttl is ExpiresAt minus now; a negative ttl is a session past ExpiresAt.
Session == [state: {"none", "live", "revoked"},
            user: Users \union {None},
            token: Tokens \union {None},
            ttl: -1..RefreshTTL]

\* A JWT with ttl 0 is expired or was never signed.
Jwt == [user: Users \union {None}, ttl: 0..TokenTTL]

PCs == {"idle",
        "auHit", "auUser", "auSession", "auTouch", "accepted",
        "rfUser", "rfRotate", "refreshed",
        "lgCreate", "loggedIn",
        "rvRevoke", "revoked",
        "pwSwap", "suSwap", "pwRevoke", "changed"}

\* dead and doomed are history: whether the presented token named no live
\* session when the request arrived, and which sessions a password change
\* set out to end.
Req == [pc: PCs,
        user: Users \union {None},
        tok: Tokens \union {None},
        sid: SessionIds \union {None},
        pw: 0..MaxPassword,
        dead: BOOLEAN,
        doomed: SUBSET SessionIds]

NoUser == [exists |-> TRUE, active |-> TRUE, pw |-> 0, mustChange |-> FALSE]
NoSession == [state |-> "none", user |-> None, token |-> None, ttl |-> -1]
NoJwt == [user |-> None, ttl |-> 0]
Idle == [pc |-> "idle", user |-> None, tok |-> None, sid |-> None,
         pw |-> 0, dead |-> FALSE, doomed |-> {}]

Init ==
    /\ users = [u \in Users |-> NoUser]
    /\ sessions = [s \in SessionIds |-> NoSession]
    /\ jwt = [t \in Tokens |-> NoJwt]
    /\ used = {}
    /\ req = [r \in Requests |-> Idle]
    /\ redeemed = {}
    /\ barred = {}

-----------------------------------------------------------------------------
(* The session store.                                                      *)

\* Rows whose unique token column holds t.  The same rows answer
\* GetByTokenID and GetByRefreshHash, as the two columns move together.
RowsWithToken(t) ==
    {s \in SessionIds : sessions[s].state # "none" /\ sessions[s].token = t}

\* Mutants of RotateMatches: no comparison with the previous hash, and no
\* revoked_at IS NULL.
MutRotateAnyHash(s, previous) == sessions[s].state = "live"
MutRotateRevoked(s, previous) ==
    sessions[s].state # "none" /\ sessions[s].token = previous

\* The conditional UPDATE of Rotate matches the row.
RotateMatches(s, previous) ==
    sessions[s].state = "live" /\ sessions[s].token = previous

Rotate(s, t) ==
    sessions' = [sessions EXCEPT ![s] = [@ EXCEPT !.token = t, !.ttl = RefreshTTL]]

\* The conditional UPDATE of Touch matches the row (last_seen_at is left out).
TouchMatches(s) == sessions[s].state = "live"

Create(s, u, t) ==
    sessions' = [sessions EXCEPT ![s] =
        [state |-> "live", user |-> u, token |-> t, ttl |-> RefreshTTL]]

RevokeRow(row) == [row EXCEPT !.state = "revoked"]

Revoke(s) == sessions' = [sessions EXCEPT ![s] = RevokeRow(@)]

RevokeMatches(s) == sessions[s].state = "live"

RevokeByUser(u) ==
    sessions' = [s \in SessionIds |->
        IF sessions[s].state = "live" /\ sessions[s].user = u
        THEN RevokeRow(sessions[s]) ELSE sessions[s]]

\* Mutant: the exception's comparison is inverted.
MutRevokeKept(u, keep) ==
    sessions' = [s \in SessionIds |->
        IF sessions[s].state = "live" /\ sessions[s].user = u /\ s = keep
        THEN RevokeRow(sessions[s]) ELSE sessions[s]]

RevokeByUserExcept(u, keep) ==
    sessions' = [s \in SessionIds |->
        IF sessions[s].state = "live" /\ sessions[s].user = u /\ s # keep
        THEN RevokeRow(sessions[s]) ELSE sessions[s]]

\* The checks both branches of AuthenticateAccessToken and RefreshSession
\* make on the row they read.
Usable(s) == sessions[s].state = "live" /\ sessions[s].ttl >= 0

\* Token t names no live session.
Dead(t) == \A s \in SessionIds :
    ~(sessions[s].state = "live" /\ sessions[s].token = t)

\* GetByID finds user u and the active flag is set.
MayEnter(u) == users[u].exists /\ users[u].active

-----------------------------------------------------------------------------
(* Moves of a handler.                                                     *)

\* Handler r starts with these local variables.
Begin(r, where, u, t, s, p, d) ==
    /\ req' = [req EXCEPT ![r] = [pc |-> where, user |-> u, tok |-> t, sid |-> s,
                                  pw |-> p, dead |-> d, doomed |-> {}]]
    /\ barred' = IF u \in Users /\ ~MayEnter(u) THEN barred \union {r}
                                              ELSE barred \ {r}

Goto(r, where) ==
    /\ req' = [req EXCEPT ![r].pc = where]
    /\ UNCHANGED barred

\* An error return: bad credentials, a failed check, a database error, a
\* cancelled request context or a crash of the instance.  A handler may give
\* up before any of its calls and makes no further change.
Abort(r) ==
    /\ req[r].pc # "idle"
    /\ req' = [req EXCEPT ![r] = Idle]
    /\ barred' = barred \ {r}
    /\ UNCHANGED <<users, sessions, jwt, used, redeemed>>

-----------------------------------------------------------------------------
(* AuthenticateAccessToken.                                                *)

\* ParseToken accepts the signature and the expiry, then the cache lookup
\* hits or misses.
AuthParse(r, t) ==
    /\ req[r].pc = "idle"
    /\ jwt[t].ttl > 0
    /\ \E where \in {"auHit", "auUser"} :
         Begin(r, where, jwt[t].user, t, None, 0, Dead(t))
    /\ UNCHANGED <<users, sessions, jwt, used, redeemed>>

\* Mutant: a cache hit is trusted without reading the session row again.
MutTrustCacheHit(r) ==
    /\ req[r].pc = "auHit"
    /\ Goto(r, "accepted")
    /\ UNCHANGED <<users, sessions, jwt, used, redeemed>>

\* Cache hit: the session row is read again and decides.
AuthHitSession(r) ==
    /\ req[r].pc = "auHit"
    /\ \E s \in RowsWithToken(req[r].tok) :
         /\ Usable(s)
         /\ req' = [req EXCEPT ![r] = [@ EXCEPT !.pc = "accepted", !.sid = s]]
    /\ UNCHANGED <<users, sessions, jwt, used, redeemed, barred>>

AuthGetUser(r) ==
    /\ req[r].pc = "auUser"
    /\ MayEnter(req[r].user)
    /\ Goto(r, "auSession")
    /\ UNCHANGED <<users, sessions, jwt, used, redeemed>>

AuthGetSession(r) ==
    /\ req[r].pc = "auSession"
    /\ \E s \in RowsWithToken(req[r].tok) :
         /\ Usable(s)
         /\ req' = [req EXCEPT ![r] = [@ EXCEPT !.pc = "auTouch", !.sid = s]]
    /\ UNCHANGED <<users, sessions, jwt, used, redeemed, barred>>

\* Touch refuses a row revoked since it was read; any other error of it is
\* ignored.  The group lookup and the cache fill that follow change none of
\* these variables.
AuthTouch(r) ==
    /\ req[r].pc = "auTouch"
    /\ \E failed \in BOOLEAN : failed \/ TouchMatches(req[r].sid)
    /\ Goto(r, "accepted")
    /\ UNCHANGED <<users, sessions, jwt, used, redeemed>>

-----------------------------------------------------------------------------
(* RefreshSession.                                                         *)

\* Any refresh token ever handed out may be presented, replays included.
RefreshLookup(r, t) ==
    /\ req[r].pc = "idle"
    /\ \E s \in RowsWithToken(t) :
         /\ Usable(s)
         /\ Begin(r, "rfUser", sessions[s].user, t, s, 0, FALSE)
    /\ UNCHANGED <<users, sessions, jwt, used, redeemed>>

\* Mutant: a refresh does not look at the active flag.
MutRefreshInactive(r) ==
    /\ req[r].pc = "rfUser"
    /\ users[req[r].user].exists
    /\ Goto(r, "rfRotate")
    /\ UNCHANGED <<users, sessions, jwt, used, redeemed>>

RefreshGetUser(r) ==
    /\ req[r].pc = "rfUser"
    /\ MayEnter(req[r].user)
    /\ Goto(r, "rfRotate")
    /\ UNCHANGED <<users, sessions, jwt, used, redeemed>>

\* Mutant: the access token gets the refresh token's lifetime.
MutLongToken(u, t) ==
    jwt' = [jwt EXCEPT ![t] = [user |-> u, ttl |-> RefreshTTL]]

\* issueToken signs a JWT for user u and the token t just written to a row.
issueToken(u, t) ==
    jwt' = [jwt EXCEPT ![t] = [user |-> u, ttl |-> TokenTTL]]

RefreshRotate(r, t) ==
    /\ req[r].pc = "rfRotate"
    /\ t \notin used
    /\ RotateMatches(req[r].sid, req[r].tok)
    /\ Rotate(req[r].sid, t)
    /\ used' = used \union {t}
    /\ redeemed' = redeemed \union {<<req[r].tok, t>>}
    /\ issueToken(req[r].user, t)
    /\ Goto(r, "refreshed")
    /\ UNCHANGED users

-----------------------------------------------------------------------------
(* Login: every way in (password, one-time code, passkey, OIDC, break      *)
(* glass, MFA) reads the user, checks a credential and the active flag,    *)
(* and ends in completeSuccessfulLogin with the user it read.              *)

LoginCheck(r, u) ==
    /\ req[r].pc = "idle"
    /\ MayEnter(u)
    /\ Begin(r, "lgCreate", u, None, None, 0, FALSE)
    /\ UNCHANGED <<users, sessions, jwt, used, redeemed>>

LoginCreate(r, s, t) ==
    /\ req[r].pc = "lgCreate"
    /\ sessions[s].state = "none"
    /\ t \notin used
    /\ Create(s, req[r].user, t)
    /\ used' = used \union {t}
    /\ issueToken(req[r].user, t)
    /\ Goto(r, "loggedIn")
    /\ UNCHANGED <<users, redeemed>>

-----------------------------------------------------------------------------
(* Revocation by the user, by an administrator and at logout.              *)

\* GetByID and the ownership check precede the conditional update.
RevokeLookup(r, u, s) ==
    /\ req[r].pc = "idle"
    /\ sessions[s].state # "none" /\ sessions[s].user = u
    /\ Begin(r, "rvRevoke", u, None, s, 0, FALSE)
    /\ UNCHANGED <<users, sessions, jwt, used, redeemed>>

RevokeSession(r) ==
    /\ req[r].pc = "rvRevoke"
    /\ RevokeMatches(req[r].sid)
    /\ Revoke(req[r].sid)
    /\ Goto(r, "revoked")
    /\ UNCHANGED <<users, jwt, used, redeemed>>

RevokeAllUserSessions(r, u) ==
    /\ req[r].pc = "idle"
    /\ RevokeByUser(u)
    /\ Begin(r, "revoked", u, None, None, 0, FALSE)
    /\ UNCHANGED <<users, jwt, used, redeemed>>

-----------------------------------------------------------------------------
(* Password changes: read and check, swap under a guard, end the others.   *)

\* The caller u was authenticated with session s, which the change keeps, or
\* without one (an API token): then every session of u is ended.
Caller(u, s) == s # None => sessions[s].state # "none" /\ sessions[s].user = u

ChangePasswordCheck(r, u, s) ==
    /\ req[r].pc = "idle"
    /\ Caller(u, s)
    /\ users[u].exists
    /\ Begin(r, "pwSwap", u, None, s, users[u].pw, FALSE)
    /\ UNCHANGED <<users, sessions, jwt, used, redeemed>>

AccountSetupCheck(r, u, s) ==
    /\ req[r].pc = "idle"
    /\ Caller(u, s)
    /\ users[u].exists /\ users[u].mustChange
    /\ Begin(r, "suSwap", u, None, s, 0, FALSE)
    /\ UNCHANGED <<users, sessions, jwt, used, redeemed>>

\* UpdateFieldsIf guards on the previous hash, or on must_change_password.
SwapMatches(r) ==
    /\ req[r].pc \in {"pwSwap", "suSwap"}
    /\ users[req[r].user].exists
    /\ \/ req[r].pc = "pwSwap" /\ users[req[r].user].pw = req[r].pw
       \/ req[r].pc = "suSwap" /\ users[req[r].user].mustChange

\* The sessions a password change of r's user sets out to end.
OthersOf(r) == {s \in SessionIds : /\ sessions[s].state = "live"
                                   /\ sessions[s].user = req[r].user
                                   /\ s # req[r].sid}

SwapPassword(r) ==
    /\ SwapMatches(r)
    /\ users[req[r].user].pw < MaxPassword
    /\ users' = [users EXCEPT ![req[r].user] =
                  [@ EXCEPT !.pw = users[req[r].user].pw + 1, !.mustChange = FALSE]]
    /\ req' = [req EXCEPT ![r] =
                [@ EXCEPT !.pc = "pwRevoke", !.doomed = OthersOf(r)]]
    /\ UNCHANGED <<sessions, jwt, used, redeemed, barred>>

\* With no session to keep this is RevokeAllUserSessions.  An error of this
\* last call is ignored by the handler: that is Abort.
RevokeOtherUserSessions(r) ==
    /\ req[r].pc = "pwRevoke"
    /\ RevokeByUserExcept(req[r].user, req[r].sid)
    /\ Goto(r, "changed")
    /\ UNCHANGED <<users, jwt, used, redeemed>>

-----------------------------------------------------------------------------
(* Administration of users: one UPDATE of the selected columns, or DELETE. *)

SetActive(u, b) ==
    /\ users[u].exists /\ users[u].active # b
    /\ users' = [users EXCEPT ![u].active = b]
    /\ barred' = {r \in barred : ~b \/ req[r].user # u}
    /\ UNCHANGED <<sessions, jwt, used, req, redeemed>>

ResetPassword(u) ==
    /\ users[u].exists /\ users[u].pw < MaxPassword
    /\ users' = [users EXCEPT ![u] =
                  [@ EXCEPT !.pw = users[u].pw + 1, !.mustChange = TRUE]]
    /\ UNCHANGED <<sessions, jwt, used, req, redeemed, barred>>

DeleteUser(u) ==
    /\ users[u].exists
    /\ users' = [users EXCEPT ![u].exists = FALSE]
    /\ UNCHANGED <<sessions, jwt, used, req, redeemed, barred>>

-----------------------------------------------------------------------------
Tick ==
    /\ jwt' = [t \in Tokens |-> [jwt[t] EXCEPT !.ttl = IF @ = 0 THEN 0 ELSE @ - 1]]
    /\ sessions' = [s \in SessionIds |->
         [sessions[s] EXCEPT !.ttl = IF @ = -1 THEN -1 ELSE @ - 1]]
    /\ UNCHANGED <<users, used, req, redeemed, barred>>

Next ==
    \/ Tick
    \/ \E u \in Users :
         \/ \E b \in BOOLEAN : SetActive(u, b)
         \/ ResetPassword(u)
         \/ DeleteUser(u)
    \/ \E r \in Requests :
         \/ Abort(r)
         \/ \E t \in Tokens :
              \/ AuthParse(r, t)
              \/ RefreshLookup(r, t)
              \/ RefreshRotate(r, t)
              \/ \E s \in SessionIds : LoginCreate(r, s, t)
         \/ AuthHitSession(r)
         \/ AuthGetUser(r)
         \/ AuthGetSession(r)
         \/ AuthTouch(r)
         \/ RefreshGetUser(r)
         \/ RevokeSession(r)
         \/ SwapPassword(r)
         \/ RevokeOtherUserSessions(r)
         \/ \E u \in Users, s \in SessionIds \union {None} :
              \/ ChangePasswordCheck(r, u, s)
              \/ AccountSetupCheck(r, u, s)
         \/ \E u \in Users, s \in SessionIds : RevokeLookup(r, u, s)
         \/ \E u \in Users :
              \/ LoginCheck(r, u)
              \/ RevokeAllUserSessions(r, u)

Spec == Init /\ [][Next]_vars

-----------------------------------------------------------------------------
(* Properties.                                                             *)

\* The tables, the tokens and the handler variables have their types.
DataOK ==
    /\ users \in [Users -> User]
    /\ sessions \in [SessionIds -> Session]
    /\ jwt \in [Tokens -> Jwt]
    /\ used \in SUBSET Tokens
    /\ req \in [Requests -> Req]
    /\ redeemed \in SUBSET (Tokens \X Tokens)

\* Every variable keeps its type.
TypeOK == DataOK /\ barred \in SUBSET Requests

\* A refresh token is redeemed at most once, whatever number of handlers
\* present it concurrently: Rotate's condition on the previous hash lets one
\* of them through (RefreshSession).
SingleRedemption ==
    \A p, q \in redeemed : p[1] = q[1] => p = q

\* A request that arrives with an access token whose session is already
\* revoked, or whose token was already rotated away, is never authenticated,
\* on the cached branch or the database branch (AuthenticateAccessToken).
DeadTokenRejected ==
    \A r \in Requests : req[r].pc = "accepted" => ~req[r].dead

\* A revoked session is never revived, rotated or extended by a handler that
\* read the row before the revocation (Rotate, Touch and Revoke are all
\* conditional on revoked_at IS NULL).
RevokedIsFinal ==
    [][\A s \in SessionIds : sessions[s].state = "revoked" =>
          /\ sessions'[s].state = "revoked"
          /\ sessions'[s].token = sessions[s].token
          /\ sessions'[s].ttl <= sessions[s].ttl]_vars

\* When a password change or account setup reports success, every session of
\* the user that was live when the new hash was written, other than the
\* caller's, is revoked, even if it was rotated in between.
PasswordChangeEndsOthers ==
    \A r \in Requests : req[r].pc = "changed" =>
        \A s \in req[r].doomed : sessions[s].state = "revoked"

\* A refresh or login that arrives while its user is deactivated or deleted
\* obtains no token, and an access token presented then does not pass the
\* database branch, unless the user is reactivated meanwhile: each handler
\* reads the user itself, after the request arrived (RefreshSession,
\* AuthenticateAccessToken, completeSuccessfulLogin's callers).
DeactivatedGetsNoToken ==
    \A r \in barred : req[r].pc \notin {"auTouch", "refreshed", "loggedIn"}

-----------------------------------------------------------------------------
(* The inductive invariant behind the properties.                          *)

\* A token was drawn before it entered a row or was signed into a JWT.
TokensDrawn ==
    /\ \A s \in SessionIds : sessions[s].state # "none" => sessions[s].token \in used
    /\ \A t \in Tokens : jwt[t].ttl > 0 => t \in used

\* The token columns are unique among the created rows.
TokensUnique ==
    \A s1, s2 \in SessionIds :
        /\ sessions[s1].state # "none" /\ sessions[s2].state # "none"
        /\ sessions[s1].token = sessions[s2].token
        => s1 = s2

\* A redeemed token is in no row any more.
RedeemedGone ==
    \A p \in redeemed :
        /\ p[1] \in used
        /\ \A s \in SessionIds : sessions[s].state # "none" => sessions[s].token # p[1]

\* A request that arrived with a dead token still holds a dead token.
DeadStaysDead ==
    \A r \in Requests :
        /\ req[r].dead => req[r].tok \in used /\ Dead(req[r].tok)
        /\ req[r].pc \in {"auTouch", "accepted"} => ~req[r].dead

\* A refresh handler holds the owner of the row it is about to rotate.
RefreshOwner ==
    \A r \in Requests : req[r].pc \in {"rfUser", "rfRotate"} =>
        /\ req[r].sid \in SessionIds
        /\ sessions[req[r].sid].state # "none"
        /\ sessions[req[r].sid].user = req[r].user

\* The sessions a password change set out to end stay within its reach.
DoomedReachable ==
    \A r \in Requests : req[r].pc = "pwRevoke" =>
        \A s \in req[r].doomed :
            /\ sessions[s].state # "none"
            /\ sessions[s].user = req[r].user
            /\ s # req[r].sid

\* A barred handler's user is out, and the handler is past no check of that.
BarredOut ==
    \A r \in barred :
        /\ req[r].user \in Users /\ ~MayEnter(req[r].user)
        /\ req[r].pc \notin {"auSession", "auTouch", "rfRotate", "refreshed",
                             "lgCreate", "loggedIn"}

IInv ==
    /\ DataOK
    /\ TokensDrawn
    /\ TokensUnique
    /\ RedeemedGone
    /\ SingleRedemption
    /\ DeadStaysDead
    /\ RefreshOwner
    /\ DoomedReachable
    /\ PasswordChangeEndsOthers
=============================================================================
