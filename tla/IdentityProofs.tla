--------------------------- MODULE IdentityProofs ---------------------------
(***************************************************************************)
(* Who the caller is: proofs for every number of users, sessions, tokens   *)
(* and concurrent handlers, requests, challenges and codes.                *)
(*                                                                         *)
(* Sessions: a token enters a row only when drawn, so it is in at most one *)
(* row and, once rotated away, in none; a revoked row matches none of the  *)
(* conditional updates; hence a token that is dead when a request arrives  *)
(* is dead for good.                                                       *)
(* Tokens: the token a revocation or a login spent is not taken again.     *)
(* Mfa: a code is accepted once and counts against its challenge, because  *)
(* the write that accepts it compares the row with the one that was read.  *)
(***************************************************************************)
EXTENDS Identity, FiniteSetTheorems, TLAPS

-----------------------------------------------------------------------------
(* Sessions.                                                               *)


\* The parts of IInv that speak of the local variables q of one handler.
HandlerInv(q) ==
    /\ q.dead => q.tok \in used /\ Dead(q.tok)
    /\ q.pc \in {"auTouch", "accepted"} => ~q.dead
    /\ q.pc \in {"rfUser", "rfRotate"} =>
         /\ q.sid \in SessionIds
         /\ sessions[q.sid].state # "none"
         /\ sessions[q.sid].user = q.user
    /\ q.pc = "pwRevoke" =>
         \A s \in q.doomed : /\ sessions[s].state # "none"
                             /\ sessions[s].user = q.user
                             /\ s # q.sid
    /\ q.pc = "changed" => \A s \in q.doomed : sessions[s].state = "revoked"

\* The parts of IInv that speak of the tables.
TableInv ==
    /\ users \in [Users -> User]
    /\ sessions \in [SessionIds -> Session]
    /\ jwt \in [Tokens -> Jwt]
    /\ used \in SUBSET Tokens
    /\ redeemed \in SUBSET (Tokens \X Tokens)
    /\ TokensDrawn
    /\ TokensUnique
    /\ RedeemedGone
    /\ SingleRedemption

\* IInv split into its table part and its handler part.
LEMMA Split == IInv <=> /\ TableInv
                        /\ req \in [Requests -> Req]
                        /\ \A r \in Requests : HandlerInv(req[r])
  BY DEF IInv, DataOK, TableInv, HandlerInv, DeadStaysDead, RefreshOwner,
         DoomedReachable, PasswordChangeEndsOthers

\* The initial states satisfy the inductive invariant.
LEMMA InitInv == Init => IInv
<1> SUFFICES ASSUME Init PROVE IInv
  OBVIOUS
<1>1. DataOK
  BY TTLAssumption, PasswordAssumption
  DEF Init, DataOK, User, Session, Jwt, Req, PCs, NoUser, NoSession, NoJwt, Idle
<1>2. /\ \A s \in SessionIds : sessions[s].state = "none"
      /\ \A t \in Tokens : jwt[t].ttl = 0
      /\ \A r \in Requests : req[r].pc = "idle" /\ ~req[r].dead
  BY DEF Init, NoSession, NoJwt, Idle
<1>3. redeemed = {}
  BY DEF Init
<1> QED
  BY <1>1, <1>2, <1>3
  DEF IInv, TokensDrawn, TokensUnique, RedeemedGone, SingleRedemption,
      DeadStaysDead, RefreshOwner, DoomedReachable, PasswordChangeEndsOthers

-----------------------------------------------------------------------------
(* Steps that only move one handler.                                       *)

\* A handler that moves to q while the session tables stay as they are
\* preserves the invariant when q satisfies the handler part.
LEMMA LocalStep ==
    ASSUME IInv, NEW r \in Requests, NEW q \in Req, HandlerInv(q),
           req' = [req EXCEPT ![r] = q],
           UNCHANGED <<sessions, jwt, used, redeemed>>,
           users' \in [Users -> User]
    PROVE  IInv'
<1>1. TableInv'
  BY Split DEF TableInv, TokensDrawn, TokensUnique, RedeemedGone, SingleRedemption
<1>2. req' \in [Requests -> Req]
  BY Split
<1>3. \A x \in Requests : HandlerInv(req[x])'
  <2> TAKE x \in Requests
  <2>1. req'[x] = q \/ req'[x] = req[x]
    BY Split
  <2>2. HandlerInv(req'[x])
    BY <2>1, Split
  <2> QED
    BY <2>2 DEF HandlerInv, Dead
<1> QED
  BY <1>1, <1>2, <1>3
  DEF IInv, DataOK, TableInv, HandlerInv, DeadStaysDead, RefreshOwner,
      DoomedReachable, PasswordChangeEndsOthers

\* The local record of a handler is typed and satisfies the handler part.
LEMMA HandlerAt ==
    ASSUME IInv, NEW r \in Requests
    PROVE  req[r] \in Req /\ HandlerInv(req[r])
  BY Split

\* Moving the program counter to a place that promises nothing new.
LEMMA MoveStep ==
    ASSUME IInv, NEW r \in Requests, NEW w \in PCs, Goto(r, w),
           w \notin {"auTouch", "accepted", "rfUser", "rfRotate", "pwRevoke", "changed"},
           UNCHANGED <<sessions, jwt, used, redeemed>>,
           users' \in [Users -> User]
    PROVE  IInv'
<1> DEFINE q == [req[r] EXCEPT !.pc = w]
<1>1. req[r] \in Req /\ HandlerInv(req[r])
  BY HandlerAt
<1>2. q \in Req /\ q.pc = w /\ q.dead = req[r].dead /\ q.tok = req[r].tok
  BY <1>1 DEF Req
<1>3. HandlerInv(q)
  BY <1>1, <1>2 DEF HandlerInv
<1>4. req' = [req EXCEPT ![r] = q]
  BY DEF Goto
<1> QED
  BY <1>2, <1>3, <1>4, LocalStep

\* A handler that starts at a place that promises nothing is typed.
LEMMA BeginStep ==
    ASSUME IInv, NEW r \in Requests, NEW w \in PCs, NEW u \in Users \union {None},
           NEW t \in Tokens \union {None}, NEW s \in SessionIds \union {None},
           NEW p \in 0..MaxPassword, NEW d \in BOOLEAN, Begin(r, w, u, t, s, p, d),
           w \notin {"auTouch", "accepted", "rfRotate", "pwRevoke", "changed"},
           w = "rfUser" => /\ s \in SessionIds
                           /\ sessions[s].state # "none"
                           /\ sessions[s].user = u,
           d => t \in used /\ Dead(t),
           UNCHANGED <<users, sessions, jwt, used, redeemed>>
    PROVE  IInv'
<1> DEFINE q == [pc |-> w, user |-> u, tok |-> t, sid |-> s, pw |-> p,
                 dead |-> d, doomed |-> {}]
<1>1. q \in Req
  BY DEF Req
<1>2. q.pc = w /\ q.user = u /\ q.tok = t /\ q.sid = s /\ q.dead = d
  OBVIOUS
<1>3. HandlerInv(q)
  BY <1>2 DEF HandlerInv
<1>4. req' = [req EXCEPT ![r] = q]
  BY DEF Begin
<1>5. users' \in [Users -> User]
  BY DEF IInv, DataOK
<1> QED
  BY <1>1, <1>3, <1>4, <1>5, LocalStep

\* AuthParse records whether the token is dead on arrival.
LEMMA AuthParseStep ==
    ASSUME IInv, NEW r \in Requests, NEW t \in Tokens, AuthParse(r, t)
    PROVE  IInv'
<1>1. PICK w \in {"auHit", "auUser"} :
        Begin(r, w, jwt[t].user, t, None, 0, Dead(t))
  BY DEF AuthParse
<1>2. jwt[t].user \in Users \union {None} /\ Dead(t) \in BOOLEAN /\ w \in PCs
  BY DEF IInv, DataOK, Jwt, Dead, PCs
<1>3. t \in used
  BY DEF AuthParse, IInv, TokensDrawn
<1>4. 0 \in 0..MaxPassword
  BY PasswordAssumption
<1> QED
  BY <1>1, <1>2, <1>3, <1>4, BeginStep DEF AuthParse

\* A request that finds its token in a live row did not arrive with a dead one.
LEMMA AuthSessionStep ==
    ASSUME IInv, NEW r \in Requests, AuthHitSession(r) \/ AuthGetSession(r)
    PROVE  IInv'
<1>1. PICK s \in SessionIds, w \in {"accepted", "auTouch"} :
        /\ sessions[s].state = "live" /\ sessions[s].token = req[r].tok
        /\ req' = [req EXCEPT ![r] = [@ EXCEPT !.pc = w, !.sid = s]]
  BY DEF AuthHitSession, AuthGetSession, RowsWithToken, Usable
<1> DEFINE q == [req[r] EXCEPT !.pc = w, !.sid = s]
<1>2. req[r] \in Req /\ HandlerInv(req[r])
  BY HandlerAt
<1>3. q \in Req /\ q.pc = w /\ q.dead = req[r].dead
  BY <1>2 DEF Req, PCs
<1>4. ~req[r].dead
  BY <1>1, <1>2 DEF HandlerInv, Dead
<1>5. HandlerInv(q)
  BY <1>3, <1>4 DEF HandlerInv
<1>6. req' = [req EXCEPT ![r] = q]
  BY <1>1
<1> QED
  BY <1>3, <1>5, <1>6, LocalStep DEF AuthHitSession, AuthGetSession, IInv, DataOK

\* Touch keeps the fact that the token was not dead on arrival.
LEMMA AuthTouchStep ==
    ASSUME IInv, NEW r \in Requests, AuthTouch(r)
    PROVE  IInv'
<1> DEFINE q == [req[r] EXCEPT !.pc = "accepted"]
<1>1. req[r] \in Req /\ HandlerInv(req[r])
  BY HandlerAt
<1>2. q \in Req /\ q.pc = "accepted" /\ q.dead = req[r].dead
  BY <1>1 DEF Req, PCs
<1>3. HandlerInv(q)
  BY <1>1, <1>2 DEF HandlerInv, AuthTouch
<1> QED
  BY <1>2, <1>3, LocalStep DEF AuthTouch, Goto, IInv, DataOK

\* A refresh handler takes the owner from the row it read, and keeps it.
LEMMA RefreshReadStep ==
    ASSUME IInv, NEW r \in Requests,
           RefreshGetUser(r) \/ \E t \in Tokens : RefreshLookup(r, t)
    PROVE  IInv'
<1>1. CASE RefreshGetUser(r)
  <2> DEFINE q == [req[r] EXCEPT !.pc = "rfRotate"]
  <2>1. req[r] \in Req /\ HandlerInv(req[r])
    BY HandlerAt
  <2>2. /\ q \in Req /\ q.pc = "rfRotate" /\ q.dead = req[r].dead /\ q.tok = req[r].tok
        /\ q.sid = req[r].sid /\ q.user = req[r].user
    BY <2>1 DEF Req, PCs
  <2>3. HandlerInv(q)
    BY <1>1, <2>1, <2>2 DEF HandlerInv, RefreshGetUser
  <2> QED
    BY <1>1, <2>2, <2>3, LocalStep DEF RefreshGetUser, Goto, IInv, DataOK
<1>2. ASSUME NEW t \in Tokens, RefreshLookup(r, t) PROVE IInv'
  <2>1. PICK s \in SessionIds :
          /\ sessions[s].state = "live"
          /\ Begin(r, "rfUser", sessions[s].user, t, s, 0, FALSE)
    BY <1>2 DEF RefreshLookup, RowsWithToken, Usable
  <2>2. sessions[s].user \in Users \union {None} /\ "rfUser" \in PCs
    BY DEF IInv, DataOK, Session, PCs
  <2>3. 0 \in 0..MaxPassword
    BY PasswordAssumption
  <2> QED
    BY <1>2, <2>1, <2>2, <2>3, BeginStep DEF RefreshLookup
<1> QED
  BY <1>1, <1>2

\* Swapping the hash records the sessions to end; the tables stay.
LEMMA SwapStep ==
    ASSUME IInv, NEW r \in Requests, SwapPassword(r)
    PROVE  IInv'
<1> DEFINE q == [req[r] EXCEPT !.pc = "pwRevoke", !.doomed = OthersOf(r)]
<1>1. req[r] \in Req /\ HandlerInv(req[r])
  BY HandlerAt
<1>2. OthersOf(r) \in SUBSET SessionIds
  BY DEF OthersOf
<1>3. /\ q \in Req /\ q.pc = "pwRevoke" /\ q.doomed = OthersOf(r)
      /\ q.dead = req[r].dead /\ q.tok = req[r].tok
      /\ q.sid = req[r].sid /\ q.user = req[r].user
  BY <1>1, <1>2 DEF Req, PCs
<1>4. HandlerInv(q)
  BY <1>1, <1>3 DEF HandlerInv, OthersOf
<1>5. users' \in [Users -> User]
  <2>1. users \in [Users -> User]
    BY DEF IInv, DataOK
  <2>2. CASE req[r].user \in Users
    <3>1. users[req[r].user] \in User /\ users[req[r].user].pw + 1 \in 0..MaxPassword
      BY <2>1, <2>2, PasswordAssumption DEF User, SwapPassword
    <3> DEFINE v == [users[req[r].user] EXCEPT !.pw = users[req[r].user].pw + 1, !.mustChange = FALSE]
    <3>2. v \in User
      BY <3>1 DEF User
    <3>3. users' = [users EXCEPT ![req[r].user] = v]
      BY DEF SwapPassword
    <3> HIDE DEF v
    <3> QED
      BY <2>1, <3>2, <3>3
  <2>3. CASE req[r].user \notin Users
    BY <2>1, <2>3 DEF SwapPassword
  <2> QED
    BY <2>2, <2>3
<1> QED
  BY <1>3, <1>4, <1>5, LocalStep DEF SwapPassword

-----------------------------------------------------------------------------
(* Steps that change the tables.                                           *)

\* A handler's facts survive a step of another handler that moves rows only
\* forward: created rows stay created and owned, revoked rows stay revoked,
\* and a live row keeps its token or takes one that was not drawn before.
RowsMoveForward ==
    /\ used \subseteq used'
    /\ \A s \in SessionIds :
        /\ sessions[s].state # "none" =>
             sessions'[s].state # "none" /\ sessions'[s].user = sessions[s].user
        /\ sessions[s].state = "revoked" => sessions'[s].state = "revoked"
        /\ sessions'[s].state = "live" =>
             \/ sessions[s].state = "live" /\ sessions'[s].token = sessions[s].token
             \/ sessions'[s].token \notin used

\* The handler part is stable under such a step.
LEMMA HandlerStable ==
    ASSUME NEW q \in Req, HandlerInv(q), RowsMoveForward
    PROVE  /\ q.dead => q.tok \in used' /\ Dead(q.tok)'
           /\ q.pc \in {"auTouch", "accepted"} => ~q.dead
           /\ q.pc \in {"rfUser", "rfRotate"} =>
                /\ q.sid \in SessionIds
                /\ sessions'[q.sid].state # "none"
                /\ sessions'[q.sid].user = q.user
           /\ q.pc = "pwRevoke" =>
                \A s \in q.doomed : /\ sessions'[s].state # "none"
                                    /\ sessions'[s].user = q.user
                                    /\ s # q.sid
           /\ q.pc = "changed" => \A s \in q.doomed : sessions'[s].state = "revoked"
<1>1. q.doomed \subseteq SessionIds
  BY DEF Req
<1> QED
  BY <1>1 DEF HandlerInv, RowsMoveForward, Dead

\* A table step taken by handler r, which moves to a place without promises.
LEMMA TableStep ==
    ASSUME IInv, RowsMoveForward, TableInv', NEW r \in Requests, NEW w \in PCs,
           req' = [req EXCEPT ![r].pc = w],
           w \notin {"auTouch", "accepted", "rfUser", "rfRotate", "pwRevoke", "changed"}
    PROVE  IInv'
<1>1. req \in [Requests -> Req]
  BY Split
<1>2. req' \in [Requests -> Req]
  BY <1>1 DEF Req
<1>3. \A x \in Requests : HandlerInv(req[x])'
  <2> TAKE x \in Requests
  <2>1. req[x] \in Req /\ HandlerInv(req[x])
    BY HandlerAt
  <2>2. CASE x # r
    <3>1. req'[x] = req[x]
      BY <1>1, <2>2
    <3> QED
      BY <2>1, <3>1, HandlerStable DEF HandlerInv
  <2>3. CASE x = r
    <3>1. req'[x].pc = w /\ req'[x].dead = req[x].dead /\ req'[x].tok = req[x].tok
      BY <1>1, <2>3 DEF Req
    <3> QED
      BY <2>1, <3>1, HandlerStable DEF HandlerInv
  <2> QED
    BY <2>2, <2>3
<1> QED
  BY <1>2, <1>3
  DEF IInv, DataOK, TableInv, HandlerInv, DeadStaysDead, RefreshOwner,
      DoomedReachable, PasswordChangeEndsOthers

\* Rotation: the row leaves its token behind for good and takes a fresh one.
LEMMA RotateStep ==
    ASSUME IInv, NEW r \in Requests, NEW t \in Tokens, RefreshRotate(r, t)
    PROVE  IInv'
<1> DEFINE sid == req[r].sid
           old == req[r].tok
<1>1. /\ sid \in SessionIds
      /\ sessions[sid].state = "live" /\ sessions[sid].token = old
  BY DEF RefreshRotate, RotateMatches, IInv, RefreshOwner
<1>2. old \in used /\ old \in Tokens /\ t \notin used /\ t # old
  BY <1>1 DEF RefreshRotate, IInv, TokensDrawn, DataOK
<1>3. /\ sessions \in [SessionIds -> Session]
      /\ sessions' = [sessions EXCEPT ![sid] = [@ EXCEPT !.token = t, !.ttl = RefreshTTL]]
  BY DEF RefreshRotate, Rotate, IInv, DataOK
<1>4. /\ sessions'[sid].state = "live" /\ sessions'[sid].token = t
      /\ sessions'[sid].user = sessions[sid].user
      /\ \A s \in SessionIds : s # sid => sessions'[s] = sessions[s]
  BY <1>1, <1>3 DEF Session
<1>5. sessions' \in [SessionIds -> Session]
  <2>1. RefreshTTL \in -1..RefreshTTL
    BY TTLAssumption
  <2>2. [sessions[sid] EXCEPT !.token = t, !.ttl = RefreshTTL] \in Session
    BY <1>1, <1>3, <2>1 DEF Session
  <2> QED
    BY <1>3, <2>2
<1>6. jwt' \in [Tokens -> Jwt] /\ \A x \in Tokens : x # t => jwt'[x] = jwt[x]
  <2>1. [user |-> req[r].user, ttl |-> TokenTTL] \in Jwt
    BY TTLAssumption DEF IInv, DataOK, Req, Jwt
  <2> QED
    BY <2>1 DEF IInv, DataOK, RefreshRotate, issueToken
<1>7. used' = used \union {t} /\ redeemed' = redeemed \union {<<old, t>>}
  BY DEF RefreshRotate
<1>8. RowsMoveForward
  BY <1>1, <1>2, <1>4, <1>7 DEF RowsMoveForward
<1>9. TableInv'
  <2>1. TokensDrawn'
    BY <1>4, <1>6, <1>7 DEF IInv, TokensDrawn
  <2>2. TokensUnique'
    BY <1>1, <1>2, <1>4 DEF IInv, TokensUnique, TokensDrawn
  <2>3. RedeemedGone'
    <3> SUFFICES ASSUME NEW p \in redeemed'
                 PROVE  /\ p[1] \in used'
                        /\ \A s \in SessionIds :
                             sessions'[s].state # "none" => sessions'[s].token # p[1]
      BY DEF RedeemedGone
    <3>1. CASE p \in redeemed
      BY <3>1, <1>2, <1>4, <1>7 DEF IInv, RedeemedGone
    <3>2. CASE p = <<old, t>>
      BY <3>2, <1>1, <1>2, <1>4, <1>7 DEF IInv, TokensUnique
    <3> QED
      BY <3>1, <3>2, <1>7
  <2>4. SingleRedemption'
    <3>1. \A p \in redeemed : p[1] # old
      BY <1>1 DEF IInv, RedeemedGone
    <3> QED
      BY <3>1, <1>7 DEF IInv, SingleRedemption
  <2>5. used' \in SUBSET Tokens /\ redeemed' \in SUBSET (Tokens \X Tokens)
    BY <1>2, <1>7 DEF IInv, DataOK
  <2>6. users' \in [Users -> User]
    BY DEF RefreshRotate, IInv, DataOK
  <2> QED
    BY <2>1, <2>2, <2>3, <2>4, <2>5, <2>6, <1>5, <1>6 DEF TableInv
<1>10. req' = [req EXCEPT ![r].pc = "refreshed"] /\ "refreshed" \in PCs
  BY DEF RefreshRotate, Goto, PCs
<1> QED
  BY <1>8, <1>9, <1>10, TableStep

\* Login: a new row with a fresh token.
LEMMA CreateStep ==
    ASSUME IInv, NEW r \in Requests, NEW sid \in SessionIds, NEW t \in Tokens,
           LoginCreate(r, sid, t)
    PROVE  IInv'
<1> DEFINE row == [state |-> "live", user |-> req[r].user, token |-> t, ttl |-> RefreshTTL]
<1>1. t \notin used /\ sessions[sid].state = "none"
  BY DEF LoginCreate
<1>2. row \in Session
  <2>1. RefreshTTL \in -1..RefreshTTL
    BY TTLAssumption
  <2>2. req[r].user \in Users \union {None}
    BY DEF IInv, DataOK, Req
  <2> QED
    BY <2>1, <2>2 DEF Session
<1>3. /\ sessions \in [SessionIds -> Session]
      /\ sessions' = [sessions EXCEPT ![sid] = row]
  BY DEF LoginCreate, Create, IInv, DataOK
<1>4. /\ sessions' \in [SessionIds -> Session]
      /\ sessions'[sid].state = "live" /\ sessions'[sid].token = t
      /\ \A s \in SessionIds : s # sid => sessions'[s] = sessions[s]
  BY <1>2, <1>3
<1>5. jwt' \in [Tokens -> Jwt] /\ \A x \in Tokens : x # t => jwt'[x] = jwt[x]
  <2>1. [user |-> req[r].user, ttl |-> TokenTTL] \in Jwt
    BY TTLAssumption DEF IInv, DataOK, Req, Jwt
  <2> QED
    BY <2>1 DEF IInv, DataOK, LoginCreate, issueToken
<1>6. used' = used \union {t} /\ redeemed' = redeemed
  BY DEF LoginCreate
<1>7. RowsMoveForward
  BY <1>1, <1>4, <1>6 DEF RowsMoveForward
<1>8. TableInv'
  <2>1. TokensDrawn'
    BY <1>4, <1>5, <1>6 DEF IInv, TokensDrawn
  <2>2. TokensUnique'
    BY <1>1, <1>4 DEF IInv, TokensUnique, TokensDrawn
  <2>3. RedeemedGone'
    BY <1>1, <1>4, <1>6 DEF IInv, RedeemedGone
  <2>4. SingleRedemption'
    BY <1>6 DEF IInv, SingleRedemption
  <2>5. /\ used' \in SUBSET Tokens /\ redeemed' \in SUBSET (Tokens \X Tokens)
        /\ users' \in [Users -> User]
    BY <1>6 DEF LoginCreate, IInv, DataOK
  <2> QED
    BY <2>1, <2>2, <2>3, <2>4, <2>5, <1>4, <1>5 DEF TableInv
<1>9. req' = [req EXCEPT ![r].pc = "loggedIn"] /\ "loggedIn" \in PCs
  BY DEF LoginCreate, Goto, PCs
<1> QED
  BY <1>7, <1>8, <1>9, TableStep

\* Revocation: live rows become revoked and nothing else changes in them.
RowsOnlyRevoked ==
    sessions' \in [SessionIds -> Session] /\
    \A s \in SessionIds :
        \/ sessions'[s] = sessions[s]
        \/ /\ sessions[s].state = "live"
           /\ sessions'[s] = RevokeRow(sessions[s])

\* What a revocation does to the tables keeps their part of the invariant.
LEMMA RevokeTables ==
    ASSUME IInv, RowsOnlyRevoked, UNCHANGED <<users, jwt, used, redeemed>>
    PROVE  RowsMoveForward /\ TableInv'
<1>1. \A s \in SessionIds :
        /\ sessions'[s].user = sessions[s].user /\ sessions'[s].token = sessions[s].token
        /\ \/ sessions'[s].state = sessions[s].state
           \/ sessions[s].state = "live" /\ sessions'[s].state = "revoked"
  <2> TAKE s \in SessionIds
  <2>1. sessions[s] \in Session
    BY DEF IInv, DataOK
  <2>2. /\ RevokeRow(sessions[s]).user = sessions[s].user
        /\ RevokeRow(sessions[s]).token = sessions[s].token
        /\ RevokeRow(sessions[s]).state = "revoked"
    BY <2>1 DEF RevokeRow, Session
  <2> QED
    BY <2>2 DEF RowsOnlyRevoked
<1>2. RowsMoveForward
  BY <1>1 DEF RowsMoveForward
<1>3. TableInv'
  BY <1>1 DEF RowsOnlyRevoked, TableInv, IInv, DataOK, TokensDrawn, TokensUnique, RedeemedGone,
     SingleRedemption
<1> QED
  BY <1>2, <1>3

\* Revoking keeps a row a row.
LEMMA RevokeRowTyped ==
    ASSUME NEW row \in Session
    PROVE  RevokeRow(row) \in Session
  BY DEF Session, RevokeRow

\* RevokeSession, one row.
LEMMA RevokeOneStep ==
    ASSUME IInv, NEW r \in Requests, RevokeSession(r)
    PROVE  IInv'
<1>1. RowsOnlyRevoked
  <2>1. /\ sessions \in [SessionIds -> Session]
        /\ sessions' = [sessions EXCEPT ![req[r].sid] = RevokeRow(@)]
        /\ sessions[req[r].sid].state = "live"
    BY DEF RevokeSession, Revoke, RevokeMatches, IInv, DataOK
  <2> QED
    BY <2>1, RevokeRowTyped DEF RowsOnlyRevoked
<1>2. RowsMoveForward /\ TableInv'
  BY <1>1, RevokeTables DEF RevokeSession
<1>3. req' = [req EXCEPT ![r].pc = "revoked"] /\ "revoked" \in PCs
  BY DEF RevokeSession, Goto, PCs
<1> QED
  BY <1>2, <1>3, TableStep

\* RevokeOtherUserSessions: afterwards every doomed session is revoked.
LEMMA RevokeOthersStep ==
    ASSUME IInv, NEW r \in Requests, RevokeOtherUserSessions(r)
    PROVE  IInv'
<1>1. /\ sessions \in [SessionIds -> Session] /\ req \in [Requests -> Req]
      /\ sessions' = [s \in SessionIds |->
           IF sessions[s].state = "live" /\ sessions[s].user = req[r].user /\ s # req[r].sid
           THEN RevokeRow(sessions[s]) ELSE sessions[s]]
  BY DEF RevokeOtherUserSessions, RevokeByUserExcept, IInv, DataOK
<1>2. RowsOnlyRevoked
  BY <1>1, RevokeRowTyped DEF RowsOnlyRevoked
<1>3. RowsMoveForward /\ TableInv'
  BY <1>2, RevokeTables DEF RevokeOtherUserSessions
<1>4. req' = [req EXCEPT ![r].pc = "changed"]
  BY DEF RevokeOtherUserSessions, Goto
<1>5. req' \in [Requests -> Req]
  BY <1>1, <1>4 DEF Req, PCs
<1>6. \A x \in Requests : HandlerInv(req[x])'
  <2> TAKE x \in Requests
  <2>1. req[x] \in Req /\ HandlerInv(req[x])
    BY HandlerAt
  <2>2. CASE x # r
    <3>1. req'[x] = req[x]
      BY <1>1, <1>4, <2>2
    <3> QED
      BY <2>1, <3>1, <1>3, HandlerStable DEF HandlerInv
  <2>3. CASE x = r
    <3>1. /\ req'[x].pc = "changed" /\ req'[x].dead = req[x].dead
          /\ req'[x].tok = req[x].tok /\ req'[x].doomed = req[x].doomed
      BY <1>1, <1>4, <2>3 DEF Req
    <3>2. \A s \in req[r].doomed : s \in SessionIds /\ sessions'[s].state = "revoked"
      <4> TAKE s \in req[r].doomed
      <4>1. /\ s \in SessionIds /\ sessions[s].state \in {"live", "revoked"}
            /\ sessions[s].user = req[r].user /\ s # req[r].sid
        BY <1>1, <2>1, <2>3 DEF HandlerInv, Req, Session, RevokeOtherUserSessions
      <4>2. RevokeRow(sessions[s]).state = "revoked"
        BY <4>1, <1>1 DEF RevokeRow, Session
      <4> QED
        BY <4>1, <4>2, <1>1
    <3> QED
      BY <2>1, <2>3, <3>1, <3>2, <1>3, HandlerStable DEF HandlerInv
  <2> QED
    BY <2>2, <2>3
<1> QED
  BY <1>3, <1>5, <1>6
  DEF IInv, DataOK, TableInv, HandlerInv, DeadStaysDead, RefreshOwner,
      DoomedReachable, PasswordChangeEndsOthers

\* RevokeAllUserSessions, run by a handler that was idle.
LEMMA RevokeAllStep ==
    ASSUME IInv, NEW r \in Requests, NEW u \in Users, RevokeAllUserSessions(r, u)
    PROVE  IInv'
<1> DEFINE q == [pc |-> "revoked", user |-> u, tok |-> None, sid |-> None, pw |-> 0,
                 dead |-> FALSE, doomed |-> {}]
<1>1. /\ sessions \in [SessionIds -> Session] /\ req \in [Requests -> Req]
      /\ sessions' = [s \in SessionIds |->
           IF sessions[s].state = "live" /\ sessions[s].user = u
           THEN RevokeRow(sessions[s]) ELSE sessions[s]]
  BY DEF RevokeAllUserSessions, RevokeByUser, IInv, DataOK
<1>2. RowsOnlyRevoked
  BY <1>1, RevokeRowTyped DEF RowsOnlyRevoked
<1>3. RowsMoveForward /\ TableInv'
  BY <1>2, RevokeTables DEF RevokeAllUserSessions
<1>4. req' = [req EXCEPT ![r] = q]
  BY DEF RevokeAllUserSessions, Begin
<1>5. q \in Req
  BY PasswordAssumption DEF Req, PCs
<1>6. req' \in [Requests -> Req]
  BY <1>1, <1>4, <1>5
<1>7. \A x \in Requests : HandlerInv(req[x])'
  <2> TAKE x \in Requests
  <2>1. req[x] \in Req /\ HandlerInv(req[x])
    BY HandlerAt
  <2>2. CASE x # r
    <3>1. req'[x] = req[x]
      BY <1>1, <1>4, <2>2
    <3> QED
      BY <2>1, <3>1, <1>3, HandlerStable DEF HandlerInv
  <2>3. CASE x = r
    <3>1. req'[x].pc = "revoked" /\ ~req'[x].dead
      BY <1>1, <1>4, <2>3
    <3> QED
      BY <3>1 DEF HandlerInv
  <2> QED
    BY <2>2, <2>3
<1> QED
  BY <1>3, <1>6, <1>7
  DEF IInv, DataOK, TableInv, HandlerInv, DeadStaysDead, RefreshOwner,
      DoomedReachable, PasswordChangeEndsOthers

\* The passage of time shortens lifetimes only.
LEMMA TickStep ==
    ASSUME IInv, Tick
    PROVE  IInv'
<1>1. /\ sessions \in [SessionIds -> Session] /\ jwt \in [Tokens -> Jwt]
      /\ req' = req /\ users' = users /\ used' = used /\ redeemed' = redeemed
  BY DEF Tick, IInv, DataOK
<1>2. jwt' \in [Tokens -> Jwt] /\ \A t \in Tokens : jwt'[t].ttl > 0 => jwt[t].ttl > 0
  <2> SUFFICES ASSUME NEW t \in Tokens
               PROVE  /\ [jwt[t] EXCEPT !.ttl = IF @ = 0 THEN 0 ELSE @ - 1] \in Jwt
                      /\ [jwt[t] EXCEPT !.ttl = IF @ = 0 THEN 0 ELSE @ - 1].ttl > 0
                           => jwt[t].ttl > 0
    BY DEF Tick
  <2>1. jwt[t] \in Jwt
    BY <1>1
  <2> QED
    BY <2>1, TTLAssumption DEF Jwt
<1>3. /\ sessions' \in [SessionIds -> Session]
      /\ \A s \in SessionIds : /\ sessions'[s].state = sessions[s].state
                               /\ sessions'[s].user = sessions[s].user
                               /\ sessions'[s].token = sessions[s].token
  <2> SUFFICES ASSUME NEW s \in SessionIds
               PROVE  LET row == [sessions[s] EXCEPT !.ttl = IF @ = -1 THEN -1 ELSE @ - 1]
                      IN  /\ row \in Session
                          /\ row.state = sessions[s].state
                          /\ row.user = sessions[s].user
                          /\ row.token = sessions[s].token
    BY DEF Tick
  <2>1. sessions[s] \in Session
    BY <1>1
  <2> QED
    BY <2>1, TTLAssumption DEF Session
<1>4. DataOK'
  BY <1>1, <1>2, <1>3 DEF IInv, DataOK
<1>5. /\ TokensDrawn' /\ TokensUnique' /\ RedeemedGone' /\ SingleRedemption'
  BY <1>1, <1>2, <1>3 DEF IInv, TokensDrawn, TokensUnique, RedeemedGone, SingleRedemption
<1>6. DeadStaysDead'
  BY <1>1, <1>3 DEF IInv, DeadStaysDead, Dead
<1>7. RefreshOwner'
  BY <1>1, <1>3 DEF IInv, RefreshOwner
<1>8. DoomedReachable' /\ PasswordChangeEndsOthers'
  <2>1. \A r \in Requests : req[r].doomed \subseteq SessionIds
    BY DEF IInv, DataOK, Req
  <2> QED
    BY <2>1, <1>1, <1>3 DEF IInv, DoomedReachable, PasswordChangeEndsOthers
<1> QED
  BY <1>4, <1>5, <1>6, <1>7, <1>8 DEF IInv

-----------------------------------------------------------------------------
(* The inductive step and the theorems.                                    *)

\* Every step of every handler, and of time, preserves the invariant.
LEMMA NextInv == IInv /\ [Next]_vars => IInv'
<1> SUFFICES ASSUME IInv, [Next]_vars PROVE IInv'
  OBVIOUS
<1> USE PasswordAssumption
<1>1. CASE UNCHANGED vars
  BY <1>1 DEF vars, IInv, DataOK, TokensDrawn, TokensUnique, RedeemedGone,
       SingleRedemption, DeadStaysDead, Dead, RefreshOwner, DoomedReachable,
       PasswordChangeEndsOthers
<1>2. CASE Tick
  BY <1>2, TickStep
<1>3. ASSUME NEW u \in Users,
             \/ \E b \in BOOLEAN : SetActive(u, b)
             \/ ResetPassword(u)
             \/ DeleteUser(u)
      PROVE  IInv'
  <2>1. users \in [Users -> User]
    BY DEF IInv, DataOK
  <2>2. ASSUME NEW b \in BOOLEAN, SetActive(u, b) PROVE users' \in [Users -> User]
    BY <2>1, <2>2 DEF SetActive, User
  <2>3. ASSUME DeleteUser(u) PROVE users' \in [Users -> User]
    BY <2>1, <2>3 DEF DeleteUser, User
  <2>4. ASSUME ResetPassword(u) PROVE users' \in [Users -> User]
    <3>1. users[u] \in User /\ users[u].pw + 1 \in 0..MaxPassword
      BY <2>1, <2>4 DEF ResetPassword, User
    <3> DEFINE v == [users[u] EXCEPT !.pw = users[u].pw + 1, !.mustChange = TRUE]
    <3>2. v \in User
      BY <3>1 DEF User
    <3>3. users' = [users EXCEPT ![u] = v]
      BY <2>4 DEF ResetPassword
    <3> HIDE DEF v
    <3> QED
      BY <2>1, <3>2, <3>3
  <2>5. users' \in [Users -> User] /\ UNCHANGED <<sessions, jwt, used, req, redeemed>>
    BY <1>3, <2>2, <2>3, <2>4 DEF SetActive, ResetPassword, DeleteUser
  <2> QED
    BY <2>5 DEF IInv, DataOK, TokensDrawn, TokensUnique, RedeemedGone,
         SingleRedemption, DeadStaysDead, Dead, RefreshOwner, DoomedReachable,
         PasswordChangeEndsOthers
<1>4. ASSUME NEW r \in Requests, Abort(r) PROVE IInv'
  <2>1. Idle \in Req /\ Idle.pc = "idle" /\ ~Idle.dead
    BY DEF Idle, Req, PCs
  <2>2. HandlerInv(Idle)
    BY <2>1 DEF HandlerInv
  <2> QED
    BY <1>4, <2>1, <2>2, LocalStep DEF Abort, IInv, DataOK
<1>5. ASSUME NEW r \in Requests, NEW t \in Tokens,
             AuthParse(r, t) \/ RefreshLookup(r, t) \/ RefreshRotate(r, t)
      PROVE  IInv'
  BY <1>5, AuthParseStep, RefreshReadStep, RotateStep
<1>6. ASSUME NEW r \in Requests, NEW t \in Tokens, NEW s \in SessionIds,
             LoginCreate(r, s, t)
      PROVE  IInv'
  BY <1>6, CreateStep
<1>7. ASSUME NEW r \in Requests,
             \/ AuthHitSession(r) \/ AuthGetSession(r) \/ AuthTouch(r)
             \/ RefreshGetUser(r)
             \/ RevokeSession(r) \/ SwapPassword(r) \/ RevokeOtherUserSessions(r)
      PROVE  IInv'
  BY <1>7, AuthSessionStep, AuthTouchStep, RefreshReadStep, RevokeOneStep, SwapStep,
     RevokeOthersStep
<1>8. ASSUME NEW r \in Requests, AuthGetUser(r) PROVE IInv'
  <2>1. "auSession" \in PCs
    BY DEF PCs
  <2> QED
    BY <1>8, <2>1, MoveStep DEF AuthGetUser, IInv, DataOK
<1>9. ASSUME NEW r \in Requests, NEW u \in Users, NEW s \in SessionIds \union {None},
             ChangePasswordCheck(r, u, s)
      PROVE  IInv'
  <2>1. users[u].pw \in 0..MaxPassword
    BY DEF IInv, DataOK, User
  <2>2. "pwSwap" \in PCs
    BY DEF PCs
  <2> QED
    BY <1>9, <2>1, <2>2, BeginStep DEF ChangePasswordCheck
<1>10. ASSUME NEW r \in Requests, NEW u \in Users, NEW s \in SessionIds \union {None},
              AccountSetupCheck(r, u, s) \/ RevokeLookup(r, u, s)
       PROVE  IInv'
  <2>1. PICK w \in {"suSwap", "rvRevoke"} : Begin(r, w, u, None, s, 0, FALSE)
    BY <1>10 DEF AccountSetupCheck, RevokeLookup
  <2>2. w \in PCs /\ 0 \in 0..MaxPassword
    BY DEF PCs
  <2> QED
    BY <1>10, <2>1, <2>2, BeginStep DEF AccountSetupCheck, RevokeLookup
<1>11. ASSUME NEW r \in Requests, NEW u \in Users,
              LoginCheck(r, u) \/ RevokeAllUserSessions(r, u)
       PROVE  IInv'
  <2>1. "lgCreate" \in PCs /\ 0 \in 0..MaxPassword
    BY DEF PCs
  <2> QED
    BY <1>11, <2>1, BeginStep, RevokeAllStep DEF LoginCheck
<1> QED
  BY <1>1, <1>2, <1>3, <1>4, <1>5, <1>6, <1>7, <1>8, <1>9, <1>10, <1>11 DEF Next

\* The inductive invariant holds in every reachable state.
THEOREM Invariance == Spec => []IInv
  BY InitInv, NextInv, PTL DEF Spec

\* No refresh token is redeemed twice, for any number of concurrent handlers.
THEOREM RefreshRedeemedOnce == Spec => []SingleRedemption
<1>1. IInv => SingleRedemption
  BY DEF IInv
<1> QED
  BY <1>1, Invariance, PTL

\* A token revoked or rotated away before a request arrives never
\* authenticates it, cached or not.
THEOREM RevocationEffective == Spec => []DeadTokenRejected
<1>1. IInv => DeadTokenRejected
  BY DEF IInv, DeadStaysDead, DeadTokenRejected
<1> QED
  BY <1>1, Invariance, PTL

\* A reported password change has ended the other sessions it found.
THEOREM PasswordChangeEffective == Spec => []PasswordChangeEndsOthers
<1>1. IInv => PasswordChangeEndsOthers
  BY DEF IInv
<1> QED
  BY <1>1, Invariance, PTL

\* A revoked session is never revived, rotated or extended.
THEOREM RevocationFinal == Spec => RevokedIsFinal
<1> DEFINE Final == \A s \in SessionIds : sessions[s].state = "revoked" =>
                      /\ sessions'[s].state = "revoked"
                      /\ sessions'[s].token = sessions[s].token
                      /\ sessions'[s].ttl <= sessions[s].ttl
<1>1. IInv /\ [Next]_vars => [Final]_vars
  <2> SUFFICES ASSUME IInv, Next, NEW s \in SessionIds, sessions[s].state = "revoked"
               PROVE  /\ sessions'[s].state = "revoked"
                      /\ sessions'[s].token = sessions[s].token
                      /\ sessions'[s].ttl <= sessions[s].ttl
    OBVIOUS
  <2>0. sessions \in [SessionIds -> Session] /\ sessions[s] \in Session
        /\ sessions[s].ttl \in Int
    BY TTLAssumption DEF IInv, DataOK, Session
  <2>1. CASE Tick
    BY <2>0, <2>1 DEF Tick, Session
  <2>2. ASSUME NEW r \in Requests, NEW t \in Tokens, RefreshRotate(r, t)
        PROVE  sessions'[s] = sessions[s]
    BY <2>0, <2>2 DEF RefreshRotate, RotateMatches, Rotate
  <2>3. ASSUME NEW r \in Requests, NEW x \in SessionIds, NEW t \in Tokens, LoginCreate(r, x, t)
        PROVE  sessions'[s] = sessions[s]
    BY <2>0, <2>3 DEF LoginCreate, Create
  <2>4. ASSUME NEW r \in Requests,
               \/ RevokeSession(r) \/ RevokeOtherUserSessions(r)
               \/ \E u \in Users : RevokeAllUserSessions(r, u)
        PROVE  sessions'[s] = sessions[s]
    BY <2>0, <2>4
    DEF RevokeSession, Revoke, RevokeMatches, RevokeOtherUserSessions, RevokeByUserExcept,
        RevokeAllUserSessions, RevokeByUser
  <2>5. Tick \/ sessions'[s] = sessions[s]
    BY <2>2, <2>3, <2>4
    DEF Next, SetActive, ResetPassword, DeleteUser, Abort, AuthParse, RefreshLookup,
        AuthHitSession, AuthGetUser, AuthGetSession, AuthTouch, RefreshGetUser,
        SwapPassword, ChangePasswordCheck, AccountSetupCheck, RevokeLookup, LoginCheck
  <2> QED
    BY <2>0, <2>1, <2>5
<1> QED
  BY <1>1, Invariance, PTL DEF Spec, RevokedIsFinal

-----------------------------------------------------------------------------
(* Requests that arrive for a user who is out.  This needs only the types  *)
(* of the data beside its own invariant.                                   *)

BarredInv == barred \in SUBSET Requests /\ BarredOut

\* A step that reactivates nobody and moves no barred handler past a check
\* keeps the barred handlers out.
LEMMA BarredKept ==
    ASSUME BarredInv, barred' \subseteq barred,
           \A u \in Users : MayEnter(u)' => MayEnter(u),
           \A r \in barred' : /\ req'[r].user = req[r].user
                              /\ \/ req'[r].pc = req[r].pc
                                 \/ req'[r].pc \in {"accepted", "revoked", "pwRevoke", "changed"}
    PROVE  BarredInv'
  BY DEF BarredInv, BarredOut

\* The check of the user stops a barred handler.
LEMMA BarredStopped ==
    ASSUME BarredInv, NEW r \in Requests,
           req[r].pc \in {"auSession", "rfRotate", "lgCreate"} \/ MayEnter(req[r].user)
    PROVE  r \notin barred
  BY DEF BarredInv, BarredOut

\* A handler that begins is barred exactly when its user is out.
LEMMA BarredBegin ==
    ASSUME DataOK, BarredInv, NEW r \in Requests, NEW w, NEW u, NEW t, NEW s,
           NEW p, NEW d, Begin(r, w, u, t, s, p, d), UNCHANGED users,
           \/ w \notin {"auSession", "auTouch", "rfRotate", "refreshed",
                        "lgCreate", "loggedIn"}
           \/ MayEnter(u)
    PROVE  BarredInv'
<1>1. /\ req'[r].pc = w /\ req'[r].user = u
      /\ \A x \in Requests : x # r => req'[x] = req[x]
  BY DEF Begin, DataOK
<1>2. \A v : MayEnter(v)' <=> MayEnter(v)
  BY DEF MayEnter
<1>3. barred' = IF u \in Users /\ ~MayEnter(u) THEN barred \union {r} ELSE barred \ {r}
  BY DEF Begin
<1> QED
  BY <1>1, <1>2, <1>3 DEF BarredInv, BarredOut

\* Every step keeps the barred handlers out.
LEMMA BarredNext == DataOK /\ BarredInv /\ [Next]_vars => BarredInv'
<1> SUFFICES ASSUME DataOK, BarredInv, [Next]_vars PROVE BarredInv'
  OBVIOUS
<1>0. req \in [Requests -> Req] /\ users \in [Users -> User]
  BY DEF DataOK
<1>1. CASE UNCHANGED vars
  BY <1>1 DEF vars, BarredInv, BarredOut, MayEnter
<1>2. CASE Tick
  BY <1>2, BarredKept DEF Tick, MayEnter
<1>3. ASSUME NEW u \in Users, NEW b \in BOOLEAN, SetActive(u, b) PROVE BarredInv'
  <2>1. \A v \in Users : v # u \/ ~b => (MayEnter(v)' => MayEnter(v))
    BY <1>0, <1>3 DEF SetActive, MayEnter, User
  <2>2. req' = req /\ barred' = {r \in barred : ~b \/ req[r].user # u}
    BY <1>3 DEF SetActive
  <2> QED
    BY <2>1, <2>2 DEF BarredInv, BarredOut
<1>4. ASSUME NEW u \in Users, ResetPassword(u) \/ DeleteUser(u) PROVE BarredInv'
  <2>1. \A v \in Users : MayEnter(v)' => MayEnter(v)
    <3>1. CASE ResetPassword(u)
      BY <1>0, <3>1 DEF ResetPassword, MayEnter, User
    <3>2. CASE DeleteUser(u)
      BY <1>0, <3>2 DEF DeleteUser, MayEnter, User
    <3> QED
      BY <1>4, <3>1, <3>2
  <2> QED
    BY <1>4, <2>1, BarredKept DEF ResetPassword, DeleteUser
<1>5. ASSUME NEW r \in Requests, Abort(r) PROVE BarredInv'
  <2>1. \A x \in barred' : x # r /\ req'[x] = req[x]
    BY <1>0, <1>5 DEF Abort, BarredInv
  <2> QED
    BY <1>5, <2>1, BarredKept DEF Abort, MayEnter
<1>6. ASSUME NEW r \in Requests, AuthHitSession(r) \/ AuthGetSession(r) PROVE BarredInv'
  <2>1. PICK w \in {"accepted", "auTouch"}, s \in SessionIds :
          /\ req' = [req EXCEPT ![r] = [@ EXCEPT !.pc = w, !.sid = s]]
          /\ w = "accepted" \/ req[r].pc = "auSession"
    BY <1>6 DEF AuthHitSession, AuthGetSession, RowsWithToken
  <2>2. /\ \A x \in Requests : req'[x].user = req[x].user
        /\ \A x \in Requests : x # r => req'[x].pc = req[x].pc
        /\ req'[r].pc = w
    BY <1>0, <2>1 DEF Req
  <2>3. r \in barred => w = "accepted"
    BY <2>1, BarredStopped
  <2> QED
    BY <1>6, <2>2, <2>3, BarredKept DEF AuthHitSession, AuthGetSession, BarredInv, MayEnter
<1>7. ASSUME NEW r \in Requests, NEW w, Goto(r, w),
             \A u \in Users : MayEnter(u)' => MayEnter(u),
             w \in {"accepted", "revoked", "changed"} \/ r \notin barred
      PROVE  BarredInv'
  <2>1. /\ \A x \in Requests : req'[x].user = req[x].user
        /\ \A x \in Requests : x # r => req'[x].pc = req[x].pc
        /\ req'[r].pc = w
    BY <1>0, <1>7 DEF Goto, Req
  <2> QED
    BY <1>7, <2>1, BarredKept DEF Goto, BarredInv
<1>8. ASSUME NEW r \in Requests, AuthGetUser(r) \/ RefreshGetUser(r) PROVE BarredInv'
  <2>1. r \notin barred
    BY <1>8, BarredStopped DEF AuthGetUser, RefreshGetUser
  <2> QED
    BY <1>7, <1>8, <2>1 DEF AuthGetUser, RefreshGetUser, MayEnter
<1>9. ASSUME NEW r \in Requests, NEW t \in Tokens,
             RefreshRotate(r, t) \/ \E s \in SessionIds : LoginCreate(r, s, t)
      PROVE  BarredInv'
  <2>1. r \notin barred
    BY <1>9, BarredStopped DEF RefreshRotate, LoginCreate
  <2> QED
    BY <1>7, <1>9, <2>1 DEF RefreshRotate, LoginCreate, MayEnter
<1>10. ASSUME NEW r \in Requests,
              AuthTouch(r) \/ RevokeSession(r) \/ RevokeOtherUserSessions(r)
       PROVE  BarredInv'
  BY <1>7, <1>10 DEF AuthTouch, RevokeSession, RevokeOtherUserSessions, MayEnter
<1>11. ASSUME NEW r \in Requests, SwapPassword(r) PROVE BarredInv'
  <2>1. /\ \A x \in Requests : req'[x].user = req[x].user
        /\ \A x \in Requests : x # r => req'[x].pc = req[x].pc
        /\ req'[r].pc = "pwRevoke"
    BY <1>0, <1>11 DEF SwapPassword, Req
  <2>2. \A u \in Users : MayEnter(u)' => MayEnter(u)
    BY <1>0, <1>11 DEF SwapPassword, MayEnter, User
  <2> QED
    BY <1>11, <2>1, <2>2, BarredKept DEF SwapPassword, BarredInv
<1>12. ASSUME NEW r \in Requests, NEW t \in Tokens, AuthParse(r, t) PROVE BarredInv'
  <2>1. PICK w \in {"auHit", "auUser"} : Begin(r, w, jwt[t].user, t, None, 0, Dead(t))
    BY <1>12 DEF AuthParse
  <2> QED
    BY <1>12, <2>1, BarredBegin DEF AuthParse
<1>13. ASSUME NEW r \in Requests, NEW t \in Tokens, RefreshLookup(r, t) PROVE BarredInv'
  <2>1. PICK s \in SessionIds : Begin(r, "rfUser", sessions[s].user, t, s, 0, FALSE)
    BY <1>13 DEF RefreshLookup, RowsWithToken
  <2> QED
    BY <1>13, <2>1, BarredBegin DEF RefreshLookup
<1>14. ASSUME NEW r \in Requests, NEW u \in Users, LoginCheck(r, u) PROVE BarredInv'
  BY <1>14, BarredBegin DEF LoginCheck
<1>15. ASSUME NEW r \in Requests, NEW u \in Users, RevokeAllUserSessions(r, u)
       PROVE  BarredInv'
  BY <1>15, BarredBegin DEF RevokeAllUserSessions
<1>16. ASSUME NEW r \in Requests, NEW u \in Users, NEW s \in SessionIds \union {None},
              \/ ChangePasswordCheck(r, u, s)
              \/ AccountSetupCheck(r, u, s)
              \/ RevokeLookup(r, u, s)
       PROVE  BarredInv'
  BY <1>16, BarredBegin DEF ChangePasswordCheck, AccountSetupCheck, RevokeLookup
<1> QED
  BY <1>1, <1>2, <1>3, <1>4, <1>5, <1>6, <1>8, <1>9, <1>10, <1>11, <1>12, <1>13,
     <1>14, <1>15, <1>16 DEF Next

\* The barred handlers stay out in every reachable state.
THEOREM BarredInvariance == Spec => []BarredInv
<1>1. Init => BarredInv
  BY DEF Init, BarredInv, BarredOut
<1>2. IInv => DataOK
  BY DEF IInv
<1> QED
  BY <1>1, <1>2, BarredNext, Invariance, PTL DEF Spec

\* Every variable keeps its type.
THEOREM TypeCorrect == Spec => []TypeOK
<1>1. IInv /\ BarredInv => TypeOK
  BY DEF IInv, BarredInv, TypeOK
<1> QED
  BY <1>1, Invariance, BarredInvariance, PTL

\* A refresh, a login or a database-branch authentication that arrives while
\* its user is deactivated or deleted gets through only if the user is
\* reactivated meanwhile.
THEOREM DeactivationEffective == Spec => []DeactivatedGetsNoToken
<1>1. BarredInv => DeactivatedGetsNoToken
  BY DEF BarredInv, BarredOut, DeactivatedGetsNoToken
<1> QED
  BY <1>1, BarredInvariance, PTL

-----------------------------------------------------------------------------
(* Tokens.                                                                 *)

\* The initial states satisfy the invariant.
LEMMA TokensInit == ASSUME T!NoneApart, T!Init PROVE T!TokensInv
  BY DEF T!NoneApart, T!Init, T!TokensInv, T!TokensTypeOK, T!RowStays, T!GlassGone,
     T!TokensHold, T!RevocationFinal, T!GlassSpent, T!At

\* What a request that starts carries.
LEMMA TokenRequests ==
    ASSUME T!NoneApart, T!TokensTypeOK
    PROVE  /\ token # None => [T!Request("touch") EXCEPT !.row = token] \in T!Handler
           /\ [T!Request("glass") EXCEPT !.late = consumed] \in T!Handler
  BY DEF T!NoneApart, T!TokensTypeOK, T!Request, T!Handler

\* Every step keeps the invariant: no write of the row of the API token takes
\* its mark of revocation back, and the check of the break-glass token fails
\* from the consumption to the restart.
LEMMA TokensNext ==
    ASSUME T!NoneApart, T!TokensInv, [T!Next]_T!vars
    PROVE  T!TokensInv'
<1> USE DEF T!NoneApart, T!TokensInv, T!TokensTypeOK, T!RowStays, T!GlassGone,
        T!TokensHold, T!RevocationFinal, T!GlassSpent, T!At, T!Start, T!End, T!history
<1>1. CASE T!CreateAPIToken
  BY <1>1 DEF T!CreateAPIToken, T!TokenRow
<1>2. CASE T!ExpireAPIToken
  BY <1>2 DEF T!ExpireAPIToken, T!TokenRow
<1>3. CASE T!Revoke
  BY <1>3 DEF T!Revoke, T!TokenRow
<1>4. ASSUME NEW r \in Requests, T!FindActiveByPrefix(r) PROVE T!TokensInv'
  <2> DEFINE q == [T!Request("touch") EXCEPT !.row = token]
  <2>1. q \in T!Handler /\ ~q.late /\ token # None
    BY <1>4, TokenRequests DEF T!FindActiveByPrefix, T!Request
  <2> QED
    BY <1>4, <2>1 DEF T!FindActiveByPrefix
<1>5. ASSUME NEW r \in Requests, T!TouchLastUsed(r) PROVE T!TokensInv'
  BY <1>5 DEF T!TouchLastUsed, T!Touched, T!TokenRow
<1>6. ASSUME NEW r \in Requests, T!ValidateBreakGlass(r) PROVE T!TokensInv'
  <2> DEFINE q == [T!Request("glass") EXCEPT !.late = consumed]
  <2>1. q \in T!Handler /\ q.late = consumed /\ q.pc = "glass"
    BY TokenRequests DEF T!Request
  <2>2. ~consumed
    BY <1>6 DEF T!ValidateBreakGlass, T!breakGlassValidToken
  <2> QED
    BY <1>6, <2>1, <2>2 DEF T!ValidateBreakGlass
<1>7. ASSUME NEW r \in Requests, T!LoginBreakGlass(r) PROVE T!TokensInv'
  BY <1>7 DEF T!LoginBreakGlass, T!Handler
<1>8. ASSUME NEW r \in Requests, T!consumeBreakGlassToken(r) PROVE T!TokensInv'
  BY <1>8 DEF T!consumeBreakGlassToken
<1>9. CASE T!ExpireBreakGlass
  BY <1>9 DEF T!ExpireBreakGlass
<1>10. CASE T!Restart
  BY <1>10 DEF T!Restart
<1>11. ASSUME NEW a \in BOOLEAN, T!SetActive(a) PROVE T!TokensInv'
  BY <1>11 DEF T!SetActive
<1>12. CASE UNCHANGED T!vars
  BY <1>12 DEF T!vars
<1> QED
  BY <1>1, <1>2, <1>3, <1>4, <1>5, <1>6, <1>7, <1>8, <1>9, <1>10, <1>11, <1>12 DEF T!Next

\* A revoked API token stays revoked, and a used break-glass token opens
\* nothing to a request that comes later, for any number of requests and
\* restarts (TouchLastUsed, validateBreakGlassRequest).
THEOREM TokensSafe == T!Spec => [](T!TokensHold /\ TokensHold)
<1>1. T!Init => T!TokensInv
  BY TokensInit, TokensAssumption
<1>2. T!TokensInv /\ [T!Next]_T!vars => T!TokensInv'
  BY TokensNext, TokensAssumption
<1>3. T!TokensInv => T!TokensHold /\ TokensHold
  BY DEF T!TokensInv, TokensHold
<1> QED
  BY <1>1, <1>2, <1>3, PTL DEF T!Spec

-----------------------------------------------------------------------------
(* Mfa.                                                                    *)

\* A TOTP code or a recovery code is a triple of its parts.
LEMMA FactorShape ==
    ASSUME NEW f \in M!Factors
    PROVE  \/ f \in M!Totps /\ f[1] = "totp" /\ f[2] \in 1..MaxBatch /\ f[3] \in 1..MaxNow
           \/ f \in M!Codes /\ f[1] = "code" /\ f \notin M!Totps
  BY DEF M!Factors, M!Totps, M!Codes

\* The recovery codes drawn together are recovery codes.
LEMMA CodesDrawn ==
    ASSUME NEW b \in 1..MaxBatch
    PROVE  M!generateRecoveryCodes(b) \in SUBSET M!Codes
  BY DEF M!generateRecoveryCodes, M!Codes

\* The records that the handlers build are of their types.
LEMMA MfaRecords ==
    ASSUME M!BoundsAssumption
    PROVE  /\ M!NoMfa \in M!Row
           /\ M!Idle \in M!Req
           /\ \A p \in M!PCs, c \in Challenges \union {None},
                 f \in M!Factors \union {M!NoFactor}, u \in M!Row :
                 [pc |-> p, ch |-> c, factor |-> f, snap |-> u] \in M!Req
<1>1. M!NoMfa \in M!Row
  BY DEF M!BoundsAssumption, M!NoMfa, M!Row
<1>2. "idle" \in M!PCs
  BY DEF M!PCs
<1> QED
  BY <1>1, <1>2 DEF M!Idle, M!Req

\* A handler that moves on, and a challenge that is marked or counted, keep
\* their types.
LEMMA MfaUpdates ==
    ASSUME M!TypeOK
    PROVE  /\ \A r \in Requests, p \in M!PCs :
                 [mReq EXCEPT ![r].pc = p] \in [Requests -> M!Req]
           /\ \A r \in Requests, q \in M!Req :
                 [mReq EXCEPT ![r] = q] \in [Requests -> M!Req]
           /\ \A c \in Challenges, s \in {"none", "open", "used"} :
                 [challenge EXCEPT ![c].state = s] \in [Challenges -> M!Challenge]
           /\ \A c \in Challenges :
                 [challenge EXCEPT ![c].attempts = @ + 1] \in [Challenges -> M!Challenge]
  BY DEF M!TypeOK, M!Req, M!Challenge

\* What a handler at its write holds.
LEMMA MfaWriter ==
    ASSUME M!BoundsAssumption, M!MfaInv, NEW r \in Requests,
           mReq[r].pc \in {"enSwap", "diSwap", "rgSwap", "cmMark", "cmWrite"}
    PROVE  /\ mReq[r].factor \in M!Factors /\ mReq[r].snap \in M!Row
           /\ mReq[r].pc = "enSwap" => mReq[r].factor[3] \in 0..MaxNow
           /\ M!LastAfter(mReq[r].snap, mReq[r].factor) \in 0..MaxNow
           /\ M!CodesAfter(mReq[r].snap, mReq[r].factor) \in SUBSET M!Codes
<1>1. mReq[r].factor \in M!Factors
  BY DEF M!MfaInv, M!SecretsApart, M!Factors
<1>2. mReq[r].snap \in M!Row
  BY DEF M!MfaInv, M!TypeOK, M!Req
<1>3. mReq[r].snap.last \in 0..MaxNow /\ mReq[r].snap.codes \in SUBSET M!Codes
  BY <1>2 DEF M!Row
<1>4. mReq[r].factor[1] = "totp" => mReq[r].factor[3] \in 0..MaxNow
  BY <1>1, FactorShape DEF M!BoundsAssumption
<1>5. mReq[r].pc = "enSwap" => mReq[r].factor[3] \in 0..MaxNow
  BY <1>1, FactorShape DEF M!BoundsAssumption, M!MfaInv, M!SecretsApart
<1> QED
  BY <1>1, <1>2, <1>3, <1>4, <1>5 DEF M!LastAfter, M!CodesAfter

\* Every step keeps the types.
LEMMA MfaTypeStep ==
    ASSUME M!BoundsAssumption, M!MfaInv, [M!Next]_M!vars
    PROVE  M!TypeOK'
<1> USE DEF M!BoundsAssumption, M!MfaInv, M!TypeOK, M!Begin, M!Goto, M!Return
<1>1. CASE M!Tick
  BY <1>1 DEF M!Tick
<1>2. CASE M!BeginTOTPSetup
  <2>1. batch + 1 \in 1..MaxBatch
    BY <1>2 DEF M!BeginTOTPSetup
  <2>2. batch + 1 \in 0..MaxBatch /\ M!generateRecoveryCodes(batch + 1) \in SUBSET M!Codes
    BY <2>1, CodesDrawn
  <2>3. mRow' \in M!Row
    BY <1>2, <2>2 DEF M!BeginTOTPSetup, M!Row
  <2> QED
    BY <1>2, <2>2, <2>3 DEF M!BeginTOTPSetup
<1>3. CASE M!ResetUserMFA
  <2>1. mRow' \in M!Row
    BY <1>3, MfaRecords DEF M!ResetUserMFA, M!Row
  <2> QED
    BY <1>3, <2>1 DEF M!ResetUserMFA
<1>4. ASSUME NEW c \in Challenges, M!ExpireChallenge(c) PROVE M!TypeOK'
  BY <1>4, MfaUpdates DEF M!ExpireChallenge, M!MarkUsed
<1>5. ASSUME NEW r \in Requests, M!Abort(r) PROVE M!TypeOK'
  BY <1>5, MfaRecords, MfaUpdates DEF M!Abort
<1>6. ASSUME NEW r \in Requests, NEW f \in M!Factors, M!EnableCheck(r, f)
      PROVE  M!TypeOK'
  <2>1. [pc |-> "enSwap", ch |-> None, factor |-> f, snap |-> mRow] \in M!Req
    BY MfaRecords DEF M!PCs
  <2> QED
    BY <1>6, <2>1, MfaUpdates DEF M!EnableCheck
<1>7. ASSUME NEW r \in Requests, NEW f \in M!Factors, M!DisableCheck(r, f)
      PROVE  M!TypeOK'
  <2>1. [pc |-> "diSwap", ch |-> None, factor |-> f, snap |-> mRow] \in M!Req
    BY MfaRecords DEF M!PCs
  <2> QED
    BY <1>7, <2>1, MfaUpdates DEF M!DisableCheck
<1>8. ASSUME NEW r \in Requests, NEW f \in M!Factors, M!RegenerateCheck(r, f)
      PROVE  M!TypeOK'
  <2>1. [pc |-> "rgSwap", ch |-> None, factor |-> f, snap |-> mRow] \in M!Req
    BY MfaRecords DEF M!PCs
  <2> QED
    BY <1>8, <2>1, MfaUpdates DEF M!RegenerateCheck
<1>9. ASSUME NEW r \in Requests, NEW c \in Challenges, NEW f \in M!Factors,
             M!CompleteLookup(r, c, f)
      PROVE  M!TypeOK'
  <2>1. /\ {"cmUser", "cmExhaust"} \subseteq M!PCs
        /\ f \in M!Factors \union {M!NoFactor} /\ M!NoFactor \in M!Factors \union {M!NoFactor}
        /\ c \in Challenges \union {None} /\ M!NoMfa \in M!Row
    BY MfaRecords DEF M!PCs
  <2>2. /\ [pc |-> "cmUser", ch |-> c, factor |-> f, snap |-> M!NoMfa] \in M!Req
        /\ [pc |-> "cmExhaust", ch |-> c, factor |-> M!NoFactor, snap |-> M!NoMfa] \in M!Req
    BY <2>1, MfaRecords
  <2>3. mReq' \in [Requests -> M!Req]
    BY <1>9, <2>2, MfaUpdates DEF M!CompleteLookup
  <2> QED
    BY <1>9, <2>3 DEF M!CompleteLookup
<1>10. ASSUME NEW r \in Requests, M!EnableTOTP(r) PROVE M!TypeOK'
  <2>1. mRow' \in M!Row
    <3>1. mReq[r].factor[3] \in 0..MaxNow /\ mReq[r].snap \in M!Row
      BY <1>10, MfaWriter DEF M!EnableTOTP
    <3> QED
      BY <1>10, <3>1 DEF M!EnableTOTP, M!Row
  <2> QED
    BY <1>10, <2>1, MfaRecords, MfaUpdates DEF M!EnableTOTP
<1>11. ASSUME NEW r \in Requests, M!DisableMFA(r) PROVE M!TypeOK'
  <2>1. mRow' \in M!Row
    BY <1>11, MfaWriter DEF M!DisableMFA, M!Row
  <2> QED
    BY <1>11, <2>1, MfaRecords, MfaUpdates DEF M!DisableMFA
<1>12. ASSUME NEW r \in Requests, M!RegenerateRecoveryCodes(r) PROVE M!TypeOK'
  <2>1. batch + 1 \in 1..MaxBatch
    BY <1>12 DEF M!RegenerateRecoveryCodes
  <2>2. mRow' \in M!Row
    BY <1>12, <2>1, MfaWriter, CodesDrawn DEF M!RegenerateRecoveryCodes, M!Row
  <2> QED
    BY <1>12, <2>1, <2>2, MfaRecords, MfaUpdates DEF M!RegenerateRecoveryCodes
<1>13. ASSUME NEW r \in Requests, M!LoginPrimary(r) PROVE M!TypeOK'
  <2>1. [pc |-> "lgInvalidate", ch |-> None, factor |-> M!NoFactor, snap |-> M!NoMfa] \in M!Req
    BY MfaRecords DEF M!PCs
  <2> QED
    BY <1>13, <2>1, MfaUpdates DEF M!LoginPrimary
<1>14. ASSUME NEW r \in Requests, M!ChallengeInvalidate(r) PROVE M!TypeOK'
  <2>1. challenge' \in [Challenges -> M!Challenge]
    BY <1>14 DEF M!ChallengeInvalidate, M!InvalidateOutstandingByUserScope, M!Challenge
  <2> QED
    BY <1>14, <2>1, MfaUpdates DEF M!ChallengeInvalidate, M!PCs
<1>15. ASSUME NEW r \in Requests, NEW c \in Challenges, M!ChallengeCreate(r, c)
       PROVE  M!TypeOK'
  BY <1>15, MfaRecords, MfaUpdates DEF M!ChallengeCreate
<1>16. ASSUME NEW r \in Requests, M!CompleteVerify(r) PROVE M!TypeOK'
  <2>1. /\ {"cmMark", "cmFail"} \subseteq M!PCs
        /\ mReq[r].factor \in M!Factors \union {M!NoFactor}
        /\ mReq[r].ch \in Challenges \union {None}
        /\ M!NoMfa \in M!Row /\ mRow \in M!Row
    BY MfaRecords DEF M!PCs, M!Req
  <2>2. /\ [pc |-> "cmMark", ch |-> mReq[r].ch, factor |-> mReq[r].factor, snap |-> mRow] \in M!Req
        /\ [pc |-> "cmFail", ch |-> mReq[r].ch, factor |-> M!NoFactor, snap |-> M!NoMfa] \in M!Req
    BY <2>1, MfaRecords
  <2>3. mReq' \in [Requests -> M!Req]
    BY <1>16, <2>2, MfaUpdates DEF M!CompleteVerify
  <2> QED
    BY <1>16, <2>3 DEF M!CompleteVerify
<1>17. ASSUME NEW r \in Requests, M!IncrementAttempts(r) PROVE M!TypeOK'
  <2>1. mReq[r].ch \in Challenges
    BY <1>17 DEF M!IncrementAttempts, M!MarkedOnce
  <2> QED
    BY <1>17, <2>1, MfaUpdates DEF M!IncrementAttempts, M!PCs
<1>18. ASSUME NEW r \in Requests, M!AttemptsRead(r) PROVE M!TypeOK'
  <2>1. \/ mReq' = [mReq EXCEPT ![r].pc = "cmExhaust"]
        \/ mReq' = [mReq EXCEPT ![r] = M!Idle]
    BY <1>18 DEF M!AttemptsRead
  <2>2. "cmExhaust" \in M!PCs /\ M!Idle \in M!Req
    BY MfaRecords DEF M!PCs
  <2>3. mReq' \in [Requests -> M!Req]
    BY <2>1, <2>2, MfaUpdates
  <2> QED
    BY <1>18, <2>3 DEF M!AttemptsRead
<1>19. ASSUME NEW r \in Requests, M!CompleteExhaust(r) PROVE M!TypeOK'
  <2>1. mReq[r].ch \in Challenges
    BY <1>19 DEF M!CompleteExhaust, M!MarkedOnce
  <2> QED
    BY <1>19, <2>1, MfaRecords, MfaUpdates DEF M!CompleteExhaust, M!MarkUsed
<1>20. ASSUME NEW r \in Requests, M!CompleteMark(r) PROVE M!TypeOK'
  <2>1. mReq[r].ch \in Challenges
    BY <1>20 DEF M!CompleteMark, M!MarkedOnce
  <2> QED
    BY <1>20, <2>1, MfaUpdates DEF M!CompleteMark, M!MarkUsed, M!PCs
<1>21. ASSUME NEW r \in Requests, M!CompleteWrite(r) PROVE M!TypeOK'
  <2>1. mRow' \in M!Row
    BY <1>21, MfaWriter DEF M!CompleteWrite, M!Row
  <2>2. mReq[r].ch \in Challenges /\ mReq[r].factor \in M!Factors
    BY <1>21, MfaWriter DEF M!CompleteWrite, M!MarkedOnce
  <2> QED
    BY <1>21, <2>1, <2>2, MfaRecords, MfaUpdates DEF M!CompleteWrite
<1>22. CASE UNCHANGED M!vars
  BY <1>22 DEF M!vars
<1> QED
  BY <1>1, <1>2, <1>3, <1>4, <1>5, <1>6, <1>7, <1>8, <1>9, <1>10, <1>11, <1>12,
     <1>13, <1>14, <1>15, <1>16, <1>17, <1>18, <1>19, <1>20, <1>21, <1>22 DEF
     M!Next

\* The parts of a TOTP code.
LEMMA TotpShape ==
    ASSUME NEW f \in M!Totps
    PROVE  f \in M!Factors /\ f[1] = "totp" /\ f[2] \in 1..MaxBatch /\ f[3] \in 1..MaxNow
  BY DEF M!Factors, M!Totps

\* The guarded write of CompleteMFA moves the window and counts the login.
LEMMA MfaWriteEffect ==
    ASSUME M!TypeOK, NEW r \in Requests, M!CompleteWrite(r), mReq[r].factor \in M!Factors
    PROVE  /\ mRow'.secret = mRow.secret /\ mRow'.pending = mRow.pending /\ batch' = batch
           /\ mRow'.last = M!LastAfter(mReq[r].snap, mReq[r].factor)
           /\ mRow.secret = mReq[r].snap.secret /\ mRow.last = mReq[r].snap.last
           /\ logins'[mReq[r].factor] = logins[mReq[r].factor] + 1
           /\ \A f \in M!Factors : f # mReq[r].factor => logins'[f] = logins[f]
<1>1. /\ mRow'.secret = mRow.secret /\ mRow'.pending = mRow.pending /\ batch' = batch
      /\ mRow'.last = M!LastAfter(mReq[r].snap, mReq[r].factor)
      /\ mRow.secret = mReq[r].snap.secret /\ mRow.last = mReq[r].snap.last
  BY DEF M!CompleteWrite, M!FactorGuard, M!TypeOK, M!Row
<1>2. /\ logins'[mReq[r].factor] = logins[mReq[r].factor] + 1
      /\ \A f \in M!Factors : f # mReq[r].factor => logins'[f] = logins[f]
  BY DEF M!CompleteWrite, M!TypeOK
<1> QED
  BY <1>1, <1>2


\* No step puts a secret to use twice, or lets a handler write an older window.
LEMMA MfaSecretsStep ==
    ASSUME M!BoundsAssumption, M!MfaInv, M!TypeOK', [M!Next]_M!vars
    PROVE  M!SecretsApart'
<1> USE DEF M!MfaInv, M!Begin, M!Goto, M!Return, M!Idle, M!BoundsAssumption,
   M!SecretsApart, M!TypeOK, M!Row, M!Req
<1>1. CASE M!Tick
  BY <1>1 DEF M!Tick
<1>2. CASE M!BeginTOTPSetup
  BY <1>2 DEF M!BeginTOTPSetup
<1>3. CASE M!ResetUserMFA
  BY <1>3 DEF M!ResetUserMFA, M!NoMfa
<1>4. ASSUME NEW c \in Challenges, M!ExpireChallenge(c) PROVE M!SecretsApart'
  BY <1>4 DEF M!ExpireChallenge, M!MarkUsed
<1>5. ASSUME NEW r \in Requests, M!Abort(r) PROVE M!SecretsApart'
  BY <1>5 DEF M!Abort
<1>6. ASSUME NEW r \in Requests, NEW f \in M!Factors, M!EnableCheck(r, f)
      PROVE  M!SecretsApart'
  <2>1. f \in M!Totps /\ f[2] = mRow.pending
    BY <1>6, FactorShape DEF M!EnableCheck, M!validateTOTP
  <2>2. /\ mReq' = [mReq EXCEPT ![r] = [pc |-> "enSwap", ch |-> None, factor |-> f, snap |-> mRow]]
        /\ UNCHANGED <<mRow, batch>>
    BY <1>6 DEF M!EnableCheck
  <2> QED
    BY <2>1, <2>2
<1>7. ASSUME NEW r \in Requests, NEW f \in M!Factors, M!DisableCheck(r, f)
      PROVE  M!SecretsApart'
  <2>1. \/ f \in M!Codes
        \/ f \in M!Totps /\ f[2] = mRow.secret /\ f[3] > mRow.last
    BY <1>7, FactorShape DEF M!DisableCheck, M!verifyMFAFactor, M!validateTOTP
  <2>2. /\ mReq' = [mReq EXCEPT ![r] = [pc |-> "diSwap", ch |-> None, factor |-> f, snap |-> mRow]]
        /\ UNCHANGED <<mRow, batch>>
    BY <1>7 DEF M!DisableCheck
  <2> QED
    BY <2>1, <2>2
<1>8. ASSUME NEW r \in Requests, NEW f \in M!Factors, M!RegenerateCheck(r, f)
      PROVE  M!SecretsApart'
  <2>1. \/ f \in M!Codes
        \/ f \in M!Totps /\ f[2] = mRow.secret /\ f[3] > mRow.last
    BY <1>8, FactorShape DEF M!RegenerateCheck, M!verifyMFAFactor, M!validateTOTP
  <2>2. /\ mReq' = [mReq EXCEPT ![r] = [pc |-> "rgSwap", ch |-> None, factor |-> f, snap |-> mRow]]
        /\ UNCHANGED <<mRow, batch>>
    BY <1>8 DEF M!RegenerateCheck
  <2> QED
    BY <2>1, <2>2
<1>9. ASSUME NEW r \in Requests, NEW c \in Challenges, NEW f \in M!Factors,
             M!CompleteLookup(r, c, f)
      PROVE  M!SecretsApart'
  BY <1>9 DEF M!CompleteLookup
<1>10. ASSUME NEW r \in Requests, M!EnableTOTP(r) PROVE M!SecretsApart'
  BY <1>10 DEF M!EnableTOTP
<1>11. ASSUME NEW r \in Requests, M!DisableMFA(r) PROVE M!SecretsApart'
  BY <1>11 DEF M!DisableMFA, M!LastAfter, M!CodesAfter
<1>12. ASSUME NEW r \in Requests, M!RegenerateRecoveryCodes(r)
       PROVE  M!SecretsApart'
  BY <1>12 DEF M!RegenerateRecoveryCodes, M!FactorGuard, M!LastAfter,
     M!generateRecoveryCodes
<1>13. ASSUME NEW r \in Requests, M!LoginPrimary(r) PROVE M!SecretsApart'
  BY <1>13 DEF M!LoginPrimary
<1>14. ASSUME NEW r \in Requests, M!ChallengeInvalidate(r)
       PROVE  M!SecretsApart'
  BY <1>14 DEF M!ChallengeInvalidate, M!InvalidateOutstandingByUserScope
<1>15. ASSUME NEW r \in Requests, NEW c \in Challenges, M!ChallengeCreate(r, c)
       PROVE  M!SecretsApart'
  BY <1>15 DEF M!ChallengeCreate
<1>16. ASSUME NEW r \in Requests, M!CompleteVerify(r) PROVE M!SecretsApart'
  <2> DEFINE f == mReq[r].factor
  <2>1. CASE M!verifyMFAFactor(mRow, f)
    <3>1. f \in M!Factors
      <4>1. M!NoFactor \notin M!Codes /\ M!NoFactor[1] = "code"
        BY DEF M!NoFactor, M!Codes
      <4>2. f \in M!Factors \union {M!NoFactor} /\ mRow.codes \subseteq M!Codes
        OBVIOUS
      <4> QED
        BY <2>1, <4>1, <4>2 DEF M!verifyMFAFactor, M!validateTOTP
    <3>2. \/ f \in M!Codes
          \/ f \in M!Totps /\ f[2] = mRow.secret /\ f[3] > mRow.last
      BY <2>1, <3>1, FactorShape DEF M!verifyMFAFactor, M!validateTOTP
    <3>3. /\ mReq' = [mReq EXCEPT ![r] =
                       [pc |-> "cmMark", ch |-> mReq[r].ch, factor |-> f, snap |-> mRow]]
          /\ UNCHANGED <<mRow, batch>>
      BY <1>16, <2>1 DEF M!CompleteVerify
    <3> QED
      BY <3>2, <3>3
  <2>2. CASE ~M!verifyMFAFactor(mRow, f)
    BY <1>16, <2>2 DEF M!CompleteVerify
  <2> QED
    BY <2>1, <2>2
<1>17. ASSUME NEW r \in Requests, M!IncrementAttempts(r) PROVE M!SecretsApart'
  BY <1>17 DEF M!IncrementAttempts
<1>18. ASSUME NEW r \in Requests, M!AttemptsRead(r) PROVE M!SecretsApart'
  BY <1>18 DEF M!AttemptsRead
<1>19. ASSUME NEW r \in Requests, M!CompleteExhaust(r) PROVE M!SecretsApart'
  BY <1>19 DEF M!CompleteExhaust, M!MarkUsed
<1>20. ASSUME NEW r \in Requests, M!CompleteMark(r) PROVE M!SecretsApart'
  BY <1>20 DEF M!CompleteMark, M!MarkUsed, M!MarkUsedMatches
<1>21. ASSUME NEW r \in Requests, M!CompleteWrite(r) PROVE M!SecretsApart'
  BY <1>21 DEF M!CompleteWrite, M!FactorGuard, M!LastAfter, M!CodesAfter
<1>22. CASE UNCHANGED M!vars
  BY <1>22 DEF M!vars
<1> QED
  BY <1>1, <1>2, <1>3, <1>4, <1>5, <1>6, <1>7, <1>8, <1>9, <1>10, <1>11, <1>12,
     <1>13, <1>14, <1>15, <1>16, <1>17, <1>18, <1>19, <1>20, <1>21, <1>22 DEF
     M!Next

\* No step forgets the window of a code that completed a login.
LEMMA MfaWindowsStep ==
    ASSUME M!BoundsAssumption, M!MfaInv, M!TypeOK', [M!Next]_M!vars
    PROVE  M!WindowsSpent'
<1> USE DEF M!MfaInv, M!Begin, M!Goto, M!Return, M!Idle, M!WindowsSpent,
   M!SecretsApart, M!TypeOK, M!Row, M!Req
<1>1. CASE M!Tick
  BY <1>1 DEF M!Tick
<1>2. CASE M!BeginTOTPSetup
  <2> SUFFICES ASSUME NEW f \in M!Totps, logins'[f] > 0
               PROVE  /\ logins'[f] = 1
                      /\ f[2] <= batch' /\ mRow'.pending # f[2]
                      /\ mRow'.secret = f[2] => mRow'.last >= f[3]
    BY DEF M!WindowsSpent
  <2>1. f[2] \in 1..MaxBatch /\ f[3] \in 1..MaxNow
    BY TotpShape
  <2> QED
    BY <1>2, <2>1 DEF M!BeginTOTPSetup
<1>3. CASE M!ResetUserMFA
  <2> SUFFICES ASSUME NEW f \in M!Totps, logins'[f] > 0
               PROVE  /\ logins'[f] = 1
                      /\ f[2] <= batch' /\ mRow'.pending # f[2]
                      /\ mRow'.secret = f[2] => mRow'.last >= f[3]
    BY DEF M!WindowsSpent
  <2>1. f[2] \in 1..MaxBatch /\ f[3] \in 1..MaxNow
    BY TotpShape
  <2> QED
    BY <1>3, <2>1 DEF M!ResetUserMFA, M!NoMfa
<1>4. ASSUME NEW c \in Challenges, M!ExpireChallenge(c) PROVE M!WindowsSpent'
  BY <1>4 DEF M!ExpireChallenge, M!MarkUsed
<1>5. ASSUME NEW r \in Requests, M!Abort(r) PROVE M!WindowsSpent'
  BY <1>5 DEF M!Abort
<1>6. ASSUME NEW r \in Requests, NEW f \in M!Factors, M!EnableCheck(r, f)
      PROVE  M!WindowsSpent'
  BY <1>6 DEF M!EnableCheck
<1>7. ASSUME NEW r \in Requests, NEW f \in M!Factors, M!DisableCheck(r, f)
      PROVE  M!WindowsSpent'
  BY <1>7 DEF M!DisableCheck
<1>8. ASSUME NEW r \in Requests, NEW f \in M!Factors, M!RegenerateCheck(r, f)
      PROVE  M!WindowsSpent'
  BY <1>8 DEF M!RegenerateCheck
<1>9. ASSUME NEW r \in Requests, NEW c \in Challenges, NEW f \in M!Factors,
             M!CompleteLookup(r, c, f)
      PROVE  M!WindowsSpent'
  BY <1>9 DEF M!CompleteLookup
<1>10. ASSUME NEW r \in Requests, M!EnableTOTP(r) PROVE M!WindowsSpent'
  <2> SUFFICES ASSUME NEW f \in M!Totps, logins'[f] > 0
               PROVE  /\ logins'[f] = 1
                      /\ f[2] <= batch' /\ mRow'.pending # f[2]
                      /\ mRow'.secret = f[2] => mRow'.last >= f[3]
    BY DEF M!WindowsSpent
  <2>1. f[2] \in 1..MaxBatch /\ f[3] \in 1..MaxNow
    BY TotpShape
  <2> QED
    BY <1>10, <2>1 DEF M!EnableTOTP
<1>11. ASSUME NEW r \in Requests, M!DisableMFA(r) PROVE M!WindowsSpent'
  <2> SUFFICES ASSUME NEW f \in M!Totps, logins'[f] > 0
               PROVE  /\ logins'[f] = 1
                      /\ f[2] <= batch' /\ mRow'.pending # f[2]
                      /\ mRow'.secret = f[2] => mRow'.last >= f[3]
    BY DEF M!WindowsSpent
  <2>1. f[2] \in 1..MaxBatch /\ f[3] \in 1..MaxNow
    BY TotpShape
  <2> QED
    BY <1>11, <2>1 DEF M!DisableMFA
<1>12. ASSUME NEW r \in Requests, M!RegenerateRecoveryCodes(r)
       PROVE  M!WindowsSpent'
  <2> SUFFICES ASSUME NEW f \in M!Totps, logins'[f] > 0
               PROVE  /\ logins'[f] = 1
                      /\ f[2] <= batch' /\ mRow'.pending # f[2]
                      /\ mRow'.secret = f[2] => mRow'.last >= f[3]
    BY DEF M!WindowsSpent
  <2>1. f[2] \in 1..MaxBatch /\ f[3] \in 1..MaxNow
    BY TotpShape
  <2>2. M!LastAfter(mReq[r].snap, mReq[r].factor) >= mRow.last
    BY <1>12, TotpShape, MfaWriter DEF M!RegenerateRecoveryCodes, M!FactorGuard, M!LastAfter,
       M!Codes
  <2>3. /\ mRow'.secret = mRow.secret /\ mRow'.pending = mRow.pending
        /\ mRow'.last = M!LastAfter(mReq[r].snap, mReq[r].factor)
        /\ logins' = logins /\ batch' = batch + 1
    BY <1>12 DEF M!RegenerateRecoveryCodes
  <2>4. mRow'.last \in 0..MaxNow /\ mRow.last \in 0..MaxNow
    OBVIOUS
  <2> QED
    BY <2>1, <2>2, <2>3, <2>4
<1>13. ASSUME NEW r \in Requests, M!LoginPrimary(r) PROVE M!WindowsSpent'
  BY <1>13 DEF M!LoginPrimary
<1>14. ASSUME NEW r \in Requests, M!ChallengeInvalidate(r)
       PROVE  M!WindowsSpent'
  BY <1>14 DEF M!ChallengeInvalidate, M!InvalidateOutstandingByUserScope
<1>15. ASSUME NEW r \in Requests, NEW c \in Challenges, M!ChallengeCreate(r, c)
       PROVE  M!WindowsSpent'
  BY <1>15 DEF M!ChallengeCreate
<1>16. ASSUME NEW r \in Requests, M!CompleteVerify(r) PROVE M!WindowsSpent'
  BY <1>16 DEF M!CompleteVerify
<1>17. ASSUME NEW r \in Requests, M!IncrementAttempts(r) PROVE M!WindowsSpent'
  BY <1>17 DEF M!IncrementAttempts
<1>18. ASSUME NEW r \in Requests, M!AttemptsRead(r) PROVE M!WindowsSpent'
  BY <1>18 DEF M!AttemptsRead
<1>19. ASSUME NEW r \in Requests, M!CompleteExhaust(r) PROVE M!WindowsSpent'
  BY <1>19 DEF M!CompleteExhaust, M!MarkUsed
<1>20. ASSUME NEW r \in Requests, M!CompleteMark(r) PROVE M!WindowsSpent'
  BY <1>20 DEF M!CompleteMark, M!MarkUsed, M!MarkUsedMatches
<1>21. ASSUME NEW r \in Requests, M!CompleteWrite(r) PROVE M!WindowsSpent'
  <2> SUFFICES ASSUME NEW f \in M!Totps, logins'[f] > 0
               PROVE  /\ logins'[f] = 1
                      /\ f[2] <= batch' /\ mRow'.pending # f[2]
                      /\ mRow'.secret = f[2] => mRow'.last >= f[3]
    BY DEF M!WindowsSpent
  <2>1. f[2] \in 1..MaxBatch /\ f[3] \in 1..MaxNow
    BY TotpShape
  <2> DEFINE g == mReq[r].factor
  <2>2. g \in M!Factors /\ mReq[r].pc = "cmWrite"
    BY <1>21, MfaWriter DEF M!CompleteWrite
  <2>3. /\ mRow'.secret = mRow.secret /\ mRow'.pending = mRow.pending /\ batch' = batch
        /\ mRow'.last = M!LastAfter(mReq[r].snap, g)
        /\ mRow.secret = mReq[r].snap.secret /\ mRow.last = mReq[r].snap.last
        /\ logins'[g] = logins[g] + 1
        /\ \A h \in M!Factors : h # g => logins'[h] = logins[h]
    BY <1>21, <2>2, MfaWriteEffect
  <2>4. \/ g \in M!Codes /\ g[1] = "code"
        \/ g \in M!Totps /\ g[1] = "totp" /\ g[2] = mRow.secret /\ g[3] > mRow.last
    BY <2>2, <2>3, TotpShape DEF M!Codes
  <2>5. mRow'.last = IF g[1] = "totp" THEN g[3] ELSE mRow.last
    BY <2>3 DEF M!LastAfter
  <2>6. /\ f \in M!Factors /\ f[1] = "totp" /\ logins[f] \in Nat
        /\ mRow.last \in 0..MaxNow /\ mRow'.last \in 0..MaxNow
    BY TotpShape
  <2>7. CASE f = g
    <3>1. f[2] = mRow.secret /\ f[3] > mRow.last /\ mRow'.last = f[3]
      BY <2>4, <2>5, <2>6, <2>7
    <3>2. logins[f] = 0
      BY <2>1, <2>6, <3>1
    <3>3. f[2] <= batch /\ mRow.pending # f[2]
      BY <2>1, <3>1
    <3> QED
      BY <2>1, <2>3, <2>7, <3>1, <3>2, <3>3
  <2>8. CASE f # g
    <3>1. logins'[f] = logins[f]
      BY <2>3, <2>6, <2>8
    <3>2. mRow'.last >= mRow.last
      BY <2>4, <2>5, <2>6, TotpShape
    <3> QED
      BY <2>1, <2>3, <2>6, <3>1, <3>2
  <2> QED
    BY <2>7, <2>8
<1>22. CASE UNCHANGED M!vars
  BY <1>22 DEF M!vars
<1> QED
  BY <1>1, <1>2, <1>3, <1>4, <1>5, <1>6, <1>7, <1>8, <1>9, <1>10, <1>11, <1>12,
     <1>13, <1>14, <1>15, <1>16, <1>17, <1>18, <1>19, <1>20, <1>21, <1>22 DEF
     M!Next

\* No step gives a marked challenge to a second handler.
LEMMA MfaMarkedStep ==
    ASSUME M!BoundsAssumption, M!MfaInv, M!TypeOK', [M!Next]_M!vars
    PROVE  M!MarkedOnce'
<1> USE DEF M!MfaInv, M!Begin, M!Goto, M!Return, M!Idle, M!MarkedOnce,
   M!TypeOK, M!Challenge, M!Req
<1>1. CASE M!Tick
  BY <1>1 DEF M!Tick
<1>2. CASE M!BeginTOTPSetup
  BY <1>2 DEF M!BeginTOTPSetup
<1>3. CASE M!ResetUserMFA
  BY <1>3 DEF M!ResetUserMFA
<1>4. ASSUME NEW c \in Challenges, M!ExpireChallenge(c) PROVE M!MarkedOnce'
  BY <1>4 DEF M!ExpireChallenge, M!MarkUsed
<1>5. ASSUME NEW r \in Requests, M!Abort(r) PROVE M!MarkedOnce'
  BY <1>5 DEF M!Abort
<1>6. ASSUME NEW r \in Requests, NEW f \in M!Factors, M!EnableCheck(r, f)
      PROVE  M!MarkedOnce'
  BY <1>6 DEF M!EnableCheck
<1>7. ASSUME NEW r \in Requests, NEW f \in M!Factors, M!DisableCheck(r, f)
      PROVE  M!MarkedOnce'
  BY <1>7 DEF M!DisableCheck
<1>8. ASSUME NEW r \in Requests, NEW f \in M!Factors, M!RegenerateCheck(r, f)
      PROVE  M!MarkedOnce'
  BY <1>8 DEF M!RegenerateCheck
<1>9. ASSUME NEW r \in Requests, NEW c \in Challenges, NEW f \in M!Factors,
             M!CompleteLookup(r, c, f)
      PROVE  M!MarkedOnce'
  <2>1. \E p \in {"cmUser", "cmExhaust"}, g \in M!Factors \union {M!NoFactor} :
           mReq' = [mReq EXCEPT ![r] = [pc |-> p, ch |-> c, factor |-> g, snap |-> M!NoMfa]]
    BY <1>9 DEF M!CompleteLookup
  <2> QED
    BY <1>9, <2>1 DEF M!CompleteLookup
<1>10. ASSUME NEW r \in Requests, M!EnableTOTP(r) PROVE M!MarkedOnce'
  BY <1>10 DEF M!EnableTOTP
<1>11. ASSUME NEW r \in Requests, M!DisableMFA(r) PROVE M!MarkedOnce'
  BY <1>11 DEF M!DisableMFA, M!LastAfter, M!CodesAfter
<1>12. ASSUME NEW r \in Requests, M!RegenerateRecoveryCodes(r)
       PROVE  M!MarkedOnce'
  BY <1>12 DEF M!RegenerateRecoveryCodes, M!FactorGuard, M!LastAfter,
     M!generateRecoveryCodes
<1>13. ASSUME NEW r \in Requests, M!LoginPrimary(r) PROVE M!MarkedOnce'
  BY <1>13 DEF M!LoginPrimary
<1>14. ASSUME NEW r \in Requests, M!ChallengeInvalidate(r) PROVE M!MarkedOnce'
  BY <1>14 DEF M!ChallengeInvalidate, M!InvalidateOutstandingByUserScope
<1>15. ASSUME NEW r \in Requests, NEW c \in Challenges, M!ChallengeCreate(r, c)
       PROVE  M!MarkedOnce'
  BY <1>15 DEF M!ChallengeCreate
<1>16. ASSUME NEW r \in Requests, M!CompleteVerify(r) PROVE M!MarkedOnce'
  BY <1>16 DEF M!CompleteVerify
<1>17. ASSUME NEW r \in Requests, M!IncrementAttempts(r) PROVE M!MarkedOnce'
  BY <1>17 DEF M!IncrementAttempts
<1>18. ASSUME NEW r \in Requests, M!AttemptsRead(r) PROVE M!MarkedOnce'
  <2>1. \/ mReq' = [mReq EXCEPT ![r].pc = "cmExhaust"]
        \/ mReq' = [mReq EXCEPT ![r] = M!Idle]
    BY <1>18 DEF M!AttemptsRead
  <2>2. UNCHANGED <<challenge, sessionsOf>> /\ mReq[r].pc = "cmRecount"
    BY <1>18 DEF M!AttemptsRead
  <2>3. CASE mReq' = [mReq EXCEPT ![r].pc = "cmExhaust"]
    BY <2>2, <2>3
  <2>4. CASE mReq' = [mReq EXCEPT ![r] = M!Idle]
    BY <2>2, <2>4
  <2> QED
    BY <2>1, <2>3, <2>4
<1>19. ASSUME NEW r \in Requests, M!CompleteExhaust(r) PROVE M!MarkedOnce'
  BY <1>19 DEF M!CompleteExhaust, M!MarkUsed
<1>20. ASSUME NEW r \in Requests, M!CompleteMark(r) PROVE M!MarkedOnce'
  BY <1>20 DEF M!CompleteMark, M!MarkUsed, M!MarkUsedMatches
<1>21. ASSUME NEW r \in Requests, M!CompleteWrite(r) PROVE M!MarkedOnce'
  BY <1>21 DEF M!CompleteWrite, M!FactorGuard, M!LastAfter, M!CodesAfter
<1>22. CASE UNCHANGED M!vars
  BY <1>22 DEF M!vars
<1> QED
  BY <1>1, <1>2, <1>3, <1>4, <1>5, <1>6, <1>7, <1>8, <1>9, <1>10, <1>11, <1>12,
     <1>13, <1>14, <1>15, <1>16, <1>17, <1>18, <1>19, <1>20, <1>21, <1>22 DEF
     M!Next

\* Sizes are counted alike in Mfa and here.
LEMMA MfaCounts == \A S : /\ M!IsFiniteSet(S) <=> IsFiniteSet(S)
                          /\ M!Cardinality(S) = Cardinality(S)
  BY DEF M!IsFiniteSet, IsFiniteSet, M!Cardinality, Cardinality

\* A set that grows no further, or loses an element that was counted.
LEMMA TryingCounts ==
    ASSUME M!BoundsAssumption, NEW S \in SUBSET Requests, NEW V \in SUBSET Requests
    PROVE  /\ Cardinality(S) \in Nat /\ Cardinality(S) <= Cardinality(Requests)
           /\ Cardinality(Requests) \in Nat
           /\ V \subseteq S => Cardinality(V) <= Cardinality(S)
           /\ \A r \in S : V = S \ {r} => Cardinality(V) + 1 = Cardinality(S)
<1>1. IsFiniteSet(Requests) /\ IsFiniteSet(S) /\ IsFiniteSet(V)
  BY MfaCounts, FS_Subset DEF M!BoundsAssumption
<1>2. Cardinality(S) \in Nat /\ Cardinality(V) \in Nat /\ Cardinality(Requests) \in Nat
  BY <1>1, FS_CardinalityType
<1>3. Cardinality(S) <= Cardinality(Requests)
  BY <1>1, FS_Subset
<1>4. V \subseteq S => Cardinality(V) <= Cardinality(S)
  BY <1>1, FS_Subset
<1>5. \A r \in S : Cardinality(S \ {r}) = Cardinality(S) - 1
  BY <1>1, FS_RemoveElement
<1> QED
  BY <1>2, <1>3, <1>4, <1>5

\* What a step may do to the attempts on a challenge and to the handlers that
\* may still add to them: nothing, begin another while below the limit, or
\* count one of them.
Moves(d) ==
    \/ /\ challenge'[d].attempts = challenge[d].attempts
       /\ M!Trying(d)' \subseteq M!Trying(d)
    \/ challenge'[d].attempts < MaxAttempts
    \/ /\ challenge'[d].attempts = challenge[d].attempts + 1
       /\ \E r \in M!Trying(d) : M!Trying(d)' = M!Trying(d) \ {r}


\* Every step moves the attempts in one of these ways.
LEMMA MfaMoves ==
    ASSUME M!BoundsAssumption, M!MfaInv, M!TypeOK', [M!Next]_M!vars, NEW d \in Challenges
    PROVE  Moves(d)
<1> USE DEF M!MfaInv, M!Begin, M!Goto, M!Return, M!Idle, M!MarkedOnce,
   M!TypeOK, M!Challenge, M!Req, M!Trying, Moves
<1>1. CASE M!Tick
  BY <1>1 DEF M!Tick
<1>2. CASE M!BeginTOTPSetup
  BY <1>2 DEF M!BeginTOTPSetup
<1>3. CASE M!ResetUserMFA
  BY <1>3 DEF M!ResetUserMFA
<1>4. ASSUME NEW c \in Challenges, M!ExpireChallenge(c) PROVE Moves(d)
  BY <1>4 DEF M!ExpireChallenge, M!MarkUsed
<1>5. ASSUME NEW r \in Requests, M!Abort(r) PROVE Moves(d)
  BY <1>5 DEF M!Abort
<1>6. ASSUME NEW r \in Requests, NEW f \in M!Factors, M!EnableCheck(r, f)
      PROVE  Moves(d)
  BY <1>6 DEF M!EnableCheck
<1>7. ASSUME NEW r \in Requests, NEW f \in M!Factors, M!DisableCheck(r, f)
      PROVE  Moves(d)
  BY <1>7 DEF M!DisableCheck
<1>8. ASSUME NEW r \in Requests, NEW f \in M!Factors, M!RegenerateCheck(r, f)
      PROVE  Moves(d)
  BY <1>8 DEF M!RegenerateCheck
<1>9. ASSUME NEW r \in Requests, NEW c \in Challenges, NEW f \in M!Factors,
             M!CompleteLookup(r, c, f)
      PROVE  Moves(d)
  BY <1>9 DEF M!CompleteLookup
<1>10. ASSUME NEW r \in Requests, M!EnableTOTP(r) PROVE Moves(d)
  BY <1>10 DEF M!EnableTOTP
<1>11. ASSUME NEW r \in Requests, M!DisableMFA(r) PROVE Moves(d)
  BY <1>11 DEF M!DisableMFA, M!LastAfter, M!CodesAfter
<1>12. ASSUME NEW r \in Requests, M!RegenerateRecoveryCodes(r) PROVE Moves(d)
  BY <1>12 DEF M!RegenerateRecoveryCodes, M!FactorGuard, M!LastAfter,
     M!generateRecoveryCodes
<1>13. ASSUME NEW r \in Requests, M!LoginPrimary(r) PROVE Moves(d)
  BY <1>13 DEF M!LoginPrimary
<1>14. ASSUME NEW r \in Requests, M!ChallengeInvalidate(r) PROVE Moves(d)
  BY <1>14 DEF M!ChallengeInvalidate, M!InvalidateOutstandingByUserScope
<1>15. ASSUME NEW r \in Requests, NEW c \in Challenges, M!ChallengeCreate(r, c)
       PROVE  Moves(d)
  BY <1>15 DEF M!ChallengeCreate
<1>16. ASSUME NEW r \in Requests, M!CompleteVerify(r) PROVE Moves(d)
  BY <1>16 DEF M!CompleteVerify
<1>17. ASSUME NEW r \in Requests, M!IncrementAttempts(r) PROVE Moves(d)
  BY <1>17 DEF M!IncrementAttempts
<1>18. ASSUME NEW r \in Requests, M!AttemptsRead(r) PROVE Moves(d)
  <2>1. \/ mReq' = [mReq EXCEPT ![r].pc = "cmExhaust"]
        \/ mReq' = [mReq EXCEPT ![r] = M!Idle]
    BY <1>18 DEF M!AttemptsRead
  <2>2. UNCHANGED challenge
    BY <1>18 DEF M!AttemptsRead
  <2> QED
    BY <2>1, <2>2
<1>19. ASSUME NEW r \in Requests, M!CompleteExhaust(r) PROVE Moves(d)
  BY <1>19 DEF M!CompleteExhaust, M!MarkUsed
<1>20. ASSUME NEW r \in Requests, M!CompleteMark(r) PROVE Moves(d)
  BY <1>20 DEF M!CompleteMark, M!MarkUsed, M!MarkUsedMatches
<1>21. ASSUME NEW r \in Requests, M!CompleteWrite(r) PROVE Moves(d)
  BY <1>21 DEF M!CompleteWrite, M!FactorGuard, M!LastAfter, M!CodesAfter
<1>22. CASE UNCHANGED M!vars
  BY <1>22 DEF M!vars
<1> QED
  BY <1>1, <1>2, <1>3, <1>4, <1>5, <1>6, <1>7, <1>8, <1>9, <1>10, <1>11, <1>12,
     <1>13, <1>14, <1>15, <1>16, <1>17, <1>18, <1>19, <1>20, <1>21, <1>22 DEF
     M!Next

\* So the attempts made and the attempts under way stay below the bound.
LEMMA MfaAttemptsStep ==
    ASSUME M!BoundsAssumption, M!MfaInv, M!TypeOK', [M!Next]_M!vars
    PROVE  M!AttemptsLeft'
<1> SUFFICES ASSUME NEW d \in Challenges
             PROVE  challenge'[d].attempts + Cardinality(M!Trying(d)')
                      < MaxAttempts + Cardinality(Requests)
  BY MfaCounts DEF M!AttemptsLeft
<1> DEFINE S == M!Trying(d)
           V == M!Trying(d)'
<1>1. S \in SUBSET Requests /\ V \in SUBSET Requests
  BY DEF M!Trying
<1>2. /\ challenge[d].attempts \in Nat /\ challenge'[d].attempts \in Nat
      /\ MaxAttempts \in Nat
  BY DEF M!MfaInv, M!TypeOK, M!Challenge, M!BoundsAssumption
<1>3. challenge[d].attempts + Cardinality(S) < MaxAttempts + Cardinality(Requests)
  BY MfaCounts DEF M!MfaInv, M!AttemptsLeft
<1>4. Moves(d)
  BY MfaMoves
<1>5. /\ Cardinality(S) \in Nat /\ Cardinality(V) \in Nat /\ Cardinality(Requests) \in Nat
      /\ Cardinality(V) <= Cardinality(Requests)
      /\ V \subseteq S => Cardinality(V) <= Cardinality(S)
      /\ \A r \in S : V = S \ {r} => Cardinality(V) + 1 = Cardinality(S)
  BY <1>1, TryingCounts
<1> HIDE DEF S, V
<1>6. CASE challenge'[d].attempts = challenge[d].attempts /\ V \subseteq S
  BY <1>2, <1>3, <1>5, <1>6 DEF V
<1>7. CASE challenge'[d].attempts < MaxAttempts
  BY <1>2, <1>5, <1>7 DEF V
<1>8. CASE /\ challenge'[d].attempts = challenge[d].attempts + 1
           /\ \E r \in S : V = S \ {r}
  BY <1>2, <1>3, <1>5, <1>8 DEF V
<1> QED
  BY <1>4, <1>6, <1>7, <1>8 DEF Moves, S, V

\* The initial states satisfy the invariant.
LEMMA MfaInit == ASSUME M!BoundsAssumption, M!Init PROVE M!MfaInv
<1>1. M!TypeOK
  <2>1. batch \in 0..MaxBatch /\ now \in 1..MaxNow
    BY DEF M!Init, M!BoundsAssumption
  <2> QED
    BY <2>1, MfaRecords DEF M!Init, M!TypeOK, M!Challenge
<1>2. M!SecretsApart
  BY DEF M!Init, M!SecretsApart, M!NoMfa, M!Idle
<1>3. M!WindowsSpent
  BY TotpShape DEF M!Init, M!WindowsSpent
<1>4. M!MarkedOnce
  BY DEF M!Init, M!MarkedOnce, M!Idle
<1>5. \A c \in Challenges : M!Trying(c) = {}
  BY DEF M!Init, M!Trying, M!Idle
<1>6. Cardinality({}) = 0 /\ Cardinality(Requests) \in Nat
  BY FS_EmptySet, TryingCounts
<1>7. M!AttemptsLeft
  <2> SUFFICES ASSUME NEW c \in Challenges
               PROVE  challenge[c].attempts + M!Cardinality(M!Trying(c))
                        < MaxAttempts + M!Cardinality(Requests)
    BY DEF M!AttemptsLeft
  <2>1. challenge[c].attempts = 0
    BY DEF M!Init
  <2>2. M!Cardinality(M!Trying(c)) = 0 /\ M!Cardinality(Requests) \in Nat
    BY <1>5, <1>6, MfaCounts
  <2>3. MaxAttempts \in Nat \ {0}
    BY DEF M!BoundsAssumption
  <2> QED
    BY <2>1, <2>2, <2>3
<1> QED
  BY <1>1, <1>2, <1>3, <1>4, <1>7 DEF M!MfaInv

\* The invariant gives the property.
LEMMA MfaImplied == ASSUME M!BoundsAssumption, M!MfaInv PROVE M!FactorsHold
<1>1. M!TotpLoginOnce
  <2> SUFFICES ASSUME NEW f \in M!Totps PROVE logins[f] <= 1
    BY DEF M!TotpLoginOnce
  <2>1. logins[f] \in Nat
    BY TotpShape DEF M!MfaInv, M!TypeOK
  <2> QED
    BY <2>1 DEF M!MfaInv, M!WindowsSpent
<1>2. M!ChallengeLoginOnce
  BY DEF M!MfaInv, M!MarkedOnce, M!TypeOK, M!ChallengeLoginOnce
<1>3. M!AttemptsBounded
  <2> SUFFICES ASSUME NEW c \in Challenges
               PROVE  challenge[c].attempts < MaxAttempts + Cardinality(Requests)
    BY MfaCounts DEF M!AttemptsBounded
  <2>1. Cardinality(M!Trying(c)) \in Nat /\ Cardinality(Requests) \in Nat
    BY TryingCounts DEF M!Trying
  <2>2. challenge[c].attempts \in Nat /\ MaxAttempts \in Nat
    BY DEF M!MfaInv, M!TypeOK, M!Challenge, M!BoundsAssumption
  <2>3. challenge[c].attempts + Cardinality(M!Trying(c)) < MaxAttempts + Cardinality(Requests)
    BY MfaCounts DEF M!MfaInv, M!AttemptsLeft
  <2> QED
    BY <2>1, <2>2, <2>3
<1> QED
  BY <1>1, <1>2, <1>3 DEF M!FactorsHold

\* A TOTP code and a challenge complete one login each, and a challenge takes
\* fewer wrong codes than the limit and the handlers together, for any number
\* of challenges, handlers, secrets and windows (CompleteMFA).
THEOREM SecondFactorSound == M!Spec => [](M!FactorsHold /\ FactorsHold)
<1> USE MfaAssumption
<1>1. M!Init => M!MfaInv
  BY MfaInit
<1>2. M!MfaInv /\ [M!Next]_M!vars => M!MfaInv'
  <2> SUFFICES ASSUME M!MfaInv, [M!Next]_M!vars PROVE M!MfaInv'
    OBVIOUS
  <2>1. M!TypeOK'
    BY MfaTypeStep
  <2> QED
    BY <2>1, MfaSecretsStep, MfaWindowsStep, MfaMarkedStep, MfaAttemptsStep DEF M!MfaInv
<1>3. M!MfaInv => M!FactorsHold /\ FactorsHold
  BY MfaImplied DEF FactorsHold
<1> QED
  BY <1>1, <1>2, <1>3, PTL DEF M!Spec
=============================================================================
