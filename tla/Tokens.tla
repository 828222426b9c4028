------------------------------- MODULE Tokens -------------------------------
(***************************************************************************)
(* The two long-lived tokens: an API token (internal/auth/api_token.go,    *)
(* internal/store/api_token_store.go, internal/http/api_tokens.go) and the *)
(* break-glass token of the configuration (internal/http/break_glass.go).  *)
(***************************************************************************)
EXTENDS Integers, FiniteSets

CONSTANTS
    Requests,       \* requests in progress
    MaxStarts,      \* bound on the restarts of the hub
    None

VARIABLES
    active,         \* users.active of the administrator
    token,          \* api_tokens: None or [revoked, expired, used]
    glass,          \* the break-glass token: "ready", "used" or "expired"
    req,            \* requests in progress
    starts,         \* restarts so far
    withdrawn,      \* history: the API token was revoked
    consumed        \* history: break-glass token consumed since the start

history == <<withdrawn, consumed>>
vars == <<active, token, glass, req, starts, history>>

Init ==
    /\ active = TRUE /\ token = None /\ glass = "ready"
    /\ req = [r \in Requests |-> None] /\ starts = 0
    /\ withdrawn = FALSE /\ consumed = FALSE

Request(pc) == [pc |-> pc, row |-> None, late |-> FALSE]
Start(r, q) == req[r] = None /\ req' = [req EXCEPT ![r] = q]
End(r) == req' = [req EXCEPT ![r] = None]
At(r, pc) == req[r] # None /\ req[r].pc = pc

-----------------------------------------------------------------------------
(* The API token.                                                          *)

CreateAPIToken ==
    /\ token = None
    /\ token' = [revoked |-> FALSE, expired |-> FALSE, used |-> FALSE]
    /\ UNCHANGED <<active, glass, req, starts, history>>

ExpireAPIToken ==
    /\ token # None /\ ~token.expired
    /\ token' = [token EXCEPT !.expired = TRUE]
    /\ UNCHANGED <<active, glass, req, starts, history>>

Revoke ==
    /\ token # None /\ ~token.revoked
    /\ token' = [token EXCEPT !.revoked = TRUE]
    /\ withdrawn' = TRUE
    /\ UNCHANGED <<active, glass, req, starts, consumed>>

\* authenticateAPIToken up to TouchLastUsed; the account that made the token
\* is not looked at.
FindActiveByPrefix(r) ==
    /\ token # None /\ ~token.revoked /\ ~token.expired
    /\ Start(r, [Request("touch") EXCEPT !.row = token])
    /\ UNCHANGED <<active, token, glass, starts, history>>

\* Mutant: the row that was read is saved whole.
MutSaveToken(row) == [row EXCEPT !.used = TRUE]

\* TouchLastUsed names its column.
Touched(row) == [token EXCEPT !.used = TRUE]

TouchLastUsed(r) ==
    /\ At(r, "touch")
    /\ token' = Touched(req[r].row)
    /\ End(r)
    /\ UNCHANGED <<active, glass, starts, history>>

-----------------------------------------------------------------------------
(* Break glass.                                                            *)

breakGlassValidToken == glass = "ready"

\* validateBreakGlassRequest, from an allowed address over TLS.
ValidateBreakGlass(r) ==
    /\ breakGlassValidToken
    /\ Start(r, [Request("glass") EXCEPT !.late = consumed])
    /\ UNCHANGED <<active, token, glass, starts, history>>

\* LoginBreakGlass admits an active local administrator.
Admitted == active

\* A refused login leaves the token as it was; after the login the token is
\* consumed, in a step of its own.
LoginBreakGlass(r) ==
    /\ At(r, "glass")
    /\ \/ Admitted /\ req' = [req EXCEPT ![r].pc = "consume"]
       \/ End(r)
    /\ UNCHANGED <<active, token, glass, starts, history>>

consumeBreakGlassToken(r) ==
    /\ At(r, "consume")
    /\ glass' = "used"
    /\ consumed' = TRUE
    /\ End(r)
    /\ UNCHANGED <<active, token, starts, withdrawn>>

ExpireBreakGlass ==
    /\ glass = "ready"
    /\ glass' = "expired"
    /\ UNCHANGED <<active, token, req, starts, history>>

-----------------------------------------------------------------------------
SetActive(a) ==
    /\ active # a
    /\ active' = a
    /\ UNCHANGED <<token, glass, req, starts, history>>

\* A restart arms the break-glass token again.
Restart ==
    /\ starts < MaxStarts
    /\ starts' = starts + 1
    /\ req' = [r \in Requests |-> None]
    /\ glass' = "ready"
    /\ consumed' = FALSE
    /\ UNCHANGED <<active, token, withdrawn>>

Next ==
    \/ CreateAPIToken \/ ExpireAPIToken \/ Revoke
    \/ \E r \in Requests : FindActiveByPrefix(r) \/ TouchLastUsed(r)
    \/ \E r \in Requests : ValidateBreakGlass(r) \/ LoginBreakGlass(r)
                           \/ consumeBreakGlassToken(r)
    \/ ExpireBreakGlass \/ Restart
    \/ \E a \in BOOLEAN : SetActive(a)

Spec == Init /\ [][Next]_vars

-----------------------------------------------------------------------------
\* A revoked API token stays revoked while requests that carry it are on.
RevocationFinal == withdrawn => token.revoked

\* Once a break-glass login is complete no request gets in with its token
\* that had not passed the check before, until the hub is restarted.
GlassSpent == \A r \in Requests : req[r] # None => ~req[r].late

\* A revoked API token and a used break-glass token open nothing to requests
\* that come later (TouchLastUsed, validateBreakGlassRequest).
TokensHold == RevocationFinal /\ GlassSpent

-----------------------------------------------------------------------------
(* The inductive invariant behind TokensHold.                              *)

TokenRow == [revoked: BOOLEAN, expired: BOOLEAN, used: BOOLEAN]
Handler == [pc: {"touch", "glass", "consume"}, row: TokenRow \union {None}, late: BOOLEAN]

\* None is a value of its own.
NoneApart == None \notin TokenRow /\ None \notin Handler

TokensTypeOK ==
    /\ token \in TokenRow \union {None}
    /\ glass \in {"ready", "used", "expired"}
    /\ req \in [Requests -> Handler \union {None}]
    /\ withdrawn \in BOOLEAN /\ consumed \in BOOLEAN

\* A request that carries the API token found its row, and so did a Revoke;
\* the row is never deleted.
RowStays ==
    /\ withdrawn => token # None
    /\ \A r \in Requests : At(r, "touch") => token # None

\* The token that was consumed is not the one the check takes.
GlassGone == consumed => glass # "ready"

TokensInv == TokensTypeOK /\ RowStays /\ GlassGone /\ TokensHold
=============================================================================
