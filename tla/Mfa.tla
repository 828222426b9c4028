-------------------------------- MODULE Mfa --------------------------------
(***************************************************************************)
(* Two-factor login of one user: the mfa_* columns of the users row, the   *)
(* login_tokens rows of scope mfa_login (challenges), and the handlers     *)
(* that set up, verify, regenerate, disable and reset the second factor    *)
(* (internal/auth/mfa.go over user_store.go and login_token_store.go).     *)
(*                                                                         *)
(* Each database call is an action, so handlers interleave between calls.  *)
(* A TOTP secret and a batch of recovery codes are drawn together from the *)
(* counter batch, so 0 is the empty secret and no secret or code is drawn  *)
(* twice.  now counts 30-second TOTP windows.  Ending other sessions and   *)
(* invalidating the auth cache after a change are in Sessions, AuthCache.  *)
(***************************************************************************)
EXTENDS Integers, FiniteSets

CONSTANTS
    Challenges,     \* rows of login_tokens with scope mfa_login
    Requests,       \* request handlers in flight
    None,           \* no challenge
    CodesPerBatch,  \* recovery codes drawn at once (8 in the code)
    MaxAttempts,    \* maxMFAAttempts (5 in the code)
    MaxBatch,       \* bound on secrets and batches drawn
    MaxNow          \* bound on the TOTP window counter

\* What the bounds must be for the handlers to take their steps.
BoundsAssumption ==
    /\ CodesPerBatch \in Nat \ {0} /\ MaxAttempts \in Nat \ {0}
    /\ MaxBatch \in Nat \ {0} /\ MaxNow \in Nat \ {0}
    /\ IsFiniteSet(Requests)
NoChallengeAssumption == None \notin Challenges

VARIABLES
    row,        \* mfa_* columns of the user
    batch,      \* secrets and batches drawn so far
    now,        \* current TOTP window
    challenge,  \* challenge rows
    req,        \* program counter and local variables of each handler
    logins,     \* history: factors that completed a login, with their count
    sessionsOf  \* history: logins completed per challenge

vars == <<row, batch, now, challenge, req, logins, sessionsOf>>

-----------------------------------------------------------------------------
(* A second factor is a TOTP code <<"totp", secret, window>> or a recovery *)
(* code <<"code", batch, index>>.                                          *)

Totps == {"totp"} \X (1..MaxBatch) \X (1..MaxNow)
Codes == {"code"} \X (1..MaxBatch) \X (1..CodesPerBatch)
Factors == Totps \union Codes

Row == [enabled: BOOLEAN, secret: 0..MaxBatch, pending: 0..MaxBatch,
        codes: SUBSET Codes, pendingCodes: SUBSET Codes, last: 0..MaxNow]

NoMfa == [enabled |-> FALSE, secret |-> 0, pending |-> 0,
          codes |-> {}, pendingCodes |-> {}, last |-> 0]

Challenge == [state: {"none", "open", "used"}, attempts: Nat]

PCs == {"idle", "lgInvalidate", "lgCreate", "enSwap", "diSwap", "rgSwap",
        "cmUser", "cmFail", "cmRecount", "cmExhaust", "cmMark", "cmWrite"}

NoFactor == <<"code", 0, 0>>

Req == [pc: PCs, ch: Challenges \union {None},
        factor: Factors \union {NoFactor}, snap: Row]

Idle == [pc |-> "idle", ch |-> None, factor |-> NoFactor, snap |-> NoMfa]

Init ==
    /\ row = NoMfa
    /\ batch = 0
    /\ now = 1
    /\ challenge = [c \in Challenges |-> [state |-> "none", attempts |-> 0]]
    /\ req = [r \in Requests |-> Idle]
    /\ logins = [f \in Factors |-> 0]
    /\ sessionsOf = [c \in Challenges |-> 0]

-----------------------------------------------------------------------------
(* Pure parts.                                                             *)

\* generateRecoveryCodes for batch b.
generateRecoveryCodes(b) == {"code"} \X {b} \X (1..CodesPerBatch)

\* validateTOTP: the code of the current or of the previous window matches.
validateTOTP(secret, f) ==
    /\ secret # 0 /\ f[1] = "totp" /\ f[2] = secret
    /\ f[3] \in {now, now - 1}

\* verifyMFAFactor: a TOTP code must be newer than the last one accepted; a
\* recovery code must be among the stored ones.
verifyMFAFactor(u, f) ==
    \/ validateTOTP(u.secret, f) /\ f[3] > u.last
    \/ f[1] = "code" /\ f \in u.codes

\* The row as the handler holds it after verifyMFAFactor accepted f.
LastAfter(u, f) == IF f[1] = "totp" THEN f[3] ELSE u.last
CodesAfter(u, f) == IF f[1] = "code" THEN u.codes \ {f} ELSE u.codes

-----------------------------------------------------------------------------
Begin(r, where, c, f, u) ==
    req' = [req EXCEPT ![r] = [pc |-> where, ch |-> c, factor |-> f, snap |-> u]]

Goto(r, where) == req' = [req EXCEPT ![r].pc = where]

Return(r) == req' = [req EXCEPT ![r] = Idle]

\* A failed check, a rate limit, a database error or a crash.
Abort(r) ==
    /\ req[r].pc # "idle"
    /\ Return(r)
    /\ UNCHANGED <<row, batch, now, challenge, logins, sessionsOf>>

-----------------------------------------------------------------------------
(* The login_tokens store.                                                 *)

MarkUsed(c) == challenge' = [challenge EXCEPT ![c].state = "used"]

MarkUsedMatches(c) == challenge[c].state = "open"

InvalidateOutstandingByUserScope ==
    challenge' = [c \in Challenges |->
        IF challenge[c].state = "open"
        THEN [challenge[c] EXCEPT !.state = "used"] ELSE challenge[c]]

-----------------------------------------------------------------------------
(* Setup and management of the factor.                                     *)

BeginTOTPSetup ==
    /\ batch < MaxBatch
    /\ batch' = batch + 1
    /\ row' = [row EXCEPT !.pending = batch + 1,
                          !.pendingCodes = generateRecoveryCodes(batch + 1)]
    /\ UNCHANGED <<now, challenge, req, logins, sessionsOf>>

EnableCheck(r, f) ==
    /\ req[r].pc = "idle"
    /\ validateTOTP(row.pending, f)
    /\ Begin(r, "enSwap", None, f, row)
    /\ UNCHANGED <<row, batch, now, challenge, logins, sessionsOf>>

\* UpdateFieldsIf guarded by the pending secret that was read.
EnableTOTP(r) ==
    /\ req[r].pc = "enSwap"
    /\ row.pending = req[r].snap.pending
    /\ row' = [enabled |-> TRUE, secret |-> req[r].snap.pending, pending |-> 0,
               codes |-> req[r].snap.pendingCodes, pendingCodes |-> {},
               last |-> req[r].factor[3]]
    /\ Return(r)
    /\ UNCHANGED <<batch, now, challenge, logins, sessionsOf>>

DisableCheck(r, f) ==
    /\ req[r].pc = "idle"
    /\ row.enabled
    /\ verifyMFAFactor(row, f)
    /\ Begin(r, "diSwap", None, f, row)
    /\ UNCHANGED <<row, batch, now, challenge, logins, sessionsOf>>

DisableMFA(r) ==
    /\ req[r].pc = "diSwap"
    /\ row.enabled /\ row.secret = req[r].snap.secret
    /\ row' = [enabled |-> FALSE, secret |-> 0, pending |-> 0,
               codes |-> CodesAfter(req[r].snap, req[r].factor),
               pendingCodes |-> {},
               last |-> LastAfter(req[r].snap, req[r].factor)]
    /\ Return(r)
    /\ UNCHANGED <<batch, now, challenge, logins, sessionsOf>>

RegenerateCheck(r, f) ==
    /\ req[r].pc = "idle"
    /\ verifyMFAFactor(row, f)
    /\ Begin(r, "rgSwap", None, f, row)
    /\ UNCHANGED <<row, batch, now, challenge, logins, sessionsOf>>

\* Mutant: the guard leaves out mfa_last_totp_counter.
MutGuardNoWindow(r) == row.enabled /\ row.secret = req[r].snap.secret

\* The guard of RegenerateRecoveryCodes and CompleteMFA: the secret and the
\* TOTP window that were read, not the recovery codes.
FactorGuard(r) ==
    /\ row.enabled
    /\ row.secret = req[r].snap.secret
    /\ row.last = req[r].snap.last

RegenerateRecoveryCodes(r) ==
    /\ req[r].pc = "rgSwap"
    /\ FactorGuard(r)
    /\ batch < MaxBatch
    /\ batch' = batch + 1
    /\ row' = [row EXCEPT !.codes = generateRecoveryCodes(batch + 1),
                          !.last = LastAfter(req[r].snap, req[r].factor)]
    /\ Return(r)
    /\ UNCHANGED <<now, challenge, logins, sessionsOf>>

\* Reset by an administrator: unguarded, and the window counter stays.
ResetUserMFA ==
    /\ row' = [NoMfa EXCEPT !.last = row.last]
    /\ UNCHANGED <<batch, now, challenge, req, logins, sessionsOf>>

-----------------------------------------------------------------------------
(* Login: a challenge after the first factor, the second factor with it.   *)

\* completePrimaryLogin saw mfa_enabled on the user it read.
LoginPrimary(r) ==
    /\ req[r].pc = "idle"
    /\ row.enabled
    /\ Begin(r, "lgInvalidate", None, NoFactor, NoMfa)
    /\ UNCHANGED <<row, batch, now, challenge, logins, sessionsOf>>

ChallengeInvalidate(r) ==
    /\ req[r].pc = "lgInvalidate"
    /\ InvalidateOutstandingByUserScope
    /\ Goto(r, "lgCreate")
    /\ UNCHANGED <<row, batch, now, logins, sessionsOf>>

ChallengeCreate(r, c) ==
    /\ req[r].pc = "lgCreate"
    /\ challenge[c].state = "none"
    /\ challenge' = [challenge EXCEPT ![c].state = "open"]
    /\ Return(r)
    /\ UNCHANGED <<row, batch, now, logins, sessionsOf>>

\* CompleteMFA reads the challenge; an exhausted one is closed instead.
CompleteLookup(r, c, f) ==
    /\ req[r].pc = "idle"
    /\ challenge[c].state = "open"
    /\ \/ /\ challenge[c].attempts < MaxAttempts
          /\ Begin(r, "cmUser", c, f, NoMfa)
       \/ /\ challenge[c].attempts >= MaxAttempts
          /\ Begin(r, "cmExhaust", c, NoFactor, NoMfa)
    /\ UNCHANGED <<row, batch, now, challenge, logins, sessionsOf>>

\* The user is read and the factor verified.
CompleteVerify(r) ==
    /\ req[r].pc = "cmUser"
    /\ \/ /\ verifyMFAFactor(row, req[r].factor)
          /\ Begin(r, "cmMark", req[r].ch, req[r].factor, row)
       \/ /\ ~verifyMFAFactor(row, req[r].factor)
          /\ Begin(r, "cmFail", req[r].ch, NoFactor, NoMfa)
    /\ UNCHANGED <<row, batch, now, challenge, logins, sessionsOf>>

\* IncrementAttempts: the UPDATE, then the SELECT of the new count.
IncrementAttempts(r) ==
    /\ req[r].pc = "cmFail"
    /\ challenge' = [challenge EXCEPT ![req[r].ch].attempts = @ + 1]
    /\ Goto(r, "cmRecount")
    /\ UNCHANGED <<row, batch, now, logins, sessionsOf>>

AttemptsRead(r) ==
    /\ req[r].pc = "cmRecount"
    /\ IF challenge[req[r].ch].attempts >= MaxAttempts
       THEN Goto(r, "cmExhaust") ELSE Return(r)
    /\ UNCHANGED <<row, batch, now, challenge, logins, sessionsOf>>

\* MarkUsed on an exhausted challenge; its error is ignored.
CompleteExhaust(r) ==
    /\ req[r].pc = "cmExhaust"
    /\ MarkUsed(req[r].ch)
    /\ Return(r)
    /\ UNCHANGED <<row, batch, now, logins, sessionsOf>>

CompleteMark(r) ==
    /\ req[r].pc = "cmMark"
    /\ MarkUsedMatches(req[r].ch)
    /\ MarkUsed(req[r].ch)
    /\ Goto(r, "cmWrite")
    /\ UNCHANGED <<row, batch, now, logins, sessionsOf>>

\* The guarded write of the codes and the window, then the session.
CompleteWrite(r) ==
    /\ req[r].pc = "cmWrite"
    /\ FactorGuard(r)
    /\ row' = [row EXCEPT !.codes = CodesAfter(req[r].snap, req[r].factor),
                          !.last = LastAfter(req[r].snap, req[r].factor)]
    /\ logins' = [logins EXCEPT ![req[r].factor] = @ + 1]
    /\ sessionsOf' = [sessionsOf EXCEPT ![req[r].ch] = @ + 1]
    /\ Return(r)
    /\ UNCHANGED <<batch, now, challenge>>

\* A challenge past its ten minutes is refused from then on.
ExpireChallenge(c) ==
    /\ challenge[c].state = "open"
    /\ MarkUsed(c)
    /\ UNCHANGED <<row, batch, now, req, logins, sessionsOf>>

Tick ==
    /\ now < MaxNow
    /\ now' = now + 1
    /\ UNCHANGED <<row, batch, challenge, req, logins, sessionsOf>>

Next ==
    \/ Tick
    \/ BeginTOTPSetup
    \/ ResetUserMFA
    \/ \E c \in Challenges : ExpireChallenge(c)
    \/ \E r \in Requests :
         \/ Abort(r)
         \/ \E f \in Factors :
              \/ EnableCheck(r, f)
              \/ DisableCheck(r, f)
              \/ RegenerateCheck(r, f)
              \/ \E c \in Challenges : CompleteLookup(r, c, f)
         \/ EnableTOTP(r)
         \/ DisableMFA(r)
         \/ RegenerateRecoveryCodes(r)
         \/ LoginPrimary(r)
         \/ ChallengeInvalidate(r)
         \/ \E c \in Challenges : ChallengeCreate(r, c)
         \/ CompleteVerify(r)
         \/ IncrementAttempts(r)
         \/ AttemptsRead(r)
         \/ CompleteExhaust(r)
         \/ CompleteMark(r)
         \/ CompleteWrite(r)

Spec == Init /\ [][Next]_vars

-----------------------------------------------------------------------------
(* Properties.                                                             *)

\* The row, the challenges and the handler variables keep their types.
TypeOK ==
    /\ row \in Row
    /\ batch \in 0..MaxBatch
    /\ now \in 1..MaxNow
    /\ challenge \in [Challenges -> Challenge]
    /\ req \in [Requests -> Req]
    /\ logins \in [Factors -> Nat]
    /\ sessionsOf \in [Challenges -> Nat]

\* One TOTP code completes at most one login, whatever handlers race for it:
\* the guard on mfa_last_totp_counter lets one of them through (CompleteMFA).
TotpLoginOnce == \A f \in Totps : logins[f] <= 1

\* One challenge yields at most one session (MarkUsed's used_at IS NULL).
ChallengeLoginOnce == \A c \in Challenges : sessionsOf[c] <= 1

\* Handlers that read the challenge before it was exhausted may still try a
\* code each, and no others: the attempts made on a challenge exceed the
\* limit by less than the number of handlers (CompleteMFA, IncrementAttempts).
AttemptsBounded ==
    \A c \in Challenges :
        challenge[c].attempts < MaxAttempts + Cardinality(Requests)

\* No TOTP code and no challenge completes two logins, and a challenge takes a
\* bounded number of wrong codes (CompleteMFA, UpdateFieldsIf,
\* MarkUsedWithMetadata, IncrementAttempts).
FactorsHold == TotpLoginOnce /\ ChallengeLoginOnce /\ AttemptsBounded

\* One recovery code completes at most one login, which openapi.yaml promises
\* by answering a replayed code with 401.
RecoveryCodeLoginOnce == \A f \in Codes : logins[f] <= 1

-----------------------------------------------------------------------------
(* The inductive invariant behind FactorsHold.                             *)

\* A secret waits or is in use, never both, and was drawn; a handler that is
\* to write holds a factor newer than the row it read.
SecretsApart ==
    /\ row.secret <= batch /\ row.pending <= batch
    /\ row.secret # 0 => row.pending # row.secret
    /\ \A r \in Requests :
        /\ req[r].pc = "enSwap" =>
              /\ req[r].factor \in Totps /\ req[r].snap.pending = req[r].factor[2]
        /\ req[r].pc \in {"diSwap", "rgSwap", "cmMark", "cmWrite"} =>
              \/ req[r].factor \in Codes
              \/ /\ req[r].factor \in Totps
                 /\ req[r].snap.secret = req[r].factor[2]
                 /\ req[r].factor[3] > req[r].snap.last

\* The window of a TOTP code that completed a login is behind the row, for as
\* long as its secret is in use; the secret does not come back.
WindowsSpent ==
    \A f \in Totps : logins[f] > 0 =>
        /\ logins[f] = 1
        /\ f[2] <= batch /\ row.pending # f[2]
        /\ row.secret = f[2] => row.last >= f[3]

\* The handler that marked a challenge is the only one to complete it.
MarkedOnce ==
    /\ \A r \in Requests : req[r].pc \in {"cmUser", "cmFail", "cmRecount", "cmExhaust",
                                         "cmMark", "cmWrite"} => req[r].ch \in Challenges
    /\ \A r \in Requests : req[r].pc = "cmWrite" =>
          /\ challenge[req[r].ch].state = "used" /\ sessionsOf[req[r].ch] = 0
          /\ \A q \in Requests : req[q].pc = "cmWrite" /\ req[q].ch = req[r].ch => q = r
    /\ \A c \in Challenges : sessionsOf[c] > 0 =>
          challenge[c].state = "used" /\ sessionsOf[c] = 1

\* Handlers that may still count a wrong code against c.
Trying(c) == {r \in Requests : req[r].pc \in {"cmUser", "cmFail"} /\ req[r].ch = c}

AttemptsLeft ==
    \A c \in Challenges :
        challenge[c].attempts + Cardinality(Trying(c)) < MaxAttempts + Cardinality(Requests)

MfaInv == TypeOK /\ SecretsApart /\ WindowsSpent /\ MarkedOnce /\ AttemptsLeft
=============================================================================
