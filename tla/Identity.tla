------------------------------ MODULE Identity ------------------------------
(***************************************************************************)
(* Who a request comes from: Sessions, and beside it the second factor     *)
(* (Mfa) and the long-lived tokens (Tokens).  They share the users row but *)
(* none of the columns the others read.                                    *)
(***************************************************************************)
EXTENDS Sessions

CONSTANTS Challenges, CodesPerBatch, MaxAttempts, MaxBatch, MaxNow,     \* Mfa
          Restarts                                                      \* Tokens

VARIABLES part,                                                         \* the part in use
    mRow, batch, now, challenge, mReq, logins, sessionsOf,              \* Mfa
    active, token, glass, tReq, starts, withdrawn, consumed             \* Tokens

M == INSTANCE Mfa WITH row <- mRow, req <- mReq
T == INSTANCE Tokens WITH MaxStarts <- Restarts, req <- tReq

ASSUME MfaAssumption == M!BoundsAssumption /\ M!NoChallengeAssumption
ASSUME TokensAssumption == T!NoneApart

mfaVars == <<mRow, batch, now, challenge, mReq, logins, sessionsOf>>
tokenVars == <<active, token, glass, tReq, starts, withdrawn, consumed>>

\* Mfa: no TOTP code and no challenge completes two logins, and a challenge
\* takes a bounded number of wrong codes (CompleteMFA, UpdateFieldsIf,
\* MarkUsedWithMetadata, IncrementAttempts).
FactorsHold == part = "mfa" => M!FactorsHold

\* Tokens: a revoked API token and a used break-glass token open nothing to
\* requests that come later (TouchLastUsed, validateBreakGlassRequest).
TokensHold == part = "tokens" => T!TokensHold
=============================================================================
