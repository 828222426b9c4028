------------------------------ MODULE Keeping -------------------------------
(***************************************************************************)
(* What the hub keeps: the audit log (AuditChain), and beside it, sharing  *)
(* no state, the webhooks that carry its events away (Webhooks) and the    *)
(* secrets of settings, providers and certificates (Secrets).              *)
(***************************************************************************)
EXTENDS AuditChain

CONSTANTS Hooks, KeyLists, MaxSecrets, MaxFires, MaxRestarts, None,
          Providers, Admins, MaxStarts

VARIABLES row, keys, flights, edit, sent, fires, secrets, restarts, given, off, stale,
          boot, listed, mfaEnv, settings, dns, tls, loaded, reenc, madeUp, starts,
          told, replaced, rotated, cleared, refused      \* Secrets

\* Administrators' requests are alike, as the actors of AuditChain are.
W == INSTANCE Webhooks WITH Admins <- Actors
S == INSTANCE Secrets WITH keys <- listed, edit <- loaded, secrets <- madeUp,
        given <- told, stale <- replaced

ASSUME HookAssumption == W!HookAssumption
ASSUME SecretAssumption == S!SecretAssumption

hookVars == <<row, keys, flights, edit, sent, fires, secrets, restarts, given, off, stale>>
secretVars == <<boot, listed, mfaEnv, settings, dns, tls, loaded, reenc, madeUp, starts,
                told, replaced, rotated, cleared, refused>>

\* AuditChain: a verification reports a mismatch only when rows were pruned
\* under it, and otherwise has come to the row that was the newest when it
\* started (VerifyChain).
VerificationSound == MismatchOnlyFromPrune /\ VerifiedThrough

\* Webhooks: no delivery or edit loses a secret, wakes a webhook that was
\* turned off, or signs with a secret nobody was given, unless a stale copy
\* was saved (encryptSecret, ActiveByEvent, recordResult).
WebhooksHonoured == W!SecretRecoverable /\ W!OffStaysOff /\ W!SignedWithGiven

\* Secrets: migrations, rotations and restarts lose no secret and leave none
\* that a running hub cannot read (SeedDefaults, handleReencryptDataKey).
SecretsSafe == S!SecretsKept /\ S!ServingReadsSettings /\ S!NothingLeftUnderOldKey
=============================================================================
