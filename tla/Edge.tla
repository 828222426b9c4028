-------------------------------- MODULE Edge --------------------------------
(***************************************************************************)
(* What stands in front of a published service: Access, and the parts of   *)
(* the hub that share no state with it but the clock: the proxy's own      *)
(* (Upstream, DenialThrottle, Reputation), its certificates (CertWorker),  *)
(* and the logins that bring a visitor in (Passkeys, OidcLogin).           *)
(***************************************************************************)
EXTENDS Access

CONSTANTS Calls, Routed, Methods, Threshold, OpenFor, Keys, Window, Limit, MaxDenials,
          Values, FailOpen, StaleAfter, MaxSeen,
          NameLists, Jobs, Flights, Asked, Life, RenewWithin, RenewalWindow, MagicWindow,
          BaseDelay, MaxDelay, Recheck, FreshFor, MissFor, MaxFailures, CertNow,
          Challenges, PasskeyIds, MaxCount,
          MaxUsers, MaxLogins, MaxEdits, Subjects, Addresses

VARIABLES part,                                        \* the part in use
          breaker, call, streak, lastFail,             \* Upstream
          start, written, current, previous, silent,   \* DenialThrottle
          lapi, pending, wanted, configured, poller, mirror, synced, lastSuccess,
          counted, taken, gap, seen, reported,         \* Reputation
          row, magic, tls, hits, misses, flight, job, drift, leftover,   \* CertWorker
          passkeys, inRedis, inMemory, begun, expired, finish, restarts, answered,
          doubtful, accepted, crowded, deleted, revived,       \* Passkeys
          accounts, made, cfg, callback, logins, edits, reached, vouched, overlaid,
          overlap                                      \* OidcLogin

U == INSTANCE Upstream
D == INSTANCE DenialThrottle
R == INSTANCE Reputation
C == INSTANCE CertWorker WITH MaxNow <- CertNow
P == INSTANCE Passkeys WITH Passkeys <- PasskeyIds, Requests <- Flights, MaxStarts <- Restarts,
        redis <- inRedis, local <- inMemory, req <- finish, starts <- restarts
O == INSTANCE OidcLogin WITH Emails <- Addresses, Requests <- Flights, users <- accounts,
        req <- callback, proven <- vouched, crowded <- overlap

ASSUME LoginsAssumption == P!NoneApart /\ O!NoneApart
ASSUME ProxyAssumption ==
    C!CertAssumption /\ U!UpstreamAssumption /\ D!ThrottleAssumption /\ R!ReputationAssumption

accessOnly == <<setup, svc, usr, token, bridge, redis, local, jar, req, opened, failed, forgotten,
                proven>>
upstreamOnly == <<breaker, call, streak, lastFail>>
throttleOnly == <<start, written, current, previous, silent>>
reputationOnly == <<lapi, pending, wanted, configured, poller, mirror, synced, lastSuccess,
                    counted, taken, gap, seen, reported>>

certOnly == <<row, magic, tls, hits, misses, flight, job, drift, leftover>>
proxyOnly == <<upstreamOnly, throttleOnly, reputationOnly, certOnly>>
passkeyOnly == <<passkeys, inRedis, inMemory, begun, expired, finish, restarts, answered,
                 doubtful, accepted, crowded, deleted, revived>>
oidcOnly == <<accounts, made, cfg, callback, logins, edits, reached, vouched, overlaid, overlap>>
hubOnly == <<passkeyOnly, oidcOnly>>

\* Upstream: a request that may change something is sent once, and a working
\* destination is not refused (RoundTrip, isTargetDegraded).
SentOnceAndServed == U!SentOnceAndServed

\* DenialThrottle: no refusal is reported twice (denialThrottle.allow).
NothingReportedTwice == D!NothingReportedTwice

\* Reputation: the mirror of the decisions is one poll behind, and every
\* request checked is counted once (apply, fetchOnce, restoreWindow).
ReputationKept == R!ReputationKept

\* CertWorker: no load brings back what a change replaced (certificateCache).
CachedCurrent == C!CachedCurrent

\* CertWorker: no certificate is forgotten, and nothing is left of one that
\* was deleted, but for the names whose purge failed (recordRetryState,
\* ListExpiringBefore, PurgeCertificateData).
CertificatesKept == C!RetriedInTime /\ C!NothingLeftBehind

\* Passkeys, OidcLogin: a used challenge, a copied authenticator, a deleted
\* passkey or somebody else's subject opens no account, except in the races
\* the modules name (popSession, FinishLogin, findOrCreateOIDCUser).
LoginsApart ==
    /\ part = "passkeys" => P!LoginsApart
    /\ part = "oidc" => O!LoginsApart
=============================================================================
