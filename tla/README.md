# Portlyn in TLA+

Portlyn is a reverse proxy with its own identity, certificates, audit log and
WireGuard tunnel: one Go process (the hub), or several hubs that share PostgreSQL
and Redis, and an agent on each node behind NAT. This directory models the parts
of the hub in which requests, hubs, caches and leases interleave, checks them with
TLC on small instances, and proves the most important results with TLAPS for every
instance.

## Inventory

| Component | State | Operations | Talks to | What is hard |
|---|---|---|---|---|
| Sessions and tokens (`internal/auth/sessions.go`, `internal/store/session_store.go`) | rows of `sessions` and `users`, signed access tokens | login, authenticate, refresh with rotation, revoke one / all / others, password change, account setup, deactivate, reset, delete | authentication cache, MFA | every statement is its own transaction; handlers act on rows read earlier |
| Multi-factor login (`internal/auth/mfa.go`) | `mfa_*` columns, challenges in `login_tokens` | enrol, enable, disable, regenerate codes, reset, begin and complete a challenge | sessions | conditional writes on part of what was read; counting attempts |
| Last administrator guard (`internal/http/users.go`) | `users.role`, `users.active` | update, delete | sessions, authentication cache | check and write in two statements |
| Authentication cache (`internal/auth/cache.go`, `internal/auth/service.go`) | map and index per hub, entries and index sets in Redis | lookup, store, invalidate user / all, sweep | sessions, groups | late stores, failed Redis calls, other hubs |
| Route propagation (`internal/proxy`, `internal/http/resources.go`) | `services`, shared route cache, LRU per hub, bus | resolve a host; create, update, delete, redeploy | every proxied request | three copies of the routes, lost announcements, failures halfway |
| Certificate lock (`internal/acme/certmagic_storage.go`) | a row with an expiry, owners and renewing goroutines per hub | Lock, Unlock, renew | certificate worker | crashes, stalls, failed renewals |
| Certificate worker and cache (`internal/acme/worker.go`, `retry.go`, `manager.go`, `certificate_cache.go`) | rows of `certificates`, certmagic storage, stored certificates, cache with a generation | issue, renew, import, edit, sync, delete, back off; load for a handshake | certificate lock | jobs that save whole rows, purges, loads overtaken by a change |
| Audit log (`internal/store/audit_store.go`, `audit_retention.go`, `internal/audit/logger.go`) | rows chained by hash, channel and buffer of the sink | write, batch, verify, compact, prune | every handler | concurrent writers, full channel, shutdown |
| Audit webhooks (`internal/audit/webhook.go`) | hooks with an encrypted secret, deliveries | create, update, rotate, delete, deliver | audit log | deliveries that save a stale row, key changes |
| Tunnel (`internal/tunnel`, `internal/http/nodes.go`, `tunnel.go`, `clients.go`) | rows of `nodes` and `clients`, mutex of the manager, peers and forward rules of the device | bootstrap, revoke, update, delete; provision, rotate and remove clients; start and stop | proxy, node agent | whole rows written outside the mutex, applications that fail halfway, a full pool |
| Node enrolment and node agent (`internal/http/node_enrollment.go`, `cmd/nodeagent`) | enrolment tokens, heartbeat columns; memory, state file and listeners of the agent | enrol, bootstrap, fetch targets, heartbeat | tunnel | single-use tokens, lost and late answers, crashes between call and save |
| Access decision (`internal/proxy/access.go`, `access_rules.go`, `manager.go`) | policy of a service and its groups, rules | decide | route propagation, sessions, CrowdSec | order of the checks, two readings of a path, forwarded chains |
| Route access (`internal/auth/route_access.go`, `magic_link.go`) | bridge tokens, e-mail codes, pins, magic links, cookies | issue, consume | rate limiter | single use across hubs and Redis failures |
| Upstream transport, denial throttle (`internal/proxy/transport.go`, `denial_throttle.go`) | breakers by target, windows of counts | send, retry, refuse; count | proxy | retries of unsafe methods, keys that differ, window boundaries |
| CrowdSec (`internal/security/crowdsec.go`) | mirror of decisions, usage counters | poll, check, report, reconfigure | proxy, settings | lost answers, first poll, counters that move during a report |
| Passkeys, OIDC, API tokens, break glass | challenges, accounts by subject, token rows, one-time token | issue, use, link, revoke | sessions | single use, sign counters, check and write apart |
| Stored secrets (`internal/http/security_rotation.go`, `internal/store/app_settings_store.go`) | secrets of settings, DNS providers and TLS keys, configured keys | seed, migrate, edit, re-encrypt, restart | everything with a secret | rotation while in use, fewer keys at the next start |
| Self update, access log, scanner, GeoIP, mail, metrics, configuration, dashboard | binary on disk, files | swap, write, parse | | not modelled |

`PROJECT.json` lists the same components with their state of modelling, the lines
each definition translates, and the hazards of the code at the line where they bite.

What makes each component correct:

- **Sessions**: a refresh token buys one new pair; revocation takes effect at once
  and is never undone; changing the password ends the other sessions; a deactivated
  account obtains nothing new.
- **MFA**: a second factor and a challenge are each good for one login, and a
  challenge bears a bounded number of guesses.
- **Last administrator**: the hub is never left without an active administrator.
- **Authentication cache**: invalidation reaches every entry; no entry outlives its
  token; stale entries have one known cause and a bounded life.
- **Routing**: a change answered with success is what later requests see; elsewhere
  outdated routes end with the cache lifetimes.
- **Certificate lock**: one holder at a time; an abandoned lock becomes free.
- **Tunnel**: addresses and keys are never shared; the device ends up with the peers
  and rules of the tables; a removed key stays out.
- **Audit log**: the chain verifies from its checkpoint; entries leave it only from
  the front and past retention; the sink loses nothing it does not report. A webhook
  that was turned off stays off and keeps the secret its owner knows.
- **Access**: a restricted service admits only who is listed, a code, link or bridge
  token opens once, and what a client writes in front of a chain changes nothing.
- **Upstream, throttle, CrowdSec**: an unsafe request is sent once; no refusal or
  request is counted twice; the mirror is at most one poll behind.
- **Certificates**: none is forgotten by the worker or left over after deletion, and a
  handshake gets the stored one.
- **Logins**: a used challenge, a copied authenticator, somebody else's subject, a
  revoked API token or a spent break-glass token opens no account.
- **Agent**: a single-use token enrols one node; agent and hub agree on its keys; ports
  lead where the hub says.
- **Secrets**: no migration, rotation or restart loses a secret.

## Modules

Each module has its state as VARIABLES, one action per database statement, Redis
call or lock section of a handler, and the handler's local variables in a record
with a program counter (`req`, `res`, `adm`, `caller`, `job`, `call`). Handlers interleave at
exactly those points. Failures of a statement, and clients that go away, end a
handler at any of them. Hashing, encryption, logging, metrics and response
formatting are left out. `MC*` modules instantiate for TLC; `*Proofs` hold theorems.
`Identity` (Sessions, Mfa, Tokens), `Edge` (Access, Upstream, DenialThrottle, Reputation,
CertWorker, Passkeys, OidcLogin), `Joining` (Tunnel, Agent), `Keeping` (AuditChain,
Webhooks, Secrets) and `Upkeep` (AuthCache, AuditSink) put modules side by side
that share no state, name the properties of the instances and assume what their constants
must satisfy; an MC module and the proof modules extend them, so that both speak of the
same definitions. In a run of several modules a variable `part`, chosen in
`MCInit`, says which one a behaviour exercises, and the others keep their initial
values or None. Modules keep a type invariant (`TypeOK`, `...TypeOK`); the runs list
those of Sessions and CertLock, which are proved.
Definitions named `Mut...` are deliberate defects, used to see that a property
notices them.

### Sessions

`users` and `sessions` are the tables; a session row keeps its state, user, current
token and time to live. Token id and refresh hash of a row are drawn and replaced
together, so one `token` stands for both. `jwt` holds signed access tokens with
their remaining life. The authentication cache is abstracted to a choice of branch in
`AuthParse`: either branch may be taken for any token, which includes whatever the
cache really holds (module AuthCache). A password change keeps the session of its caller,
or none when the caller came with an API token. `redeemed`, `barred`, `dead` and `doomed` are
history.

### Mfa

`row` is the `mfa_*` columns of one user, `challenge` the challenge rows, `now` the
window counter of one-time passwords. A factor is a tagged tuple, so that a password
of another secret or another window is a different factor. `UpdateFieldsIf` is the
guard `FactorGuard` and its companions in the `...Swap` and `CompleteWrite` steps.
Enabling MFA also revokes the other sessions; that is module Sessions.

### LastAdmin

Update and deletion with `preventRemovingLastActiveAdmin` between load and write. The
update writes only the columns the request names (`Merge`).

### AuthCache

Local map, index and janitor of each hub, Redis entries and index sets with their own
expiry. A user is a version number that each write increases; an entry is the version
it was filled with. `raced` marks an entry that was read before and stored after an
invalidation on its hub. `setup`, fixed in `Init`, is the installation: which hubs run,
and whether they share a Redis.

### Routing

`services` is the table; a row is a host, a flag and a version for its other columns.
`shared` is Redis or one map per hub, `local` the LRU of each hub as a sequence, most
recent first. Handlers of create, update, delete and redeploy go through
`ApplyServiceChange` and `InvalidateHost` step by step, including `Save`, which
writes the whole row and inserts it when it is gone. `setup` is the installation, as
in AuthCache, with the handlers that may overlap and the changes they make. `missed`,
`since`, `raced`, `slow` and `lost` are history used by the properties: `missed` has the
caches and LRUs that some change did not reach, since its handler gave up halfway, its
announcement was lost, or without Redis the hub is another process; `lost` says that
one handler wrote over, or brought back, what another had changed unseen.

### CertLock

`row` is the lock row with its remaining life, `owners` and `lease` the maps and
goroutines of each hub. `Tick` is time. Hubs may stall at will; the history variable
`stalled` becomes true when time passes while a renewal is overdue or an acquisition
still waits for its goroutine. Hub clocks are assumed equal.

### AuditChain, AuditLog

`rows` is the table in the order of ids, `checkpoint` the signed row of the last
prune, `act` the transactions in progress, `ver` a verification. A hash is the sequence
of entries it covers, so equal hashes mean equal histories. `driver` decides what
PostgreSQL and SQLite do differently: whether transactions exclude each other, and what
the timestamp column keeps (`Stored`). A write reads the last hash (`WriteBegin`), draws
an id for each row (`WriteInsert`) and commits (`WriteCommit`) in separate steps, so that
on PostgreSQL rows may appear before others that are already there. Compaction
runs with the server stopped, as the tool asks. The conditions on ids of the queries and
deletions become positions (`Through`, and `Quiet` with `Rank` for what a compaction
keeps), because the table is in the order of its ids. `AuditLog` is the abstract log,
which `AuditChain` implements with the entries of `rows` as `log`. It has two forms:
`ordered`, for SQLite, grows at its end and loses only what is past retention; otherwise,
for PostgreSQL, a batch may appear anywhere between entries that keep their order, and a
prune, which deletes by id, may take such a late row with it though it is recent.

### AuditSink

`events` is the channel, `buffer` and `batch` belong to `run`, `prod` to the
`WriteEvent` calls in progress, `log` is the store. The policy is chosen in `Init`. Only a
store call and a channel operation are steps; `Close` may come at any time, and handlers
go on afterwards, because the hub shuts its servers down later. `sent`, `gone`, `direct`
and `atClose` are history.

### Tunnel

`node` and `client` are the tables, a row being a key, an address and whether a subnet
is advertised (for a client: the nodes it may reach). `mu` is the mutex of the manager,
`device` the running server. Bootstraps, revocations and client changes run under the
mutex from their first read to the application of the tables; creating, updating and
deleting nodes only take it for the application (`ApplyLock` to `ApplySet`), so an update
may write a whole row that has changed since it was loaded. `Abort` is a failing call at
any point. Addresses are the numbers 1 to `PoolSize` in the order of the pool; the server's
own one is not among them. `restored`, `failed` and `dead` are history: an update brought
back an old assignment, a written change did not reach the device, a removal ran through.

### Agent

`token` and `row` are the enrolment tokens and the identifying columns of `nodes`,
`agent` the process on a node with its memory, its state file (`disk`) and its
listeners, `call` its requests and `edit` those of administrators. An answer may be lost or
come after the agent gave up; the agent may crash at any step, and a save may fail. A
bootstrap is checked, then loads and saves the row under the mutex of the manager
(`BootCheck`, `BootLoad`, `BootWrite`); a revocation does so too (`RevokeLoad`,
`RevokeWrite`); an update takes no mutex and saves all columns it loaded (`UpdateLoad`,
`UpdateWrite`). The history variable `touched` has the nodes whose keys are no longer those
of the last bootstrap the agent waited for, because of a revocation, a late bootstrap, or
an update that wrote older ones back; `revoked` the nodes that have had no bootstrap and no
such update since a revocation. Addresses are in Tunnel, whose `EnrollNode` is the same
insertion seen from there, and so is the bootstrap an administrator does for a node.

### Access

One published service, one user and one browser. A request goes through the stages of
`Handler` in the order of the code, up to "forward"; the service and the user may be
saved anew in between, while a request keeps the route it was given. Prefix lists are
sets of addresses, paths are sequences of segments with the marks the two readings of
a path tell apart (`;` parameters, capitals, `..`). The user is known by the host session
cookie, a bearer token of either kind, or an API token, which has a role of its own and no
groups. `bridge`, `token` and `jar` are the credentials and cookies; `redis` and `local`
remember the bridge tokens consumed. A setup says whether there is a Redis and whether the
service is on the host of the administration, where access tokens count, no session bridge
is issued, and pins and codes leave their cookie at once. `Restart` empties the memory of
the process. `opened`, `failed`, `forgotten` (uses lost in a restart) and `proven` are history.

### Upstream, DenialThrottle, Reputation

Upstream has the retry by method and the breakers, by the target that is looked up and
the target that failures are recorded under; `streak` and `lastFail` are what really
happened. DenialThrottle has the counts of this window and the last. Reputation has the
poller, its mirror, the settings and the usage counters; the LAPI is external, and
answers a first poll with everything, later ones with what changed since the last poll
it answered.

### CertWorker

One certificate with its row, certmagic storage (`magic`), the stored certificates
(`tls`) and the cache (`hits`, `misses`, `flight`). `job` is the worker and the handlers,
each saving the whole row it loaded. A stored certificate is the time it expires.
`drift` is history: the row was edited, imported into or written back by a race, or a sync
put certmagic's certificate in the place of a longer lived imported one and could not save
the expiry (`Overstated`). `leftover` is history too: the names whose stored certificate a
purge failed to delete, which the handler logs and answers with success.

### Passkeys, OidcLogin, Tokens

Passkeys has the challenges of one account in Redis and in memory, and stored sign
counters. OidcLogin has accounts by email and by the reference of the provider, with
the lookup and the writes of a callback as separate steps. Tokens has one API token and
the break-glass token.

### Webhooks, Secrets

A stored value is the secret with the list of keys it is encrypted under, outermost
first, so that encrypting twice or under a key that is gone shows. Both go through
restarts with other key lists. Webhooks has the deliveries, which save the row they
were started with, for edits of the hooks and for any other event (`LogEvent`). Secrets has the steps of start-up (`boot`), the settings row, the
DNS providers, a TLS key, edits, and the re-encryption provider by provider.

## Runs

| Run | Instance | Shows |
|---|---|---|
| `identity` | Sessions (1 user, 2 sessions, 2 requests, bounded tokens), Mfa (2 requests, 2 challenges), Tokens (2 requests, 1 restart) | the six session properties with the type invariant; one login per password and per challenge, bounded guesses; revoked and spent tokens |
| `access` | Access in five setups (with and without Redis, one of two hosts, 1 restart that forgets), and Upstream, DenialThrottle, Reputation, CertWorker (jobs; cache), Passkeys, OidcLogin | admission, one-time credentials, forwarded chains; retries and breaker; throttle; mirror; certificates and their cache; logins |
| `routing` | 1 hub with 2 hosts, 1 hub with an update and a deletion that overlap, and 2 hubs with Redis and 1 host; a wildcard, LRU of 1 | visibility of successful changes, bound on staleness |
| `cert_lock` | 3 callers on 2 hubs, 3 owner strings, 1 tolerated failure, stalls | mutual exclusion before a stall, late unlock, abandoned lock (under fairness) |
| `audit` | AuditChain on both databases, 2 actors, 4 entries, batches of 2; Webhooks with 1 hook, 2 requests, 2 deliveries, 1 restart; Secrets with 1 provider, 3 starts | intact chain and honest verification on SQLite, counting by concurrent prunes, refinement of AuditLog on both; secrets and switches of webhooks; stored secrets |
| `progress` | AuthCache on 1 hub with 2 tokens of a user and on 2 hubs with Redis, room for 1 entry; AuditSink with 4 policies, 2 producers, channel and batch of 2, 5 events | expiry, cause of staleness, conservation and order of events; convergence, delivery and room for blocked handlers (under fairness) |
| `tunnel` | Tunnel with 2 nodes, 1 client, 2 keys, 2 addresses, 2 handlers, 5 requests; Agent (joining; forwarding) with 1 agent, 1 token, 2 services, 2 administrators | addresses and keys apart, device in step with the tables, removed keys out; single use of a token, agent in step with the hub |
| `mfa_replay` | Mfa as in `identity` | violation: a recovery code logs in twice |
| `last_admin_race` | 2 requests | violation: two administrators demote each other |
| `audit_chain_fork` | PostgreSQL, 2 actors | violation: two rows with one predecessor |
| `crowdsec_off` | Reputation, 2 values | violation: CrowdSec switched off still refuses requests |
| `secret_rotation` | Secrets, 3 starts, 2 keys | violation: a rotation done as documented ends in a hub that does not start |

Bounds. The interesting cases need two handlers (three where one reads, one changes
and one looks), two rows of a kind, one more entry than a cache holds, lifetimes of
one to three ticks, and a second version of a row. Counters that grow without limit
in the code (versions, windows, tokens, owners) are capped in the guards by the
constants named `Max...` or by the size of the set they are drawn from. Symmetry is
used over requests, rows, tokens, keys and hubs, only in runs without liveness
properties; where two modules of one run have sets of like elements, the configuration
gives both the same model values, so that one permutation serves both.

Some instances are narrowed further, by the operators named `...Scope` and by the setups:
- Access: policies against all users with one request at a time (two setups), the
  services with codes and pins without Redis on the host of the administration, two
  requests racing for one credential, and restricted services on that host. The first two
  leave restarts that forget a use to the others.
- CertWorker: `issue` has the jobs, a row for two names and no cache; `serve` has the
  cache, one name, no clock, and no further job of an actor whose job failed. certmagic
  renews later than the worker looks (`MagicWindow` below `RenewWithin`), so that a sync may
  bring back an older certificate. With two names only the purge of the first may fail, so
  that the second is purged after an error; in `serve` it fails only while nothing else is
  done; after it no other job begins.
- AuditChain: a behaviour ends with its first verification; the next one would start from
  the same values.
- Secrets: one value of REQUIRE_MFA_FOR_ADMINS throughout a behaviour; one administrator.
- OidcLogin: starts without the demand for verified addresses, which may come later.
- Agent: `join` has no services, and one change by an administrator or a revocation during
  an update of the node of a provisioned agent (`EditScope`), with errors of the database
  where `ErrorScope` says; `forward` has an agent that joins without trouble and services
  that change. The proofs have none of these limits.
- Routing: the overlapping handlers are an update and a deletion with one write each, and
  the two hubs with Redis have no redeploy. Both properties are proved for any changes
  that overlap, so the run is there for its counterexamples.

The violations are findings, quoted in `PROJECT.json`. A recovery code is removed by
a write whose guard does not mention recovery codes. The count of administrators is not
part of the statement that removes one. On PostgreSQL nothing orders two audit writers.
CrowdSec counts as enabled while it has an address and a key, which switching it off does
not take away; without `CROWDSEC_FAIL_OPEN` every request is refused once the last poll is
old. A rotation and its status go through the DNS providers only, so the secrets of the
settings stay under the old key. Weaknesses that are visible in the models without a run
of their own:
- on PostgreSQL the hash covers nanoseconds that the column drops (`Stored`), so that a
  single writer breaks `ChainIntactEverywhere` as well;
- a verification reads its anchor and its rows in different statements, so that a prune
  in between makes it report a mismatch (`MismatchOnlyFromPrune` says that this is the
  only cause);
- for a service behind a node, failures are recorded under the configured target and
  looked up under the rewritten one, so that its breaker never opens
  (`ConfiguredTarget`, `rewriteTargetForTunnel`);
- whole-row saves (services, nodes, certificates, webhooks, passkeys, settings) undo what
  another handler wrote since the load, and some insert rows that were deleted. The modules
  have history variables for it (`lost`, `restored`, `touched`, `drift`, `stale`, `revived`),
  and the properties say what else, if anything, they except;
- without Redis a hub that restarts within the life of a bridge token accepts it again
  (`forgotten`);
- a purge that fails leaves the certificate of a deleted row in use, and nothing tries it
  again (`leftover`).

### Fairness

Run `progress` assumes that time passes (`Tick`), that a handler that started goes on to
its end or its failure (`Step`): goroutines are scheduled, and every database and Redis
call has a timeout; and the same of the goroutine `run` of the sink. Each is assumed while
its part is the one exercised. `CertLock!FairSpec` assumes only that time passes. Nothing
assumes that a client, an administrator, an announcement or the janitor ever acts.

## Proofs

Every theorem is proved for all values of the constants, under the named ASSUMEs of the
modules it speaks of; TLC evaluates those in the runs. A module that is only instantiated
states its assumption as a definition, and the composition module (`Identity`, `Edge`,
`Joining`, `Keeping`, `Upkeep`) assumes it. The assumptions say that None is a value of its own, that bounds
and lifetimes are numbers, and where it matters that a set is finite; CertLock assumes a
margin, Access that the memory of consumed bridge tokens outlasts them and that rows have
the shape the handlers store, Routing that no hub is called like the Redis cache, Agent that of some services one has the largest key,
CertWorker that the first delay and the recheck are no longer than the longest delay,
Webhooks and Secrets that every list of keys has a first one.

An invariant of a run is rarely inductive. Each module ends with the invariant that is
(`...Inv`); TLC checked it on an instance before it was proved, and the proof has one
lemma for each action or for the actions of one shape.

| Module | Proved of | Properties |
|---|---|---|
| `IdentityProofs` | Sessions, Tokens, Mfa | `TypeOK`, `SingleRedemption`, `DeadTokenRejected`, `PasswordChangeEndsOthers`, `RevokedIsFinal`, `DeactivatedGetsNoToken`, `TokensHold`, `FactorsHold` |
| `EdgeProofs` | Access, Passkeys, OidcLogin | `RestrictedHolds`, `EmailProven`, `CredentialOnce`, `ForgedHopIgnored`, `LoginsApart` |
| `ProxyProofs` | Upstream, DenialThrottle, Reputation, CertWorker | `SentOnceAndServed`, `NothingReportedTwice`, `ReputationKept`, `CachedCurrent`, `CertificatesKept` |
| `UpkeepProofs` | AuthCache, AuditSink | `EntryDiesWithToken`, `StaleOnlyByRace`, `SinkKeepsEvents` |
| `CertLockProofs` | CertLock | `TypeOK`, `MutualExclusion`, `UnlockOwnOnly` |
| `RoutingProofs` | Routing | `SuccessVisible`, `StaleBounded` |
| `JoiningProofs` | Tunnel, Agent | `AssignmentsApart`, `RevokedOut`, `PeersCurrent`, `EnrolledOnce`, `AgentInStep` |
| `KeepingProofs` | Webhooks, Secrets, AuditChain | `WebhooksHonoured`, `SecretsSafe`, `ChainIntact`, `VerificationSound`, `PrunedCounted`, `ImplementsAuditLog` |

**Sessions.** `IInv` adds to the types: tokens in rows and tokens signed were drawn before
(`TokensDrawn`), no two rows share a token (`TokensUnique`), a redeemed token is in no row
(`RedeemedGone`), a request that came with a dead token still holds a dead one
(`DeadStaysDead`), a refresh knows the owner of its row (`RefreshOwner`), and what a
password change set out to end is still within its reach (`DoomedReachable`).
`SingleRedemption` alone is not inductive: a second redemption is excluded only because
the first one removed the token from the only row that had it, and tokens are never drawn
twice. `DeactivatedGetsNoToken` follows from a second invariant (`BarredInv`): a request
that arrived while its user was out is still before every check of the user, and the user
is still out.

**Tokens, Mfa.** `TokensInv` adds that a row which a request found is never deleted and
that the check does not take a consumed token. `MfaInv`: the window of a code that
completed a login is behind the row as long as its secret is in use (`WindowsSpent`); a
handler about to write holds a factor newer than the row it read (`SecretsApart`), which
the conditional update compares; only the handler that marked a challenge completes it
(`MarkedOnce`); wrong codes counted and handlers still to count together stay below the
limit plus the handlers (`AttemptsLeft`).

**Passkeys, OidcLogin.** An answer takes one of the copies of a challenge, of which there
are two only when Redis did not confirm (`CopiesCounted`); a counter in use is above the
stored one and that above every accepted one (`CountersRise`). For OIDC: the subjects that
reached an account, are about to, or own it are one (`OneClaim`), and what a lone callback
of a subject found is still so (`LookupHolds`).

**Access.** How far a decision has come is told by the stage of the request (`Decided`);
addresses in bridge tokens and cookies were proven (`AddressesProven`); while a bridge
token is valid its uses are remembered in one of two counters or were forgotten by
restarts, and with Redis the local one is used only after Redis failed (`Remembered`). `ForgedHopIgnored` speaks of chains of any length:
the last untrusted hop decides, so what stands before an untrusted one changes nothing
(`TailDecides`).

**Upstream, DenialThrottle, Reputation, CertWorker.** The breaker of a directly reached
target is what its failures in a row make it (`BreakerInStep`). `NothingReportedTwice` is
inductive with the types. The first poll of a poller finds an empty mirror or the gap is
noted (`StartsEmpty`). A load of the current generation has what is stored, or the change
it missed is yet to be announced (`LoadCurrent`).

`CertificatesKept` follows from `KeptInv`. Between the steps of the jobs, what a job loaded
and nobody wrote over is still the row (`FreshHolds`), so the row it saves has the names and
the expiry of what is stored; what is stored is for a name of the row, about to be purged,
or left by a purge of that name that failed (`StoredWanted`); and the row promises more than is stored only while a sync works on it,
which sets it right at its end or notes the drift (`Undrifted`). The proof of the last part
found the exception named above, which the earlier, smaller instance of the run did not
reach. The next attempt is never further away than the longest delay (`DueInTime`):
`retryDelay` is a recursive function (`Backoff`), and that it has a value for every number of
failures, below the limit, is an induction. The library's induction theorems cannot be
instantiated by the installed provers, so `ProxyProofs` derives induction over a set of
naturals (`Induction`) from the least element of a well-founded order (`Least`).

**AuthCache.** The entry a fill carries has no more time than its token, the index lists
every entry (`Indexed`), and a fill with an old version was raced or will be, because an
invalidation of its user is under way on its hub (`FillsStaleOnlyByRace`).

**Routing.** `RouteInv` has two parts beside the types. `ChangesComing`: outdated routes of
a host in a cache or with a request are marked as raced, or some handler is going to
invalidate that host (`Due`). There are three ways it is going to: with its first
`InvalidateHost` (`First`), with the second one for the host the service was moved away
from (`Second`), which it drops only if by then the table has the service there again, or
not at all, since the hub is another process without Redis, which the announcement will
note in `missed` (`Beyond`). The LRU of a hub is behind its cache: it also waits for the
announcement, or has it on its bus. `SuccessVisible` alone is not inductive: it says
nothing while a handler runs, and its end is right only because everything outdated had
its invalidation to come. A write changes routes only at the old and the new host of the
row (`Untouched`); both are hosts the handler will invalidate, or go to `lost`.
`AgesInStep`: the time since a host's routes changed and the time an outdated entry has
left add up to no more than the lifetimes of the caches it passed. Lemmas about the LRU as
a sequence (`RemoveIs`, `AddIs`, `DropIs`) say what it holds after each operation.

**CertLock.** For any hubs, callers and owner strings, and any `TTL`, `Every` and `MaxFails`
with `(MaxFails + 1) * Every < TTL` (the code has a third of the lifetime as interval, so
one failed renewal is tolerated). Who has the lock owns the row, and the row's remaining
life exceeds the wait for the last renewal that may still come (`RowLasts`); owners are
distinct (`OwnersApart`) and a hub remembers the owner of its holder and no other
(`OwnersHeld`). All of this holds until a hub stalls, so the inductive formula is
`~stalled => IInv`; the types are inductive without it and hold after a stall too. So does
`OwnersAtHome`, behind `UnlockOwnOnly`: an owner string is used and remembered only in the
process that drew it, so the conditional delete of a late unlock cannot match the row of
a holder elsewhere.

**Tunnel.** The mutex is held between Lock and Unlock and nowhere else (`MutexHeld`), so
what its holder has read is still free when it is assigned (`Reserved`); no row and nothing
on its way has a dead key (`RowsAlive`, `CarriesAlive`), up to the update that brings back
an old row; while no change waits to be read, the handler that applies, or else the device,
has the peers and rules of the tables (`ReadCurrent`).

**Agent.** A node is known to one agent only, the one whose request enrolled it
(`NodesApart`), and what an agent waits for is its own request about its own node
(`AgentsWhole`). So an answer it waits for is still true when it arrives, or the change
that made it untrue is on record (`AnswersHold`). `AgentMatchesHub` alone is not
inductive: that the save of an answer brings the agent in step needs the answer to be
that of the row, and a bootstrap by another agent, or an old one of its own, could have
replaced it. It also needs to know what the edits under way hold: a row loaded by an update
has the keys of the node, or was overtaken and is noted as one that writes older keys back
(`EditsHold`). A single-use token in the table has enrolled no node, or one
and is used (`TokensSpent`), and a claim under way is for the kind of token it found
(`ClaimsHold`).

**Webhooks, Secrets.** What a delivery or a request holds of a hook is the row it loaded
with the secret opened where a key fits (`Read`, `CopiesRead`), so saving it over the same
row puts the secret under one key again; a hook that was never created has no row, no copy
and no delivery (`Unborn`). A delivery is started for an active row only, so once its hook
is off what it holds is no longer the row, and its save is a stale one. In Secrets
nothing is ever encrypted twice (`SecretValue`), because every encryption is of text or of
what was just opened. Requests and re-encryptions live only while the hub serves, and a
copy of the settings is of a row that opened with the keys of this start
(`CopiesReadable`), so every save leaves a row that opens. `NothingLeftUnderOldKey` alone
is not inductive: while a re-encryption runs, a provider is under the first key, or on the
list of what is still to do with the value it has now, or a failure is on record
(`ReencryptLeaves`); the key of the last complete one is the first key until the next
start (`RotatedLast`).

**AuditChain.** `ChainInv`: the ids of the rows rise, with SQLite from the checkpoint on, no
id of a row or of a transaction was drawn twice (`IdsDrawn`), with SQLite the ids a
transaction has drawn are the last ones (`DrawnLast`), and a table without rows has a checkpoint without a hash, so that the next write starts where the
verification does (`IdsRise`); a prune under way does not remove the newest row, and with SQLite
removes only rows past retention, whatever others append or remove before its deletion
(`PrunesOld`); with SQLite
at most one transaction is open, and the hash it read is still the latest or still that of
its row (`OneAtATime`); a verification under which nothing was pruned knows the hash that
the rows after its last one follow, and its start's newest row is not yet gone
(`VerifiesOn`). `ChainIntact` alone is not inductive: a write chains on from a hash it read
in an earlier step, a prune takes its checkpoint from a row it read in an earlier step.
Two lemmas carry the hashes: segments that verify can be joined where the second follows
the last hash of the first (`SegmentConcat`, for inserts) and cut (`SegmentSlice`, for
prunes and for the batches of a verification). The refinement maps a commit to `Extend` (the
drawing of ids to no step), a deletion to `Retain` or, when another hub was faster, to no step, and a compaction to
`Compact`; that each kept row has one rank and each rank one row (`Ranks`) comes from the
least position with so many kept rows up to it. `WriteCommit` puts the rows together by
their ids (`ById`); that the old ones keep their order, and with SQLite their places, is
`ByIdIs` and `WriteCommitIs`. `PrunedCounted` and the refinement of the log that is not
`ordered` are proved for PostgreSQL too, where the chain itself may fork (run
`audit_chain_fork`).

**AuditSink.** `SinkInv`: an event is with one handler, or was sent, or was written
directly, and in one of these ways only (`EventsApart`), so what a handler sends or writes
is new to every place; the store, the batch, the buffer and the channel hold their events
in the order sent, each place before the next (`PlacesInOrder`), and together with the lost
ones they hold all that was sent (`PlacesHold`). `DrainedAtClose` alone is not inductive:
what a last batch will write must be told from what is still in the channel, which the
stages of the shutdown do (`ClosesInOrder`). The order is treated as a relation that only
grows, and lemmas about sequences sorted by a relation (`SortedAppend`, `SortedJoin`,
`SortedTail`) carry it through every move from one place to the next (`PlacesMove`,
`PlacesGrow`).

Only model-checked: the liveness properties, and everything under fairness; the prover has
no ENABLED. Every invariant and action property of the passing runs is proved.

## What the models leave out

- Clock differences between hubs, and database failover.
- Errors of `RevokeOtherUserSessions` after a password change: the handler ignores
  them and reports success; `PasswordChangeEndsOthers` speaks of the case without.
- A login between its password check and its insert while the password changes: its
  session survives; the property speaks of sessions that existed at the write.
- `UnlockOwnOnly` says nothing of two callers of one process around a stall past the lease: owners are remembered by
  lock name, so the older caller's unlock releases the newer caller's lock.
- Under `drop_oldest` the evicted event is dropped without a log line, unlike a dropped
  new event; `SentAccounted` counts the evicted one
  as `gone`, a dropped new one was never sent. Events sent after `Close` stay in the
  channel.
- Tunnel is one hub. The mutex belongs to the process and nothing in the database makes
  addresses or keys unique, so two hubs that assign at the same time are not covered.
  Server key, preshared keys, the content of the configuration file and traffic are left
  out. `enabled` is one column; that a settings handler writes back all columns it read,
  and starts the server with settings it read a moment before, is not modelled.
  `applyPeersLocked` ignores its errors, so a revocation may report success while the peer
  is still there; `PeersCurrent` excludes this (`failed`).
- A prune deletes the rows and saves its checkpoint in one step (`PruneCommit`). On
  PostgreSQL two prunes that share no row, one of them of a row committed late, could
  overwrite each other's checkpoint.
- Access has one service, one user with one API token, and one hub; the request limits and
  the choice among the routes of a host by path are left out. What makes an API token
  invalid is in Tokens; here it is an input (`usr.api`). Stale routes are in Routing, stale users in
  AuthCache.
- Upstream targets reached directly are what `SentOnceAndServed` speaks of.
- In Routing the memberships of a service (`ReplaceServiceGroups`, a separate write after the
  save) belong to the version of its row.
- CertWorker has one hub and one row, and no certificate configured as a file, nor a hub
  without ACME; the parts of certmagic's storage that a failed purge leaves behind are in
  no property; two hubs that both run the worker are kept apart by
  the lock (CertLock) only inside certmagic, and DNS-01 challenges are left out.
- OidcLogin starts after the callback has been verified: state, nonce and code exchange
  are the library's and a signed cookie's. The issuer does not change.
- Agent: two tokens or agents at once only meet in the nodes table, whose rows are
  separate; the run has one of each.
- Secrets is one hub with one environment: the command line tool, which really has an
  environment of its own and runs beside the hub, acts in one step with the keys of the
  hub, and a second hub with another list of keys is not covered. The secrets of users
  (MFA) are not part of it.

### Not modelled

Self update (one sequential swap of a file), access log, configuration parsing and
migrations, exposure scanner, GeoIP, mail, metrics, update check and dashboard: they have
no state that other components race for, and what they could get wrong is in the file
system, the network or the wording.

## Plan

1. Done: Sessions, Mfa, LastAdmin, AuthCache, Routing, CertLock, with proofs for
   Sessions and CertLock.
2. Done: AuditChain with the abstract AuditLog, AuditSink, Webhooks.
3. Done: Tunnel on one hub, Agent. Open: two hubs.
4. Done: Access with route access and the bridge limiter, Upstream, DenialThrottle,
   Reputation, CertWorker, Passkeys, OidcLogin, Tokens, Secrets.
5. Open: domain renames in Routing, an abstract lock between CertLock and CertWorker.
6. Done: proofs for Sessions, Tokens, Mfa, Passkeys, OidcLogin, Access, Upstream,
   DenialThrottle, Reputation, CertWorker, AuthCache, CertLock, Tunnel, Agent, Webhooks,
   Secrets, AuditChain with its refinement of AuditLog, AuditSink, Routing.
