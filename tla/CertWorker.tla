----------------------------- MODULE CertWorker -----------------------------
(***************************************************************************)
(* Issuing and serving certificates: the worker that issues and renews,    *)
(* the handlers that edit, sync, import and delete a certificate           *)
(* (internal/acme manager.go, worker.go, retry.go; internal/http           *)
(* domains_certificates.go, certificate_ops.go, auto_cert.go), the stored  *)
(* certificates and the cache the TLS handshake reads                      *)
(* (internal/acme certificate_store.go, certificate_cache.go).             *)
(*                                                                         *)
(* One row of certificates, one hub.  A stored certificate is the time it  *)
(* expires, 0 for none.  certmagic is external: ManageSync leaves in its   *)
(* storage a certificate for every name, renewed when it is due.  The lock *)
(* around it is in CertLock.  ACME is configured: the two branches of      *)
(* SyncCertificate without it (a static certificate, or none) write the    *)
(* row and store nothing, and are left out.                                *)
(***************************************************************************)
EXTENDS Integers, Sequences, FiniteSets, SequencesExt

CONSTANTS
    NameLists,   \* the names a certificate may be for, primary name first
    Jobs,        \* "worker" and the handlers
    Flights,     \* loads of the cache that may be under way
    Asked,       \* names handshakes ask for
    None,
    Life,        \* lifetime of an issued certificate
    RenewWithin, \* ACMERenewWithin
    RenewalWindow, \* RenewalWindowDays of the row
    MagicWindow, \* certmagic renews what expires within this time
    BaseDelay, MaxDelay, Recheck,  \* delays of retry.go
    FreshFor, MissFor,             \* ages of certificate_cache.go
    MaxNow, MaxFailures            \* bounds

VARIABLES
    now,
    row,       \* the certificates row, or None
    magic,     \* certmagic storage
    tls,       \* stored_tls_certificates
    hits,      \* cached certificates with the time they were loaded
    misses,    \* names cached as missing, with the time
    flight,    \* loads under way
    job,       \* program counter and local variables of worker and handlers
    drift,     \* history: the row was edited, imported into or written back by a race,
               \* created while its predecessor was being purged, or left with the
               \* expiry of an imported certificate that a sync had replaced
    leftover   \* history: names a failed purge may have left stored, and nothing
               \* has been stored for or purged since

certVars == <<now, row, magic, tls, hits, misses, flight, job, drift, leftover>>

Names == UNION {Range(l) : l \in NameLists}

NewRow(names, auto, exp) ==
    [names |-> names, auto |-> auto, status |-> "pending", exp |-> exp, failures |-> 0, next |-> None]

IdleJob == [pc |-> "idle", item |-> None, i |-> 0, import |-> FALSE, fresh |-> TRUE]
NoFlight == [name |-> None, cert |-> None, old |-> FALSE, forgotten |-> FALSE]

Init ==
    /\ now = 0 /\ row = None
    /\ magic = [n \in Names |-> 0]
    /\ tls = [n \in Names |-> 0]
    /\ hits = [n \in Names |-> None]
    /\ misses = [n \in Names |-> None]
    /\ flight = [f \in Flights |-> NoFlight]
    /\ job = [j \in Jobs |-> IdleJob]
    /\ drift = FALSE /\ leftover = {}

cache == <<hits, misses, flight>>
Handlers == Jobs \ {"worker"}
Names1(j) == job[j].item.names
Current(j) == Names1(j)[job[j].i]
Purging(j) == job[j].pc \in {"purge", "forget"}

-----------------------------------------------------------------------------
(* When the next attempt is due.                                           *)

\* Mutant: the delay keeps doubling.
MutNoCap(failures) == BaseDelay * 2^(failures - 1)

\* One round of the loop in retryDelay.
Doubled(delay) == IF 2 * delay >= MaxDelay THEN MaxDelay ELSE 2 * delay

\* The delay after n rounds.
Backoff[n \in Nat] == IF n = 0 THEN BaseDelay ELSE Doubled(Backoff[n - 1])

\* retryDelay: doubled with every failure, up to a limit.
retryDelay(failures) == Backoff[failures - 1]

\* nextRetryState: failure count and next attempt after a sync.
nextRetryState(item) ==
    IF item.status = "failed"
    THEN [failures |-> item.failures + 1, next |-> now + retryDelay(item.failures + 1)]
    ELSE [failures |-> 0,
          next |-> IF item.exp # 0 /\ item.exp < now + RenewWithin THEN now + Recheck ELSE None]

Due(r) == r.next # None => r.next <= now

\* The rows of ListPending and, with auto renewal, of ListExpiringBefore.
ListPending(r) == r # None /\ r.status = "pending" /\ Due(r)
ListExpiringBefore(r) == r # None /\ r.exp <= now + RenewWithin /\ Due(r) /\ r.auto

derivedCertificateStatus(exp) == IF exp <= now + RenewalWindow THEN "expiring_soon" ELSE "issued"

-----------------------------------------------------------------------------
(* SyncCertificate.                                                        *)

Start(j, item) == job' = [job EXCEPT ![j] = [IdleJob EXCEPT !.pc = "config", !.item = item]]

\* runOnce lists the row; the sync may start much later, after those listed before it.
runOnce ==
    /\ job["worker"].pc = "idle"
    /\ ListPending(row) \/ ListExpiringBefore(row)
    /\ row.failures < MaxFailures
    /\ Start("worker", row)
    /\ UNCHANGED <<now, row, magic, tls, cache, drift, leftover>>

\* handleSyncCertificateStatus, the background job of autoIssueCertificateForDomain;
\* handleRetryCertificate and handleRenewCertificate forget the failures.
SyncCertificateStatus(j, forget) ==
    /\ job[j].pc = "idle" /\ row # None
    /\ row.failures < MaxFailures
    /\ Start(j, IF forget THEN [row EXCEPT !.failures = 0] ELSE row)
    /\ UNCHANGED <<now, row, magic, tls, cache, drift, leftover>>

Goto(j, pc) == job' = [job EXCEPT ![j].pc = pc]

\* configForCertificate: fails when the DNS provider is gone or not readable.
configForCertificate(j, ok) ==
    /\ job[j].pc = "config"
    /\ Goto(j, IF ok THEN "manage" ELSE "fail")
    /\ UNCHANGED <<now, row, magic, tls, cache, drift, leftover>>

\* ManageSync: obtains what is missing, renews what is due.
ManageSync(j) ==
    /\ job[j].pc = "manage"
    /\ magic' = [n \in Names |->
         IF n \in Range(Names1(j)) /\ (magic[n] = 0 \/ magic[n] <= now + MagicWindow)
         THEN now + Life ELSE magic[n]]
    /\ job' = [job EXCEPT ![j].pc = "store", ![j].i = 1]
    /\ UNCHANGED <<now, row, tls, cache, drift, leftover>>

\* The CA refuses, a challenge fails, or the time for a sync is over.
ManageSyncFails(j) ==
    /\ job[j].pc = "manage"
    /\ Goto(j, "fail")
    /\ UNCHANGED <<now, row, magic, tls, cache, drift, leftover>>

\* persistManagedCertificate copies what certmagic has for the name.
persistManagedCertificate(j) == magic[Current(j)]

\* An import and a sync at the same time leave a mixture.
Mixed(j) == \E k \in Jobs \ {j} : job[k].item # None /\ (job[j].import \/ job[k].import)

\* StorePEM for one name of a sync or of an import.
StorePEM(j) ==
    /\ job[j].pc = "store"
    /\ LET cert == IF job[j].import THEN job[j].item.exp ELSE persistManagedCertificate(j) IN
       IF cert = 0                                    \* purged in the meantime
       THEN /\ Goto(j, "fail") /\ UNCHANGED <<tls, leftover>>
       ELSE /\ tls' = [tls EXCEPT ![Current(j)] = cert]
            /\ leftover' = leftover \ {Current(j)}
            /\ Goto(j, "invalidate")
    /\ drift' = (drift \/ ~job[j].fresh \/ Mixed(j))
    /\ UNCHANGED <<now, row, magic, cache>>

\* The transaction of StorePEM fails; an import ends here.
StoreFails(j) ==
    /\ job[j].pc = "store"
    /\ job' = [job EXCEPT ![j] = IF @.import THEN IdleJob ELSE [@ EXCEPT !.pc = "fail"]]
    /\ drift' = (drift \/ job[j].import)
    /\ UNCHANGED <<now, row, magic, tls, cache, leftover>>

\* invalidate: drops the name, outdates the loads under way and lets new ones start.
invalidate(n) ==
    /\ hits' = [hits EXCEPT ![n] = None]
    /\ misses' = [misses EXCEPT ![n] = None]
    /\ flight' = [f \in Flights |->
         IF flight[f] = NoFlight THEN NoFlight
         ELSE [flight[f] EXCEPT !.old = TRUE, !.forgotten = @ \/ flight[f].name = n]]

Invalidate(j) ==
    /\ job[j].pc = "invalidate"
    /\ invalidate(Current(j))
    /\ job' = IF job[j].i < Len(Names1(j)) THEN [job EXCEPT ![j].pc = "store", ![j].i = @ + 1]
              ELSE [job EXCEPT ![j].pc = "finish"]
    /\ UNCHANGED <<now, row, magic, tls, drift, leftover>>

\* CertificateStore.Update saves every column, and inserts a row that is missing.
Update(j, item) ==
    /\ row' = item
    /\ drift' = (drift \/ ~job[j].fresh)

\* An item loaded before this change of the row will be written back over it.
Outdate(j) == [k \in Jobs |-> IF k # j /\ job[k].item # None
                              THEN [job[k] EXCEPT !.fresh = FALSE] ELSE job[k]]

lookupStoredCertificateExpiry(item) == tls[item.names[1]]

\* The certificate is stored for every name: lookupStoredCertificateExpiry, Update,
\* which fails when the time for the sync is over.
SyncFinish(j, saved) ==
    /\ job[j].pc = "finish"
    /\ LET exp == IF job[j].import THEN job[j].item.exp
                  ELSE lookupStoredCertificateExpiry(job[j].item)
           item == IF exp = 0 THEN [job[j].item EXCEPT !.status = "failed"]
                   ELSE [job[j].item EXCEPT !.exp = exp, !.status = derivedCertificateStatus(exp)]
       IN /\ IF saved THEN Update(j, item)
             ELSE /\ UNCHANGED row /\ drift' = (drift \/ job[j].import)
          /\ job' = [IF saved THEN Outdate(j) ELSE job EXCEPT ![j] =
               IF job[j].import THEN IdleJob ELSE [job[j] EXCEPT !.item = item, !.pc = "retry"]]
    /\ UNCHANGED <<now, magic, tls, cache, leftover>>

\* A step failed: the status is saved, unless the time for the sync is over too.
SyncFail(j, saved) ==
    /\ job[j].pc = "fail"
    /\ LET item == [job[j].item EXCEPT !.status = "failed"] IN
       /\ IF saved THEN Update(j, item) ELSE UNCHANGED <<row, drift>>
       /\ job' = [IF saved THEN Outdate(j) ELSE job EXCEPT ![j].item = item, ![j].pc = "retry"]
    /\ UNCHANGED <<now, magic, tls, cache, leftover>>

\* The row promises a later expiry than the stored certificate has: a sync
\* put an older one in the place of an imported one.
Overstated == row # None /\ tls[row.names[1]] < row.exp

\* recordRetryState, deferred: two columns of a row that may be gone, or that the
\* database does not take.
recordRetryState(j, saved) ==
    /\ job[j].pc = "retry"
    /\ LET s == nextRetryState(job[j].item) IN
       row' = IF row = None \/ ~saved THEN row
              ELSE [row EXCEPT !.failures = s.failures, !.next = s.next]
    /\ job' = [job EXCEPT ![j] = IdleJob]
    /\ drift' = (drift \/ Overstated)
    /\ UNCHANGED <<now, magic, tls, cache, leftover>>

-----------------------------------------------------------------------------
(* The other handlers.                                                     *)

\* handleCreateCertificate: the request may claim an expiry.
CreateCertificate(names, auto, exp) ==
    /\ row = None
    /\ \A j \in Jobs : job[j].item # None => Purging(j)    \* one row at a time
    /\ row' = NewRow(names, auto, exp)
    /\ drift' = (drift \/ exp # 0 \/ \E j \in Jobs : Purging(j))
    /\ UNCHANGED <<now, magic, tls, cache, job, leftover>>

\* autoIssueCertificateForDomain: for a domain no certificate covers; its
\* background job reloads the row and syncs it.
autoIssueCertificateForDomain(names) == Len(names) = 1 /\ CreateCertificate(names, TRUE, 0)

\* A handler loads the row it will work on.
LoadCertificate(j, pc) ==
    /\ job[j] = IdleJob /\ row # None
    /\ job' = [job EXCEPT ![j] = [IdleJob EXCEPT !.pc = pc, !.item = row, !.i = 1]]
    /\ UNCHANGED <<now, row, magic, tls, cache, drift, leftover>>

\* ImportPEMCertificate stores the given certificate under every name of the row.
ImportPEMCertificate(j) ==
    /\ job[j] = IdleJob /\ row # None
    /\ job' = [job EXCEPT ![j] = [IdleJob EXCEPT !.pc = "store", !.i = 1, !.import = TRUE,
                                                  !.item = [row EXCEPT !.exp = now + Life]]]
    /\ UNCHANGED <<now, row, magic, tls, cache, drift, leftover>>

\* handleUpdateCertificate saves the row it loaded, after validation.
UpdateCertificate(j, names, auto, exp) ==
    /\ job[j].pc = "edit"
    /\ row' = [job[j].item EXCEPT !.names = names, !.auto = auto, !.exp = exp,
                                  !.failures = 0, !.next = None]
    /\ drift' = (drift \/ ~job[j].fresh \/ names # job[j].item.names \/ exp # job[j].item.exp)
    /\ job' = [Outdate(j) EXCEPT ![j] = IdleJob]
    /\ UNCHANGED <<now, magic, tls, cache, leftover>>

\* handleDeleteCertificate: the row goes first, then what is stored for its names.
DeleteCertificate(j) ==
    /\ job[j].pc = "delete"
    /\ row # None
    /\ row' = None
    /\ drift' = (drift \/ ~job[j].fresh)
    /\ job' = [Outdate(j) EXCEPT ![j].pc = "purge"]
    /\ UNCHANGED <<now, magic, tls, cache, leftover>>

\* Mutant: only what certmagic keeps is deleted.
MutMagicOnly(j, ok) ==
    /\ job[j].pc = "purge"
    /\ Goto(j, "forget")
    /\ UNCHANGED <<now, row, magic, tls, cache, drift, leftover>>

\* PurgeCertificateData for one name: DeleteCertificate of the store, which drops
\* the name from the cache even when the row could not be deleted, and the folders
\* of certmagic.  The first error is kept for the log; the remaining names are
\* purged all the same, the request is answered as a success, and nothing tries again.
PurgeStored(j, ok) ==
    /\ job[j].pc = "purge"
    /\ tls' = IF ok THEN [tls EXCEPT ![Current(j)] = 0] ELSE tls
    /\ leftover' = IF ok THEN leftover \ {Current(j)} ELSE leftover \union {Current(j)}
    /\ Goto(j, "forget")
    /\ UNCHANGED <<now, row, magic, cache, drift>>

PurgeMagic(j, ok) ==
    /\ job[j].pc = "forget"
    /\ invalidate(Current(j))
    /\ magic' = IF ok THEN [magic EXCEPT ![Current(j)] = 0] ELSE magic
    /\ job' = [job EXCEPT ![j] = IF @.i < Len(Names1(j)) THEN [@ EXCEPT !.pc = "purge", !.i = job[j].i + 1]
                                 ELSE IdleJob]
    /\ UNCHANGED <<now, row, tls, drift, leftover>>

\* A handler gives up: the row is gone, or the database fails.
Abort(j) ==
    /\ job[j].pc \in {"edit", "delete"}
    /\ job' = [job EXCEPT ![j] = IdleJob]
    /\ UNCHANGED <<now, row, magic, tls, cache, drift, leftover>>

-----------------------------------------------------------------------------
(* The cache.                                                              *)

\* A handshake finds nothing usable, or something that is no longer fresh.
WantsLoad(n) ==
    IF hits[n] # None THEN now - hits[n].at >= FreshFor
    ELSE misses[n] # None => now - misses[n] >= MissFor

\* get: one load at a time per name (singleflight), unless it was forgotten.
Get(f, n) ==
    /\ flight[f] = NoFlight /\ WantsLoad(n)
    /\ \A g \in Flights : flight[g].name = n => flight[g].forgotten
    /\ flight' = [flight EXCEPT ![f] = [NoFlight EXCEPT !.name = n]]
    /\ UNCHANGED <<now, row, magic, tls, hits, misses, job, drift, leftover>>

\* LoadCertificate reads the table.
RefreshLoad(f) ==
    /\ flight[f].name # None /\ flight[f].cert = None
    /\ flight' = [flight EXCEPT ![f].cert = tls[flight[f].name]]
    /\ UNCHANGED <<now, row, magic, tls, hits, misses, job, drift, leftover>>

\* Mutant: the generation is not compared.
MutAnyGeneration(f) == TRUE

SameGeneration(f) == ~flight[f].old

\* refresh, after the load: a result of an older generation is not kept.
RefreshStore(f) ==
    /\ flight[f].cert # None
    /\ LET n == flight[f].name
           found == flight[f].cert # 0
       IN IF SameGeneration(f)
          THEN /\ hits' = [hits EXCEPT ![n] = IF found THEN [cert |-> flight[f].cert, at |-> now]
                                              ELSE None]
               /\ misses' = [misses EXCEPT ![n] = IF found THEN None ELSE now]
          ELSE UNCHANGED <<hits, misses>>
    /\ flight' = [flight EXCEPT ![f] = NoFlight]
    /\ UNCHANGED <<now, row, magic, tls, job, drift, leftover>>

\* The load fails: what is cached is kept for another period.
RefreshFails(f) ==
    /\ flight[f].name # None /\ flight[f].cert = None
    /\ LET n == flight[f].name IN
       hits' = IF SameGeneration(f) /\ hits[n] # None THEN [hits EXCEPT ![n].at = now] ELSE hits
    /\ flight' = [flight EXCEPT ![f] = NoFlight]
    /\ UNCHANGED <<now, row, magic, tls, misses, job, drift, leftover>>

Tick ==
    /\ now < MaxNow
    /\ now' = now + 1
    /\ UNCHANGED <<row, magic, tls, cache, job, drift, leftover>>

Next ==
    \/ Tick
    \/ runOnce
    \/ \E names \in NameLists :
         \/ \E auto \in BOOLEAN, exp \in {0, now + Life} : CreateCertificate(names, auto, exp)
         \/ autoIssueCertificateForDomain(names)
    \/ \E j \in Jobs :
         \/ \E ok \in BOOLEAN : configForCertificate(j, ok)
         \/ ManageSync(j) \/ ManageSyncFails(j)
         \/ StorePEM(j) \/ StoreFails(j) \/ Invalidate(j)
         \/ \E saved \in BOOLEAN :
              SyncFinish(j, saved) \/ SyncFail(j, saved) \/ recordRetryState(j, saved)
    \/ \E j \in Handlers :
         \/ \E forget \in BOOLEAN : SyncCertificateStatus(j, forget)
         \/ \E pc \in {"edit", "delete"} : LoadCertificate(j, pc)
         \/ ImportPEMCertificate(j)
         \/ \E names \in NameLists, auto \in BOOLEAN, exp \in {0, now + Life} :
              job[j].item # None /\ UpdateCertificate(j, names, auto, exp)
         \/ \E ok \in BOOLEAN : PurgeStored(j, ok) \/ PurgeMagic(j, ok)
         \/ DeleteCertificate(j) \/ Abort(j)
    \/ \E f \in Flights :
         \/ \E n \in Asked : Get(f, n)
         \/ RefreshLoad(f) \/ RefreshStore(f) \/ RefreshFails(f)

Spec == Init /\ [][Next]_certVars

-----------------------------------------------------------------------------
(* Properties.                                                             *)

Quiet == \A j \in Jobs : job[j] = IdleJob

CertTypeOK ==
    /\ row # None => /\ row.names \in NameLists
                     /\ row.status \in {"pending", "failed", "issued", "expiring_soon"}
                     /\ row.failures \in 0..MaxFailures
    /\ \A n \in Names : tls[n] \in 0..(MaxNow + Life) /\ magic[n] \in 0..(MaxNow + Life)
    /\ \A f \in Flights : flight[f].name \in Names \union {None}

\* Between a change of the stored certificate and its invalidation.
Settling(n) == \E j \in Jobs : job[j].pc \in {"invalidate", "forget"} /\ Current(j) = n

\* A handshake is answered with the certificate that is stored: whatever loads,
\* issues, imports and deletions overlap, once a change has been announced to
\* the cache no load that began before it brings the old certificate, or the
\* old absence, back (certificateCache.refresh and invalidate).
CachedCurrent ==
    \A n \in Names :
        ~Settling(n) => /\ hits[n] # None => hits[n].cert = tls[n]
                        /\ misses[n] # None => tls[n] = 0

\* No certificate is forgotten: while nobody works on it, one that renews by
\* itself and has nothing stored, or something about to expire, is taken up by
\* the worker within the longest delay, whatever failed before and at which
\* step; an edit of the names or of the expiry, an import that broke off or met a
\* sync, a sync that replaced an imported certificate and could not save its
\* expiry, a row written back over a newer one and the late purge of a predecessor
\* are the exceptions
\* (recordRetryState, ListExpiringBefore).
RetriedInTime ==
    /\ Quiet /\ ~drift /\ row # None
    /\ row.auto /\ tls[row.names[1]] <= now + RenewWithin
    => /\ row.status = "pending" \/ row.exp <= now + RenewWithin
       /\ row.next # None => row.next <= now + MaxDelay

\* What is stored is wanted: a certificate is kept for handshakes only for a
\* name of the row, so nothing is left of a deleted one, unless a sync that
\* began before brought it back, an edit gave the name up, or the purge of that
\* very name failed, which the code logs and never repeats; such a name is
\* served on until a certificate is stored for it or purged again
\* (handleDeleteCertificate, PurgeCertificateData).
NothingLeftBehind ==
    Quiet /\ ~drift =>
        \A n \in Names \ leftover : tls[n] # 0 => row # None /\ n \in Range(row.names)

-----------------------------------------------------------------------------
(* The inductive invariant behind CachedCurrent.                           *)

CertRow == [names: NameLists, auto: BOOLEAN,
            status: {"pending", "failed", "issued", "expiring_soon"},
            exp: Nat, failures: Nat, next: Nat \union {None}]
CertHit == [cert: Nat, at: Nat]

\* A certificate is for at least one name; None is a value of its own.
CertAssumption ==
    /\ \A l \in NameLists : l \in Seq(Names) /\ Len(l) > 0
    /\ Asked \subseteq Names /\ "worker" \in Jobs
    /\ Life \in Nat \ {0} /\ RenewWithin \in Nat /\ RenewalWindow \in Nat /\ MagicWindow \in Nat
    /\ BaseDelay \in Nat /\ MaxDelay \in Nat /\ Recheck \in Nat
    /\ BaseDelay <= MaxDelay /\ Recheck <= MaxDelay
    /\ None \notin Nat /\ None \notin Names /\ None \notin CertRow

\* The steps of a job, those that work on one name of the row after another
\* apart from those that work on the row.
RowSteps == {"config", "manage", "fail", "finish", "retry", "edit"}
NameSteps == {"store", "invalidate", "delete", "purge", "forget"}
CertJob == [pc: RowSteps \union NameSteps, item: CertRow, i: Nat,
            import: BOOLEAN, fresh: BOOLEAN]
CertFlight == [name: Names, cert: Nat \union {None}, old: BOOLEAN, forgotten: BOOLEAN]

CertStateOK ==
    /\ now \in Nat /\ row \in CertRow \union {None}
    /\ magic \in [Names -> Nat] /\ tls \in [Names -> Nat]
    /\ hits \in [Names -> CertHit \union {None}] /\ misses \in [Names -> Nat \union {None}]
    /\ flight \in [Flights -> CertFlight \union {NoFlight}]
    /\ job \in [Jobs -> CertJob \union {IdleJob}]

\* A job that works on names has one of its row before it.
OnAName(j) == job[j].pc \in NameSteps => job[j].i \in 1..Len(Names1(j))

\* A load of the current generation has what is stored, or the change that
\* it missed is yet to be announced.
LoadCurrent(f) ==
    flight[f].cert # None /\ SameGeneration(f) =>
        Settling(flight[f].name) \/ flight[f].cert = tls[flight[f].name]

CertInv ==
    /\ CertStateOK
    /\ \A j \in Jobs : OnAName(j)
    /\ \A f \in Flights : LoadCurrent(f)
    /\ CachedCurrent

-----------------------------------------------------------------------------
(* The inductive invariant behind RetriedInTime and NothingLeftBehind.     *)

Syncs == {"config", "manage", "store", "invalidate", "finish", "fail", "retry"}
Syncing(j) == job[j].pc \in Syncs /\ ~job[j].import

\* Names a deletion has yet to purge.
ToPurge(j) ==
    IF Purging(j)
    THEN {Names1(j)[k] : k \in (IF job[j].pc = "purge" THEN job[j].i ELSE job[j].i + 1)..Len(Names1(j))}
    ELSE {}

\* A deletion begins with the first name, and an import only stores.
JobsBegin ==
    \A j \in Jobs :
        /\ job[j].pc = "delete" => job[j].i = 1
        /\ job[j].import => /\ job[j].pc \in {"store", "invalidate", "finish"}
                            /\ job[j].item.exp \in 1..(now + Life)

\* Nobody waits longer than the longest delay.
DueInTime ==
    /\ row # None /\ row.next # None => row.next <= now + MaxDelay
    /\ \A j \in Jobs : job[j].item # None /\ job[j].item.next # None =>
            job[j].item.next <= now + MaxDelay

\* No certificate lasts longer than one issued now.
LastsNoLonger ==
    /\ \A n \in Names : tls[n] <= now + Life /\ magic[n] <= now + Life
    /\ row # None => row.exp <= now + Life

\* An import has stored the certificate for the first name.
Imported(j) == job[j].pc \in {"invalidate", "finish"} \/ job[j].i > 1

\* What a job loaded and nobody changed is still so.
FreshHolds(j) ==
    job[j].item # None /\ job[j].fresh /\ ~Purging(j) =>
        /\ row # None /\ row.names = Names1(j)
        /\ ~job[j].import /\ job[j].pc # "retry" => row.exp = job[j].item.exp
        /\ job[j].import => /\ row.exp <= job[j].item.exp
                            /\ Imported(j) => tls[Names1(j)[1]] = job[j].item.exp

\* What is stored is for a name of the row, about to be purged or left over.
StoredWanted ==
    \A n \in Names \ leftover : tls[n] # 0 =>
        (row # None /\ n \in Range(row.names)) \/ \E j \in Jobs : n \in ToPurge(j)

\* What holds while nothing drifted.
Undrifted ==
    /\ LastsNoLonger
    /\ \A j \in Jobs : FreshHolds(j)
    /\ row # None => \A j \in Jobs : ~Purging(j)
    /\ Overstated => \E j \in Jobs : Syncing(j)
    /\ StoredWanted

KeptInv == JobsBegin /\ DueInTime /\ (~drift => Undrifted)
=============================================================================
