----------------------------- MODULE Reputation -----------------------------
(***************************************************************************)
(* The CrowdSec bouncer: the poller that mirrors the decisions of a local  *)
(* API (LAPI), the check the proxy makes against the mirror, the settings  *)
(* that start and stop it, and the usage counters it reports back          *)
(* (internal/security/crowdsec.go and crowdsec_metrics.go,                 *)
(* internal/http/network_settings.go, enforceNetworkRules).                *)
(*                                                                         *)
(* The LAPI is external: a poll with startup=true returns the decisions in *)
(* force, any other one what was added and deleted since the last poll the *)
(* LAPI answered.  An address and a range are both one element.            *)
(***************************************************************************)
EXTENDS Integers, FiniteSets

CONSTANTS
    Values,     \* values decisions are about
    FailOpen,   \* CROWDSEC_FAIL_OPEN
    StaleAfter, \* three poll intervals, at least a minute
    MaxNow,     \* bound on the clock
    MaxSeen     \* bound on requests checked

VARIABLES
    now,
    lapi,       \* decisions in force
    pending,    \* added and deleted since the last poll the LAPI answered
    wanted,     \* app_settings.crowdsec_enabled
    configured, \* apiURL and apiKey are set
    poller,     \* off, starting (first poll outstanding), polling
    mirror,     \* ipDecisions and prefixDecisions
    synced, lastSuccess,
    counted,    \* processed
    taken,      \* processed, taken for a report that is under way
    gap,        \* history: an answer was lost, or a poller started with old decisions
    seen,       \* history: requests checked
    reported    \* history: counts the LAPI acknowledged or refused for good

reputationVars == <<now, lapi, pending, wanted, configured, poller, mirror, synced,
                    lastSuccess, counted, taken, gap, seen, reported>>

settings == <<wanted, configured>>
usage == <<counted, taken, seen, reported>>
NothingPending == [new |-> {}, deleted |-> {}]

Init ==
    /\ now = 0
    /\ lapi \in SUBSET Values
    /\ pending \in [new: SUBSET lapi, deleted: SUBSET Values]  \* since an earlier process polled
    /\ wanted \in BOOLEAN /\ configured = wanted
    /\ poller = IF wanted THEN "starting" ELSE "off"
    /\ mirror = {} /\ synced = FALSE /\ lastSuccess = 0
    /\ counted = 0 /\ taken = 0 /\ seen = 0 /\ reported = 0
    /\ gap = FALSE

-----------------------------------------------------------------------------
(* The LAPI.                                                               *)

Ban(v) ==
    /\ v \notin lapi
    /\ lapi' = lapi \union {v}
    /\ pending' = [pending EXCEPT !.new = @ \union {v}]
    /\ UNCHANGED <<now, settings, poller, mirror, synced, lastSuccess, usage, gap>>

Unban(v) ==
    /\ v \in lapi
    /\ lapi' = lapi \ {v}
    /\ pending' = [new |-> pending.new \ {v}, deleted |-> pending.deleted \union {v}]
    /\ UNCHANGED <<now, settings, poller, mirror, synced, lastSuccess, usage, gap>>

\* The answer to a poll.
Stream(startup) == IF startup THEN [new |-> lapi, deleted |-> {}] ELSE pending

-----------------------------------------------------------------------------
(* The poller.                                                             *)

\* apply: removeLocked for what was deleted, then addLocked for what is new.
apply(m, s) == (m \ s.deleted) \union s.new

\* fetchOnce succeeds.
Fetch ==
    /\ poller # "off"
    /\ LET s == Stream(poller = "starting") IN mirror' = apply(mirror, s)
    /\ pending' = NothingPending
    /\ poller' = "polling"
    /\ synced' = TRUE /\ lastSuccess' = now
    /\ UNCHANGED <<now, lapi, settings, usage, gap>>

\* fetchOnce fails before or after the LAPI has answered; the next poll asks for
\* the changes only, even after the first one has failed.
FetchFails(answered) ==
    /\ poller # "off"
    /\ pending' = IF answered THEN NothingPending ELSE pending
    /\ gap' = (gap \/ poller = "starting" \/ (answered /\ pending # NothingPending))
    /\ poller' = "polling"
    /\ UNCHANGED <<now, lapi, settings, mirror, synced, lastSuccess, usage>>

-----------------------------------------------------------------------------
(* The check of a request.                                                 *)

Enabled == configured

\* Healthy: synced, and the last success is recent.
Healthy == synced /\ now - lastSuccess <= StaleAfter

\* The reputation part of enforceNetworkRules refuses the value.
Refused(v) == Enabled /\ ((~Healthy /\ ~FailOpen) \/ v \in mirror)

\* IsBlocked counts the request; without a mirror check nothing is counted.
Check(v) ==
    /\ seen < MaxSeen
    /\ Enabled /\ (Healthy \/ FailOpen)
    /\ seen' = seen + 1 /\ counted' = counted + 1
    /\ UNCHANGED <<now, lapi, pending, settings, poller, mirror, synced, lastSuccess,
                   taken, reported, gap>>

-----------------------------------------------------------------------------
(* pushUsageMetrics: takeWindow, the call, and restoreWindow on failure.   *)

TakeWindow ==
    /\ poller # "off" /\ counted > 0 /\ taken = 0
    /\ taken' = counted /\ counted' = 0
    /\ UNCHANGED <<now, lapi, pending, settings, poller, mirror, synced, lastSuccess,
                   seen, reported, gap>>

\* The LAPI accepts the counts, or does not take usage metrics at all.
Pushed ==
    /\ taken > 0
    /\ reported' = reported + taken /\ taken' = 0
    /\ UNCHANGED <<now, lapi, pending, settings, poller, mirror, synced, lastSuccess,
                   counted, seen, gap>>

\* Mutant: the counter is set, which loses what was counted meanwhile.
MutOverwrite == taken

\* restoreWindow adds to what was counted meanwhile.
Restored == counted + taken

PushFails ==
    /\ taken > 0
    /\ counted' = Restored /\ taken' = 0
    /\ UNCHANGED <<now, lapi, pending, settings, poller, mirror, synced, lastSuccess,
                   seen, reported, gap>>

-----------------------------------------------------------------------------
(* handleUpdateNetworkSettings and applyNetworkSecurity: Stop, and Configure *)
(* and Start when CrowdSec is enabled.                                     *)

SaveSettings(enabled) ==
    /\ taken = 0          \* Stop waits for the loops
    /\ wanted' = enabled
    /\ configured' = (configured \/ enabled)
    /\ poller' = IF enabled THEN "starting" ELSE "off"
    /\ gap' = (gap \/ mirror # {})
    /\ UNCHANGED <<now, lapi, pending, mirror, synced, lastSuccess, usage>>

Tick ==
    /\ now < MaxNow
    /\ now' = now + 1
    /\ UNCHANGED <<lapi, pending, settings, poller, mirror, synced, lastSuccess, usage, gap>>

Next ==
    \/ Tick
    \/ \E v \in Values : Ban(v) \/ Unban(v) \/ Check(v)
    \/ Fetch
    \/ \E answered \in BOOLEAN : FetchFails(answered)
    \/ TakeWindow
    \/ Pushed
    \/ PushFails
    \/ \E enabled \in BOOLEAN : SaveSettings(enabled)

Spec == Init /\ [][Next]_reputationVars

-----------------------------------------------------------------------------
(* Properties.                                                             *)

ReputationTypeOK ==
    /\ lapi \subseteq Values /\ mirror \subseteq Values
    /\ pending \in [new: SUBSET Values, deleted: SUBSET Values]
    /\ poller \in {"off", "starting", "polling"}
    /\ wanted \in BOOLEAN /\ configured \in BOOLEAN /\ synced \in BOOLEAN /\ gap \in BOOLEAN
    /\ counted \in Nat /\ taken \in Nat /\ reported \in Nat /\ seen \in 0..MaxSeen

\* The mirror is one poll behind the LAPI and no more: unless an answer was lost,
\* the first poll failed or the poller was restarted over old decisions, the next
\* poll makes the two equal, also for a value that was deleted and added again
\* between two polls (apply, fetchOnce).
OnePollBehind ==
    poller = "polling" /\ ~gap => apply(mirror, pending) = lapi

\* Every request checked is counted once: reported, being reported, or waiting,
\* although requests are counted while a report fails (takeWindow, restoreWindow).
UsageAccounted == seen = counted + taken + reported

\* The decisions and the counters survive polls and reports that fail
\* (apply, fetchOnce, restoreWindow).
ReputationKept == OnePollBehind /\ UsageAccounted

\* "Changes apply immediately" under the switch "Enable CrowdSec"
\* (frontend/components/settings/network-security-card.tsx:113,138): once it is
\* saved as off, CrowdSec refuses no request.
OffMeansOff == ~wanted => \A v \in Values : ~Refused(v)

-----------------------------------------------------------------------------
(* The inductive invariant behind ReputationKept.                          *)

ReputationAssumption == MaxNow \in Nat /\ MaxSeen \in Nat

\* The first poll of a poller finds an empty mirror, or the gap is noted.
StartsEmpty == poller = "starting" /\ ~gap => mirror = {}

ReputationInv == ReputationTypeOK /\ StartsEmpty /\ ReputationKept
=============================================================================
