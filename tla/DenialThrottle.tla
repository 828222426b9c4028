--------------------------- MODULE DenialThrottle ---------------------------
(***************************************************************************)
(* The throttle in front of the audit log for requests the proxy refused   *)
(* (internal/proxy/denial_throttle.go, called by logAccess in manager.go). *)
(* A key is the client, the host and the reason.                           *)
(***************************************************************************)
EXTENDS Integers, FiniteSets

CONSTANTS
    Keys,
    Window,     \* length of a window (one minute)
    Limit,      \* entries written per window (60)
    MaxNow,     \* bound on the clock
    MaxDenials  \* bound on the refusals of one key between two entries

VARIABLES
    now,
    start,      \* windowStart
    written,    \* entries written in this window
    current,    \* refusals suppressed in this window, by key; -1 is a missing key
    previous,   \* the same for the window before
    silent      \* history: refusals of a key since its last entry

throttleVars == <<now, start, written, current, previous, silent>>

Missing == [k \in Keys |-> -1]

Init ==
    /\ now = 0 /\ start = -(2 * Window)  \* the zero time is long past
    /\ written = 0
    /\ current = Missing
    /\ previous = Missing
    /\ silent = [k \in Keys |-> 0]

\* What the next window remembers of this one, if it follows at once.
Carried ==
    [k \in Keys |-> IF now - start < 2 * Window /\ current[k] > 0 THEN current[k] ELSE -1]

\* Mutant: the counts of a window stay after the next one has begun.
MutKeepCounts == current

Fresh == Missing

\* allow, for a key: the entry is written, suppressed, or dropped at the limit.
allow(k) ==
    LET turn == now - start >= Window
        cur == IF turn THEN Fresh ELSE current
        prev == IF turn THEN Carried ELSE previous
        n == IF turn THEN 0 ELSE written
    IN /\ start' = IF turn THEN now ELSE start
       /\ silent[k] < MaxDenials
       /\ \/ /\ cur[k] >= 0
             /\ current' = [cur EXCEPT ![k] = @ + 1]
             /\ previous' = prev /\ written' = n
             /\ silent' = [silent EXCEPT ![k] = @ + 1]
          \/ /\ cur[k] < 0 /\ n >= Limit
             /\ current' = cur /\ previous' = prev /\ written' = n
             /\ silent' = [silent EXCEPT ![k] = @ + 1]
          \/ /\ cur[k] < 0 /\ n < Limit
             /\ current' = [cur EXCEPT ![k] = 0]
             /\ previous' = [prev EXCEPT ![k] = -1]
             /\ written' = n + 1
             /\ silent' = [silent EXCEPT ![k] = 0]
       /\ UNCHANGED now

Tick ==
    /\ now < MaxNow
    /\ now' = now + 1
    /\ UNCHANGED <<start, written, current, previous, silent>>

Next == Tick \/ \E k \in Keys : allow(k)

Spec == Init /\ [][Next]_throttleVars

-----------------------------------------------------------------------------
\* What an entry will report as suppressed was refused since the last entry of
\* the same key, none of it reported twice and nothing of other keys; and the
\* window holds at most Limit entries, one per key (denialThrottle.allow).
NothingReportedTwice ==
    /\ \A k \in Keys :
         (IF current[k] > 0 THEN current[k] ELSE 0)
           + (IF previous[k] > 0 THEN previous[k] ELSE 0) <= silent[k]
    /\ written <= Limit
    /\ written = Cardinality({k \in Keys : current[k] >= 0})

-----------------------------------------------------------------------------
(* NothingReportedTwice is inductive once the counters have their types.   *)

ThrottleAssumption ==
    /\ IsFiniteSet(Keys)
    /\ Window \in Nat /\ Limit \in Nat /\ MaxNow \in Nat /\ MaxDenials \in Nat

ThrottleTypeOK ==
    /\ now \in 0..MaxNow /\ start \in Int /\ written \in 0..Limit
    /\ current \in [Keys -> Nat \union {-1}] /\ previous \in [Keys -> Nat \union {-1}]
    /\ silent \in [Keys -> 0..MaxDenials]

ThrottleInv == ThrottleTypeOK /\ NothingReportedTwice
=============================================================================
