------------------------------ MODULE Upstream ------------------------------
(***************************************************************************)
(* Requests on their way to an upstream: the retrying transport and the    *)
(* circuit breaker of the proxy (internal/proxy/transport.go, the handlers *)
(* installed by routeFromConfig in routing_runtime.go, and the check in    *)
(* manager.go).                                                            *)
(*                                                                         *)
(* A service has a target URL and, behind a node, the tunnel address of    *)
(* that node, which replaces the host of the URL in the compiled route.    *)
(***************************************************************************)
EXTENDS Integers

CONSTANTS
    Calls,     \* requests in flight
    Routed,    \* services: [url, tunnelIP], tunnelIP None without a node
    Methods,   \* request methods
    None,
    Threshold, \* failures in a row that open the breaker (3)
    OpenFor,   \* how long it stays open (30 s)
    MaxNow     \* bound on the clock

VARIABLES
    now,
    breaker,   \* breakers: state by target; NoState is a missing key
    call,      \* program counter and local variables of each request
    streak,    \* history: per destination, failures in a row, client aborts included
    lastFail   \* history: when the last of them was recorded

upstreamVars == <<now, breaker, call, streak, lastFail>>

\* rewriteTargetForTunnel: the TargetURL of the compiled route.
rewriteTargetForTunnel(s) == <<s.tunnelIP, s.url>>

\* The TargetURL of the route's configuration, which failures are recorded under.
ConfiguredTarget(s) == <<None, s.url>>

Targets == {rewriteTargetForTunnel(s) : s \in Routed} \union {ConfiguredTarget(s) : s \in Routed}

NoState == [failures |-> 0, until |-> 0]
Ready == [pc |-> "idle", svc |-> None, method |-> None, sent |-> 0, failed |-> FALSE]

Init ==
    /\ now = 0
    /\ breaker = [t \in Targets |-> NoState]
    /\ call = [c \in Calls |-> Ready]
    /\ streak = [t \in Targets |-> 0]
    /\ lastFail = [t \in Targets |-> 0]

isTargetDegraded(t) == now < breaker[t].until

\* The last check of the Handler, then ServeHTTP.
Admit(c, s, m) ==
    /\ call[c].pc = "idle"
    /\ ~isTargetDegraded(rewriteTargetForTunnel(s))
    /\ call' = [call EXCEPT ![c] = [pc |-> "sent", svc |-> s, method |-> m,
                                    sent |-> 1, failed |-> FALSE]]
    /\ UNCHANGED <<now, breaker, streak, lastFail>>

-----------------------------------------------------------------------------
AtMost(n, m) == IF n <= m THEN n ELSE m

\* recordTargetFailure.  The counter is cut at the threshold.
recordTargetFailure(s) ==
    LET t == ConfiguredTarget(s)
        n == AtMost(breaker[t].failures + 1, Threshold)
        dest == rewriteTargetForTunnel(s)
    IN /\ breaker' = [breaker EXCEPT ![t] =
            [failures |-> n, until |-> IF n >= Threshold THEN now + OpenFor ELSE @.until]]
       /\ streak' = [streak EXCEPT ![dest] = AtMost(@ + 1, Threshold)]
       /\ lastFail' = [lastFail EXCEPT ![dest] = now]

recordTargetSuccess(s) ==
    /\ breaker' = [breaker EXCEPT ![ConfiguredTarget(s)] = NoState]
    /\ streak' = [streak EXCEPT ![rewriteTargetForTunnel(s)] = 0]
    /\ UNCHANGED lastFail

\* Mutant: every method is retried.
MutRetryAll(m) == m \in Methods

isIdempotentMethod(m) == m \in {"GET", "HEAD", "OPTIONS"}

\* An attempt is left (retries is 1).
AttemptLeft(c) == call[c].sent = 1

\* RoundTrip fails: no connection, no answer, or the client has gone away.  One
\* retry of an idempotent request, then the ErrorHandler.
RoundTripFails(c) ==
    /\ call[c].pc = "sent" /\ ~call[c].failed
    /\ LET s == call[c].svc IN
       IF isIdempotentMethod(call[c].method) /\ AttemptLeft(c)
       THEN /\ call' = [call EXCEPT ![c].sent = @ + 1]
            /\ UNCHANGED <<breaker, streak, lastFail>>
       ELSE /\ recordTargetFailure(s)
            /\ call' = [call EXCEPT ![c].failed = TRUE]
    /\ UNCHANGED now

\* ModifyResponse with a status of 502 or more.
BadResponse(c) ==
    /\ call[c].pc = "sent" /\ ~call[c].failed
    /\ recordTargetFailure(call[c].svc)
    /\ call' = [call EXCEPT ![c].failed = TRUE]
    /\ UNCHANGED now

GoodResponse(c) ==
    /\ call[c].pc = "sent" /\ ~call[c].failed
    /\ recordTargetSuccess(call[c].svc)
    /\ call' = [call EXCEPT ![c] = Ready]
    /\ UNCHANGED now

Answered(c) ==
    /\ call[c].failed
    /\ call' = [call EXCEPT ![c] = Ready]
    /\ UNCHANGED <<now, breaker, streak, lastFail>>

Tick ==
    /\ now < MaxNow
    /\ now' = now + 1
    /\ UNCHANGED <<breaker, call, streak, lastFail>>

Next ==
    \/ Tick
    \/ \E c \in Calls :
         \/ \E s \in Routed, m \in Methods : Admit(c, s, m)
         \/ RoundTripFails(c)
         \/ BadResponse(c)
         \/ GoodResponse(c)
         \/ Answered(c)

Spec == Init /\ [][Next]_upstreamVars

-----------------------------------------------------------------------------
(* Properties.                                                             *)

\* A call that is on its way has a service.
Call == [pc: {"sent"}, svc: Routed, method: Methods, sent: {1, 2}, failed: BOOLEAN]

UpstreamTypeOK ==
    /\ now \in 0..MaxNow
    /\ breaker \in [Targets -> [failures: 0..Threshold, until: Nat]]
    /\ call \in [Calls -> Call \union {Ready}]
    /\ streak \in [Targets -> 0..Threshold] /\ lastFail \in [Targets -> Nat]

\* The destination has failed Threshold times in a row, and recently.
Failing(t) == streak[t] = Threshold /\ now < lastFail[t] + OpenFor

\* A request that may change something upstream is sent once, whatever fails on
\* the way (RoundTrip); and a destination that is not failing is never refused
\* through the failures of another service, as long as every service reaches its
\* target directly (isTargetDegraded, recordTargetFailure).
SentOnceAndServed ==
    /\ \A c \in Calls : call[c].sent = 2 => call[c].method # "POST"
    /\ (\A s \in Routed : s.tunnelIP = None) =>
         \A s \in Routed : isTargetDegraded(rewriteTargetForTunnel(s)) <=>
                             Failing(rewriteTargetForTunnel(s))

-----------------------------------------------------------------------------
(* The inductive invariant behind SentOnceAndServed.                       *)

\* The breaker opens after at least one failure.
UpstreamAssumption == Threshold \in Nat \ {0} /\ OpenFor \in Nat /\ MaxNow \in Nat

\* What was sent again is idempotent.
Resent(c) == call[c].sent = 2 => isIdempotentMethod(call[c].method)

\* The breaker of a target is what its failures in a row make it.
BreakerInStep(t) ==
    /\ breaker[t].failures = streak[t]
    /\ breaker[t].until = IF streak[t] = Threshold THEN lastFail[t] + OpenFor ELSE 0

UpstreamInv ==
    /\ UpstreamTypeOK
    /\ \A c \in Calls : Resent(c)
    /\ (\A s \in Routed : s.tunnelIP = None) => \A t \in Targets : BreakerInStep(t)
=============================================================================
