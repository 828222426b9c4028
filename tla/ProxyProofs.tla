----------------------------- MODULE ProxyProofs -----------------------------
(***************************************************************************)
(* The parts of the proxy beside the access decision: proofs for any       *)
(* number of calls, targets, keys, decisions, names and jobs.              *)
(*                                                                         *)
(* Upstream: the retries and the breaker.  DenialThrottle: the windows of  *)
(* the throttle.  Reputation: the mirror of the CrowdSec decisions and the *)
(* usage counters.  CertWorker: the cache of certificates, the retries and *)
(* what is left of a deleted certificate.                                  *)
(***************************************************************************)
EXTENDS Edge, FiniteSetTheorems, WellFoundedInduction, TLAPS

-----------------------------------------------------------------------------
(* Induction over the naturals, in a form without operator parameters.     *)

\* A set of naturals that is not empty has a least element.
LEMMA Least == ASSUME NEW T \in SUBSET Nat, T # {} PROVE \E m \in T : \A k \in T : m <= k
<1> DEFINE R1 == OpToRel(<, Nat)
<1>1. IsWellFoundedOn(R1, Nat)
  BY NatLessThanWellFounded
<1>2. PICK m \in T : \A y \in T : ~(<<y, m>> \in R1)
  BY <1>1, WFMin
<1>3. \A a, b \in Nat : a < b => <<a, b>> \in {ss \in Nat \X Nat : ss[1] < ss[2]}
  OBVIOUS
<1>4. \A a, b \in Nat : a < b => <<a, b>> \in R1
  BY <1>3, Zenon DEF OpToRel
<1>5. \A k \in T : ~(k < m)
  BY <1>2, <1>4, Zenon
<1> QED
  BY <1>5

\* Induction over the naturals, for a set.
LEMMA Induction ==
    ASSUME NEW S, 0 \in S, \A n \in Nat : n \in S => n + 1 \in S
    PROVE  Nat \subseteq S
<1> SUFFICES ASSUME Nat \ S # {} PROVE FALSE
  OBVIOUS
<1>1. PICK m \in Nat \ S : \A k \in Nat \ S : m <= k
  BY Least
<1>2. m - 1 \in Nat /\ m - 1 \in S
  BY <1>1
<1> QED
  BY <1>1, <1>2

-----------------------------------------------------------------------------
(* Upstream.                                                               *)

\* Where the failures of a service are recorded and where its requests go are
\* both targets, and the same one without a tunnel.
LEMMA ServiceTargets ==
    ASSUME NEW s \in Routed
    PROVE  /\ U!ConfiguredTarget(s) \in U!Targets /\ U!rewriteTargetForTunnel(s) \in U!Targets
           /\ s.tunnelIP = None => U!rewriteTargetForTunnel(s) = U!ConfiguredTarget(s)
  BY DEF U!Targets, U!ConfiguredTarget, U!rewriteTargetForTunnel

\* The initial state satisfies the invariant.
LEMMA UpstreamInit == ASSUME U!UpstreamAssumption, U!Init PROVE U!UpstreamInv
  BY DEF U!UpstreamAssumption, U!Init, U!UpstreamInv, U!UpstreamTypeOK, U!NoState, U!Ready,
     U!Resent, U!BreakerInStep

\* What is recorded of an answer of service s.
Recorded(s) == U!recordTargetFailure(s) \/ U!recordTargetSuccess(s)

\* A record keeps the breaker and the history of the failures in step.
LEMMA RecordInv ==
    ASSUME U!UpstreamAssumption, U!UpstreamInv, NEW s \in Routed, Recorded(s)
    PROVE  /\ breaker' \in [U!Targets -> [failures: 0..Threshold, until: Nat]]
           /\ streak' \in [U!Targets -> 0..Threshold] /\ lastFail' \in [U!Targets -> Nat]
           /\ (\A z \in Routed : z.tunnelIP = None) => \A t \in U!Targets : U!BreakerInStep(t)'
<1> DEFINE t == U!ConfiguredTarget(s)
           d == U!rewriteTargetForTunnel(s)
           k == U!AtMost(breaker[t].failures + 1, Threshold)
           m == U!AtMost(streak[d] + 1, Threshold)
           b == [failures |-> k, until |-> IF k >= Threshold THEN now + OpenFor ELSE breaker[t].until]
<1>1. /\ Threshold \in Nat /\ Threshold > 0 /\ OpenFor \in Nat /\ now \in Nat
      /\ breaker \in [U!Targets -> [failures: 0..Threshold, until: Nat]]
      /\ streak \in [U!Targets -> 0..Threshold] /\ lastFail \in [U!Targets -> Nat]
  BY DEF U!UpstreamAssumption, U!UpstreamInv, U!UpstreamTypeOK
<1>2. t \in U!Targets /\ d \in U!Targets /\ (s.tunnelIP = None => d = t)
  BY ServiceTargets
<1>3. U!NoState \in [failures: 0..Threshold, until: Nat]
      /\ U!NoState.failures = 0 /\ U!NoState.until = 0
  BY <1>1 DEF U!NoState
<1>4. /\ k \in 0..Threshold /\ m \in 0..Threshold /\ (k = Threshold <=> k >= Threshold)
      /\ breaker[t].failures = streak[d] => k = m
      /\ b \in [failures: 0..Threshold, until: Nat] /\ b.failures = k
      /\ b.until = IF k >= Threshold THEN now + OpenFor ELSE breaker[t].until
  <2>1. breaker[t].failures \in 0..Threshold /\ breaker[t].until \in Nat /\ streak[d] \in 0..Threshold
    BY <1>1, <1>2
  <2> QED
    BY <1>1, <2>1 DEF U!AtMost
<1>5. CASE U!recordTargetFailure(s)
  <2>1. /\ breaker' = [breaker EXCEPT ![t] = b] /\ streak' = [streak EXCEPT ![d] = m]
        /\ lastFail' = [lastFail EXCEPT ![d] = now]
    BY <1>5 DEF U!recordTargetFailure
  <2> HIDE DEF t, d, k, m, b
  <2>2. /\ breaker' \in [U!Targets -> [failures: 0..Threshold, until: Nat]]
        /\ streak' \in [U!Targets -> 0..Threshold] /\ lastFail' \in [U!Targets -> Nat]
    <3>1. breaker' \in [U!Targets -> [failures: 0..Threshold, until: Nat]]
      BY <1>1, <1>2, <1>4, <2>1
    <3>2. streak' \in [U!Targets -> 0..Threshold]
      BY <1>1, <1>2, <1>4, <2>1
    <3>3. lastFail' \in [U!Targets -> Nat]
      BY <1>1, <1>2, <2>1
    <3> QED
      BY <3>1, <3>2, <3>3
  <2>3. ASSUME \A z \in Routed : z.tunnelIP = None, NEW x \in U!Targets
        PROVE  U!BreakerInStep(x)'
    <3>1. d = t /\ U!BreakerInStep(x)
      BY <1>2, <2>3 DEF U!UpstreamInv
    <3>2. CASE x # t
      BY <1>1, <1>2, <2>1, <3>1, <3>2 DEF U!BreakerInStep
    <3>3. CASE x = t
      <4>1. breaker'[x] = b /\ streak'[x] = m /\ lastFail'[x] = now
        BY <1>1, <1>2, <2>1, <3>1, <3>3
      <4>2. k = m /\ (k < Threshold => streak[x] < Threshold)
        BY <1>1, <1>2, <1>4, <3>1, <3>3 DEF U!BreakerInStep, k, U!AtMost
      <4> QED
        BY <1>1, <1>4, <3>1, <3>3, <4>1, <4>2 DEF U!BreakerInStep
    <3> QED
      BY <3>2, <3>3
  <2> QED
    BY <2>2, <2>3
<1>6. CASE U!recordTargetSuccess(s)
  <2>1. /\ breaker' = [breaker EXCEPT ![t] = U!NoState] /\ streak' = [streak EXCEPT ![d] = 0]
        /\ lastFail' = lastFail
    BY <1>6 DEF U!recordTargetSuccess
  <2> HIDE DEF t, d, k, m, b
  <2>2. /\ breaker' \in [U!Targets -> [failures: 0..Threshold, until: Nat]]
        /\ streak' \in [U!Targets -> 0..Threshold] /\ lastFail' \in [U!Targets -> Nat]
    BY <1>1, <1>2, <1>3, <2>1
  <2>3. ASSUME \A z \in Routed : z.tunnelIP = None, NEW x \in U!Targets
        PROVE  U!BreakerInStep(x)'
    <3>1. d = t /\ U!BreakerInStep(x)
      BY <1>2, <2>3 DEF U!UpstreamInv
    <3>2. CASE x # t
      BY <1>1, <1>2, <2>1, <3>1, <3>2 DEF U!BreakerInStep
    <3>3. CASE x = t
      BY <1>1, <1>2, <1>3, <2>1, <3>1, <3>3 DEF U!BreakerInStep
    <3> QED
      BY <3>2, <3>3
  <2> QED
    BY <2>2, <2>3
<1> QED
  BY <1>5, <1>6 DEF Recorded

\* A call that ends.
LEMMA CallEnds ==
    ASSUME U!UpstreamInv, NEW c \in Calls, call' = [call EXCEPT ![c] = U!Ready]
    PROVE  call' \in [Calls -> U!Call \union {U!Ready}] /\ \A x \in Calls : U!Resent(x)'
<1>1. call \in [Calls -> U!Call \union {U!Ready}] /\ \A x \in Calls : U!Resent(x)
  BY DEF U!UpstreamInv, U!UpstreamTypeOK
<1>2. U!Ready.sent # 2
  BY DEF U!Ready
<1> QED
  BY <1>1, <1>2 DEF U!Resent

\* A call on its way, sent again only when that is harmless.
LEMMA CallInv ==
    ASSUME U!UpstreamAssumption, U!UpstreamInv, NEW c \in Calls, NEW q,
           q \in U!Call, q.sent = 2 => U!isIdempotentMethod(q.method),
           call' = [call EXCEPT ![c] = q]
    PROVE  call' \in [Calls -> U!Call \union {U!Ready}] /\ \A x \in Calls : U!Resent(x)'
<1>1. call \in [Calls -> U!Call \union {U!Ready}] /\ \A x \in Calls : U!Resent(x)
  BY DEF U!UpstreamInv, U!UpstreamTypeOK
<1> QED
  BY <1>1 DEF U!Resent

\* A call that is on its way has a service, and marking it failed or sent again
\* keeps its type.
LEMMA CallSent ==
    ASSUME U!UpstreamInv, NEW c \in Calls, call[c].pc = "sent"
    PROVE  /\ call[c].svc \in Routed
           /\ [call[c] EXCEPT !.failed = TRUE] \in U!Call
           /\ [call[c] EXCEPT !.failed = TRUE].sent = call[c].sent
           /\ [call[c] EXCEPT !.failed = TRUE].method = call[c].method
           /\ U!AttemptLeft(c) => /\ [call[c] EXCEPT !.sent = @ + 1] \in U!Call
                                  /\ [call[c] EXCEPT !.sent = @ + 1].method = call[c].method
           /\ call[c].sent = 2 => U!isIdempotentMethod(call[c].method)
<1>1. call[c] \in U!Call
  BY DEF U!UpstreamInv, U!UpstreamTypeOK, U!Ready
<1>2. U!AttemptLeft(c) => /\ [call[c] EXCEPT !.sent = @ + 1] \in U!Call
                          /\ [call[c] EXCEPT !.sent = @ + 1].method = call[c].method
  BY <1>1 DEF U!Call, U!AttemptLeft
<1>3. /\ call[c].svc \in Routed
      /\ [call[c] EXCEPT !.failed = TRUE] \in U!Call
      /\ [call[c] EXCEPT !.failed = TRUE].sent = call[c].sent
      /\ [call[c] EXCEPT !.failed = TRUE].method = call[c].method
  BY <1>1 DEF U!Call
<1>4. call[c].sent = 2 => U!isIdempotentMethod(call[c].method)
  BY DEF U!UpstreamInv, U!Resent
<1> QED
  BY <1>2, <1>3, <1>4

\* Every step keeps the invariant.
LEMMA UpstreamNext ==
    ASSUME U!UpstreamAssumption, U!UpstreamInv, [U!Next]_U!upstreamVars
    PROVE  U!UpstreamInv'
<1> DEFINE Rest == now' \in 0..MaxNow /\ UNCHANGED <<breaker, streak, lastFail>>
           Calm == call' \in [Calls -> U!Call \union {U!Ready}] /\ \A x \in Calls : U!Resent(x)'
<1>0. /\ U!UpstreamTypeOK /\ now \in 0..MaxNow /\ MaxNow \in Nat
  BY DEF U!UpstreamInv, U!UpstreamTypeOK, U!UpstreamAssumption
<1>1. ASSUME Rest, Calm PROVE U!UpstreamInv'
  BY <1>1 DEF U!UpstreamInv, U!UpstreamTypeOK, U!BreakerInStep
<1>2. ASSUME NEW s \in Routed, Recorded(s), now' = now, Calm PROVE U!UpstreamInv'
  BY <1>0, <1>2, RecordInv DEF U!UpstreamInv, U!UpstreamTypeOK
<1>3. UNCHANGED call => Calm
  BY DEF U!UpstreamInv, U!UpstreamTypeOK, U!Resent
<1>4. CASE U!Tick \/ UNCHANGED U!upstreamVars
  <2>1. Rest /\ UNCHANGED call
    BY <1>0, <1>4 DEF U!Tick, U!upstreamVars
  <2> QED
    BY <1>1, <1>3, <2>1
<1>5. ASSUME NEW c \in Calls, NEW s \in Routed, NEW m \in Methods, U!Admit(c, s, m)
      PROVE  U!UpstreamInv'
  <2> DEFINE q == [pc |-> "sent", svc |-> s, method |-> m, sent |-> 1, failed |-> FALSE]
  <2>1. q \in U!Call /\ q.sent # 2
    BY DEF U!Call
  <2>2. call' = [call EXCEPT ![c] = q] /\ Rest
    BY <1>0, <1>5 DEF U!Admit
  <2> HIDE DEF q
  <2>3. Calm
    BY <2>1, <2>2, CallInv
  <2> QED
    BY <1>1, <2>2, <2>3
<1>6. ASSUME NEW c \in Calls, U!RoundTripFails(c) PROVE U!UpstreamInv'
  <2> DEFINE again == [call[c] EXCEPT !.sent = @ + 1]
             over == [call[c] EXCEPT !.failed = TRUE]
  <2>0. call[c].pc = "sent" /\ now' = now /\ call \in [Calls -> U!Call \union {U!Ready}]
    BY <1>0, <1>6 DEF U!RoundTripFails, U!UpstreamTypeOK
  <2>1. CASE U!isIdempotentMethod(call[c].method) /\ U!AttemptLeft(c)
    <3>1. call' = [call EXCEPT ![c] = again] /\ Rest
      BY <1>0, <1>6, <2>0, <2>1 DEF U!RoundTripFails
    <3>2. again \in U!Call /\ U!isIdempotentMethod(again.method)
      BY <2>0, <2>1, CallSent
    <3> HIDE DEF again
    <3>3. Calm
      BY <3>1, <3>2, CallInv
    <3> QED
      BY <1>1, <3>1, <3>3
  <2>2. CASE ~(U!isIdempotentMethod(call[c].method) /\ U!AttemptLeft(c))
    <3>1. call' = [call EXCEPT ![c] = over] /\ Recorded(call[c].svc)
      BY <1>6, <2>0, <2>2 DEF U!RoundTripFails, Recorded
    <3>2. over \in U!Call /\ (over.sent = 2 => U!isIdempotentMethod(over.method))
          /\ call[c].svc \in Routed
      BY <2>0, CallSent
    <3> HIDE DEF over
    <3>3. Calm
      BY <3>1, <3>2, CallInv
    <3> QED
      BY <1>2, <2>0, <3>1, <3>2, <3>3
  <2> QED
    BY <2>1, <2>2
<1>7. ASSUME NEW c \in Calls, U!BadResponse(c) PROVE U!UpstreamInv'
  <2> DEFINE over == [call[c] EXCEPT !.failed = TRUE]
  <2>1. call[c].pc = "sent" /\ now' = now /\ Recorded(call[c].svc)
        /\ call' = [call EXCEPT ![c] = over]
    BY <1>7 DEF U!BadResponse, Recorded
  <2>2. over \in U!Call /\ (over.sent = 2 => U!isIdempotentMethod(over.method))
        /\ call[c].svc \in Routed
    BY <2>1, CallSent
  <2> HIDE DEF over
  <2>3. Calm
    BY <2>1, <2>2, CallInv
  <2> QED
    BY <1>2, <2>1, <2>2, <2>3
<1>8. ASSUME NEW c \in Calls, U!GoodResponse(c) PROVE U!UpstreamInv'
  <2>1. call[c].pc = "sent" /\ now' = now /\ Recorded(call[c].svc)
        /\ call' = [call EXCEPT ![c] = U!Ready]
    BY <1>8 DEF U!GoodResponse, Recorded
  <2>2. call[c].svc \in Routed
    BY <2>1, CallSent
  <2>3. Calm
    BY <2>1, CallEnds
  <2> QED
    BY <1>2, <2>1, <2>2, <2>3
<1>9. ASSUME NEW c \in Calls, U!Answered(c) PROVE U!UpstreamInv'
  <2>1. call' = [call EXCEPT ![c] = U!Ready] /\ Rest
    BY <1>0, <1>9 DEF U!Answered
  <2>2. Calm
    BY <2>1, CallEnds
  <2> QED
    BY <1>1, <2>1, <2>2
<1> QED
  BY <1>4, <1>5, <1>6, <1>7, <1>8, <1>9 DEF U!Next

\* The invariant gives the property.
LEMMA UpstreamImplied ==
    ASSUME U!UpstreamAssumption, U!UpstreamInv PROVE U!SentOnceAndServed
<1>1. ASSUME NEW c \in Calls, call[c].sent = 2 PROVE call[c].method # "POST"
  BY <1>1 DEF U!UpstreamInv, U!Resent, U!isIdempotentMethod
<1>2. ASSUME \A s \in Routed : s.tunnelIP = None, NEW t \in U!Targets
      PROVE  U!isTargetDegraded(t) <=> U!Failing(t)
  <2>1. U!BreakerInStep(t)
    BY <1>2 DEF U!UpstreamInv
  <2>2. now \in Nat /\ lastFail[t] \in Nat /\ OpenFor \in Nat
    BY DEF U!UpstreamAssumption, U!UpstreamInv, U!UpstreamTypeOK
  <2> QED
    BY <2>1, <2>2 DEF U!BreakerInStep, U!isTargetDegraded, U!Failing
<1> QED
  BY <1>1, <1>2, ServiceTargets DEF U!SentOnceAndServed

\* A request that may change something upstream is sent once, and a destination
\* that is not failing is served, for any number of calls and services, any
\* threshold and any time the breaker stays open (RoundTrip, isTargetDegraded).
THEOREM UpstreamSound == U!Spec => []SentOnceAndServed
<1> USE ProxyAssumption
<1>1. U!Init => U!UpstreamInv
  BY UpstreamInit
<1>2. U!UpstreamInv /\ [U!Next]_U!upstreamVars => U!UpstreamInv'
  BY UpstreamNext
<1>3. U!UpstreamInv => SentOnceAndServed
  BY UpstreamImplied DEF SentOnceAndServed
<1> QED
  BY <1>1, <1>2, <1>3, PTL DEF U!Spec

-----------------------------------------------------------------------------
(* DenialThrottle.                                                         *)

\* The suppressed refusals a counter stands for.
Sum(c, p) == (IF c > 0 THEN c ELSE 0) + (IF p > 0 THEN p ELSE 0)

\* The keys that have a counter in a window.
CountedKeys(c) == {k \in Keys : c[k] >= 0}

\* The cardinality the component counts with is the one of the theorems.
LEMMA ThrottleCardinality ==
    ASSUME NEW S PROVE D!Cardinality(S) = Cardinality(S) /\ (D!IsFiniteSet(S) <=> IsFiniteSet(S))
  BY DEF D!IsFiniteSet, IsFiniteSet, D!Cardinality, Cardinality

\* The invariant in terms of the operators above.
LEMMA ThrottleShape ==
    /\ D!ThrottleInv <=> /\ D!ThrottleTypeOK
                         /\ \A k \in Keys : Sum(current[k], previous[k]) <= silent[k]
                         /\ written <= Limit /\ written = Cardinality(CountedKeys(current))
    /\ D!ThrottleInv' <=> /\ D!ThrottleTypeOK'
                          /\ \A k \in Keys : Sum(current'[k], previous'[k]) <= silent'[k]
                          /\ written' <= Limit /\ written' = Cardinality(CountedKeys(current'))
<1>1. \A c : D!Cardinality({k \in Keys : c[k] >= 0}) = Cardinality(CountedKeys(c))
  BY ThrottleCardinality DEF CountedKeys
<1> QED
  BY <1>1 DEF D!ThrottleInv, D!NothingReportedTwice, Sum

\* A window without a counter.
LEMMA FreshWindow ==
    D!Missing \in [Keys -> Nat \union {-1}] /\ Cardinality(CountedKeys(D!Missing)) = 0
<1>1. D!Missing \in [Keys -> Nat \union {-1}]
  BY DEF D!Missing
<1>2. CountedKeys(D!Missing) = {}
  BY DEF D!Missing, CountedKeys
<1> QED
  BY <1>1, <1>2, FS_EmptySet

\* The initial state satisfies the invariant.
LEMMA ThrottleInit == ASSUME D!ThrottleAssumption, D!Init PROVE D!ThrottleInv
<1>1. /\ now = 0 /\ written = 0 /\ current = D!Missing /\ previous = D!Missing
      /\ silent = [k \in Keys |-> 0] /\ start \in Int
  BY DEF D!Init, D!ThrottleAssumption
<1>2. D!ThrottleTypeOK
  BY <1>1, FreshWindow DEF D!ThrottleTypeOK, D!ThrottleAssumption
<1>3. \A k \in Keys : Sum(current[k], previous[k]) <= silent[k]
  BY <1>1 DEF Sum, D!Missing
<1> QED
  BY <1>1, <1>2, <1>3, FreshWindow, ThrottleShape DEF D!ThrottleAssumption

\* A refusal that is written, suppressed or dropped keeps the invariant, in the
\* running window as in the one it opens.
LEMMA AllowInv ==
    ASSUME D!ThrottleAssumption, D!ThrottleInv, NEW k \in Keys, D!allow(k)
    PROVE  D!ThrottleInv'
<1> DEFINE turn == now - start >= Window
           cur == IF turn THEN D!Fresh ELSE current
           prev == IF turn THEN D!Carried ELSE previous
           n == IF turn THEN 0 ELSE written
<1>1. /\ D!ThrottleTypeOK
      /\ \A q \in Keys : Sum(current[q], previous[q]) <= silent[q]
      /\ written \in Nat /\ written <= Limit /\ written = Cardinality(CountedKeys(current))
  BY ThrottleShape DEF D!ThrottleTypeOK, D!ThrottleAssumption
<1>2. /\ cur \in [Keys -> Nat \union {-1}] /\ n \in Nat /\ n <= Limit
      /\ n = Cardinality(CountedKeys(cur))
  BY <1>1, FreshWindow DEF D!Fresh, D!ThrottleTypeOK, D!ThrottleAssumption
<1>3. prev \in [Keys -> Nat \union {-1}]
  BY <1>1 DEF D!Carried, D!ThrottleTypeOK
<1>4. \A q \in Keys : Sum(cur[q], prev[q]) <= silent[q]
  <2> TAKE q \in Keys
  <2>1. /\ current[q] \in Nat \union {-1} /\ previous[q] \in Nat \union {-1}
        /\ silent[q] \in Nat /\ Sum(current[q], previous[q]) <= silent[q]
    BY <1>1 DEF D!ThrottleTypeOK, D!ThrottleAssumption
  <2>2. CASE turn
    <3>1. cur[q] = -1 /\ ((prev[q] = current[q] /\ current[q] > 0) \/ prev[q] = -1)
      BY <2>2 DEF D!Fresh, D!Missing, D!Carried
    <3> QED
      BY <2>1, <3>1 DEF Sum
  <2>3. CASE ~turn
    BY <2>1, <2>3
  <2> QED
    BY <2>2, <2>3
<1>5. /\ start' \in Int /\ now' = now /\ silent[k] < MaxDenials
      /\ \/ /\ cur[k] >= 0 /\ current' = [cur EXCEPT ![k] = @ + 1]
            /\ previous' = prev /\ written' = n /\ silent' = [silent EXCEPT ![k] = @ + 1]
         \/ /\ current' = cur /\ previous' = prev /\ written' = n
            /\ silent' = [silent EXCEPT ![k] = @ + 1]
         \/ /\ cur[k] < 0 /\ n < Limit /\ current' = [cur EXCEPT ![k] = 0]
            /\ previous' = [prev EXCEPT ![k] = -1] /\ written' = n + 1
            /\ silent' = [silent EXCEPT ![k] = 0]
  BY <1>1 DEF D!allow, D!ThrottleTypeOK, D!ThrottleAssumption
<1> HIDE DEF turn, cur, prev, n
<1>6. /\ silent \in [Keys -> 0..MaxDenials] /\ now \in 0..MaxNow /\ Limit \in Nat
      /\ MaxDenials \in Nat /\ IsFiniteSet(Keys)
  BY <1>1, ThrottleCardinality DEF D!ThrottleTypeOK, D!ThrottleAssumption
<1>7. D!ThrottleTypeOK'
  BY <1>2, <1>3, <1>5, <1>6 DEF D!ThrottleTypeOK
<1>8. ASSUME NEW q \in Keys PROVE Sum(current'[q], previous'[q]) <= silent'[q]
  <2>1. /\ cur[q] \in Nat \union {-1} /\ prev[q] \in Nat \union {-1} /\ silent[q] \in Nat
        /\ Sum(cur[q], prev[q]) <= silent[q]
    BY <1>2, <1>3, <1>4, <1>6
  <2> QED
    BY <1>2, <1>3, <1>5, <1>6, <2>1 DEF Sum
<1>9. written' <= Limit /\ written' = Cardinality(CountedKeys(current'))
  <2>1. CASE /\ cur[k] >= 0 /\ current' = [cur EXCEPT ![k] = @ + 1] /\ written' = n
    <3>1. CountedKeys(current') = CountedKeys(cur)
      BY <1>2, <2>1 DEF CountedKeys
    <3> QED
      BY <1>2, <2>1, <3>1
  <2>2. CASE current' = cur /\ written' = n
    BY <1>2, <2>2
  <2>3. CASE /\ cur[k] < 0 /\ n < Limit /\ current' = [cur EXCEPT ![k] = 0]
             /\ written' = n + 1
    <3>1. CountedKeys(current') = CountedKeys(cur) \union {k} /\ k \notin CountedKeys(cur)
      BY <1>2, <2>3 DEF CountedKeys
    <3>2. IsFiniteSet(CountedKeys(cur))
      BY <1>6, FS_Subset DEF CountedKeys
    <3>3. Cardinality(CountedKeys(cur) \union {k}) = Cardinality(CountedKeys(cur)) + 1
      BY <3>1, <3>2, FS_AddElement
    <3>4. n + 1 <= Limit
      BY <1>2, <1>6, <2>3
    <3>5. Cardinality(CountedKeys(current')) = n + 1
      BY <1>2, <3>1, <3>3
    <3> QED
      BY <2>3, <3>4, <3>5
  <2> QED
    BY <1>5, <2>1, <2>2, <2>3
<1> QED
  BY <1>7, <1>8, <1>9, ThrottleShape

\* No refusal is reported as suppressed twice or for another key, and a window
\* holds at most Limit entries, one per key, for any keys, window and limit
\* (denialThrottle.allow).
THEOREM RefusalsReportedOnce == D!Spec => []NothingReportedTwice
<1> USE ProxyAssumption
<1>1. D!Init => D!ThrottleInv
  BY ThrottleInit
<1>2. D!ThrottleInv /\ [D!Next]_D!throttleVars => D!ThrottleInv'
  <2> SUFFICES ASSUME D!ThrottleInv, [D!Next]_D!throttleVars PROVE D!ThrottleInv'
    OBVIOUS
  <2>1. ASSUME NEW k \in Keys, D!allow(k) PROVE D!ThrottleInv'
    BY <2>1, AllowInv
  <2>2. CASE D!Tick \/ UNCHANGED D!throttleVars
    BY <2>2 DEF D!Tick, D!throttleVars, D!ThrottleInv, D!ThrottleTypeOK,
       D!NothingReportedTwice, D!ThrottleAssumption
  <2> QED
    BY <2>1, <2>2 DEF D!Next
<1>3. D!ThrottleInv => NothingReportedTwice
  BY DEF D!ThrottleInv, NothingReportedTwice
<1> QED
  BY <1>1, <1>2, <1>3, PTL DEF D!Spec

-----------------------------------------------------------------------------
(* Reputation.                                                             *)

\* The initial states satisfy the invariant.
LEMMA ReputationInit == ASSUME R!ReputationAssumption, R!Init PROVE R!ReputationInv
<1>1. R!ReputationTypeOK
  <2>1. pending \in [new: SUBSET Values, deleted: SUBSET Values]
    BY DEF R!Init
  <2>2. wanted \in BOOLEAN /\ configured = wanted /\ synced = FALSE /\ gap = FALSE
    BY DEF R!Init
  <2>3. poller \in {"off", "starting", "polling"} /\ lapi \subseteq Values /\ mirror \subseteq Values
    BY DEF R!Init
  <2>4. counted \in Nat /\ taken \in Nat /\ reported \in Nat /\ seen \in 0..MaxSeen
    BY DEF R!ReputationAssumption, R!Init
  <2> QED
    BY <2>1, <2>2, <2>3, <2>4 DEF R!ReputationTypeOK
<1>2. R!StartsEmpty /\ R!ReputationKept
  BY DEF R!Init, R!StartsEmpty, R!ReputationKept, R!OnePollBehind, R!UsageAccounted
<1> QED
  BY <1>1, <1>2 DEF R!ReputationInv

\* Every step keeps the invariant: what the LAPI adds or deletes is pending
\* until a poll, and what a report took is put back or acknowledged.
LEMMA ReputationNext ==
    ASSUME R!ReputationAssumption, R!ReputationInv, [R!Next]_R!reputationVars
    PROVE  R!ReputationInv'
<1>0. /\ lapi \subseteq Values /\ mirror \subseteq Values
      /\ pending \in [new: SUBSET Values, deleted: SUBSET Values]
      /\ poller \in {"off", "starting", "polling"}
      /\ wanted \in BOOLEAN /\ configured \in BOOLEAN /\ synced \in BOOLEAN /\ gap \in BOOLEAN
      /\ counted \in Nat /\ taken \in Nat /\ seen \in 0..MaxSeen /\ reported \in Nat
      /\ MaxSeen \in Nat /\ seen = counted + taken + reported
  BY DEF R!ReputationInv, R!ReputationTypeOK, R!ReputationAssumption, R!ReputationKept,
     R!UsageAccounted
<1> USE DEF R!settings, R!usage
<1> DEFINE Kept == /\ lapi' \subseteq Values /\ mirror' \subseteq Values
                   /\ pending' \in [new: SUBSET Values, deleted: SUBSET Values]
                   /\ poller' \in {"off", "starting", "polling"}
                   /\ wanted' \in BOOLEAN /\ configured' \in BOOLEAN
                   /\ synced' \in BOOLEAN /\ gap' \in BOOLEAN
           Mirrors == R!StartsEmpty' /\ R!OnePollBehind'
           Counts == /\ counted' \in Nat /\ taken' \in Nat /\ reported' \in Nat
                     /\ seen' \in 0..MaxSeen /\ seen' = counted' + taken' + reported'
<1>1. Kept /\ Mirrors /\ Counts => R!ReputationInv'
  BY <1>0 DEF R!ReputationInv, R!ReputationTypeOK, R!ReputationKept, R!UsageAccounted
<1>2. UNCHANGED <<lapi, mirror, pending, poller, wanted, configured, synced, gap>>
        => Kept /\ Mirrors
  BY <1>0 DEF R!ReputationInv, R!StartsEmpty, R!ReputationKept, R!OnePollBehind, R!apply
<1>3. UNCHANGED R!usage => Counts
  BY <1>0
<1>4. R!StartsEmpty /\ R!OnePollBehind
  BY DEF R!ReputationInv, R!ReputationKept
<1>5. ASSUME NEW v \in Values, R!Ban(v) PROVE R!ReputationInv'
  <2>1. Kept /\ Mirrors
    BY <1>0, <1>4, <1>5 DEF R!Ban, R!StartsEmpty, R!OnePollBehind, R!apply
  <2> QED
    BY <1>1, <1>3, <1>5, <2>1 DEF R!Ban
<1>6. ASSUME NEW v \in Values, R!Unban(v) PROVE R!ReputationInv'
  <2>1. Kept /\ Mirrors
    BY <1>0, <1>4, <1>6 DEF R!Unban, R!StartsEmpty, R!OnePollBehind, R!apply
  <2> QED
    BY <1>1, <1>3, <1>6, <2>1 DEF R!Unban
<1>7. ASSUME NEW v \in Values, R!Check(v) PROVE R!ReputationInv'
  <2>1. Counts
    BY <1>0, <1>7 DEF R!Check
  <2> QED
    BY <1>1, <1>2, <1>7, <2>1 DEF R!Check
<1>8. CASE R!Fetch
  <2>1. Kept /\ Mirrors
    BY <1>0, <1>4, <1>8 DEF R!Fetch, R!Stream, R!NothingPending, R!StartsEmpty,
       R!OnePollBehind, R!apply
  <2> QED
    BY <1>1, <1>3, <1>8, <2>1 DEF R!Fetch
<1>9. ASSUME NEW answer \in BOOLEAN, R!FetchFails(answer) PROVE R!ReputationInv'
  <2>1. Kept /\ Mirrors
    BY <1>0, <1>4, <1>9 DEF R!FetchFails, R!NothingPending, R!StartsEmpty,
       R!OnePollBehind, R!apply
  <2> QED
    BY <1>1, <1>3, <1>9, <2>1 DEF R!FetchFails
<1>10. CASE R!TakeWindow \/ R!Pushed \/ R!PushFails
  <2>1. Counts
    BY <1>0, <1>10 DEF R!TakeWindow, R!Pushed, R!PushFails, R!Restored
  <2> QED
    BY <1>1, <1>2, <1>10, <2>1 DEF R!TakeWindow, R!Pushed, R!PushFails
<1>11. ASSUME NEW enabled \in BOOLEAN, R!SaveSettings(enabled) PROVE R!ReputationInv'
  <2>1. Kept /\ Mirrors
    BY <1>0, <1>4, <1>11 DEF R!SaveSettings, R!StartsEmpty, R!OnePollBehind, R!apply
  <2> QED
    BY <1>1, <1>3, <1>11, <2>1 DEF R!SaveSettings
<1>12. CASE R!Tick \/ UNCHANGED R!reputationVars
  BY <1>1, <1>2, <1>3, <1>12 DEF R!Tick, R!reputationVars
<1> QED
  BY <1>5, <1>6, <1>7, <1>8, <1>9, <1>10, <1>11, <1>12 DEF R!Next

\* The mirror of the decisions is one poll behind the LAPI, and every request
\* checked is counted once, for any set of values and any order of polls,
\* failures, reports and changes of the settings (apply, fetchOnce, restoreWindow).
THEOREM ReputationSound == R!Spec => []ReputationKept
<1> USE ProxyAssumption
<1>1. R!Init => R!ReputationInv
  BY ReputationInit
<1>2. R!ReputationInv /\ [R!Next]_R!reputationVars => R!ReputationInv'
  BY ReputationNext
<1>3. R!ReputationInv => ReputationKept
  BY DEF R!ReputationInv, ReputationKept
<1> QED
  BY <1>1, <1>2, <1>3, PTL DEF R!Spec

-----------------------------------------------------------------------------
(* CertWorker: the steps of the jobs.                                      *)

\* The name a job is at, and whether it has yet to announce a change of it.
NameOf(q) == q.item.names[q.i]
Announces(q) == q.pc \in {"invalidate", "forget"}

\* A job in one of its states.
Sound(q) ==
    /\ q \in C!CertJob \union {C!IdleJob}
    /\ q.pc \in C!NameSteps => q.i \in 1..Len(q.item.names)

\* Job j goes to q; the others stay where they are.
JobTo(j, q) ==
    /\ job' \in [Jobs -> C!CertJob \union {C!IdleJob}] /\ job'[j] = q
    /\ \A k \in Jobs \ {j} :
         job'[k].pc = job[k].pc /\ job'[k].item = job[k].item /\ job'[k].i = job[k].i

\* A job that is not idle works on a row, and one that is at a name on a name.
LEMMA CertJobs ==
    ASSUME C!CertAssumption, C!CertInv, NEW j \in Jobs
    PROVE  /\ Sound(job[j])
           /\ job[j].pc # "idle" => job[j] \in C!CertJob /\ job[j].item \in C!CertRow
           /\ job[j].pc \in C!NameSteps => NameOf(job[j]) \in C!Names
           /\ NameOf(job[j]) = C!Current(j)
<1>1. job[j] \in C!CertJob \union {C!IdleJob} /\ C!OnAName(j)
  BY DEF C!CertInv, C!CertStateOK
<1>2. job[j].pc # "idle" => job[j] \in C!CertJob
  BY <1>1 DEF C!IdleJob
<1>3. job[j] \in C!CertJob => job[j].item \in C!CertRow /\ job[j].item.names \in NameLists
  BY DEF C!CertJob, C!CertRow
<1>4. job[j].pc \in C!NameSteps => job[j] \in C!CertJob
  BY <1>2 DEF C!NameSteps
<1>5. job[j].pc \in C!NameSteps => NameOf(job[j]) \in C!Names
  <2> SUFFICES ASSUME job[j].pc \in C!NameSteps PROVE NameOf(job[j]) \in C!Names
    OBVIOUS
  <2> DEFINE l == job[j].item.names
  <2>1. l \in NameLists /\ job[j].i \in 1..Len(l)
    BY <1>1, <1>3, <1>4 DEF C!OnAName, C!Names1
  <2>2. l \in Seq(C!Names)
    BY <2>1 DEF C!CertAssumption
  <2> HIDE DEF l
  <2>3. l[job[j].i] \in C!Names
    BY <2>1, <2>2
  <2> QED
    BY <2>3 DEF NameOf, l
<1> QED
  BY <1>1, <1>2, <1>3, <1>5 DEF Sound, C!OnAName, C!Names1, C!Current, NameOf

\* A job that moves leaves the jobs sound and the announcements of the others
\* outstanding.
LEMMA JobsMove ==
    ASSUME C!CertAssumption, C!CertInv, NEW j \in Jobs, NEW q, Sound(q), JobTo(j, q)
    PROVE  /\ job' \in [Jobs -> C!CertJob \union {C!IdleJob}]
           /\ \A k \in Jobs : C!OnAName(k)'
           /\ \A n : C!Settling(n) /\ ~(Announces(job[j]) /\ NameOf(job[j]) = n) => C!Settling(n)'
           /\ Announces(q) => C!Settling(NameOf(q))'
<1>1. \A k \in Jobs : C!OnAName(k)
  BY DEF C!CertInv
<1>2. ASSUME NEW k \in Jobs PROVE C!OnAName(k)'
  BY <1>1 DEF C!OnAName, C!Names1, JobTo, Sound
<1>3. ASSUME NEW n, C!Settling(n), ~(Announces(job[j]) /\ NameOf(job[j]) = n)
      PROVE  C!Settling(n)'
  BY <1>3 DEF C!Settling, C!Current, C!Names1, JobTo, Announces, NameOf
<1>4. Announces(q) => C!Settling(NameOf(q))'
  BY DEF C!Settling, C!Current, C!Names1, JobTo, Announces, NameOf
<1> QED
  BY <1>2, <1>3, <1>4 DEF JobTo

\* Both ways to write the jobs move one of them.
LEMMA JobsWritten ==
    ASSUME C!CertAssumption, C!CertInv, NEW j \in Jobs, NEW q \in C!CertJob \union {C!IdleJob}
    PROVE  /\ job' = [job EXCEPT ![j] = q] => JobTo(j, q)
           /\ job' = [C!Outdate(j) EXCEPT ![j] = q] => JobTo(j, q)
<1>1. job \in [Jobs -> C!CertJob \union {C!IdleJob}]
  BY DEF C!CertInv, C!CertStateOK
<1>2. ASSUME job' = [job EXCEPT ![j] = q] PROVE JobTo(j, q)
  BY <1>1, <1>2 DEF JobTo
<1>3. ASSUME job' = [C!Outdate(j) EXCEPT ![j] = q] PROVE JobTo(j, q)
  <2> DEFINE old(k) == [job[k] EXCEPT !.fresh = FALSE]
  <2>1. ASSUME NEW k \in Jobs, job[k].item # None
        PROVE  /\ old(k) \in C!CertJob /\ old(k).pc = job[k].pc /\ old(k).item = job[k].item
               /\ old(k).i = job[k].i
    <3>1. job[k] \in C!CertJob
      BY <1>1, <2>1 DEF C!IdleJob
    <3> QED
      BY <3>1 DEF C!CertJob
  <2>2. ASSUME NEW k \in Jobs \ {j}
        PROVE  job'[k] = IF job[k].item # None THEN old(k) ELSE job[k]
    BY <1>3, <2>2 DEF C!Outdate
  <2>3. DOMAIN job' = Jobs /\ job' = [k \in Jobs |-> job'[k]] /\ job'[j] = q
    BY <1>3 DEF C!Outdate
  <2> HIDE DEF old
  <2>4. ASSUME NEW k \in Jobs \ {j}
        PROVE  /\ job'[k] \in C!CertJob \union {C!IdleJob} /\ job'[k].pc = job[k].pc
               /\ job'[k].item = job[k].item /\ job'[k].i = job[k].i
    BY <1>1, <2>1, <2>2
  <2> QED
    BY <2>3, <2>4 DEF JobTo
<1> QED
  BY <1>2, <1>3

\* The states a job goes to from one it is in.
LEMMA JobStates ==
    ASSUME C!CertAssumption, C!CertInv, NEW j \in Jobs, job[j].pc # "idle", NEW x \in C!CertRow
    PROVE  /\ \A p \in C!RowSteps : Sound([job[j] EXCEPT !.pc = p])
                                    /\ ~Announces([job[j] EXCEPT !.pc = p])
           /\ job[j].pc \in C!NameSteps => \A p \in C!NameSteps :
                LET q == [job[j] EXCEPT !.pc = p] IN
                Sound(q) /\ q.pc = p /\ NameOf(q) = NameOf(job[j])
           /\ \A p \in C!RowSteps : Sound([job[j] EXCEPT !.item = x, !.pc = p])
           /\ Sound([job[j] EXCEPT !.pc = "store", !.i = 1])
           /\ job[j].i < Len(job[j].item.names) => \A p \in C!NameSteps :
                Sound([job[j] EXCEPT !.pc = p, !.i = @ + 1])
<1>1. job[j] \in C!CertJob /\ job[j].item \in C!CertRow /\ Sound(job[j])
  BY CertJobs
<1>2. job[j].i \in Nat /\ Len(job[j].item.names) \in Nat /\ Len(job[j].item.names) > 0
  BY <1>1 DEF C!CertJob, C!CertRow, C!CertAssumption
<1>3. ASSUME NEW p \in C!RowSteps
      PROVE  /\ Sound([job[j] EXCEPT !.pc = p]) /\ ~Announces([job[j] EXCEPT !.pc = p])
             /\ Sound([job[j] EXCEPT !.item = x, !.pc = p])
  BY <1>1 DEF C!CertJob, C!RowSteps, C!NameSteps, Sound, Announces
<1>4. ASSUME NEW p \in C!NameSteps, job[j].pc \in C!NameSteps
      PROVE  LET q == [job[j] EXCEPT !.pc = p] IN
             Sound(q) /\ q.pc = p /\ NameOf(q) = NameOf(job[j])
  BY <1>1, <1>4 DEF C!CertJob, Sound, NameOf
<1>5. Sound([job[j] EXCEPT !.pc = "store", !.i = 1])
  <2> DEFINE q == [job[j] EXCEPT !.pc = "store", !.i = 1]
  <2>1. q \in C!CertJob
    BY <1>1 DEF C!CertJob, C!NameSteps
  <2>2. q.i = 1 /\ q.item = job[j].item
    BY <1>1 DEF C!CertJob
  <2> HIDE DEF q
  <2>3. Sound(q)
    BY <1>2, <2>1, <2>2 DEF Sound
  <2> QED
    BY <2>3 DEF q
<1>6. ASSUME NEW p \in C!NameSteps, job[j].i < Len(job[j].item.names)
      PROVE  Sound([job[j] EXCEPT !.pc = p, !.i = @ + 1])
  <2> DEFINE q == [job[j] EXCEPT !.pc = p, !.i = @ + 1]
             e == job[j].i + 1
  <2>0. e \in Nat /\ q = [job[j] EXCEPT !.pc = p, !.i = e] /\ p \in C!RowSteps \union C!NameSteps
    BY <1>1, <1>2 DEF C!CertJob
  <2> HIDE DEF e, q
  <2>1. q \in C!CertJob
    BY <1>1, <2>0 DEF C!CertJob
  <2>2. q.i = job[j].i + 1 /\ q.item = job[j].item
    BY <1>1, <2>0 DEF C!CertJob, e
  <2> HIDE DEF q
  <2>3. Sound(q)
    BY <1>2, <1>6, <2>1, <2>2 DEF Sound
  <2> QED
    BY <2>3 DEF q
<1> QED
  BY <1>3, <1>4, <1>5, <1>6

\* The states a job starts in.
LEMMA JobStarts ==
    ASSUME C!CertAssumption, NEW x \in C!CertRow
    PROVE  /\ Sound(C!IdleJob)
           /\ Sound([C!IdleJob EXCEPT !.pc = "config", !.item = x])
           /\ \A p \in {"edit", "delete"} :
                Sound([C!IdleJob EXCEPT !.pc = p, !.item = x, !.i = 1])
           /\ Sound([C!IdleJob EXCEPT !.pc = "store", !.i = 1, !.import = TRUE, !.item = x])
<1>1. Len(x.names) \in Nat /\ Len(x.names) > 0
  BY DEF C!CertRow, C!CertAssumption
<1>2. Sound(C!IdleJob)
  BY DEF Sound, C!IdleJob, C!NameSteps
<1>3. Sound([C!IdleJob EXCEPT !.pc = "config", !.item = x])
  BY DEF Sound, C!IdleJob, C!CertJob, C!RowSteps, C!NameSteps
<1>4. ASSUME NEW p \in {"edit", "delete"}
      PROVE  Sound([C!IdleJob EXCEPT !.pc = p, !.item = x, !.i = 1])
  <2> DEFINE q == [C!IdleJob EXCEPT !.pc = p, !.item = x, !.i = 1]
  <2>1. q \in C!CertJob /\ q.i = 1 /\ q.item = x
    BY DEF C!IdleJob, C!CertJob, C!RowSteps, C!NameSteps
  <2> HIDE DEF q
  <2>2. Sound(q)
    BY <1>1, <2>1 DEF Sound
  <2> QED
    BY <2>2 DEF q
<1>5. Sound([C!IdleJob EXCEPT !.pc = "store", !.i = 1, !.import = TRUE, !.item = x])
  <2> DEFINE q == [C!IdleJob EXCEPT !.pc = "store", !.i = 1, !.import = TRUE, !.item = x]
  <2>1. q \in C!CertJob /\ q.i = 1 /\ q.item = x
    BY DEF C!IdleJob, C!CertJob, C!RowSteps, C!NameSteps
  <2> HIDE DEF q
  <2>2. Sound(q)
    BY <1>1, <2>1 DEF Sound
  <2> QED
    BY <2>2 DEF q
<1> QED
  BY <1>2, <1>3, <1>4, <1>5

\* The rows the jobs and the handlers write.
LEMMA CertRows ==
    ASSUME C!CertAssumption, NEW x \in C!CertRow, NEW e \in Nat, now \in Nat
    PROVE  /\ [x EXCEPT !.failures = 0] \in C!CertRow
           /\ [x EXCEPT !.status = "failed"] \in C!CertRow
           /\ [x EXCEPT !.exp = e] \in C!CertRow
           /\ [x EXCEPT !.exp = e, !.status = C!derivedCertificateStatus(e)] \in C!CertRow
           /\ \A l \in NameLists, a \in BOOLEAN :
                [x EXCEPT !.names = l, !.auto = a, !.exp = e, !.failures = 0, !.next = None]
                  \in C!CertRow
<1>1. C!derivedCertificateStatus(e) \in {"expiring_soon", "issued"}
  BY DEF C!derivedCertificateStatus
<1> QED
  BY <1>1 DEF C!CertRow

\* The loop of retryDelay has a result for every number of rounds.
LEMMA BackoffDefined ==
    ASSUME C!CertAssumption
    PROVE  \A n \in Nat : C!Backoff[n] = IF n = 0 THEN BaseDelay ELSE C!Doubled(C!Backoff[n - 1])
<1> DEFINE Rounds(g, n) == \A i \in 0..n :
             g[i] = IF i = 0 THEN BaseDelay ELSE C!Doubled(g[i - 1])
           S == {n \in Nat : \E g : Rounds(g, n)}
           F(f) == f = [n \in Nat |-> IF n = 0 THEN BaseDelay ELSE C!Doubled(f[n - 1])]
<1>1. Nat \subseteq S
  <2>1. 0 \in S
    <3>1. Rounds([i \in {0} |-> BaseDelay], 0)
      OBVIOUS
    <3> QED
      BY <3>1
  <2>2. ASSUME NEW n \in Nat, n \in S PROVE n + 1 \in S
    <3>1. PICK g : Rounds(g, n)
      BY <2>2
    <3> DEFINE h == [i \in 0..(n + 1) |-> IF i = n + 1 THEN C!Doubled(g[n]) ELSE g[i]]
    <3>2. ASSUME NEW i \in 0..(n + 1)
          PROVE  h[i] = IF i = 0 THEN BaseDelay ELSE C!Doubled(h[i - 1])
      <4>1. CASE i = n + 1
        BY <4>1
      <4>2. CASE i # n + 1
        BY <3>1, <4>2
      <4> QED
        BY <4>1, <4>2
    <3>3. Rounds(h, n + 1)
      BY <3>2
    <3> HIDE DEF h
    <3> QED
      BY <3>3
  <2> HIDE DEF S
  <2> QED
    BY <2>1, <2>2, Induction
<1>2. ASSUME NEW m \in Nat, NEW n \in Nat, NEW g, NEW h, Rounds(g, m), Rounds(h, n)
      PROVE  \A i \in Nat : i <= m /\ i <= n => g[i] = h[i]
  <2> DEFINE T == {i \in Nat : i <= m /\ i <= n => g[i] = h[i]}
  <2>1. 0 \in T
    BY <1>2
  <2>2. ASSUME NEW i \in Nat, i \in T PROVE i + 1 \in T
    <3> SUFFICES ASSUME i + 1 <= m, i + 1 <= n PROVE g[i + 1] = h[i + 1]
      OBVIOUS
    <3>1. g[i] = h[i] /\ i + 1 \in 0..m /\ i + 1 \in 0..n /\ (i + 1) - 1 = i /\ i + 1 # 0
      BY <2>2
    <3> QED
      BY <1>2, <3>1
  <2> HIDE DEF T
  <2>3. Nat \subseteq T
    BY <2>1, <2>2, Induction
  <2> QED
    BY <2>3 DEF T
<1> DEFINE G(n) == CHOOSE g : Rounds(g, n)
           f == [n \in Nat |-> G(n)[n]]
<1>3. \A n \in Nat : Rounds(G(n), n)
  BY <1>1
<1> HIDE DEF G
<1>4. F(f)
  <2>1. ASSUME NEW n \in Nat, n # 0 PROVE f[n] = C!Doubled(f[n - 1])
    <3>1. n - 1 \in Nat /\ n \in 0..n /\ n - 1 <= n
      BY <2>1
    <3>2. G(n)[n] = C!Doubled(G(n)[n - 1])
      BY <1>3, <2>1, <3>1
    <3>3. Rounds(G(n), n) /\ Rounds(G(n - 1), n - 1)
      BY <1>3, <3>1
    <3>4. G(n)[n - 1] = G(n - 1)[n - 1]
      <4> HIDE DEF Rounds
      <4>1. \A i \in Nat : i <= n /\ i <= n - 1 => G(n)[i] = G(n - 1)[i]
        BY <1>2, <3>1, <3>3
      <4> QED
        BY <3>1, <4>1
    <3> QED
      BY <3>1, <3>2, <3>4
  <2>2. f[0] = BaseDelay
    BY <1>3
  <2> QED
    BY <2>1, <2>2
<1>5. F(C!Backoff)
  <2> HIDE DEF f
  <2> QED
    BY <1>4 DEF C!Backoff
<1> QED
  BY <1>5

\* The delay never exceeds its limit.
LEMMA BackoffBounded ==
    ASSUME C!CertAssumption
    PROVE  \A n \in Nat : C!Backoff[n] \in Nat /\ C!Backoff[n] <= MaxDelay
<1> DEFINE S == {n \in Nat : C!Backoff[n] \in Nat /\ C!Backoff[n] <= MaxDelay}
<1>1. 0 \in S
  BY BackoffDefined DEF C!CertAssumption
<1>2. ASSUME NEW n \in Nat, n \in S PROVE n + 1 \in S
  <2>1. C!Backoff[n + 1] = C!Doubled(C!Backoff[n])
    BY BackoffDefined
  <2> QED
    BY <1>2, <2>1 DEF C!Doubled, C!CertAssumption
<1> HIDE DEF S
<1>3. Nat \subseteq S
  BY <1>1, <1>2, Induction
<1> QED
  BY <1>3 DEF S

\* What a sync leaves in the retry columns.
LEMMA RetryColumns ==
    ASSUME C!CertAssumption, NEW x \in C!CertRow, NEW y \in C!CertRow, now \in Nat
    PROVE  LET s == C!nextRetryState(x)
               z == [y EXCEPT !.failures = s.failures, !.next = s.next]
           IN  /\ z \in C!CertRow /\ z.names = y.names /\ z.exp = y.exp
               /\ z.next # None => z.next <= now + MaxDelay
<1> DEFINE s == C!nextRetryState(x)
           z == [y EXCEPT !.failures = s.failures, !.next = s.next]
           d == C!retryDelay(x.failures + 1)
<1>1. x.failures \in Nat /\ (x.failures + 1) - 1 = x.failures
  BY DEF C!CertRow
<1>2. d \in Nat /\ d <= MaxDelay
  BY <1>1, BackoffBounded DEF C!retryDelay
<1>3. s = IF x.status = "failed" THEN [failures |-> x.failures + 1, next |-> now + d]
          ELSE [failures |-> 0, next |-> IF x.exp # 0 /\ x.exp < now + RenewWithin
                                         THEN now + Recheck ELSE None]
  BY DEF C!nextRetryState
<1> HIDE DEF s, d
<1>4. /\ s.failures \in Nat /\ s.next \in Nat \union {None}
      /\ s.next # None => s.next <= now + MaxDelay
  <2>1. CASE x.status = "failed"
    <3>1. s.failures = x.failures + 1 /\ s.next = now + d
      BY <1>3, <2>1
    <3> QED
      BY <1>1, <1>2, <3>1 DEF C!CertAssumption
  <2>2. CASE x.status # "failed"
    <3>1. s.failures = 0 /\ s.next \in {now + Recheck, None}
      BY <1>3, <2>2
    <3> QED
      BY <3>1 DEF C!CertAssumption
  <2> QED
    BY <2>1, <2>2
<1>5. z \in C!CertRow /\ z.names = y.names /\ z.exp = y.exp /\ z.next = s.next
  BY <1>4 DEF C!CertRow
<1> HIDE DEF z
<1> QED
  BY <1>4, <1>5 DEF s, z

-----------------------------------------------------------------------------
(* CertWorker: one lemma per kind of step.                                 *)

\* What is stored and what is cached stay, and no announcement is forgotten.
LEMMA StillInv ==
    ASSUME C!CertAssumption, C!CertInv, now' \in Nat, row' \in C!CertRow \union {None},
           magic' \in [C!Names -> Nat], UNCHANGED <<tls, hits, misses, flight>>,
           job' \in [Jobs -> C!CertJob \union {C!IdleJob}], \A k \in Jobs : C!OnAName(k)',
           \A n : C!Settling(n) => C!Settling(n)'
    PROVE  C!CertInv'
<1>1. C!CertStateOK'
  BY DEF C!CertInv, C!CertStateOK
<1>2. \A f \in Flights : C!LoadCurrent(f)'
  BY DEF C!CertInv, C!LoadCurrent, C!SameGeneration
<1>3. C!CachedCurrent'
  BY DEF C!CertInv, C!CachedCurrent
<1> QED
  BY <1>1, <1>2, <1>3 DEF C!CertInv

\* A job that moves between steps that store and announce nothing.
LEMMA QuietInv ==
    ASSUME C!CertAssumption, C!CertInv, now' \in Nat, row' \in C!CertRow \union {None},
           magic' \in [C!Names -> Nat], UNCHANGED <<tls, hits, misses, flight>>,
           NEW j \in Jobs, NEW q, Sound(q), JobTo(j, q), ~Announces(job[j])
    PROVE  C!CertInv'
  BY JobsMove, StillInv

\* A job that writes what is stored for a name and has yet to announce it.
LEMMA StoredInv ==
    ASSUME C!CertAssumption, C!CertInv, NEW j \in Jobs, NEW q, Sound(q), JobTo(j, q),
           ~Announces(job[j]), Announces(q), NEW e \in Nat,
           tls' = [tls EXCEPT ![NameOf(q)] = e],
           UNCHANGED <<now, row, magic, hits, misses, flight>>
    PROVE  C!CertInv'
<1>1. /\ job' \in [Jobs -> C!CertJob \union {C!IdleJob}] /\ \A k \in Jobs : C!OnAName(k)'
      /\ \A n : C!Settling(n) => C!Settling(n)'
      /\ C!Settling(NameOf(q))'
  BY JobsMove
<1>2. tls' \in [C!Names -> Nat] /\ \A n \in C!Names : n # NameOf(q) => tls'[n] = tls[n]
  BY DEF C!CertInv, C!CertStateOK
<1>3. C!CertStateOK'
  BY <1>1, <1>2 DEF C!CertInv, C!CertStateOK
<1>4. ASSUME NEW f \in Flights PROVE C!LoadCurrent(f)'
  <2>1. C!LoadCurrent(f) /\ (flight[f].cert # None => flight[f].name \in C!Names)
    BY DEF C!CertInv, C!CertStateOK, C!CertFlight, C!NoFlight
  <2> QED
    BY <1>1, <1>2, <2>1 DEF C!LoadCurrent, C!SameGeneration
<1>5. C!CachedCurrent'
  BY <1>1, <1>2 DEF C!CertInv, C!CachedCurrent
<1> QED
  BY <1>1, <1>3, <1>4, <1>5 DEF C!CertInv

\* A job that announces a change: no load that is under way keeps its result.
LEMMA InvalidatedInv ==
    ASSUME C!CertAssumption, C!CertInv, NEW j \in Jobs, NEW q, Sound(q), JobTo(j, q),
           job[j].pc \in C!NameSteps, C!invalidate(NameOf(job[j])),
           magic' \in [C!Names -> Nat], UNCHANGED <<now, row, tls>>
    PROVE  C!CertInv'
<1> DEFINE m == NameOf(job[j])
<1>1. /\ job' \in [Jobs -> C!CertJob \union {C!IdleJob}] /\ \A k \in Jobs : C!OnAName(k)'
      /\ \A n : C!Settling(n) /\ n # m => C!Settling(n)'
  BY JobsMove
<1>2. m \in C!Names
  BY CertJobs
<1> HIDE DEF m
<1>3. /\ hits' \in [C!Names -> C!CertHit \union {None}] /\ hits'[m] = None
      /\ misses' \in [C!Names -> Nat \union {None}] /\ misses'[m] = None
      /\ \A n \in C!Names : n # m => hits'[n] = hits[n] /\ misses'[n] = misses[n]
  BY <1>2 DEF C!invalidate, m, C!CertInv, C!CertStateOK
<1>4. ASSUME NEW f \in Flights
      PROVE  /\ flight'[f] \in C!CertFlight \union {C!NoFlight}
             /\ flight'[f].cert # None => flight'[f].old
  <2>1. flight[f] \in C!CertFlight \union {C!NoFlight}
    BY DEF C!CertInv, C!CertStateOK
  <2>2. CASE flight[f] = C!NoFlight
    <3>1. flight'[f] = C!NoFlight
      BY <2>2 DEF C!invalidate
    <3> QED
      BY <3>1 DEF C!NoFlight
  <2>3. CASE flight[f] # C!NoFlight
    <3> DEFINE b == flight[f].forgotten \/ flight[f].name = m
               g == [flight[f] EXCEPT !.old = TRUE, !.forgotten = b]
    <3>1. flight'[f] = g
      BY <2>3 DEF C!invalidate, m
    <3>2. flight[f] \in C!CertFlight /\ b \in BOOLEAN
      BY <2>1, <2>3 DEF C!CertFlight
    <3> HIDE DEF b
    <3>3. g \in C!CertFlight /\ g.old
      BY <3>2 DEF C!CertFlight
    <3> QED
      BY <3>1, <3>3
  <2> QED
    BY <2>2, <2>3
<1>5. flight' = [f \in Flights |-> flight'[f]]
  BY DEF C!invalidate
<1>6. C!CertStateOK'
  BY <1>1, <1>3, <1>4, <1>5 DEF C!CertInv, C!CertStateOK
<1>7. \A f \in Flights : C!LoadCurrent(f)'
  BY <1>4 DEF C!LoadCurrent, C!SameGeneration
<1>8. C!CachedCurrent'
  BY <1>1, <1>3 DEF C!CertInv, C!CachedCurrent
<1> QED
  BY <1>1, <1>6, <1>7, <1>8 DEF C!CertInv

\* A load begins, reads the table, and ends.
LEMMA CacheInv ==
    ASSUME C!CertAssumption, C!CertInv, NEW f \in Flights,
           (\E n \in Asked : C!Get(f, n)) \/ C!RefreshLoad(f) \/ C!RefreshStore(f)
             \/ C!RefreshFails(f)
    PROVE  C!CertInv'
<1>1. /\ UNCHANGED <<now, row, magic, tls, job, drift, leftover>> /\ C!CertStateOK
      /\ \A n : C!Settling(n)' <=> C!Settling(n)
      /\ \A k \in Jobs : C!OnAName(k)'
  BY DEF C!Get, C!RefreshLoad, C!RefreshStore, C!RefreshFails, C!Settling, C!Current,
     C!Names1, C!CertInv, C!OnAName
<1>2. /\ tls \in [C!Names -> Nat] /\ now \in Nat /\ None \notin Nat
      /\ hits \in [C!Names -> C!CertHit \union {None}] /\ misses \in [C!Names -> Nat \union {None}]
      /\ flight \in [Flights -> C!CertFlight \union {C!NoFlight}]
  BY <1>1 DEF C!CertStateOK, C!CertAssumption
<1>3. ASSUME NEW g \in C!CertFlight \union {C!NoFlight}, flight' = [flight EXCEPT ![f] = g],
             g.cert # None /\ ~g.old => C!Settling(g.name) \/ g.cert = tls[g.name],
             hits' \in [C!Names -> C!CertHit \union {None}],
             misses' \in [C!Names -> Nat \union {None}], C!CachedCurrent'
      PROVE  C!CertInv'
  <2>1. C!CertStateOK'
    BY <1>1, <1>2, <1>3 DEF C!CertStateOK
  <2>2. ASSUME NEW h \in Flights PROVE C!LoadCurrent(h)'
    BY <1>1, <1>2, <1>3 DEF C!CertInv, C!LoadCurrent, C!SameGeneration
  <2> QED
    BY <1>1, <1>3, <2>1, <2>2 DEF C!CertInv
<1>4. UNCHANGED <<hits, misses>> => C!CachedCurrent'
  BY <1>1 DEF C!CertInv, C!CachedCurrent
<1>5. C!NoFlight.cert = None
  BY DEF C!NoFlight
<1>6. CASE \E n \in Asked : C!Get(f, n)
  <2>1. PICK n \in Asked : C!Get(f, n)
    BY <1>6
  <2> DEFINE g == [C!NoFlight EXCEPT !.name = n]
  <2>2. g \in C!CertFlight /\ g.cert = None
    BY DEF C!NoFlight, C!CertFlight, C!CertAssumption
  <2>3. flight' = [flight EXCEPT ![f] = g] /\ UNCHANGED <<hits, misses>>
    BY <2>1 DEF C!Get
  <2> HIDE DEF g
  <2> QED
    BY <1>2, <1>3, <1>4, <2>2, <2>3
<1>7. CASE C!RefreshLoad(f)
  <2> DEFINE e == tls[flight[f].name]
             g == [flight[f] EXCEPT !.cert = e]
  <2>1. flight[f] \in C!CertFlight
    BY <1>2, <1>7 DEF C!RefreshLoad, C!NoFlight
  <2>2. e \in Nat
    BY <1>2, <2>1 DEF C!CertFlight
  <2>3. flight' = [flight EXCEPT ![f] = g] /\ UNCHANGED <<hits, misses>>
    BY <1>7 DEF C!RefreshLoad
  <2>4. g.cert = tls[g.name]
    BY <2>1 DEF C!CertFlight
  <2>5. g \in C!CertFlight
    <3> HIDE DEF e
    <3> QED
      BY <2>1, <2>2 DEF C!CertFlight
  <2> HIDE DEF g
  <2> QED
    BY <1>2, <1>3, <1>4, <2>3, <2>4, <2>5
<1>8. CASE C!RefreshStore(f)
  <2> DEFINE n == flight[f].name
             e == flight[f].cert
             h == [cert |-> e, at |-> now]
  <2>1. flight[f] \in C!CertFlight /\ n \in C!Names /\ e \in Nat
    BY <1>2, <1>8 DEF C!RefreshStore, C!NoFlight, C!CertFlight
  <2>2. h \in C!CertHit /\ h.cert = e
    BY <1>2, <2>1 DEF C!CertHit
  <2>3. flight' = [flight EXCEPT ![f] = C!NoFlight]
    BY <1>8 DEF C!RefreshStore
  <2>4. CASE ~C!SameGeneration(f)
    <3>1. UNCHANGED <<hits, misses>>
      BY <1>8, <2>4 DEF C!RefreshStore
    <3> QED
      BY <1>2, <1>3, <1>4, <1>5, <2>3, <3>1
  <2>5. CASE C!SameGeneration(f)
    <3>1. /\ hits' = [hits EXCEPT ![n] = IF e # 0 THEN h ELSE None]
          /\ misses' = [misses EXCEPT ![n] = IF e # 0 THEN None ELSE now]
      BY <1>8, <2>5 DEF C!RefreshStore
    <3>2. C!Settling(n) \/ e = tls[n]
      BY <1>8, <2>5 DEF C!RefreshStore, C!CertInv, C!LoadCurrent
    <3> HIDE DEF n, e, h
    <3>3. /\ hits' \in [C!Names -> C!CertHit \union {None}]
          /\ misses' \in [C!Names -> Nat \union {None}]
      BY <1>2, <2>1, <2>2, <3>1
    <3>4. C!CachedCurrent'
      BY <1>1, <1>2, <2>1, <2>2, <3>1, <3>2 DEF C!CertInv, C!CachedCurrent
    <3> QED
      BY <1>3, <1>5, <2>3, <3>3, <3>4
  <2> QED
    BY <2>4, <2>5
<1>9. CASE C!RefreshFails(f)
  <2> DEFINE n == flight[f].name
             h == [hits[n] EXCEPT !.at = now]
  <2>1. flight[f] \in C!CertFlight /\ n \in C!Names
    BY <1>2, <1>9 DEF C!RefreshFails, C!NoFlight, C!CertFlight
  <2>2. hits[n] # None => h \in C!CertHit /\ h.cert = hits[n].cert
    BY <1>2, <2>1 DEF C!CertHit
  <2>3. /\ flight' = [flight EXCEPT ![f] = C!NoFlight] /\ misses' = misses
        /\ hits' = hits \/ (hits[n] # None /\ hits' = [hits EXCEPT ![n] = h])
    <3>1. CASE C!SameGeneration(f) /\ hits[n] # None
      BY <1>9, <3>1 DEF C!RefreshFails
    <3>2. CASE ~(C!SameGeneration(f) /\ hits[n] # None)
      BY <1>9, <3>2 DEF C!RefreshFails, C!SameGeneration
    <3> QED
      BY <3>1, <3>2
  <2> HIDE DEF n, h
  <2>4. hits' \in [C!Names -> C!CertHit \union {None}]
    BY <1>2, <2>1, <2>2, <2>3
  <2>5. C!CachedCurrent'
    BY <1>1, <1>2, <2>1, <2>2, <2>3 DEF C!CertInv, C!CachedCurrent
  <2> QED
    BY <1>2, <1>3, <1>5, <2>3, <2>4, <2>5
<1> QED
  BY <1>6, <1>7, <1>8, <1>9

-----------------------------------------------------------------------------
(* CertWorker: the steps, one by one.                                      *)

\* A sync starts, goes on and fails without storing anything.
LEMMA SyncStepsInv ==
    ASSUME C!CertAssumption, C!CertInv, NEW j \in Jobs,
           \/ C!runOnce
           \/ \E forget \in BOOLEAN : C!SyncCertificateStatus(j, forget)
           \/ \E ok \in BOOLEAN : C!configForCertificate(j, ok)
           \/ C!ManageSync(j) \/ C!ManageSyncFails(j) \/ C!StoreFails(j)
    PROVE  C!CertInv'
<1>1. /\ now \in Nat /\ row \in C!CertRow \union {None} /\ magic \in [C!Names -> Nat]
      /\ job \in [Jobs -> C!CertJob \union {C!IdleJob}]
  BY DEF C!CertInv, C!CertStateOK
<1>2. ASSUME NEW k \in Jobs, NEW q, Sound(q), job' = [job EXCEPT ![k] = q], ~Announces(job[k]),
             magic' \in [C!Names -> Nat], UNCHANGED <<now, row, tls, hits, misses, flight>>
      PROVE  C!CertInv'
  <2>1. JobTo(k, q)
    BY <1>2, JobsWritten DEF Sound
  <2> QED
    BY <1>1, <1>2, <2>1, QuietInv
<1>3. CASE C!runOnce
  <2> DEFINE q == [C!IdleJob EXCEPT !.pc = "config", !.item = row]
  <2>1. row \in C!CertRow /\ "worker" \in Jobs /\ ~Announces(job["worker"])
    BY <1>1, <1>3 DEF C!runOnce, C!ListPending, C!ListExpiringBefore, C!CertAssumption, Announces
  <2>2. Sound(q)
    BY <2>1, JobStarts
  <2>3. job' = [job EXCEPT !["worker"] = q] /\ UNCHANGED <<now, row, magic, tls, hits, misses, flight>>
    BY <1>3 DEF C!runOnce, C!Start, C!cache
  <2> HIDE DEF q
  <2> QED
    BY <1>1, <1>2, <2>1, <2>2, <2>3
<1>4. ASSUME NEW forget \in BOOLEAN, C!SyncCertificateStatus(j, forget) PROVE C!CertInv'
  <2> DEFINE x == IF forget THEN [row EXCEPT !.failures = 0] ELSE row
             q == [C!IdleJob EXCEPT !.pc = "config", !.item = x]
  <2>1. row \in C!CertRow /\ ~Announces(job[j])
    BY <1>1, <1>4 DEF C!SyncCertificateStatus, Announces
  <2>2. x \in C!CertRow
    BY <1>1, <2>1, CertRows
  <2>3. job' = [job EXCEPT ![j] = q] /\ UNCHANGED <<now, row, magic, tls, hits, misses, flight>>
    BY <1>4 DEF C!SyncCertificateStatus, C!Start, C!cache
  <2> HIDE DEF x
  <2>4. Sound(q)
    BY <2>2, JobStarts
  <2> HIDE DEF q
  <2> QED
    BY <1>1, <1>2, <2>1, <2>3, <2>4
<1>5. ASSUME NEW p \in C!RowSteps, C!Goto(j, p), job[j].pc \in {"config", "manage", "store"},
             UNCHANGED <<now, row, magic, tls, hits, misses, flight>>
      PROVE  C!CertInv'
  <2> DEFINE q == [job[j] EXCEPT !.pc = p]
  <2>1. job[j].pc # "idle" /\ ~Announces(job[j])
    BY <1>5 DEF Announces
  <2>2. PICK x : x \in C!CertRow
    BY <2>1, CertJobs
  <2>3. Sound(q)
    BY <2>1, <2>2, JobStates
  <2>4. job' = [job EXCEPT ![j] = q]
    BY <1>5 DEF C!Goto
  <2> HIDE DEF q
  <2> QED
    BY <1>1, <1>2, <1>5, <2>1, <2>3, <2>4
<1>6. ASSUME NEW ok \in BOOLEAN, C!configForCertificate(j, ok) PROVE C!CertInv'
  BY <1>5, <1>6 DEF C!configForCertificate, C!cache, C!RowSteps
<1>7. CASE C!ManageSyncFails(j)
  BY <1>5, <1>7 DEF C!ManageSyncFails, C!cache, C!RowSteps
<1>8. CASE C!ManageSync(j)
  <2> DEFINE q == [job[j] EXCEPT !.pc = "store", !.i = 1]
  <2>1. job[j].pc # "idle" /\ ~Announces(job[j])
    BY <1>8 DEF C!ManageSync, Announces
  <2>2. PICK x : x \in C!CertRow
    BY <2>1, CertJobs
  <2>3. Sound(q)
    BY <2>1, <2>2, JobStates
  <2>4. job' = [job EXCEPT ![j] = q]
    BY <1>1, <1>8 DEF C!ManageSync
  <2>5. magic' \in [C!Names -> Nat] /\ UNCHANGED <<now, row, tls, hits, misses, flight>>
    BY <1>1, <1>8 DEF C!ManageSync, C!cache, C!CertAssumption
  <2> HIDE DEF q
  <2> QED
    BY <1>2, <2>1, <2>3, <2>4, <2>5
<1>9. CASE C!StoreFails(j)
  <2> DEFINE fail == [job[j] EXCEPT !.pc = "fail"]
             q == IF job[j].import THEN C!IdleJob ELSE fail
  <2>1. job[j].pc # "idle" /\ ~Announces(job[j])
    BY <1>9 DEF C!StoreFails, Announces
  <2>2. PICK x : x \in C!CertRow
    BY <2>1, CertJobs
  <2>3. Sound(fail) /\ Sound(C!IdleJob)
    BY <2>1, <2>2, JobStates, JobStarts DEF C!RowSteps
  <2>4. job' = [job EXCEPT ![j] = q] /\ UNCHANGED <<now, row, magic, tls, hits, misses, flight>>
    BY <1>9 DEF C!StoreFails, C!cache
  <2> HIDE DEF fail
  <2>5. Sound(q)
    BY <2>3
  <2> HIDE DEF q
  <2> QED
    BY <1>1, <1>2, <2>1, <2>4, <2>5
<1> QED
  BY <1>3, <1>4, <1>6, <1>7, <1>8, <1>9

\* A job stores or deletes what is stored for a name.
LEMMA StoreStepsInv ==
    ASSUME C!CertAssumption, C!CertInv, NEW j \in Jobs, NEW ok \in BOOLEAN,
           C!StorePEM(j) \/ C!PurgeStored(j, ok)
    PROVE  C!CertInv'
<1>1. /\ now \in Nat /\ row \in C!CertRow \union {None} /\ magic \in [C!Names -> Nat]
      /\ job \in [Jobs -> C!CertJob \union {C!IdleJob}]
  BY DEF C!CertInv, C!CertStateOK
<1>2. /\ job[j].pc \in {"store", "purge"} /\ job[j].pc # "idle" /\ ~Announces(job[j])
      /\ job[j].pc \in C!NameSteps
      /\ UNCHANGED <<now, row, magic, hits, misses, flight>>
  BY DEF C!StorePEM, C!PurgeStored, C!cache, C!NameSteps, Announces
<1>3. job[j] \in C!CertJob /\ job[j].item \in C!CertRow /\ C!Current(j) = NameOf(job[j])
      /\ NameOf(job[j]) \in C!Names
  BY <1>2, CertJobs
<1>4. ASSUME NEW p \in {"invalidate", "forget"}, NEW e \in Nat, C!Goto(j, p),
             tls' = [tls EXCEPT ![C!Current(j)] = e]
      PROVE  C!CertInv'
  <2> DEFINE q == [job[j] EXCEPT !.pc = p]
  <2>1. p \in C!NameSteps
    BY DEF C!NameSteps
  <2>2. Sound(q) /\ q.pc = p /\ NameOf(q) = NameOf(job[j])
    BY <1>2, <1>3, <2>1, JobStates
  <2>3. job' = [job EXCEPT ![j] = q]
    BY <1>4 DEF C!Goto
  <2> HIDE DEF q
  <2>4. JobTo(j, q) /\ Announces(q)
    BY <2>2, <2>3, JobsWritten DEF Sound, Announces
  <2> QED
    BY <1>2, <1>3, <1>4, <2>2, <2>4, StoredInv
<1>5. CASE C!PurgeStored(j, ok)
  <2>1. tls \in [C!Names -> Nat]
    BY DEF C!CertInv, C!CertStateOK
  <2>2. PICK e \in Nat : tls' = [tls EXCEPT ![C!Current(j)] = e]
    <3>1. CASE ok
      BY <1>5, <3>1 DEF C!PurgeStored
    <3>2. CASE ~ok
      <4>1. tls' = [tls EXCEPT ![C!Current(j)] = tls[C!Current(j)]]
            /\ tls[C!Current(j)] \in Nat
        BY <1>3, <1>5, <2>1, <3>2 DEF C!PurgeStored
      <4> QED
        BY <4>1
    <3> QED
      BY <3>1, <3>2
  <2> QED
    BY <1>4, <1>5, <2>2 DEF C!PurgeStored
<1>6. CASE C!StorePEM(j)
  <2> DEFINE cert == IF job[j].import THEN job[j].item.exp ELSE C!persistManagedCertificate(j)
  <2>1. cert \in Nat
    <3>1. job[j].item.exp \in Nat
      BY <1>3 DEF C!CertRow
    <3>2. C!persistManagedCertificate(j) \in Nat
      BY <1>1, <1>3 DEF C!persistManagedCertificate
    <3> QED
      BY <3>1, <3>2
  <2>2. \/ cert = 0 /\ C!Goto(j, "fail") /\ UNCHANGED tls
        \/ tls' = [tls EXCEPT ![C!Current(j)] = cert] /\ C!Goto(j, "invalidate")
    BY <1>6 DEF C!StorePEM
  <2> HIDE DEF cert
  <2>3. CASE C!Goto(j, "fail") /\ UNCHANGED tls
    <3> DEFINE q == [job[j] EXCEPT !.pc = "fail"]
    <3>1. Sound(q)
      BY <1>2, <1>3, JobStates DEF C!RowSteps
    <3>2. job' = [job EXCEPT ![j] = q]
      BY <2>3 DEF C!Goto
    <3> HIDE DEF q
    <3>3. JobTo(j, q)
      BY <3>1, <3>2, JobsWritten DEF Sound
    <3> QED
      BY <1>1, <1>2, <2>3, <3>1, <3>3, QuietInv
  <2>4. CASE tls' = [tls EXCEPT ![C!Current(j)] = cert] /\ C!Goto(j, "invalidate")
    BY <1>4, <2>1, <2>4
  <2> QED
    BY <2>2, <2>3, <2>4
<1> QED
  BY <1>5, <1>6

\* A job announces the change of a name and goes on to the next one.
LEMMA AnnounceStepsInv ==
    ASSUME C!CertAssumption, C!CertInv, NEW j \in Jobs, NEW ok \in BOOLEAN,
           C!Invalidate(j) \/ C!PurgeMagic(j, ok)
    PROVE  C!CertInv'
<1>1. /\ now \in Nat /\ row \in C!CertRow \union {None} /\ magic \in [C!Names -> Nat]
      /\ job \in [Jobs -> C!CertJob \union {C!IdleJob}]
  BY DEF C!CertInv, C!CertStateOK
<1>2. /\ job[j].pc \in C!NameSteps /\ job[j].pc # "idle"
      /\ C!invalidate(C!Current(j)) /\ UNCHANGED <<now, row, tls>>
  BY DEF C!Invalidate, C!PurgeMagic, C!NameSteps
<1>3. job[j].item \in C!CertRow /\ C!Current(j) = NameOf(job[j])
  BY <1>2, CertJobs
<1>4. ASSUME NEW q, Sound(q), job' = [job EXCEPT ![j] = q], magic' \in [C!Names -> Nat]
      PROVE  C!CertInv'
  <2>1. JobTo(j, q)
    BY <1>4, JobsWritten DEF Sound
  <2> QED
    BY <1>2, <1>3, <1>4, <2>1, InvalidatedInv
<1>5. CASE C!Invalidate(j)
  <2> DEFINE on == [job[j] EXCEPT !.pc = "store", !.i = @ + 1]
             over == [job[j] EXCEPT !.pc = "finish"]
  <2>1. magic' \in [C!Names -> Nat]
    BY <1>1, <1>5 DEF C!Invalidate
  <2>2. CASE job[j].i < Len(C!Names1(j))
    <3>1. Sound(on)
      BY <1>2, <1>3, <2>2, JobStates DEF C!Names1, C!NameSteps
    <3>2. job' = [job EXCEPT ![j] = on]
      BY <1>1, <1>5, <2>2 DEF C!Invalidate
    <3> HIDE DEF on
    <3> QED
      BY <1>4, <2>1, <3>1, <3>2
  <2>3. CASE ~(job[j].i < Len(C!Names1(j)))
    <3>1. Sound(over)
      BY <1>2, <1>3, JobStates DEF C!RowSteps
    <3>2. job' = [job EXCEPT ![j] = over]
      BY <1>5, <2>3 DEF C!Invalidate
    <3> HIDE DEF over
    <3> QED
      BY <1>4, <2>1, <3>1, <3>2
  <2> QED
    BY <2>2, <2>3
<1>6. CASE C!PurgeMagic(j, ok)
  <2> DEFINE on == [job[j] EXCEPT !.pc = "purge", !.i = @ + 1]
  <2>1. magic' \in [C!Names -> Nat]
    BY <1>1, <1>6 DEF C!PurgeMagic
  <2>2. CASE job[j].i < Len(C!Names1(j))
    <3>1. Sound(on)
      BY <1>2, <1>3, <2>2, JobStates DEF C!Names1, C!NameSteps
    <3>2. job' = [job EXCEPT ![j] = on]
      BY <1>1, <1>6, <2>2 DEF C!PurgeMagic
    <3> HIDE DEF on
    <3> QED
      BY <1>4, <2>1, <3>1, <3>2
  <2>3. CASE ~(job[j].i < Len(C!Names1(j)))
    <3>1. Sound(C!IdleJob)
      BY <1>3, JobStarts
    <3>2. job' = [job EXCEPT ![j] = C!IdleJob]
      BY <1>6, <2>3 DEF C!PurgeMagic
    <3> QED
      BY <1>4, <2>1, <3>1, <3>2
  <2> QED
    BY <2>2, <2>3
<1> QED
  BY <1>5, <1>6

\* A job saves the row, or what it found out about it, and ends.
LEMMA SaveStepsInv ==
    ASSUME C!CertAssumption, C!CertInv, NEW j \in Jobs, NEW saved \in BOOLEAN,
           C!SyncFinish(j, saved) \/ C!SyncFail(j, saved) \/ C!recordRetryState(j, saved)
    PROVE  C!CertInv'
<1>1. /\ now \in Nat /\ row \in C!CertRow \union {None} /\ magic \in [C!Names -> Nat]
      /\ tls \in [C!Names -> Nat]
  BY DEF C!CertInv, C!CertStateOK
<1>2. /\ job[j].pc \in {"finish", "fail", "retry"} /\ job[j].pc # "idle" /\ ~Announces(job[j])
      /\ UNCHANGED <<now, magic, tls, hits, misses, flight>>
  BY DEF C!SyncFinish, C!SyncFail, C!recordRetryState, C!cache, Announces
<1>3. job[j].item \in C!CertRow
  BY <1>2, CertJobs
<1>4. ASSUME NEW q, Sound(q), row' \in C!CertRow \union {None},
             \/ job' = [job EXCEPT ![j] = q]
             \/ job' = [C!Outdate(j) EXCEPT ![j] = q]
      PROVE  C!CertInv'
  <2>1. JobTo(j, q)
    BY <1>4, JobsWritten DEF Sound
  <2> QED
    BY <1>1, <1>2, <1>4, <2>1, QuietInv
<1>5. ASSUME NEW x \in C!CertRow PROVE Sound([job[j] EXCEPT !.item = x, !.pc = "retry"])
  BY <1>2, JobStates DEF C!RowSteps
<1>6. CASE C!SyncFinish(j, saved)
  <2> DEFINE exp == IF job[j].import THEN job[j].item.exp
                    ELSE C!lookupStoredCertificateExpiry(job[j].item)
             item == IF exp = 0 THEN [job[j].item EXCEPT !.status = "failed"]
                     ELSE [job[j].item EXCEPT !.exp = exp,
                                              !.status = C!derivedCertificateStatus(exp)]
             q == IF job[j].import THEN C!IdleJob
                  ELSE [job[j] EXCEPT !.item = item, !.pc = "retry"]
  <2>1. exp \in Nat
    <3>1. job[j].item.exp \in Nat
      BY <1>3 DEF C!CertRow
    <3> DEFINE l == job[j].item.names
    <3>2. l \in Seq(C!Names) /\ Len(l) > 0
      BY <1>3 DEF C!CertRow, C!CertAssumption
    <3>3. l[1] \in C!Names
      BY <3>2
    <3>4. C!lookupStoredCertificateExpiry(job[j].item) \in Nat
      BY <1>1, <3>3 DEF C!lookupStoredCertificateExpiry
    <3> QED
      BY <3>1, <3>4
  <2>2. /\ row' = IF saved THEN item ELSE row
        /\ job' = [IF saved THEN C!Outdate(j) ELSE job EXCEPT ![j] = q]
    BY <1>6 DEF C!SyncFinish, C!Update
  <2> HIDE DEF exp
  <2>3. item \in C!CertRow
    BY <1>1, <1>3, <2>1, CertRows
  <2> HIDE DEF item
  <2>4. Sound(q)
    BY <1>5, <1>3, <2>3, JobStarts
  <2>5. row' \in C!CertRow \union {None}
    BY <1>1, <2>2, <2>3
  <2> HIDE DEF q
  <2> QED
    BY <1>4, <2>2, <2>4, <2>5
<1>7. CASE C!SyncFail(j, saved)
  <2> DEFINE item == [job[j].item EXCEPT !.status = "failed"]
             q == [job[j] EXCEPT !.item = item, !.pc = "retry"]
  <2>1. item \in C!CertRow
    BY <1>1, <1>3, CertRows
  <2>2. row' = IF saved THEN item ELSE row
    BY <1>7 DEF C!SyncFail, C!Update
  <2>3. job' = [IF saved THEN C!Outdate(j) ELSE job EXCEPT ![j].item = item, ![j].pc = "retry"]
    BY <1>7 DEF C!SyncFail
  <2> HIDE DEF item
  <2>4. job' = [IF saved THEN C!Outdate(j) ELSE job EXCEPT ![j] = q]
    <3> DEFINE old == IF saved THEN C!Outdate(j) ELSE job
    <3>1. old \in [Jobs -> {old[k] : k \in Jobs}] /\ old[j] = job[j]
      BY DEF C!Outdate, C!CertInv, C!CertStateOK
    <3>2. job' = [old EXCEPT ![j].item = item, ![j].pc = "retry"]
      BY <2>3
    <3> HIDE DEF old
    <3>3. job' = [old EXCEPT ![j] = q]
      BY <3>1, <3>2
    <3> QED
      BY <3>3 DEF old
  <2>5. Sound(q)
    BY <1>5, <2>1
  <2>6. row' \in C!CertRow \union {None}
    BY <1>1, <2>1, <2>2
  <2> HIDE DEF q
  <2> QED
    BY <1>4, <2>4, <2>5, <2>6
<1>8. CASE C!recordRetryState(j, saved)
  <2> DEFINE s == C!nextRetryState(job[j].item)
             y == [row EXCEPT !.failures = s.failures, !.next = s.next]
  <2>1. row \in C!CertRow => y \in C!CertRow
    BY <1>1, <1>3, RetryColumns
  <2>2. row' = (IF row = None \/ ~saved THEN row ELSE y) /\ job' = [job EXCEPT ![j] = C!IdleJob]
    BY <1>8 DEF C!recordRetryState
  <2>3. Sound(C!IdleJob)
    BY <1>3, JobStarts
  <2> HIDE DEF y
  <2>4. row' \in C!CertRow \union {None}
    BY <1>1, <2>1, <2>2
  <2> QED
    BY <1>4, <2>2, <2>3, <2>4
<1> QED
  BY <1>6, <1>7, <1>8

\* The requests of the administrator up to the purge.
LEMMA HandlerStepsInv ==
    ASSUME C!CertAssumption, C!CertInv, NEW j \in Jobs,
           \/ \E pc \in {"edit", "delete"} : C!LoadCertificate(j, pc)
           \/ C!ImportPEMCertificate(j)
           \/ \E names \in NameLists, auto \in BOOLEAN, exp \in {0, now + Life} :
                C!UpdateCertificate(j, names, auto, exp)
           \/ C!DeleteCertificate(j) \/ C!Abort(j)
    PROVE  C!CertInv'
<1>0. UNCHANGED <<now, magic, tls, hits, misses, flight>>
  BY DEF C!LoadCertificate, C!ImportPEMCertificate, C!cache, C!UpdateCertificate,
     C!DeleteCertificate, C!Abort
<1>1. /\ now \in Nat /\ row \in C!CertRow \union {None} /\ magic \in [C!Names -> Nat]
      /\ now + Life \in Nat
      /\ UNCHANGED <<now, magic, tls, hits, misses, flight>>
  BY <1>0 DEF C!CertInv, C!CertStateOK, C!CertAssumption
<1>2. ASSUME NEW q, Sound(q), ~Announces(job[j]), row' \in C!CertRow \union {None},
             \/ job' = [job EXCEPT ![j] = q]
             \/ job' = [C!Outdate(j) EXCEPT ![j] = q]
      PROVE  C!CertInv'
  <2>1. JobTo(j, q)
    BY <1>2, JobsWritten DEF Sound
  <2> QED
    BY <1>1, <1>2, <2>1, QuietInv
<1>3. ~Announces(C!IdleJob)
  BY DEF Announces, C!IdleJob
<1>4. ASSUME NEW pc \in {"edit", "delete"}, C!LoadCertificate(j, pc) PROVE C!CertInv'
  <2> DEFINE q == [C!IdleJob EXCEPT !.pc = pc, !.item = row, !.i = 1]
  <2>1. row \in C!CertRow /\ row' = row /\ job' = [job EXCEPT ![j] = q] /\ job[j] = C!IdleJob
    BY <1>1, <1>4 DEF C!LoadCertificate
  <2>2. Sound(q)
    BY <2>1, JobStarts
  <2> HIDE DEF q
  <2> QED
    BY <1>2, <1>3, <2>1, <2>2
<1>5. CASE C!ImportPEMCertificate(j)
  <2> DEFINE x == [row EXCEPT !.exp = now + Life]
             q == [C!IdleJob EXCEPT !.pc = "store", !.i = 1, !.import = TRUE, !.item = x]
  <2>1. row \in C!CertRow /\ row' = row /\ job' = [job EXCEPT ![j] = q] /\ job[j] = C!IdleJob
    BY <1>1, <1>5 DEF C!ImportPEMCertificate
  <2>2. x \in C!CertRow
    BY <1>1, <2>1, CertRows
  <2> HIDE DEF x
  <2>3. Sound(q)
    BY <2>2, JobStarts
  <2> HIDE DEF q
  <2> QED
    BY <1>2, <1>3, <2>1, <2>3
<1>6. ASSUME NEW names \in NameLists, NEW auto \in BOOLEAN, NEW exp \in {0, now + Life},
             C!UpdateCertificate(j, names, auto, exp)
      PROVE  C!CertInv'
  <2>1. job[j].pc = "edit" /\ ~Announces(job[j]) /\ job[j].pc # "idle"
    BY <1>6 DEF C!UpdateCertificate, Announces
  <2>2. job[j].item \in C!CertRow /\ exp \in Nat
    BY <1>1, <2>1, CertJobs
  <2>3. row' \in C!CertRow
    BY <1>1, <1>6, <2>2, CertRows DEF C!UpdateCertificate
  <2>4. Sound(C!IdleJob) /\ job' = [C!Outdate(j) EXCEPT ![j] = C!IdleJob]
    BY <1>6, <2>2, JobStarts DEF C!UpdateCertificate
  <2> QED
    BY <1>2, <2>1, <2>3, <2>4
<1>7. CASE C!DeleteCertificate(j)
  <2> DEFINE q == [job[j] EXCEPT !.pc = "purge"]
  <2>1. /\ job[j].pc = "delete" /\ job[j].pc # "idle" /\ ~Announces(job[j]) /\ row' = None
        /\ job[j].pc \in C!NameSteps /\ "purge" \in C!NameSteps
    BY <1>7 DEF C!DeleteCertificate, Announces, C!NameSteps
  <2>2. job[j].item \in C!CertRow
    BY <2>1, CertJobs
  <2>3. Sound(q)
    BY <2>1, <2>2, JobStates
  <2>4. job' = [C!Outdate(j) EXCEPT ![j] = q]
    <3>1. C!Outdate(j)[j] = job[j]
      BY DEF C!Outdate
    <3>2. job' = [C!Outdate(j) EXCEPT ![j].pc = "purge"]
      BY <1>7 DEF C!DeleteCertificate
    <3> QED
      BY <3>1, <3>2
  <2> HIDE DEF q
  <2> QED
    BY <1>2, <2>1, <2>3, <2>4
<1>8. CASE C!Abort(j)
  <2>1. /\ job[j].pc # "idle" /\ ~Announces(job[j]) /\ row' = row
        /\ job' = [job EXCEPT ![j] = C!IdleJob]
    BY <1>8 DEF C!Abort, Announces
  <2>2. job[j].item \in C!CertRow
    BY <2>1, CertJobs
  <2>3. Sound(C!IdleJob)
    BY <2>2, JobStarts
  <2> QED
    BY <1>1, <1>2, <2>1, <2>3
<1> QED
  BY <1>4, <1>5, <1>6, <1>7, <1>8

\* A new row, and the clock.
LEMMA CreateInv ==
    ASSUME C!CertAssumption, C!CertInv,
           \/ \E names \in NameLists, auto \in BOOLEAN, exp \in {0, now + Life} :
                C!CreateCertificate(names, auto, exp)
           \/ \E names \in NameLists : C!autoIssueCertificateForDomain(names)
           \/ C!Tick \/ UNCHANGED C!certVars
    PROVE  C!CertInv'
<1>1. /\ now \in Nat /\ row \in C!CertRow \union {None} /\ magic \in [C!Names -> Nat]
      /\ Life \in Nat
      /\ job \in [Jobs -> C!CertJob \union {C!IdleJob}] /\ \A k \in Jobs : C!OnAName(k)
  BY DEF C!CertInv, C!CertStateOK, C!CertAssumption
<1>2. \A names \in NameLists, auto \in BOOLEAN, exp \in Nat :
        C!NewRow(names, auto, exp) \in C!CertRow
  BY DEF C!NewRow, C!CertRow
<1> DEFINE Steps == /\ UNCHANGED <<magic, tls, hits, misses, flight, job>> /\ now' \in Nat
                    /\ row' \in C!CertRow \union {None}
<1>3. ASSUME NEW names \in NameLists, NEW auto \in BOOLEAN, NEW exp \in Nat,
             C!CreateCertificate(names, auto, exp)
      PROVE  Steps
  BY <1>1, <1>2, <1>3 DEF C!CreateCertificate, C!cache
<1>4. ASSUME \E names \in NameLists, auto \in BOOLEAN, exp \in {0, now + Life} :
                C!CreateCertificate(names, auto, exp)
      PROVE  Steps
  BY <1>1, <1>3, <1>4
<1>5. ASSUME \E names \in NameLists : C!autoIssueCertificateForDomain(names) PROVE Steps
  BY <1>3, <1>5 DEF C!autoIssueCertificateForDomain
<1>6. ASSUME C!Tick \/ UNCHANGED C!certVars PROVE Steps
  BY <1>1, <1>6 DEF C!Tick, C!certVars, C!cache
<1>7. Steps
  BY <1>4, <1>5, <1>6
<1>8. /\ \A n : C!Settling(n) => C!Settling(n)'
      /\ \A k \in Jobs : C!OnAName(k)'
  BY <1>1, <1>7 DEF C!Settling, C!Current, C!Names1, C!OnAName
<1> QED
  BY <1>1, <1>7, <1>8, StillInv

\* The initial state satisfies the invariant.
LEMMA CertInit == ASSUME C!CertAssumption, C!Init PROVE C!CertInv
<1>1. C!CertStateOK
  BY DEF C!Init, C!CertStateOK
<1>2. \A j \in Jobs : C!OnAName(j)
  BY DEF C!Init, C!OnAName, C!IdleJob, C!NameSteps
<1>3. \A f \in Flights : C!LoadCurrent(f)
  BY DEF C!Init, C!LoadCurrent, C!NoFlight
<1>4. C!CachedCurrent
  BY DEF C!Init, C!CachedCurrent
<1> QED
  BY <1>1, <1>2, <1>3, <1>4 DEF C!CertInv

\* Every step preserves the invariant.
LEMMA CertNext == ASSUME C!CertAssumption, C!CertInv, [C!Next]_C!certVars PROVE C!CertInv'
<1>0. C!Handlers \subseteq Jobs /\ "worker" \in Jobs
  BY DEF C!Handlers, C!CertAssumption
<1>1. CASE C!runOnce
  BY <1>0, <1>1, SyncStepsInv
<1>2. CASE C!Tick \/ UNCHANGED C!certVars
  BY <1>2, CreateInv
<1>3. ASSUME NEW names \in NameLists,
             \/ \E auto \in BOOLEAN, exp \in {0, now + Life} :
                  C!CreateCertificate(names, auto, exp)
             \/ C!autoIssueCertificateForDomain(names)
      PROVE  C!CertInv'
  BY <1>3, CreateInv
<1>4. ASSUME NEW j \in Jobs,
             \/ \E ok \in BOOLEAN : C!configForCertificate(j, ok)
             \/ C!ManageSync(j) \/ C!ManageSyncFails(j) \/ C!StoreFails(j)
      PROVE  C!CertInv'
  BY <1>4, SyncStepsInv
<1>5. ASSUME NEW j \in Jobs, C!StorePEM(j) PROVE C!CertInv'
  BY <1>5, StoreStepsInv
<1>6. ASSUME NEW j \in Jobs, C!Invalidate(j) PROVE C!CertInv'
  BY <1>6, AnnounceStepsInv
<1>7. ASSUME NEW j \in Jobs,
             \/ \E saved \in BOOLEAN :
                  C!SyncFinish(j, saved) \/ C!SyncFail(j, saved) \/ C!recordRetryState(j, saved)
      PROVE  C!CertInv'
  BY <1>7, SaveStepsInv
<1>8. ASSUME NEW j \in C!Handlers,
             \/ \E forget \in BOOLEAN : C!SyncCertificateStatus(j, forget)
      PROVE  C!CertInv'
  BY <1>0, <1>8, SyncStepsInv
<1>9. ASSUME NEW j \in C!Handlers,
             \/ \E pc \in {"edit", "delete"} : C!LoadCertificate(j, pc)
             \/ C!ImportPEMCertificate(j)
             \/ \E names \in NameLists, auto \in BOOLEAN, exp \in {0, now + Life} :
                  C!UpdateCertificate(j, names, auto, exp)
             \/ C!DeleteCertificate(j) \/ C!Abort(j)
      PROVE  C!CertInv'
  BY <1>0, <1>9, HandlerStepsInv
<1>10. ASSUME NEW j \in C!Handlers, NEW ok \in BOOLEAN, C!PurgeStored(j, ok) PROVE C!CertInv'
  BY <1>0, <1>10, StoreStepsInv
<1>11. ASSUME NEW j \in C!Handlers, NEW ok \in BOOLEAN, C!PurgeMagic(j, ok) PROVE C!CertInv'
  BY <1>0, <1>11, AnnounceStepsInv
<1>12. ASSUME NEW f \in Flights,
              \/ \E n \in Asked : C!Get(f, n)
              \/ C!RefreshLoad(f) \/ C!RefreshStore(f) \/ C!RefreshFails(f)
       PROVE  C!CertInv'
  BY <1>12, CacheInv
<1> QED
  BY <1>1, <1>2, <1>3, <1>4, <1>5, <1>6, <1>7, <1>8, <1>9, <1>10, <1>11, <1>12 DEF C!Next

\* A handshake is answered with the certificate that is stored, for any names,
\* jobs and loads of the cache: what a load read before a change was announced
\* is not kept (certificateCache.refresh and invalidate).
THEOREM CacheSound == C!Spec => []CachedCurrent
<1> USE ProxyAssumption
<1>1. C!Init => C!CertInv
  BY CertInit
<1>2. C!CertInv /\ [C!Next]_C!certVars => C!CertInv'
  BY CertNext
<1>3. C!CertInv => CachedCurrent
  BY DEF C!CertInv, CachedCurrent
<1> QED
  BY <1>1, <1>2, <1>3, PTL DEF C!Spec

-----------------------------------------------------------------------------
(* CertWorker: no certificate is forgotten, nothing is left of a deleted one. *)

\* What KeptInv says of one job, for a job about to be in state q.
Begins(q) ==
    /\ q.pc = "delete" => q.i = 1
    /\ q.import => q.pc \in {"store", "invalidate", "finish"} /\ q.item.exp \in 1..(now + Life)
Waits(x) == x.next # None => x.next <= now + MaxDelay
Purges(q) == q.pc \in {"purge", "forget"}
Syncs1(q) == q.pc \in C!Syncs /\ ~q.import
Left(q) == IF Purges(q)
           THEN {q.item.names[k] : k \in (IF q.pc = "purge" THEN q.i ELSE q.i + 1)..Len(q.item.names)}
           ELSE {}
Fresh(q) ==
    q.item # None /\ q.fresh /\ ~Purges(q) =>
        /\ row # None /\ row.names = q.item.names
        /\ ~q.import /\ q.pc # "retry" => row.exp = q.item.exp
        /\ q.import => /\ row.exp <= q.item.exp
                       /\ q.pc \in {"invalidate", "finish"} \/ q.i > 1 =>
                            tls[q.item.names[1]] = q.item.exp

\* The invariant in these terms.
LEMMA KeptTerms ==
    /\ C!JobsBegin <=> \A j \in Jobs : Begins(job[j])
    /\ C!DueInTime <=> /\ row # None => Waits(row)
                       /\ \A j \in Jobs : job[j].item # None => Waits(job[j].item)
    /\ \A j : /\ C!Purging(j) <=> Purges(job[j])
              /\ C!Syncing(j) <=> Syncs1(job[j])
              /\ C!ToPurge(j) = Left(job[j])
              /\ C!FreshHolds(j) <=> Fresh(job[j])
<1>1. C!JobsBegin <=> \A j \in Jobs : Begins(job[j])
  BY DEF C!JobsBegin, Begins
<1>2. C!DueInTime <=> /\ row # None => Waits(row)
                      /\ \A j \in Jobs : job[j].item # None => Waits(job[j].item)
  BY DEF C!DueInTime, Waits
<1>3. ASSUME NEW j
      PROVE  /\ C!Purging(j) <=> Purges(job[j])
             /\ C!Syncing(j) <=> Syncs1(job[j])
             /\ C!ToPurge(j) = Left(job[j])
             /\ C!FreshHolds(j) <=> Fresh(job[j])
  BY DEF C!Purging, Purges, C!Syncing, Syncs1, C!ToPurge, Left, C!FreshHolds, Fresh, C!Names1,
     C!Imported
<1> QED
  BY <1>1, <1>2, <1>3

\* A job moves while the row, what is stored and the clock stay.
LEMMA MovedKept ==
    ASSUME C!CertInv, C!KeptInv, NEW j \in Jobs, NEW q, job' = [job EXCEPT ![j] = q],
           UNCHANGED <<row, tls, now, leftover>>, drift => drift',
           ~drift' => \A n \in C!Names : magic'[n] <= now + Life,
           Begins(q), q.item # None => Waits(q.item),
           ~drift' => Fresh(q),
           Purges(q) => Purges(job[j]),
           ~drift' /\ C!Overstated /\ Syncs1(job[j]) => Syncs1(q),
           Left(job[j]) \subseteq Left(q)
    PROVE  C!KeptInv'
<1>1. \A k \in Jobs : job'[k] = IF k = j THEN q ELSE job[k]
  BY DEF C!CertInv, C!CertStateOK
<1>2. C!JobsBegin'
  BY <1>1, KeptTerms DEF C!KeptInv, C!JobsBegin, Begins
<1>3. C!DueInTime'
  BY <1>1 DEF C!KeptInv, C!DueInTime, Waits
<1>4. ASSUME ~drift' PROVE C!Undrifted'
  <2>0. ~drift /\ C!Undrifted
    BY <1>4 DEF C!KeptInv
  <2>1. C!LastsNoLonger'
    BY <1>4, <2>0 DEF C!Undrifted, C!LastsNoLonger
  <2>2. ASSUME NEW k \in Jobs PROVE C!FreshHolds(k)'
    <3>1. CASE k = j
      BY <1>1, <1>4, <3>1 DEF C!FreshHolds, Fresh, C!Purging, Purges, C!Names1, C!Imported
    <3>2. CASE k # j
      BY <1>1, <2>0, <3>2 DEF C!Undrifted, C!FreshHolds, C!Purging, C!Names1, C!Imported
    <3> QED
      BY <3>1, <3>2
  <2>3. row # None => \A k \in Jobs : ~C!Purging(k)'
    BY <1>1, <2>0 DEF C!Undrifted, C!Purging, Purges
  <2>4. C!Overstated' => \E k \in Jobs : C!Syncing(k)'
    BY <1>1, <1>4, <2>0 DEF C!Undrifted, C!Overstated, C!Syncing, Syncs1
  <2>5. C!StoredWanted'
    <3>1. \A k \in Jobs : C!ToPurge(k) \subseteq C!ToPurge(k)'
      <4> SUFFICES ASSUME NEW k \in Jobs PROVE C!ToPurge(k) \subseteq C!ToPurge(k)'
        OBVIOUS
      <4>1. C!ToPurge(k) = Left(job[k]) /\ C!ToPurge(k)' = Left(job'[k])
        BY DEF C!ToPurge, Left, C!Purging, Purges, C!Names1
      <4> QED
        BY <1>1, <4>1
    <3> QED
      BY <2>0, <3>1 DEF C!Undrifted, C!StoredWanted
  <2> QED
    BY <2>1, <2>2, <2>3, <2>4, <2>5 DEF C!Undrifted
<1> QED
  BY <1>2, <1>3, <1>4 DEF C!KeptInv

\* What is known of a job and of the row.
LEMMA KeptFacts ==
    ASSUME C!CertAssumption, C!CertInv, C!KeptInv, NEW j \in Jobs
    PROVE  /\ Begins(job[j])
           /\ row # None => Waits(row)
           /\ job[j].item # None => Waits(job[j].item)
           /\ ~drift => /\ Fresh(job[j])
                        /\ C!LastsNoLonger
                        /\ row # None => ~Purges(job[j])
           /\ job[j].pc # "idle" => job[j].item \in C!CertRow /\ job[j].item # None
           /\ row # None => row \in C!CertRow
<1>1. None \notin C!CertRow
  BY DEF C!CertAssumption
<1>2. row # None => row \in C!CertRow
  BY DEF C!CertInv, C!CertStateOK
<1>3. job[j].pc # "idle" => job[j].item \in C!CertRow
  BY CertJobs
<1> QED
  BY <1>1, <1>2, <1>3, KeptTerms DEF C!KeptInv, C!Undrifted

\* A job starts on the row as it is.
LEMMA StartsKept ==
    ASSUME C!CertAssumption, C!CertInv, C!KeptInv, NEW j \in Jobs,
           \/ C!runOnce
           \/ \E forget \in BOOLEAN : C!SyncCertificateStatus(j, forget)
           \/ \E pc \in {"edit", "delete"} : C!LoadCertificate(j, pc)
           \/ C!ImportPEMCertificate(j)
    PROVE  C!KeptInv'
<1>0. /\ UNCHANGED <<row, tls, now, magic, drift, leftover>> /\ row # None /\ "worker" \in Jobs
      /\ now \in Nat /\ Life \in Nat \ {0}
  BY DEF C!runOnce, C!SyncCertificateStatus, C!LoadCertificate, C!ImportPEMCertificate,
     C!ListPending, C!ListExpiringBefore, C!CertAssumption, C!CertInv, C!CertStateOK
<1>1. /\ row \in C!CertRow /\ Waits(row) /\ (~drift => C!LastsNoLonger)
      /\ ~drift => \A n \in C!Names : magic'[n] <= now + Life
  BY <1>0, KeptFacts DEF C!LastsNoLonger
<1>2. ASSUME NEW k \in Jobs, NEW q, job' = [job EXCEPT ![k] = q], job[k].pc = "idle",
             q.pc \in {"config", "edit", "delete", "store"}, q.i \in {0, 1},
             q.import <=> q.pc = "store", q.pc = "delete" => q.i = 1,
             q.item.names = row.names, q.item.next = row.next,
             q.item.exp = IF q.import THEN now + Life ELSE row.exp
      PROVE  C!KeptInv'
  <2>1. Begins(q) /\ Waits(q.item)
    BY <1>0, <1>1, <1>2 DEF Begins, Waits
  <2>2. ~drift' => Fresh(q)
    BY <1>0, <1>1, <1>2 DEF Fresh, C!LastsNoLonger
  <2>3. ~Purges(q) /\ ~Syncs1(job[k]) /\ Left(job[k]) = {}
    BY <1>2 DEF Purges, Syncs1, Left, C!Syncs
  <2> QED
    BY <1>0, <1>1, <1>2, <2>1, <2>2, <2>3, MovedKept
<1>3. CASE C!runOnce
  <2> DEFINE q == [C!IdleJob EXCEPT !.pc = "config", !.item = row]
  <2>1. job' = [job EXCEPT !["worker"] = q] /\ job["worker"].pc = "idle"
    BY <1>3 DEF C!runOnce, C!Start
  <2>2. q.pc = "config" /\ q.item = row /\ q.i = 0 /\ q.import = FALSE
    BY DEF C!IdleJob
  <2> HIDE DEF q
  <2> QED
    BY <1>0, <1>2, <2>1, <2>2
<1>4. ASSUME NEW forget \in BOOLEAN, C!SyncCertificateStatus(j, forget) PROVE C!KeptInv'
  <2> DEFINE x == IF forget THEN [row EXCEPT !.failures = 0] ELSE row
             q == [C!IdleJob EXCEPT !.pc = "config", !.item = x]
  <2>1. job' = [job EXCEPT ![j] = q] /\ job[j].pc = "idle"
    BY <1>4 DEF C!SyncCertificateStatus, C!Start
  <2>2. x.names = row.names /\ x.next = row.next /\ x.exp = row.exp
    BY <1>1 DEF C!CertRow
  <2> HIDE DEF x
  <2>3. q.pc = "config" /\ q.item = x /\ q.i = 0 /\ q.import = FALSE
    BY DEF C!IdleJob
  <2> HIDE DEF q
  <2> QED
    BY <1>0, <1>2, <2>1, <2>2, <2>3
<1>5. ASSUME NEW pc \in {"edit", "delete"}, C!LoadCertificate(j, pc) PROVE C!KeptInv'
  <2> DEFINE q == [C!IdleJob EXCEPT !.pc = pc, !.item = row, !.i = 1]
  <2>1. job' = [job EXCEPT ![j] = q] /\ job[j].pc = "idle"
    BY <1>5 DEF C!LoadCertificate, C!IdleJob
  <2>2. q.pc = pc /\ q.item = row /\ q.i = 1 /\ q.import = FALSE
    BY DEF C!IdleJob
  <2> HIDE DEF q
  <2> QED
    BY <1>0, <1>2, <2>1, <2>2
<1>6. CASE C!ImportPEMCertificate(j)
  <2> DEFINE e == now + Life
             x == [row EXCEPT !.exp = e]
             q == [C!IdleJob EXCEPT !.pc = "store", !.i = 1, !.import = TRUE, !.item = x]
  <2>1. job' = [job EXCEPT ![j] = q] /\ job[j].pc = "idle"
    BY <1>6 DEF C!ImportPEMCertificate, C!IdleJob
  <2> HIDE DEF e
  <2>2. x.names = row.names /\ x.next = row.next /\ x.exp = e
    BY <1>1 DEF C!CertRow
  <2> HIDE DEF x
  <2>3. q.pc = "store" /\ q.item = x /\ q.i = 1 /\ q.import = TRUE
    BY DEF C!IdleJob
  <2> HIDE DEF q
  <2> QED
    BY <1>0, <1>2, <2>1, <2>2, <2>3 DEF e
<1> QED
  BY <1>3, <1>4, <1>5, <1>6

\* A job goes on without touching the row or what is stored.
LEMMA GoesOnKept ==
    ASSUME C!CertAssumption, C!CertInv, C!KeptInv, NEW j \in Jobs,
           \/ \E ok \in BOOLEAN : C!configForCertificate(j, ok)
           \/ C!ManageSync(j) \/ C!ManageSyncFails(j) \/ C!StoreFails(j) \/ C!Abort(j)
           \/ C!Invalidate(j)
    PROVE  C!KeptInv'
<1>a. drift => drift'
  BY Zenon DEF C!configForCertificate, C!ManageSync, C!ManageSyncFails, C!StoreFails, C!Invalidate,
     C!Abort
<1>0. /\ UNCHANGED <<row, tls, now, leftover>> /\ (drift => drift') /\ now \in Nat /\ Life \in Nat
      /\ job[j].pc # "idle" /\ job[j].pc # "retry" /\ ~Purges(job[j])
  BY <1>a DEF C!configForCertificate, C!ManageSync, C!ManageSyncFails, C!StoreFails, C!Invalidate,
     C!Abort, C!CertAssumption, C!CertInv, C!CertStateOK, Purges
<1>1. /\ job[j] \in C!CertJob /\ Begins(job[j]) /\ Waits(job[j].item) /\ (~drift => Fresh(job[j]))
      /\ ~drift => C!LastsNoLonger
      /\ job[j].item \in C!CertRow /\ None \notin C!CertRow
  BY <1>0, CertJobs, KeptFacts DEF C!CertAssumption
<1>2. ~drift' => \A n \in C!Names : magic'[n] <= now + Life
  <2>1. ~drift => \A n \in C!Names : magic[n] <= now + Life
    BY <1>1 DEF C!LastsNoLonger
  <2>2. CASE C!ManageSync(j)
    BY <1>0, <2>1, <2>2 DEF C!ManageSync
  <2>3. CASE UNCHANGED magic
    BY <1>0, <2>1, <2>3
  <2> QED
    BY <2>2, <2>3 DEF C!configForCertificate, C!ManageSyncFails, C!StoreFails, C!Invalidate, C!Abort
<1>3. ASSUME NEW q, job' = [job EXCEPT ![j] = q], q.item = job[j].item, q.fresh = job[j].fresh,
             q.import = job[j].import, q.pc \in C!Syncs \ {"retry"}, q.i \in Nat,
             job[j].import => q.pc \in {"store", "finish"} /\ job[j].pc = "invalidate"
      PROVE  C!KeptInv'
  <2>1. Begins(q) /\ Waits(q.item)
    BY <1>1, <1>3 DEF Begins, C!Syncs
  <2>2. ~drift' => Fresh(q)
    BY <1>0, <1>1, <1>3 DEF Fresh, Purges, C!Syncs
  <2>3. ~Purges(q) /\ (Syncs1(job[j]) => Syncs1(q)) /\ Left(job[j]) = {}
    BY <1>0, <1>3 DEF Purges, Syncs1, Left, C!Syncs
  <2> QED
    BY <1>0, <1>2, <1>3, <2>1, <2>2, <2>3, MovedKept
<1>4. ASSUME job' = [job EXCEPT ![j] = C!IdleJob], ~Syncs1(job[j])
      PROVE  C!KeptInv'
  <2>1. Begins(C!IdleJob) /\ C!IdleJob.item = None /\ Fresh(C!IdleJob) /\ ~Purges(C!IdleJob)
        /\ Left(job[j]) = {}
    BY <1>0 DEF Begins, C!IdleJob, Fresh, Purges, Left
  <2> QED
    BY <1>0, <1>2, <1>4, <2>1, MovedKept
<1>5. ASSUME NEW p \in C!Syncs \ {"retry"}, C!Goto(j, p), ~job[j].import PROVE C!KeptInv'
  <2> DEFINE q == [job[j] EXCEPT !.pc = p]
  <2>1. job' = [job EXCEPT ![j] = q]
    BY <1>5 DEF C!Goto
  <2>2. q.item = job[j].item /\ q.fresh = job[j].fresh /\ q.import = job[j].import /\ q.pc = p
        /\ q.i = job[j].i /\ job[j].i \in Nat
    BY <1>1 DEF C!CertJob
  <2> HIDE DEF q
  <2> QED
    BY <1>3, <1>5, <2>1, <2>2
<1>6. ASSUME NEW ok \in BOOLEAN, C!configForCertificate(j, ok) PROVE C!KeptInv'
  <2>1. ~job[j].import
    BY <1>1, <1>6 DEF C!configForCertificate, Begins
  <2> QED
    BY <1>5, <1>6, <2>1 DEF C!configForCertificate, C!Syncs
<1>7. CASE C!ManageSyncFails(j)
  <2>1. ~job[j].import
    BY <1>1, <1>7 DEF C!ManageSyncFails, Begins
  <2> QED
    BY <1>5, <1>7, <2>1 DEF C!ManageSyncFails, C!Syncs
<1>8. CASE C!ManageSync(j)
  <2> DEFINE q == [job[j] EXCEPT !.pc = "store", !.i = 1]
  <2>0. ~job[j].import
    BY <1>1, <1>8 DEF C!ManageSync, Begins
  <2>1. job' = [job EXCEPT ![j] = q]
    BY <1>8 DEF C!ManageSync, C!CertInv, C!CertStateOK
  <2>2. q.item = job[j].item /\ q.fresh = job[j].fresh /\ q.import = job[j].import /\ q.pc = "store"
        /\ q.i \in Nat
    BY <1>1 DEF C!CertJob
  <2> HIDE DEF q
  <2>3. q.pc \in C!Syncs \ {"retry"}
    BY <2>2 DEF C!Syncs
  <2> QED
    BY <1>3, <2>0, <2>1, <2>2, <2>3
<1>9. CASE C!StoreFails(j)
  <2>1. CASE job[j].import
    <3>1. job' = [job EXCEPT ![j] = C!IdleJob]
      BY <1>9, <2>1 DEF C!StoreFails
    <3>2. ~Syncs1(job[j])
      BY <2>1 DEF Syncs1
    <3> QED
      BY <1>4, <3>1, <3>2
  <2>2. CASE ~job[j].import
    <3>1. C!Goto(j, "fail")
      BY <1>9, <2>2 DEF C!StoreFails, C!Goto
    <3> QED
      BY <1>5, <2>2, <3>1 DEF C!Syncs
  <2> QED
    BY <2>1, <2>2
<1>10. CASE C!Abort(j)
  BY <1>4, <1>10 DEF C!Abort, Syncs1, C!Syncs
<1>11. CASE C!Invalidate(j)
  <2>0. job[j].pc = "invalidate" /\ job[j].i \in Nat
    BY <1>1, <1>11 DEF C!Invalidate, C!CertJob
  <2>1. CASE job[j].i < Len(C!Names1(j))
    <3> DEFINE e == job[j].i + 1
               q == [job[j] EXCEPT !.pc = "store", !.i = e]
    <3>1. job' = [job EXCEPT ![j] = q]
      BY <1>11, <2>1 DEF C!Invalidate, C!CertInv, C!CertStateOK
    <3>2. e \in Nat
      BY <2>0
    <3> HIDE DEF e
    <3>3. q.item = job[j].item /\ q.fresh = job[j].fresh /\ q.import = job[j].import
          /\ q.pc = "store" /\ q.i = e
      BY <1>1 DEF C!CertJob
    <3> HIDE DEF q
    <3> QED
      BY <1>3, <2>0, <3>1, <3>2, <3>3 DEF C!Syncs
  <2>2. CASE ~(job[j].i < Len(C!Names1(j)))
    <3> DEFINE q == [job[j] EXCEPT !.pc = "finish"]
    <3>1. job' = [job EXCEPT ![j] = q]
      BY <1>11, <2>2 DEF C!Invalidate
    <3>3. q.item = job[j].item /\ q.fresh = job[j].fresh /\ q.import = job[j].import
          /\ q.pc = "finish" /\ q.i = job[j].i
      BY <1>1 DEF C!CertJob
    <3> HIDE DEF q
    <3> QED
      BY <1>3, <2>0, <3>1, <3>3 DEF C!Syncs
  <2> QED
    BY <2>1, <2>2
<1> QED
  BY <1>6, <1>7, <1>8, <1>9, <1>10, <1>11

\* What the row's next write does to the other jobs.
LEMMA Outdated ==
    ASSUME C!CertInv, NEW j \in Jobs, NEW k \in Jobs \ {j}
    PROVE  LET o == C!Outdate(j)[k] IN
           /\ o.pc = job[k].pc /\ o.item = job[k].item /\ o.i = job[k].i
           /\ o.import = job[k].import
           /\ job[k].item # None => o.fresh = FALSE
<1>1. CASE job[k].item = None
  BY <1>1 DEF C!Outdate
<1>2. CASE job[k].item # None
  <2> DEFINE old == [job[k] EXCEPT !.fresh = FALSE]
  <2>1. C!Outdate(j)[k] = old
    BY <1>2 DEF C!Outdate
  <2>2. job[k] \in C!CertJob
    BY <1>2 DEF C!CertInv, C!CertStateOK, C!IdleJob
  <2>3. old.pc = job[k].pc /\ old.item = job[k].item /\ old.i = job[k].i
        /\ old.import = job[k].import /\ old.fresh = FALSE
    BY <2>2 DEF C!CertJob
  <2> HIDE DEF old
  <2> QED
    BY <2>1, <2>3
<1> QED
  BY <1>1, <1>2

\* The name a job works on is one of its row.
LEMMA OnItsName ==
    ASSUME C!CertAssumption, C!CertInv, NEW j \in Jobs, job[j].pc \in C!NameSteps
    PROVE  /\ job[j].item.names \in Seq(C!Names) /\ job[j].i \in 1..Len(job[j].item.names)
           /\ C!Current(j) \in C!Names /\ C!Current(j) = job[j].item.names[job[j].i]
<1>1. job[j].item.names \in Seq(C!Names)
  BY CertJobs DEF C!CertRow, C!CertAssumption, C!NameSteps
<1>2. job[j].i \in 1..Len(job[j].item.names)
  BY DEF C!CertInv, C!OnAName, C!Names1
<1>3. C!Current(j) = job[j].item.names[job[j].i] /\ C!Current(j) \in C!Names
  BY CertJobs DEF C!Current, C!Names1
<1> QED
  BY <1>1, <1>2, <1>3

\* A job writes the row whole, and the items of the others are outdated.
LEMMA WrittenKept ==
    ASSUME C!CertAssumption, C!CertInv, C!KeptInv, NEW j \in Jobs, NEW q, NEW x \in C!CertRow,
           row' = x, job' = [C!Outdate(j) EXCEPT ![j] = q], UNCHANGED <<tls, now, magic, leftover>>,
           ~drift' => ~drift /\ job[j].fresh,
           job[j].pc # "idle", ~Purges(job[j]), ~Purges(q),
           Begins(q), q.item # None => Waits(q.item), Waits(x),
           ~drift' => x.names = job[j].item.names /\ x.exp <= now + Life,
           q.item # None => q.pc = "retry" /\ ~q.import /\ q.item.names = x.names,
           ~drift' /\ tls[x.names[1]] < x.exp =>
               Syncs1(q) \/ \E k \in Jobs \ {j} : Syncs1(job[k])
    PROVE  C!KeptInv'
<1>1. job \in [Jobs -> C!CertJob \union {C!IdleJob}] /\ None \notin C!CertRow
  BY DEF C!CertInv, C!CertStateOK, C!CertAssumption
<1>2. ASSUME NEW k \in Jobs \ {j}
      PROVE  /\ job'[k].pc = job[k].pc /\ job'[k].item = job[k].item /\ job'[k].i = job[k].i
             /\ job'[k].import = job[k].import
             /\ job[k].item # None => job'[k].fresh = FALSE
  <2>1. job'[k] = C!Outdate(j)[k]
    BY DEF C!Outdate
  <2> DEFINE o == C!Outdate(j)[k]
  <2>2. /\ o.pc = job[k].pc /\ o.item = job[k].item /\ o.i = job[k].i /\ o.import = job[k].import
        /\ job[k].item # None => o.fresh = FALSE
    BY Outdated
  <2> QED
    BY <2>1, <2>2
<1>3. job'[j] = q
  BY DEF C!Outdate
<1>4. C!JobsBegin'
  <2>1. ASSUME NEW k \in Jobs PROVE Begins(job[k])
    BY KeptFacts
  <2>2. ASSUME NEW k \in Jobs PROVE Begins(job[k])'
    <3>1. CASE k = j
      BY <1>3, <3>1 DEF Begins
    <3>2. CASE k # j
      <4>1. job'[k].pc = job[k].pc /\ job'[k].item = job[k].item /\ job'[k].i = job[k].i
            /\ job'[k].import = job[k].import
        BY <1>2, <3>2
      <4>2. Begins(job[k])
        BY <2>1
      <4> QED
        BY <4>1, <4>2 DEF Begins
    <3> QED
      BY <3>1, <3>2
  <2> QED
    BY <2>2 DEF C!JobsBegin, Begins
<1>5. C!DueInTime'
  BY <1>2, <1>3 DEF C!KeptInv, C!DueInTime, Waits
<1>6. ASSUME ~drift' PROVE C!Undrifted'
  <2>0. ~drift /\ C!Undrifted /\ job[j].fresh /\ row # None /\ row.names = job[j].item.names
    <3>1. ~drift /\ C!Undrifted /\ job[j].fresh
      BY <1>6 DEF C!KeptInv
    <3> QED
      BY <3>1, KeptFacts DEF Fresh
  <2>1. C!LastsNoLonger'
    BY <1>6, <2>0 DEF C!Undrifted, C!LastsNoLonger
  <2>2. ASSUME NEW k \in Jobs PROVE C!FreshHolds(k)'
    <3>1. CASE k = j
      BY <1>1, <1>3, <3>1 DEF C!FreshHolds, C!Purging, C!Names1, C!Imported
    <3>2. CASE k # j
      BY <1>2, <3>2 DEF C!FreshHolds
    <3> QED
      BY <3>1, <3>2
  <2>3. \A k \in Jobs : ~C!Purging(k)'
    BY <1>2, <1>3, <2>0 DEF C!Undrifted, C!Purging, Purges
  <2>4. C!Overstated' => \E k \in Jobs : C!Syncing(k)'
    BY <1>2, <1>3, <1>6 DEF C!Overstated, C!Syncing, Syncs1
  <2>5. C!StoredWanted'
    <3>1. \A k \in Jobs : C!ToPurge(k) = {}
      BY <2>0 DEF C!Undrifted, C!ToPurge
    <3>2. x.names = row.names /\ row' # None /\ row' = x
      BY <1>1, <1>6, <2>0
    <3>3. ASSUME NEW n \in C!Names \ leftover, tls'[n] # 0 PROVE n \in C!Range(row'.names)
      BY <2>0, <3>1, <3>2, <3>3 DEF C!Undrifted, C!StoredWanted
    <3> QED
      BY <3>2, <3>3 DEF C!StoredWanted
  <2> QED
    BY <2>1, <2>2, <2>3, <2>4, <2>5 DEF C!Undrifted
<1> QED
  BY <1>4, <1>5, <1>6 DEF C!KeptInv

\* The end of a sync or of an import.
LEMMA FinishKept ==
    ASSUME C!CertAssumption, C!CertInv, C!KeptInv, NEW j \in Jobs, NEW saved \in BOOLEAN,
           C!SyncFinish(j, saved)
    PROVE  C!KeptInv'
<1> DEFINE exp == IF job[j].import THEN job[j].item.exp
                  ELSE C!lookupStoredCertificateExpiry(job[j].item)
           item == IF exp = 0 THEN [job[j].item EXCEPT !.status = "failed"]
                   ELSE [job[j].item EXCEPT !.exp = exp,
                                            !.status = C!derivedCertificateStatus(exp)]
           q == IF job[j].import THEN C!IdleJob
                ELSE [job[j] EXCEPT !.item = item, !.pc = "retry"]
<1>0. /\ job[j].pc = "finish" /\ job[j].pc # "idle" /\ ~Purges(job[j])
      /\ UNCHANGED <<now, magic, tls, leftover>> /\ now \in Nat /\ tls \in [C!Names -> Nat]
  BY DEF C!SyncFinish, Purges, C!CertInv, C!CertStateOK
<1>1. /\ job[j] \in C!CertJob /\ job[j].item \in C!CertRow /\ job[j].item # None
      /\ Begins(job[j]) /\ Waits(job[j].item) /\ (~drift => Fresh(job[j]) /\ C!LastsNoLonger)
      /\ None \notin C!CertRow
  BY <1>0, CertJobs, KeptFacts DEF C!CertAssumption
<1>2. exp \in Nat /\ job[j].item.names[1] \in C!Names
  <2>1. job[j].item.exp \in Nat
    BY <1>1 DEF C!CertRow
  <2> DEFINE l == job[j].item.names
  <2>2. l \in Seq(C!Names) /\ Len(l) > 0
    BY <1>1 DEF C!CertRow, C!CertAssumption
  <2>3. l[1] \in C!Names
    BY <2>2
  <2>4. C!lookupStoredCertificateExpiry(job[j].item) \in Nat
    BY <1>0, <2>3 DEF C!lookupStoredCertificateExpiry
  <2> QED
    BY <2>1, <2>3, <2>4
<1>3. /\ row' = IF saved THEN item ELSE row
      /\ job' = [IF saved THEN C!Outdate(j) ELSE job EXCEPT ![j] = q]
  BY DEF C!SyncFinish, C!Update
<1>4. /\ saved => (~drift' => ~drift /\ job[j].fresh)
      /\ ~saved => (drift => drift') /\ (job[j].import => drift')
  BY Zenon DEF C!SyncFinish, C!Update
<1>5. exp = IF job[j].import THEN job[j].item.exp ELSE tls[job[j].item.names[1]]
  BY DEF C!lookupStoredCertificateExpiry
<1> HIDE DEF exp
<1>6. /\ item \in C!CertRow /\ item.names = job[j].item.names /\ item.next = job[j].item.next
      /\ item.exp = IF exp = 0 THEN job[j].item.exp ELSE exp
  <2>1. C!derivedCertificateStatus(exp) \in {"expiring_soon", "issued"}
    BY DEF C!derivedCertificateStatus
  <2> QED
    BY <1>1, <1>2, <2>1 DEF C!CertRow
<1> HIDE DEF item
<1>7. /\ job[j].import => q = C!IdleJob
      /\ ~job[j].import => q.pc = "retry" /\ ~q.import /\ q.item = item /\ q.fresh = job[j].fresh
  BY <1>1 DEF C!CertJob
<1> HIDE DEF q
<1>8. Begins(q) /\ ~Purges(q) /\ Waits(item)
      /\ (q.item # None => q.item = item /\ ~q.import /\ q.pc = "retry")
      /\ (~job[j].import => Syncs1(q)) /\ Left(job[j]) = {}
  BY <1>0, <1>1, <1>6, <1>7 DEF Begins, Purges, C!IdleJob, Waits, Syncs1, C!Syncs, Left
<1>9. CASE ~saved
  <2>1. row' = row /\ job' = [job EXCEPT ![j] = q]
    BY <1>3, <1>9
  <2>2. ~drift' => Fresh(q) /\ \A n \in C!Names : magic'[n] <= now + Life
    BY <1>0, <1>1, <1>4, <1>6, <1>7, <1>8, <1>9 DEF Fresh, Purges, C!LastsNoLonger
  <2>3. ~drift' => Syncs1(q)
    BY <1>4, <1>8, <1>9
  <2> QED
    BY <1>0, <1>4, <1>8, <1>9, <2>1, <2>2, <2>3, MovedKept
<1>10. CASE saved
  <2>1. row' = item /\ job' = [C!Outdate(j) EXCEPT ![j] = q]
    BY <1>3, <1>10
  <2>2. ASSUME ~drift'
        PROVE  item.exp <= now + Life /\ (job[j].import => tls[item.names[1]] = item.exp)
    <3>1. ~drift /\ job[j].fresh /\ Fresh(job[j]) /\ C!LastsNoLonger
      BY <1>1, <1>4, <1>10, <2>2
    <3>2. CASE job[j].import
      <4>1. job[j].item.exp \in 1..(now + Life) /\ tls[job[j].item.names[1]] = job[j].item.exp
        BY <1>0, <1>1, <3>1, <3>2 DEF Fresh, Begins
      <4>2. exp # 0 /\ exp = job[j].item.exp
        BY <1>5, <3>2, <4>1
      <4> QED
        BY <1>6, <4>1, <4>2
    <3>3. CASE ~job[j].import
      BY <1>0, <1>1, <1>2, <1>5, <1>6, <3>1, <3>3 DEF Fresh, C!LastsNoLonger
    <3> QED
      BY <3>2, <3>3
  <2>3. ~drift' /\ tls[item.names[1]] < item.exp => Syncs1(q)
    <3> SUFFICES ASSUME ~drift', tls[item.names[1]] < item.exp PROVE Syncs1(q)
      OBVIOUS
    <3>1. item.exp \in Nat
      BY <1>6 DEF C!CertRow
    <3> QED
      BY <1>8, <2>2, <3>1
  <2> QED
    BY <1>0, <1>4, <1>6, <1>8, <1>10, <2>1, <2>2, <2>3, WrittenKept
<1> QED
  BY <1>9, <1>10

\* A sync that failed.
LEMMA FailKept ==
    ASSUME C!CertAssumption, C!CertInv, C!KeptInv, NEW j \in Jobs, NEW saved \in BOOLEAN,
           C!SyncFail(j, saved)
    PROVE  C!KeptInv'
<1> DEFINE item == [job[j].item EXCEPT !.status = "failed"]
           q == [job[j] EXCEPT !.item = item, !.pc = "retry"]
<1>0. /\ job[j].pc = "fail" /\ job[j].pc # "idle" /\ ~Purges(job[j])
      /\ UNCHANGED <<now, magic, tls, leftover>> /\ now \in Nat
  BY DEF C!SyncFail, Purges, C!CertInv, C!CertStateOK
<1>1. /\ job[j] \in C!CertJob /\ job[j].item \in C!CertRow /\ job[j].item # None
      /\ Begins(job[j]) /\ Waits(job[j].item) /\ (~drift => Fresh(job[j]) /\ C!LastsNoLonger)
      /\ None \notin C!CertRow
  BY <1>0, CertJobs, KeptFacts DEF C!CertAssumption
<1>2. ~job[j].import
  BY <1>0, <1>1 DEF Begins
<1>3. item \in C!CertRow /\ item.names = job[j].item.names /\ item.next = job[j].item.next
      /\ item.exp = job[j].item.exp
  BY <1>1 DEF C!CertRow
<1>4. /\ row' = IF saved THEN item ELSE row
      /\ job' = [IF saved THEN C!Outdate(j) ELSE job EXCEPT ![j].item = item, ![j].pc = "retry"]
  BY DEF C!SyncFail, C!Update
<1>5. /\ saved => (~drift' => ~drift /\ job[j].fresh)
      /\ ~saved => (drift => drift')
  BY Zenon DEF C!SyncFail, C!Update
<1> HIDE DEF item
<1>6. job' = [IF saved THEN C!Outdate(j) ELSE job EXCEPT ![j] = q]
  <2> DEFINE old == IF saved THEN C!Outdate(j) ELSE job
  <2>1. old \in [Jobs -> {old[k] : k \in Jobs}] /\ old[j] = job[j]
    BY DEF C!Outdate, C!CertInv, C!CertStateOK
  <2>2. job' = [old EXCEPT ![j].item = item, ![j].pc = "retry"]
    BY <1>4
  <2> HIDE DEF old
  <2>3. job' = [old EXCEPT ![j] = q]
    BY <2>1, <2>2
  <2> QED
    BY <2>3 DEF old
<1>7. q.pc = "retry" /\ ~q.import /\ q.item = item /\ q.fresh = job[j].fresh
  BY <1>1, <1>2 DEF C!CertJob
<1> HIDE DEF q
<1>8. Begins(q) /\ ~Purges(q) /\ Waits(item) /\ Syncs1(q) /\ Left(job[j]) = {}
  BY <1>0, <1>1, <1>3, <1>7 DEF Begins, Purges, Waits, Syncs1, C!Syncs, Left
<1>9. CASE ~saved
  <2>1. row' = row /\ job' = [job EXCEPT ![j] = q]
    BY <1>4, <1>6, <1>9
  <2>2. ~drift' => Fresh(q) /\ \A n \in C!Names : magic'[n] <= now + Life
    BY <1>0, <1>1, <1>3, <1>5, <1>7, <1>9 DEF Fresh, Purges, C!LastsNoLonger
  <2> QED
    BY <1>0, <1>5, <1>7, <1>8, <1>9, <2>1, <2>2, MovedKept
<1>10. CASE saved
  <2>1. row' = item /\ job' = [C!Outdate(j) EXCEPT ![j] = q]
    BY <1>4, <1>6, <1>10
  <2>2. ~drift' => item.exp <= now + Life
    BY <1>0, <1>1, <1>2, <1>3, <1>5, <1>10 DEF Fresh, Purges, C!LastsNoLonger
  <2> QED
    BY <1>0, <1>3, <1>5, <1>7, <1>8, <1>10, <2>1, <2>2, WrittenKept
<1> QED
  BY <1>9, <1>10

\* An administrator's edit.
LEMMA EditKept ==
    ASSUME C!CertAssumption, C!CertInv, C!KeptInv, NEW j \in Jobs, NEW names \in NameLists,
           NEW auto \in BOOLEAN, NEW exp \in {0, now + Life},
           C!UpdateCertificate(j, names, auto, exp)
    PROVE  C!KeptInv'
<1> DEFINE x == [job[j].item EXCEPT !.names = names, !.auto = auto, !.exp = exp,
                                    !.failures = 0, !.next = None]
<1>0. /\ job[j].pc = "edit" /\ job[j].pc # "idle" /\ ~Purges(job[j])
      /\ UNCHANGED <<now, magic, tls, leftover>> /\ now \in Nat /\ Life \in Nat
      /\ row' = x /\ job' = [C!Outdate(j) EXCEPT ![j] = C!IdleJob]
  BY DEF C!UpdateCertificate, Purges, C!CertInv, C!CertStateOK, C!CertAssumption
<1>1. /\ job[j] \in C!CertJob /\ job[j].item \in C!CertRow /\ job[j].item # None
      /\ Begins(job[j]) /\ (~drift => Fresh(job[j]) /\ C!LastsNoLonger)
      /\ None \notin C!CertRow
  BY <1>0, CertJobs, KeptFacts DEF C!CertAssumption
<1>2. ~drift' => ~drift /\ job[j].fresh /\ names = job[j].item.names /\ exp = job[j].item.exp
  BY Zenon DEF C!UpdateCertificate
<1>3. exp \in Nat
  BY <1>0
<1>4. x \in C!CertRow /\ x.names = names /\ x.exp = exp /\ x.next = None
  BY <1>1, <1>3 DEF C!CertRow
<1> HIDE DEF x
<1>5. ~job[j].import /\ ~Syncs1(job[j])
  BY <1>0, <1>1 DEF Begins, Syncs1, C!Syncs
<1>6. C!IdleJob.item = None /\ Begins(C!IdleJob) /\ ~Purges(C!IdleJob) /\ Waits(x)
  BY <1>4 DEF C!IdleJob, Begins, Purges, Waits
<1>7. ASSUME ~drift'
      PROVE  /\ x.names = job[j].item.names /\ x.exp <= now + Life
             /\ tls[x.names[1]] < x.exp => \E k \in Jobs \ {j} : Syncs1(job[k])
  <2>1. ~drift /\ Fresh(job[j]) /\ C!LastsNoLonger /\ job[j].fresh
    BY <1>1, <1>2, <1>7
  <2>2. row # None /\ row.names = x.names /\ row.exp = x.exp
    BY <1>0, <1>1, <1>2, <1>4, <1>5, <1>7, <2>1 DEF Fresh
  <2>3. C!Overstated => \E k \in Jobs : Syncs1(job[k])
    BY <2>1 DEF C!KeptInv, C!Undrifted, C!Syncing, Syncs1
  <2> QED
    BY <1>2, <1>4, <1>5, <1>7, <2>1, <2>2, <2>3 DEF C!Overstated, C!LastsNoLonger
<1> QED
  BY <1>0, <1>2, <1>4, <1>6, <1>7, WrittenKept

\* recordRetryState.
LEMMA RetryKept ==
    ASSUME C!CertAssumption, C!CertInv, C!KeptInv, NEW j \in Jobs, NEW saved \in BOOLEAN,
           C!recordRetryState(j, saved)
    PROVE  C!KeptInv'
<1> DEFINE s == C!nextRetryState(job[j].item)
           y == [row EXCEPT !.failures = s.failures, !.next = s.next]
<1>0. /\ job[j].pc = "retry" /\ job[j].pc # "idle" /\ ~Purges(job[j])
      /\ UNCHANGED <<now, magic, tls, leftover>> /\ now \in Nat
      /\ row' = (IF row = None \/ ~saved THEN row ELSE y) /\ job' = [job EXCEPT ![j] = C!IdleJob]
      /\ job \in [Jobs -> C!CertJob \union {C!IdleJob}]
  BY DEF C!recordRetryState, Purges, C!CertInv, C!CertStateOK
<1>1. job[j].item \in C!CertRow /\ (row # None => row \in C!CertRow /\ Waits(row))
      /\ None \notin C!CertRow
  BY <1>0, KeptFacts DEF C!CertAssumption
<1>2. row # None => y \in C!CertRow /\ y.names = row.names /\ y.exp = row.exp /\ Waits(y)
  BY <1>0, <1>1, RetryColumns DEF Waits
<1>3. ~drift' => ~drift /\ ~C!Overstated
  BY Zenon DEF C!recordRetryState
<1> HIDE DEF y
<1>4. /\ row' = None <=> row = None
      /\ row # None => row'.names = row.names /\ row'.exp = row.exp /\ Waits(row')
  BY <1>0, <1>1, <1>2
<1>5. ASSUME NEW k \in Jobs
      PROVE  job'[k] = (IF k = j THEN C!IdleJob ELSE job[k]) /\ C!IdleJob.item = None
             /\ C!IdleJob.pc = "idle" /\ C!IdleJob.import = FALSE
  BY <1>0 DEF C!IdleJob
<1>6. C!JobsBegin'
  BY <1>0, <1>5 DEF C!KeptInv, C!JobsBegin
<1>7. C!DueInTime'
  BY <1>0, <1>4, <1>5 DEF C!KeptInv, C!DueInTime, Waits
<1>8. ASSUME ~drift' PROVE C!Undrifted'
  <2>0. ~drift /\ C!Undrifted /\ ~C!Overstated
    BY <1>3, <1>8 DEF C!KeptInv
  <2>1. C!LastsNoLonger'
    BY <1>0, <1>4, <2>0 DEF C!Undrifted, C!LastsNoLonger
  <2>2. ASSUME NEW k \in Jobs PROVE C!FreshHolds(k)'
    BY <1>0, <1>4, <1>5, <2>0 DEF C!Undrifted, C!FreshHolds, C!Purging, C!Names1, C!Imported
  <2>3. row' # None => \A k \in Jobs : ~C!Purging(k)'
    BY <1>4, <1>5, <2>0 DEF C!Undrifted, C!Purging
  <2>4. ~C!Overstated'
    BY <1>0, <1>4, <2>0 DEF C!Overstated
  <2>5. C!StoredWanted'
    <3>1. \A k \in Jobs : C!ToPurge(k)' = C!ToPurge(k)
      BY <1>0, <1>5 DEF C!ToPurge, C!Purging, C!Names1, Purges
    <3> QED
      BY <1>0, <1>4, <2>0, <3>1 DEF C!Undrifted, C!StoredWanted
  <2> QED
    BY <2>1, <2>2, <2>3, <2>4, <2>5 DEF C!Undrifted
<1> QED
  BY <1>6, <1>7, <1>8 DEF C!KeptInv

\* A row goes: the items of the others are outdated, its names are yet to be purged.
LEMMA DeleteKept ==
    ASSUME C!CertAssumption, C!CertInv, C!KeptInv, NEW j \in Jobs, C!DeleteCertificate(j)
    PROVE  C!KeptInv'
<1> DEFINE q == [job[j] EXCEPT !.pc = "purge"]
<1>0. /\ job[j].pc = "delete" /\ job[j].pc # "idle" /\ row # None /\ row' = None
      /\ UNCHANGED <<now, magic, tls, leftover>>
      /\ job' = [C!Outdate(j) EXCEPT ![j].pc = "purge"]
      /\ job \in [Jobs -> C!CertJob \union {C!IdleJob}]
  BY DEF C!DeleteCertificate, C!CertInv, C!CertStateOK
<1>1. /\ job[j] \in C!CertJob /\ job[j].item \in C!CertRow /\ Begins(job[j])
      /\ Waits(job[j].item) /\ (~drift => Fresh(job[j])) /\ job[j].item # None
  BY <1>0, CertJobs, KeptFacts
<1>2. ~drift' => ~drift /\ job[j].fresh
  BY Zenon DEF C!DeleteCertificate
<1>3. job'[j] = q
  BY <1>0 DEF C!Outdate
<1>4. q.pc = "purge" /\ q.i = 1 /\ ~q.import /\ q.item = job[j].item
  <2>1. job[j].i = 1 /\ ~job[j].import
    BY <1>0, <1>1 DEF Begins
  <2> QED
    BY <1>1, <2>1 DEF C!CertJob
<1> HIDE DEF q
<1>5. ASSUME NEW k \in Jobs \ {j}
      PROVE  /\ job'[k].pc = job[k].pc /\ job'[k].item = job[k].item /\ job'[k].i = job[k].i
             /\ job'[k].import = job[k].import
             /\ job[k].item # None => job'[k].fresh = FALSE
  <2>1. job'[k] = C!Outdate(j)[k]
    BY <1>0 DEF C!Outdate
  <2> QED
    BY <2>1, Outdated
<1>6. C!JobsBegin'
  <2>1. ASSUME NEW k \in Jobs PROVE Begins(job[k])'
    <3>1. CASE k = j
      BY <1>3, <1>4, <3>1 DEF Begins
    <3>2. CASE k # j
      BY <1>0, <1>5, <3>2, KeptFacts DEF Begins
    <3> QED
      BY <3>1, <3>2
  <2> QED
    BY <2>1 DEF C!JobsBegin, Begins
<1>7. C!DueInTime'
  <2>1. ASSUME NEW k \in Jobs PROVE job'[k].item = job[k].item
    BY <1>3, <1>4, <1>5
  <2> QED
    BY <1>0, <2>1 DEF C!KeptInv, C!DueInTime
<1>8. ASSUME ~drift' PROVE C!Undrifted'
  <2>0. ~drift /\ C!Undrifted /\ row.names = job[j].item.names
    BY <1>0, <1>1, <1>2, <1>8 DEF C!KeptInv, Fresh, Purges
  <2>1. C!LastsNoLonger'
    BY <1>0, <2>0 DEF C!Undrifted, C!LastsNoLonger
  <2>2. ASSUME NEW k \in Jobs PROVE C!FreshHolds(k)'
    <3>1. CASE k = j
      BY <1>3, <1>4, <3>1 DEF C!FreshHolds, C!Purging
    <3>2. CASE k # j
      BY <1>5, <3>2 DEF C!FreshHolds
    <3> QED
      BY <3>1, <3>2
  <2>3. ~C!Overstated'
    BY <1>0 DEF C!Overstated
  <2>4. C!StoredWanted'
    <3>1. C!ToPurge(j)' = {q.item.names[k] : k \in 1..Len(q.item.names)}
      BY <1>3, <1>4 DEF C!ToPurge, C!Purging, C!Names1
    <3>2. \A k \in Jobs : C!ToPurge(k) = {}
      BY <1>0, <2>0 DEF C!Undrifted, C!ToPurge
    <3>3. row.names \in Seq(C!Names)
      BY <1>0, KeptFacts DEF C!CertRow, C!CertAssumption
    <3>4. ASSUME NEW n \in C!Names \ leftover, tls'[n] # 0 PROVE n \in C!ToPurge(j)'
      <4>1. n \in C!Range(row.names)
        BY <1>0, <2>0, <3>2, <3>4 DEF C!Undrifted, C!StoredWanted
      <4> QED
        BY <1>4, <2>0, <3>1, <3>3, <4>1 DEF C!Range
    <3> QED
      BY <1>0, <3>4 DEF C!StoredWanted
  <2> QED
    BY <1>0, <2>1, <2>2, <2>3, <2>4 DEF C!Undrifted
<1> QED
  BY <1>6, <1>7, <1>8 DEF C!KeptInv

\* A name is purged from what is stored, then from certmagic.
LEMMA PurgeKept ==
    ASSUME C!CertAssumption, C!CertInv, C!KeptInv, NEW j \in Jobs,
           NEW ok \in BOOLEAN, C!PurgeStored(j, ok) \/ C!PurgeMagic(j, ok)
    PROVE  C!KeptInv'
<1>0. /\ job[j].pc \in {"purge", "forget"} /\ job[j].pc # "idle" /\ UNCHANGED <<now, row, drift>>
      /\ now \in Nat /\ Life \in Nat /\ magic \in [C!Names -> Nat] /\ tls \in [C!Names -> Nat]
      /\ job \in [Jobs -> C!CertJob \union {C!IdleJob}]
  BY DEF C!PurgeStored, C!PurgeMagic, C!CertInv, C!CertStateOK, C!CertAssumption
<1>1. /\ job[j] \in C!CertJob /\ job[j].item \in C!CertRow /\ Begins(job[j])
      /\ Waits(job[j].item) /\ ~job[j].import /\ job[j].item # None
      /\ ~drift => C!LastsNoLonger
  BY <1>0, CertJobs, KeptFacts DEF Begins
<1>2. job[j].item.names \in Seq(C!Names) /\ job[j].i \in 1..Len(job[j].item.names)
      /\ C!Current(j) \in C!Names /\ C!Current(j) = job[j].item.names[job[j].i]
  BY <1>0, OnItsName DEF C!NameSteps
<1>3. CASE C!PurgeMagic(j, ok)
  <2> DEFINE q == IF job[j].i < Len(C!Names1(j))
                  THEN [job[j] EXCEPT !.pc = "purge", !.i = job[j].i + 1] ELSE C!IdleJob
  <2>1. job' = [job EXCEPT ![j] = q] /\ UNCHANGED <<tls, leftover>> /\ job[j].pc = "forget"
    BY <1>3 DEF C!PurgeMagic
  <2>2. magic' = [magic EXCEPT ![C!Current(j)] = 0] \/ magic' = magic
    BY <1>3 DEF C!PurgeMagic
  <2>3. ~drift' => \A n \in C!Names : magic'[n] <= now + Life
    BY <1>0, <1>1, <2>2 DEF C!LastsNoLonger
  <2>4. CASE job[j].i < Len(C!Names1(j))
    <3> DEFINE e == job[j].i + 1
               p == [job[j] EXCEPT !.pc = "purge", !.i = e]
    <3>1. q = p
      BY <2>4
    <3> HIDE DEF e
    <3>2. p.pc = "purge" /\ p.i = e /\ p.item = job[j].item /\ p.import = job[j].import
      BY <1>1 DEF C!CertJob
    <3> HIDE DEF p, q
    <3>3. Begins(q) /\ Fresh(q) /\ Purges(job[j]) /\ ~Syncs1(job[j]) /\ Left(job[j]) = Left(q)
      BY <1>1, <2>1, <3>1, <3>2 DEF Begins, Fresh, Purges, Syncs1, C!Syncs, Left, e
    <3> QED
      BY <1>0, <1>1, <2>1, <2>3, <3>1, <3>2, <3>3, MovedKept
  <2>5. CASE ~(job[j].i < Len(C!Names1(j)))
    <3>1. q = C!IdleJob
      BY <2>5
    <3> HIDE DEF q
    <3>2. q.item = None /\ q.pc = "idle" /\ q.import = FALSE
      BY <3>1 DEF C!IdleJob
    <3>3. Begins(q) /\ Fresh(q) /\ ~Purges(q) /\ ~Syncs1(job[j])
      BY <2>1, <3>2 DEF Begins, Fresh, Purges, Syncs1, C!Syncs
    <3>4. Left(job[j]) = {}
      BY <1>2, <2>1, <2>5 DEF Left, Purges, C!Names1
    <3> QED
      BY <1>0, <2>1, <2>3, <3>2, <3>3, <3>4, MovedKept
  <2> QED
    BY <2>4, <2>5
<1>4. CASE C!PurgeStored(j, ok)
  <2> DEFINE q == [job[j] EXCEPT !.pc = "forget"]
  <2>1. job' = [job EXCEPT ![j] = q] /\ UNCHANGED magic /\ job[j].pc = "purge"
        /\ \/ tls' = [tls EXCEPT ![C!Current(j)] = 0] /\ leftover' = leftover \ {C!Current(j)}
           \/ tls' = tls /\ leftover' = leftover \union {C!Current(j)}
    BY <1>4 DEF C!PurgeStored, C!Goto
  <2>2. q.pc = "forget" /\ q.i = job[j].i /\ q.item = job[j].item /\ ~q.import
    BY <1>1 DEF C!CertJob
  <2> HIDE DEF q
  <2>3. \A k \in Jobs : job'[k] = IF k = j THEN q ELSE job[k]
    BY <1>0, <2>1
  <2>4. C!JobsBegin'
    BY <1>0, <2>2, <2>3 DEF C!KeptInv, C!JobsBegin
  <2>5. C!DueInTime'
    BY <1>0, <2>2, <2>3 DEF C!KeptInv, C!DueInTime
  <2>6. ASSUME ~drift' PROVE C!Undrifted'
    <3>0. ~drift /\ C!Undrifted /\ row = None /\ row' = None
      BY <1>0, <2>6 DEF C!KeptInv, C!Undrifted, C!Purging
    <3>1. C!LastsNoLonger'
      BY <1>0, <2>1, <3>0 DEF C!Undrifted, C!LastsNoLonger
    <3>2. ASSUME NEW k \in Jobs PROVE C!FreshHolds(k)'
      BY <2>2, <2>3, <3>0 DEF C!Undrifted, C!FreshHolds, C!Purging
    <3>3. C!StoredWanted'
      <4>1. ASSUME NEW n \in C!Names \ leftover', tls'[n] # 0
            PROVE  \E k \in Jobs : n \in C!ToPurge(k)'
        <5>1. n # C!Current(j) /\ tls[n] # 0 /\ n \notin leftover
          BY <1>0, <1>2, <2>1, <4>1
        <5>2. PICK k \in Jobs : n \in C!ToPurge(k)
          BY <3>0, <5>1 DEF C!Undrifted, C!StoredWanted
        <5>3. C!ToPurge(k) = Left(job[k]) /\ C!ToPurge(k)' = Left(job'[k])
          BY DEF C!ToPurge, Left, C!Purging, Purges, C!Names1
        <5>4. CASE k # j
          BY <2>3, <5>2, <5>3, <5>4
        <5>5. CASE k = j
          <6>1. n \in Left(job[j])
            BY <5>2, <5>3, <5>5
          <6>2. PICK m \in job[j].i..Len(job[j].item.names) : n = job[j].item.names[m]
            BY <2>1, <6>1 DEF Left, Purges
          <6>3. m \in (job[j].i + 1)..Len(job[j].item.names)
            BY <1>2, <5>1, <6>2
          <6>4. n \in Left(q)
            BY <2>2, <6>2, <6>3 DEF Left, Purges
          <6> QED
            BY <2>3, <5>3, <5>5, <6>4
        <5> QED
          BY <5>4, <5>5
      <4> QED
        BY <4>1 DEF C!StoredWanted
    <3> QED
      BY <3>0, <3>1, <3>2, <3>3 DEF C!Undrifted, C!Overstated
  <2> QED
    BY <2>4, <2>5, <2>6 DEF C!KeptInv
<1> QED
  BY <1>3, <1>4

\* StorePEM: what is stored is for a name of the row, and an import stores what
\* its row will promise.
LEMMA StoreKept ==
    ASSUME C!CertAssumption, C!CertInv, C!KeptInv, NEW j \in Jobs, C!StorePEM(j)
    PROVE  C!KeptInv'
<1> DEFINE cert == IF job[j].import THEN job[j].item.exp ELSE magic[C!Current(j)]
<1>a. ~drift' => ~drift /\ job[j].fresh /\ ~C!Mixed(j)
  BY Zenon DEF C!StorePEM
<1>0. /\ job[j].pc = "store" /\ job[j].pc # "idle" /\ UNCHANGED <<now, row, magic>>
      /\ now \in Nat /\ Life \in Nat /\ magic \in [C!Names -> Nat] /\ tls \in [C!Names -> Nat]
      /\ job \in [Jobs -> C!CertJob \union {C!IdleJob}]
      /\ IF cert = 0 THEN C!Goto(j, "fail") /\ UNCHANGED <<tls, leftover>>
         ELSE /\ C!Goto(j, "invalidate") /\ tls' = [tls EXCEPT ![C!Current(j)] = cert]
              /\ leftover' = leftover \ {C!Current(j)}
  BY DEF C!StorePEM, C!persistManagedCertificate, C!CertInv, C!CertStateOK, C!CertAssumption
<1>1. /\ job[j] \in C!CertJob /\ job[j].item \in C!CertRow /\ Begins(job[j])
      /\ Waits(job[j].item) /\ job[j].item # None
      /\ ~drift => Fresh(job[j]) /\ C!LastsNoLonger
  BY <1>0, CertJobs, KeptFacts
<1>2. job[j].item.names \in Seq(C!Names) /\ job[j].i \in 1..Len(job[j].item.names)
      /\ C!Current(j) \in C!Names /\ C!Current(j) = job[j].item.names[job[j].i]
  BY <1>0, OnItsName DEF C!NameSteps
<1>3. cert \in Nat
  BY <1>0, <1>1, <1>2 DEF C!CertRow
<1>4. CASE cert = 0
  <2> DEFINE q == [job[j] EXCEPT !.pc = "fail"]
  <2>1. job' = [job EXCEPT ![j] = q] /\ UNCHANGED <<tls, leftover>>
    BY <1>0, <1>4 DEF C!Goto
  <2>2. ~job[j].import
    BY <1>1, <1>4 DEF Begins
  <2>3. q.pc = "fail" /\ q.item = job[j].item /\ ~q.import /\ q.fresh = job[j].fresh
    BY <1>1, <2>2 DEF C!CertJob
  <2> HIDE DEF q
  <2>4. Begins(q) /\ ~Purges(q) /\ Syncs1(q) /\ Left(job[j]) = {}
    BY <1>0, <2>3 DEF Begins, Purges, Syncs1, C!Syncs, Left
  <2>5. ~drift' => \A n \in C!Names : magic'[n] <= now + Life
    BY <1>0, <1>1, <1>a DEF C!LastsNoLonger
  <2>6. ~drift' => Fresh(q)
    <3>1. job[j].pc = "store" /\ (~drift' => Fresh(job[j]))
      BY <1>0, <1>1, <1>a
    <3> QED
      BY <2>2, <2>3, <3>1 DEF Fresh, Purges
  <2> QED
    BY <1>0, <1>1, <1>a, <2>1, <2>3, <2>4, <2>5, <2>6, MovedKept
<1>5. CASE cert # 0
  <2> DEFINE q == [job[j] EXCEPT !.pc = "invalidate"]
  <2>1. /\ job' = [job EXCEPT ![j] = q] /\ tls' = [tls EXCEPT ![C!Current(j)] = cert]
        /\ leftover' = leftover \ {C!Current(j)}
    BY <1>0, <1>5 DEF C!Goto
  <2>2. q.pc = "invalidate" /\ q.i = job[j].i /\ q.item = job[j].item
        /\ q.import = job[j].import /\ q.fresh = job[j].fresh
    BY <1>1 DEF C!CertJob
  <2> HIDE DEF q
  <2>3. \A k \in Jobs : job'[k] = IF k = j THEN q ELSE job[k]
    BY <1>0, <2>1
  <2>4. C!JobsBegin'
    BY <1>0, <2>2, <2>3 DEF C!KeptInv, C!JobsBegin
  <2>5. C!DueInTime'
    BY <1>0, <2>2, <2>3 DEF C!KeptInv, C!DueInTime
  <2>6. ASSUME ~drift' PROVE C!Undrifted'
    <3>0. /\ ~drift /\ C!Undrifted /\ job[j].fresh /\ ~C!Mixed(j) /\ Fresh(job[j]) /\ C!LastsNoLonger
          /\ row # None /\ row.names = job[j].item.names /\ row' = row
      BY <1>0, <1>1, <1>a, <2>6 DEF C!KeptInv, Fresh, Purges
    <3>1. cert <= now + Life
      BY <1>0, <1>1, <1>2, <3>0 DEF Begins, C!LastsNoLonger
    <3>2. C!LastsNoLonger'
      BY <1>0, <1>3, <2>1, <3>0, <3>1 DEF C!LastsNoLonger
    <3>3. job[j].import => tls'[job[j].item.names[1]] = job[j].item.exp
      <4> SUFFICES ASSUME job[j].import PROVE tls'[job[j].item.names[1]] = job[j].item.exp
        OBVIOUS
      <4>1. cert = job[j].item.exp
        OBVIOUS
      <4> HIDE DEF cert
      <4> DEFINE l == job[j].item.names
      <4>2. l[1] \in C!Names
        BY <1>2
      <4>3. CASE C!Current(j) = l[1]
        BY <1>0, <2>1, <4>1, <4>2, <4>3
      <4>4. CASE C!Current(j) # l[1]
        <5>1. job[j].i > 1
          BY <1>2, <4>4
        <5>2. tls[l[1]] = job[j].item.exp
          BY <1>0, <1>1, <3>0, <5>1 DEF Fresh, Purges
        <5> QED
          BY <1>0, <2>1, <4>2, <4>4, <5>2
      <4> QED
        BY <4>3, <4>4
    <3>4. ASSUME NEW k \in Jobs PROVE C!FreshHolds(k)'
      <4>1. CASE k = j
        BY <1>0, <1>1, <2>2, <2>3, <3>0, <3>3, <4>1
           DEF C!FreshHolds, C!Purging, C!Names1, C!Imported, Fresh, Purges
      <4>2. CASE k # j
        <5>1. job[k].item # None => ~job[k].import
          BY <3>0, <4>2 DEF C!Mixed
        <5> QED
          BY <2>3, <3>0, <4>2, <5>1 DEF C!Undrifted, C!FreshHolds, C!Purging, C!Names1, C!Imported
      <4> QED
        BY <4>1, <4>2
    <3>5. \A k \in Jobs : ~C!Purging(k)'
      BY <2>2, <2>3, <3>0 DEF C!Undrifted, C!Purging
    <3>6. C!Overstated' => \E k \in Jobs : C!Syncing(k)'
      <4>1. CASE job[j].import
        <5>1. row.exp <= job[j].item.exp /\ row.exp \in Nat /\ job[j].item.exp \in Nat
          BY <1>0, <1>1, <3>0, <4>1, KeptFacts DEF Fresh, Purges, C!CertRow
        <5>2. tls'[row.names[1]] = job[j].item.exp
          BY <3>0, <3>3, <4>1
        <5> QED
          BY <3>0, <5>1, <5>2 DEF C!Overstated
      <4>2. CASE ~job[j].import
        BY <2>2, <2>3, <4>2 DEF C!Syncing, C!Syncs
      <4> QED
        BY <4>1, <4>2
    <3>7. C!StoredWanted'
      <4>1. \A k \in Jobs : C!ToPurge(k) = {}
        BY <3>0 DEF C!Undrifted, C!ToPurge
      <4>2. ASSUME NEW n \in C!Names \ leftover', tls'[n] # 0 PROVE n \in C!Range(row.names)
        <5>1. CASE n = C!Current(j)
          BY <1>2, <3>0, <5>1 DEF C!Range
        <5>2. CASE n # C!Current(j)
          BY <1>0, <2>1, <3>0, <4>1, <4>2, <5>2 DEF C!Undrifted, C!StoredWanted
        <5> QED
          BY <5>1, <5>2
      <4> QED
        BY <3>0, <4>2 DEF C!StoredWanted
    <3> QED
      BY <3>2, <3>4, <3>5, <3>6, <3>7 DEF C!Undrifted
  <2> QED
    BY <2>4, <2>5, <2>6 DEF C!KeptInv
<1> QED
  BY <1>4, <1>5

\* A row is created: nothing is stored but what a failed purge left, unless a
\* deletion is still purging.
LEMMA CreateKept ==
    ASSUME C!CertAssumption, C!CertInv, C!KeptInv, NEW names \in NameLists, NEW auto \in BOOLEAN,
           NEW exp \in {0, now + Life}, C!CreateCertificate(names, auto, exp)
    PROVE  C!KeptInv'
<1>a. ~drift' => ~drift /\ exp = 0 /\ \A j \in Jobs : ~C!Purging(j)
  BY Zenon DEF C!CreateCertificate
<1> DEFINE x == C!NewRow(names, auto, exp)
<1>0. /\ row = None /\ row' = x /\ UNCHANGED <<now, magic, tls, job, leftover>>
      /\ \A j \in Jobs : job[j].item # None => C!Purging(j)
      /\ now \in Nat /\ Life \in Nat /\ tls \in [C!Names -> Nat]
  BY DEF C!CreateCertificate, C!CertInv, C!CertStateOK, C!CertAssumption
<1>1. x.names = names /\ x.exp = exp /\ x.next = None
  BY DEF C!NewRow
<1> HIDE DEF x
<1>2. C!JobsBegin' /\ C!DueInTime'
  BY <1>0, <1>1 DEF C!KeptInv, C!JobsBegin, C!DueInTime
<1>3. ASSUME ~drift' PROVE C!Undrifted'
  <2>0. ~drift /\ C!Undrifted /\ exp = 0 /\ \A j \in Jobs : ~C!Purging(j)
    BY <1>3, <1>a DEF C!KeptInv
  <2>1. \A j \in Jobs : job'[j].item = None /\ ~C!Purging(j)' /\ C!ToPurge(j) = {}
    BY <1>0, <2>0 DEF C!Purging, C!ToPurge
  <2>2. \A n \in C!Names \ leftover : tls[n] = 0
    BY <1>0, <2>0, <2>1 DEF C!Undrifted, C!StoredWanted
  <2>3. C!LastsNoLonger'
    BY <1>0, <1>1, <2>0 DEF C!Undrifted, C!LastsNoLonger
  <2>4. \A j \in Jobs : C!FreshHolds(j)'
    BY <2>1 DEF C!FreshHolds
  <2>5. ~C!Overstated'
    <3> DEFINE l == names
    <3>1. l[1] \in C!Names
      BY DEF C!CertAssumption
    <3> QED
      BY <1>0, <1>1, <2>0, <3>1 DEF C!Overstated
  <2>6. C!StoredWanted'
    BY <1>0, <2>2 DEF C!StoredWanted
  <2> QED
    BY <2>1, <2>3, <2>4, <2>5, <2>6 DEF C!Undrifted
<1> QED
  BY <1>2, <1>3 DEF C!KeptInv

\* Time passes, or only the cache changes.
LEMMA LaterKept ==
    ASSUME C!CertAssumption, C!CertInv, C!KeptInv, UNCHANGED <<row, magic, tls, job, drift, leftover>>,
           now' \in {now, now + 1}
    PROVE  C!KeptInv'
<1>0. /\ now \in Nat /\ Life \in Nat /\ MaxDelay \in Nat
      /\ magic \in [C!Names -> Nat] /\ tls \in [C!Names -> Nat]
      /\ row # None => row.exp \in Nat /\ row.next \in Nat \union {None}
  BY KeptFacts DEF C!CertInv, C!CertStateOK, C!CertAssumption, C!CertRow
<1>1. ASSUME NEW j \in Jobs, job[j].item # None
      PROVE  job[j].item.exp \in Nat /\ job[j].item.next \in Nat \union {None}
  <2>1. job[j] \in C!CertJob
    BY <1>1 DEF C!CertInv, C!CertStateOK, C!IdleJob
  <2> QED
    BY <2>1 DEF C!CertJob, C!CertRow
<1>2. C!JobsBegin'
  BY <1>0 DEF C!KeptInv, C!JobsBegin
<1>3. C!DueInTime'
  BY <1>0, <1>1 DEF C!KeptInv, C!DueInTime
<1>4. ASSUME ~drift' PROVE C!Undrifted'
  <2>0. C!Undrifted
    BY <1>4 DEF C!KeptInv
  <2>1. C!LastsNoLonger'
    BY <1>0, <2>0 DEF C!Undrifted, C!LastsNoLonger
  <2>2. ASSUME NEW j \in Jobs
        PROVE  /\ C!Purging(j)' <=> C!Purging(j)
               /\ C!Syncing(j)' <=> C!Syncing(j)
               /\ C!ToPurge(j)' = C!ToPurge(j)
               /\ C!FreshHolds(j)' <=> C!FreshHolds(j)
    BY DEF C!Purging, C!Syncing, C!ToPurge, C!FreshHolds, C!Names1, C!Imported
  <2> QED
    BY <2>0, <2>1, <2>2 DEF C!Undrifted, C!Overstated, C!StoredWanted
<1> QED
  BY <1>2, <1>3, <1>4 DEF C!KeptInv

\* No step breaks the invariant.
LEMMA KeptNext ==
    ASSUME C!CertAssumption, C!CertInv, C!KeptInv, [C!Next]_(C!certVars)
    PROVE  C!KeptInv'
<1>1. CASE C!Tick
  BY <1>1, LaterKept DEF C!Tick
<1>2. CASE C!runOnce
  BY <1>2, StartsKept DEF C!CertAssumption
<1>3. ASSUME NEW names \in NameLists,
             \/ \E auto \in BOOLEAN, exp \in {0, now + Life} : C!CreateCertificate(names, auto, exp)
             \/ C!autoIssueCertificateForDomain(names)
      PROVE  C!KeptInv'
  BY <1>3, CreateKept DEF C!autoIssueCertificateForDomain
<1>4. ASSUME NEW j \in Jobs,
             \/ \E ok \in BOOLEAN : C!configForCertificate(j, ok)
             \/ C!ManageSync(j) \/ C!ManageSyncFails(j)
             \/ C!StorePEM(j) \/ C!StoreFails(j) \/ C!Invalidate(j)
             \/ \E saved \in BOOLEAN :
                  C!SyncFinish(j, saved) \/ C!SyncFail(j, saved) \/ C!recordRetryState(j, saved)
      PROVE  C!KeptInv'
  BY <1>4, GoesOnKept, StoreKept, FinishKept, FailKept, RetryKept
<1>5. ASSUME NEW j \in C!Handlers,
             \/ \E forget \in BOOLEAN : C!SyncCertificateStatus(j, forget)
             \/ \E pc \in {"edit", "delete"} : C!LoadCertificate(j, pc)
             \/ C!ImportPEMCertificate(j)
             \/ \E names \in NameLists, auto \in BOOLEAN, exp \in {0, now + Life} :
                  job[j].item # None /\ C!UpdateCertificate(j, names, auto, exp)
             \/ \E ok \in BOOLEAN : C!PurgeStored(j, ok) \/ C!PurgeMagic(j, ok)
             \/ C!DeleteCertificate(j) \/ C!Abort(j)
      PROVE  C!KeptInv'
  <2>1. j \in Jobs
    BY DEF C!Handlers
  <2> QED
    BY <1>5, <2>1, StartsKept, EditKept, DeleteKept, PurgeKept, GoesOnKept
<1>6. ASSUME NEW f \in Flights,
             \/ \E n \in Asked : C!Get(f, n)
             \/ C!RefreshLoad(f) \/ C!RefreshStore(f) \/ C!RefreshFails(f)
      PROVE  C!KeptInv'
  <2>1. UNCHANGED <<now, row, magic, tls, job, drift, leftover>>
    BY <1>6 DEF C!Get, C!RefreshLoad, C!RefreshStore, C!RefreshFails
  <2> QED
    BY <2>1, LaterKept
<1>7. CASE UNCHANGED C!certVars
  BY <1>7, LaterKept DEF C!certVars
<1> QED
  BY <1>1, <1>2, <1>3, <1>4, <1>5, <1>6, <1>7 DEF C!Next

\* It holds at the start.
LEMMA KeptInit ==
    ASSUME C!CertAssumption, C!Init
    PROVE  C!KeptInv
<1>1. /\ row = None /\ now = 0 /\ Life \in Nat
      /\ \A n \in C!Names : tls[n] = 0 /\ magic[n] = 0
      /\ \A j \in Jobs : job[j] = C!IdleJob
  BY DEF C!Init, C!CertAssumption
<1>2. C!IdleJob.pc = "idle" /\ C!IdleJob.item = None /\ C!IdleJob.import = FALSE
  BY DEF C!IdleJob
<1>3. C!JobsBegin /\ C!DueInTime
  BY <1>1, <1>2 DEF C!JobsBegin, C!DueInTime
<1>4. C!Undrifted
  BY <1>1, <1>2 DEF C!Undrifted, C!LastsNoLonger, C!FreshHolds, C!Purging, C!Overstated,
     C!StoredWanted
<1> QED
  BY <1>3, <1>4 DEF C!KeptInv

\* While nobody works on the certificate, the invariant is what is wanted.
LEMMA KeptEnough ==
    ASSUME C!CertAssumption, C!CertInv, C!KeptInv
    PROVE  C!RetriedInTime /\ C!NothingLeftBehind
<1>1. ASSUME C!Quiet, ~drift
      PROVE  /\ C!Undrifted
             /\ \A j \in Jobs : ~C!Syncing(j) /\ C!ToPurge(j) = {}
  <2>1. C!IdleJob.pc = "idle"
    BY DEF C!IdleJob
  <2> QED
    BY <1>1, <2>1 DEF C!KeptInv, C!Quiet, C!Syncing, C!Syncs, C!ToPurge, C!Purging
<1>2. C!NothingLeftBehind
  BY <1>1 DEF C!NothingLeftBehind, C!Undrifted, C!StoredWanted
<1>3. C!RetriedInTime
  <2> SUFFICES ASSUME C!Quiet, ~drift, row # None, row.auto,
                      tls[row.names[1]] <= now + RenewWithin
               PROVE  /\ row.exp <= now + RenewWithin
                      /\ row.next # None => row.next <= now + MaxDelay
    BY DEF C!RetriedInTime
  <2>1. row.exp \in Nat /\ row.names \in Seq(C!Names) /\ Len(row.names) > 0
        /\ tls \in [C!Names -> Nat] /\ now \in Nat /\ RenewWithin \in Nat
    BY KeptFacts DEF C!CertRow, C!CertAssumption, C!CertInv, C!CertStateOK
  <2> DEFINE l == row.names
  <2>2. l[1] \in C!Names
    BY <2>1
  <2>3. ~(tls[l[1]] < row.exp)
    BY <1>1 DEF C!Undrifted, C!Overstated
  <2>4. row.exp <= now + RenewWithin
    BY <2>1, <2>2, <2>3
  <2> QED
    BY <2>4 DEF C!KeptInv, C!DueInTime
<1> QED
  BY <1>2, <1>3

\* No certificate is forgotten and nothing is left of a deleted one: while nobody
\* works on the row, what is stored is for a name of it, unless the purge of that
\* name failed and nothing was stored for it or purged since, and a row that renews by
\* itself is taken up in time, for every number of names and handlers and all delays.
THEOREM CertificatesSound == C!Spec => []CertificatesKept
<1> USE ProxyAssumption
<1>1. C!Init => C!CertInv /\ C!KeptInv
  BY CertInit, KeptInit
<1>2. C!CertInv /\ C!KeptInv /\ [C!Next]_C!certVars => (C!CertInv /\ C!KeptInv)'
  BY CertNext, KeptNext
<1>3. C!CertInv /\ C!KeptInv => CertificatesKept
  BY KeptEnough DEF CertificatesKept
<1> QED
  BY <1>1, <1>2, <1>3, PTL DEF C!Spec
==============================================================================
