----------------------------- MODULE EdgeProofs ------------------------------
(***************************************************************************)
(* The visitor: proofs for any number of services, users, requests and     *)
(* tokens (Access), and for the logins without a password, for any number  *)
(* of passkeys, challenges, accounts, subjects and requests (Passkeys,     *)
(* OidcLogin).                                                             *)
(*                                                                         *)
(* For the logins each step is first reduced to what it changes, an        *)
(* operator of its own (Begun, Finished, Exchanged, Written ...) with one  *)
(* lemma per action; the lemmas on the invariants then speak of those      *)
(* changes only.                                                           *)
(***************************************************************************)
EXTENDS Edge, FiniteSetTheorems, WellFoundedInduction, TLAPS

-----------------------------------------------------------------------------
(* Lists and the first and last of their positions.                        *)

\* A set of natural numbers has a smallest one.
LEMMA Smallest ==
    ASSUME NEW S, S \subseteq Nat, S # {}
    PROVE  Min(S) \in S /\ \A y \in S : Min(S) <= y
<1>1. PICK x \in S : \A y \in S : ~ (<<y, x>> \in OpToRel(<, Nat))
  BY WFMin, NatLessThanWellFounded
<1>2. \A y \in S : ~(y < x)
  BY <1>1 DEF OpToRel
<1>3. \E z \in S : \A y \in S : z <= y
  BY <1>2
<1> QED BY <1>3 DEF Min

\* A set of positions has a largest one.
LEMMA Largest ==
    ASSUME NEW n \in Nat, NEW S, S \subseteq 1..n, S # {}
    PROVE  Max(S) \in S /\ \A y \in S : Max(S) >= y
<1> DEFINE Back == {n - x : x \in S}
<1>1. \A x \in S : x \in Int /\ n - x \in Nat
  OBVIOUS
<1>2. Back \subseteq Nat /\ Back # {}
  BY <1>1
<1>3. Min(Back) \in Back /\ \A y \in Back : Min(Back) <= y
  BY <1>2, Smallest
<1>4. PICK x \in S : Min(Back) = n - x
  BY <1>3
<1>5. \A y \in S : n - x <= n - y
  BY <1>3, <1>4
<1>6. \A y \in S : x >= y
  BY <1>1, <1>5
<1> QED BY <1>6 DEF Max

\* The last untrusted hop of a chain.
LEMMA LastUntrusted ==
    ASSUME NEW c, IsList(c), NEW i \in DOMAIN c, c[i] \notin Trusted,
           \A j \in DOMAIN c : c[j] \notin Trusted => j <= i
    PROVE  clientIPFromForwardedChain(c) = c[i]
<1> DEFINE S == {j \in DOMAIN c : c[j] \notin Trusted}
<1>1. S \subseteq 1..Len(c) /\ Len(c) \in Nat /\ i \in S /\ i \in Int /\ \A j \in S : j \in Int /\ j <= i
  BY DEF IsList
<1>2. clientIPFromForwardedChain(c) = c[Max(S)]
  BY <1>1 DEF clientIPFromForwardedChain
<1> HIDE DEF S
<1>3. Max(S) \in S /\ \A j \in S : Max(S) >= j
  BY <1>1, Largest
<1>4. Max(S) = i
  BY <1>1, <1>3
<1> QED BY <1>2, <1>4

\* What stands before an untrusted hop is not looked at.
LEMMA TailDecides ==
    ASSUME NEW c, IsList(c), c # <<>>, \E i \in DOMAIN Tail(c) : Tail(c)[i] \notin Trusted
    PROVE  clientIPFromForwardedChain(c) = clientIPFromForwardedChain(Tail(c))
<1> DEFINE d == Tail(c)
           n == Len(c) - 1
           S == {j \in DOMAIN d : d[j] \notin Trusted}
<1>1. /\ n \in Nat /\ DOMAIN c = 1..(n + 1) /\ Len(c) \in Nat
      /\ Len(d) = n /\ DOMAIN d = 1..n
      /\ \A j \in 1..n : d[j] = c[j + 1]
  BY DEF IsList
<1>2. S \subseteq 1..n /\ S # {} /\ \A j \in 1..n : j \in S <=> d[j] \notin Trusted
  BY <1>1
<1> HIDE DEF n, S, d
<1>3. Max(S) \in S /\ \A j \in S : Max(S) >= j
  BY <1>1, <1>2, Largest
<1> DEFINE m == Max(S)
<1>4. m \in 1..n /\ m \in Int /\ m + 1 \in 1..(n + 1) /\ d[m] \notin Trusted /\ d[m] = c[m + 1]
  <2>1. m \in 1..n /\ d[m] \notin Trusted
    BY <1>2, <1>3
  <2>2. m \in Int /\ m + 1 \in 1..(n + 1)
    BY <1>1, <2>1
  <2> QED BY <1>1, <2>1, <2>2
<1>5. \A j \in DOMAIN d : d[j] \notin Trusted => j <= m
  BY <1>1, <1>2, <1>3
<1> HIDE DEF m
<1>6. clientIPFromForwardedChain(d) = d[m]
  <2>1. IsList(d)
    BY <1>1 DEF IsList
  <2> QED BY <1>1, <1>4, <1>5, <2>1, LastUntrusted
<1>7. ASSUME NEW j \in DOMAIN c, c[j] \notin Trusted PROVE j <= m + 1
  <2>1. j \in 1..(n + 1) /\ j \in Int
    BY <1>1
  <2>2. CASE j = 1
    BY <1>4, <2>2
  <2>3. CASE j # 1
    <3>1. j - 1 \in 1..n /\ (j - 1) + 1 = j
      BY <1>1, <2>1, <2>3
    <3>2. d[j - 1] = c[j]
      BY <1>1, <3>1
    <3>3. j - 1 <= m
      BY <1>1, <1>5, <1>7, <3>1, <3>2
    <3> QED BY <1>4, <2>1, <3>3
  <2> QED BY <2>2, <2>3
<1>8. clientIPFromForwardedChain(c) = c[m + 1]
  BY <1>1, <1>4, <1>7, LastUntrusted
<1> QED BY <1>4, <1>6, <1>8 DEF d

-----------------------------------------------------------------------------
(* Rules and policies.                                                     *)

\* The rule that applies is the first that hits.
LEMMA FirstHit ==
    ASSUME NEW rules, IsList(rules), NEW ip, NEW path
    PROVE  LET i == matchAccessRule(rules, ip, path) IN
           /\ i \in Nat
           /\ i # 0 => /\ i \in DOMAIN rules /\ RuleHits(rules[i], ip, path)
                       /\ \A j \in 1..(i - 1) : ~RuleHits(rules[j], ip, path)
<1> DEFINE matching == {i \in DOMAIN rules : RuleHits(rules[i], ip, path)}
<1>1. matching \subseteq 1..Len(rules) /\ Len(rules) \in Nat
  BY DEF IsList
<1>2. CASE matching = {}
  BY <1>2 DEF matchAccessRule
<1>3. CASE matching # {}
  <2>1. matching \subseteq Nat
    BY <1>1
  <2>2. matchAccessRule(rules, ip, path) = Min(matching)
    BY <1>3 DEF matchAccessRule
  <2> DEFINE i == Min(matching)
  <2>3. \A j \in DOMAIN rules : j \in matching <=> RuleHits(rules[j], ip, path)
    OBVIOUS
  <2> HIDE DEF matching
  <2>4. i \in matching /\ \A y \in matching : i <= y
    BY <2>1, <1>3, Smallest
  <2> HIDE DEF i
  <2>5. i \in 1..Len(rules) /\ i \in DOMAIN rules /\ RuleHits(rules[i], ip, path)
    BY <1>1, <2>3, <2>4 DEF IsList
  <2>6. ASSUME NEW j \in 1..(i - 1) PROVE ~RuleHits(rules[j], ip, path)
    <3>1. j \in Int /\ j \in 1..Len(rules) /\ ~(i <= j)
      BY <1>1, <2>5
    <3> QED BY <2>3, <2>4, <3>1 DEF IsList
  <2> QED BY <2>2, <2>5, <2>6 DEF i
<1> QED BY <1>2, <1>3

\* A request that was let through by an allow rule is named by it.
LEMMA AllowNames ==
    ASSUME NEW q, q.svc \in Services, RuleAction(q) = "allow",
           q.rule = matchAccessRule(q.svc.rules, realClientIP(q.in), q.in.path)
    PROVE  NamedByAllowRule(q)
<1> DEFINE rules == q.svc.rules
           ip == realClientIP(q.in)
           i == q.rule
<1>1. IsList(rules)
  BY RowsAssumption
<1>2. i # 0 /\ rules[i].action = "allow"
  BY DEF RuleAction
<1>3. /\ i \in Nat /\ i \in DOMAIN rules /\ RuleHits(rules[i], ip, q.in.path)
      /\ \A j \in 1..(i - 1) : ~RuleHits(rules[j], ip, q.in.path)
  BY <1>1, <1>2, FirstHit
<1>4. \A path \in {q.in.path, stripPathParams(q.in.path)} :
         /\ matches(rules[i], ip, path)
         /\ \A j \in 1..(i - 1) : rules[j].action # "allow" => ~matches(rules[j], ip, path)
  BY <1>2, <1>3 DEF RuleHits
<1> QED BY <1>2, <1>3, <1>4 DEF NamedByAllowRule

\* A service that is restricted, itself or by its first group, has that policy,
\* and whom the policy lets in is listed there.
LEMMA RestrictedPolicy ==
    ASSUME NEW s \in Services, Restricted(s), NEW u
    PROVE  /\ Policy(s).mode = "restricted"
           /\ isAllowedByRestrictedPolicy(u, Policy(s)) => Listed(u, s)
<1>1. CASE ~s.useGroupPolicy
  <2>1. s.mode = "restricted"
    BY <1>1 DEF Restricted
  <2>2. Policy(s) = [mode |-> s.mode, roles |-> s.roles, groups |-> s.groups]
    BY <1>1, <2>1 DEF Policy, EffectiveAccessForService, normalizedPolicy
  <2> QED BY <1>1, <2>1, <2>2 DEF isAllowedByRestrictedPolicy, Listed
<1>2. CASE s.useGroupPolicy
  <2> DEFINE with == {g \in s.serviceGroups : g.mode # "" \/ g.method # ""}
  <2>1. PICK g \in FirstPolicies(s) : g.mode = "restricted"
    BY <1>2 DEF Restricted
  <2>r. /\ \A h \in with : h \in s.serviceGroups /\ h.id \in Nat
        /\ \A h, k \in with : h.id = k.id => h = k
    BY RowsAssumption
  <2>2. g \in with /\ \A h \in with : ~(h.id < g.id)
    BY <2>1 DEF FirstPolicies
  <2>w. with # {} => DecidingGroup(with) = CHOOSE k \in with : \A h \in with : k.id <= h.id
    BY DEF DecidingGroup
  <2> HIDE DEF with
  <2>3. /\ \A h \in with : g.id <= h.id
        /\ \A h \in with : (\A k \in with : h.id <= k.id) => h.id = g.id
    BY <2>2, <2>r
  <2>4. DecidingGroup(with) = g
    BY <2>2, <2>3, <2>r, <2>w
  <2>5. g # None
    BY <2>2, <2>r, RowsAssumption
  <2>6. Policy(s) = normalizedPolicy([mode |-> g.mode, roles |-> g.roles, groups |-> g.groups],
                                     s.legacy)
    BY <1>2, <2>4, <2>5 DEF Policy, EffectiveAccessForService, with
  <2>7. Policy(s) = [mode |-> g.mode, roles |-> g.roles, groups |-> g.groups]
    BY <2>1, <2>6 DEF normalizedPolicy
  <2> QED BY <1>2, <2>1, <2>7 DEF isAllowedByRestrictedPolicy, Listed
<1> QED BY <1>1, <1>2

\* The addresses a service is limited to are addresses, wherever they come from.
LEMMA EmailsAreEmails ==
    ASSUME NEW s \in Services
    PROVE  EffectiveAccessForService(s).emails \subseteq Emails
<1> DEFINE with == {g \in s.serviceGroups : g.mode # "" \/ g.method # ""}
           g == DecidingGroup(with)
<1>1. s.emails \subseteq Emails
  BY RowsAssumption
<1>2. ASSUME g # None PROVE g.emails \subseteq Emails
  <2>1. with # {}
    BY <1>2 DEF DecidingGroup
  <2> DEFINE Ids == {k.id : k \in with}
  <2>2. Ids \subseteq Nat /\ Ids # {}
    <3>1. \A k \in with : k.id \in Nat
      BY RowsAssumption
    <3> QED BY <2>1, <3>1
  <2>3. \E k \in with : \A h \in with : k.id <= h.id
    <3>1. Min(Ids) \in Ids /\ \A y \in Ids : Min(Ids) <= y
      BY <2>2, Smallest
    <3> QED BY <3>1
  <2>4. g \in with
    BY <2>1, <2>3 DEF DecidingGroup
  <2> QED BY <2>4, RowsAssumption
<1> HIDE DEF with, g
<1>3. EffectiveAccessForService(s).emails \in {s.emails} \union (IF g # None THEN {g.emails} ELSE {})
  BY DEF EffectiveAccessForService, g, with
<1> QED BY <1>1, <1>2, <1>3

\* The access methods of a service.
LEMMA MethodKinds ==
    ASSUME NEW s
    PROVE  Method(s) \in {"oidc_only", "pin", "email_code", "session"}
  BY DEF Method, EffectiveAccessForService, normalizedAccessMethod

\* The rows in use are rows an administrator may save.
LEMMA RowsTyped ==
    ASSUME TypeOK
    PROVE  svc \in Services /\ usr \in Users /\ now \in Nat
           /\ Setups[setup].services \subseteq Services /\ Setups[setup].users \subseteq Users
           /\ Setups[setup].requests \subseteq Requests /\ Setups[setup].inputs \subseteq Inputs
  BY SetupsAssumption, TimesAssumption DEF TypeOK

\* The records that stand for nothing have their types.
LEMMA NothingTyped ==
    Idle \in Request /\ NoToken \in TokenRow /\ NoBridge \in BridgeToken /\ NoCookie \in Cookie
  BY DEF Idle, Request, PCs, Ways, Emailed, NoToken, TokenRow, NoBridge, BridgeToken, NoCookie,
     Cookie

\* What an idle request and a token that was not issued show.
LEMMA NothingFields == Idle.pc = "idle" /\ NoBridge.kind = "none"
  BY DEF Idle, NoBridge

\* A decision stands while addresses are only added to the proven ones.
LEMMA DecisionStands ==
    ASSUME NEW r \in Requests, req'[r] = req[r], proven \subseteq proven', Decided(req[r])
    PROVE  Decided(req[r])'
  BY DEF Decided

-----------------------------------------------------------------------------
(* Steps of a request that change nothing but its own variables.           *)

\* The record of one request is replaced.
LEMMA RequestStep ==
    ASSUME AccessInv, NEW r \in Requests, NEW q \in Request, req' = [req EXCEPT ![r] = q],
           UNCHANGED <<setup, now, svc, usr, token, bridge, redis, local, jar, opened, failed,
                       forgotten, proven>>,
           Decided(q)
    PROVE  AccessInv'
<1> USE DEF AccessInv
<1>1. req' \in [Requests -> Request] /\ req'[r] = q /\ \A z \in Requests : z # r => req'[z] = req[z]
  BY DEF TypeOK
<1>2. TypeOK'
  BY <1>1 DEF TypeOK
<1>3. UnusedUnopened' /\ Remembered' /\ AddressesProven'
  BY DEF UnusedUnopened, Remembered, Uses, AddressesProven
<1>4. ASSUME NEW z \in Requests PROVE Decided(req[z])'
  <2>1. CASE z = r
    BY <1>1, <2>1 DEF Decided
  <2>2. CASE z # r
    BY <1>1, <2>2, DecisionStands
  <2> QED BY <2>1, <2>2
<1> QED BY <1>2, <1>3, <1>4

\* Nothing is decided about an idle request.
LEMMA IdleDecided == Decided(Idle)
  BY DEF Decided, Idle

\* The rule and the mode depend on the copy of the service and on the rule.
LEMMA SameRow ==
    ASSUME NEW p, NEW q, p.svc = q.svc, p.rule = q.rule
    PROVE  RuleAction(p) = RuleAction(q) /\ ModeOf(p) = ModeOf(q)
  BY DEF RuleAction, ModeOf

\* The fields of a request.
LEMMA RequestFields ==
    ASSUME TypeOK, NEW r \in Requests
    PROVE  /\ req[r].pc \in PCs /\ req[r].in \in Inputs \union {None}
           /\ req[r].svc \in Services \union {None} /\ req[r].rule \in Nat
           /\ req[r].user \in Visitor \union {None} /\ req[r].token \in Tokens \union {None}
           /\ req[r].method \in Ways /\ req[r].email \in Emailed
           /\ req[r] \in Request
  BY DEF TypeOK, Request

\* The response ends, or the request was refused.
LEMMA FinishKeeps ==
    ASSUME AccessInv, NEW r \in Requests, Finish(r)
    PROVE  AccessInv'
<1> DEFINE q == Idle
<1>1. q \in Request /\ Decided(q)
  BY NothingTyped, IdleDecided
<1>2. req' = [req EXCEPT ![r] = q]
  BY DEF Finish, Return
<1> HIDE DEF q
<1> QED BY <1>1, <1>2, RequestStep DEF Finish

\* A request arrives and a rule is found for it.
LEMMA ArriveKeeps ==
    ASSUME AccessInv, NEW r \in Requests, NEW in \in Inputs, Arrive(r, in)
    PROVE  AccessInv'
<1> DEFINE i == matchAccessRule(svc.rules, realClientIP(in), in.path)
           q == [Idle EXCEPT !.pc = "authorize", !.in = in, !.svc = svc, !.rule = i]
<1>1. svc \in Services /\ i \in Nat
  BY RowsTyped, RowsAssumption, FirstHit DEF AccessInv
<1>2. req' = [req EXCEPT ![r] = q]
  BY DEF Arrive
<1>3. q.pc = "authorize" /\ q.in = in /\ q.svc = svc /\ q.rule = i
  BY DEF Idle
<1> HIDE DEF i
<1>4. q \in Request
  BY <1>1, NothingTyped DEF Request, Idle, PCs, Ways, Emailed
<1> HIDE DEF q
<1>5. Decided(q)
  BY <1>1, <1>3 DEF Decided, i
<1> QED BY <1>2, <1>4, <1>5, RequestStep DEF Arrive

\* The access method and the access mode let the request pass.
LEMMA AuthorizeKeeps ==
    ASSUME AccessInv, NEW r \in Requests, Authorize(r)
    PROVE  AccessInv'
<1> DEFINE p == req[r]
           asked == Method(p.svc) = "oidc_only" \/ (Method(p.svc) = "session" /\ ModeOf(p) # "public")
           user == IF asked /\ RuleAction(p) # "allow" THEN authenticateProxyRequest(p.in) ELSE None
           q == [p EXCEPT !.pc = "finish", !.user = user]
<1>1. /\ p.pc = "authorize" /\ (RuleAction(p) = "allow" \/ authorizeRequest(p, user))
      /\ req' = [req EXCEPT ![r] = q]
  BY RequestFields DEF Authorize, AccessInv, TypeOK
<1>2. user \in Visitor \union {None}
  BY RowsTyped DEF AccessInv, authenticateProxyRequest, authenticateAPIToken, Visitor
<1>3. p \in Request /\ Decided(p)
  BY RequestFields DEF AccessInv
<1> HIDE DEF user
<1>4. q \in Request
  BY <1>2, RequestFields DEF AccessInv, Request, PCs
<1>5. q.pc = "finish" /\ q.user = user /\ q.in = p.in /\ q.svc = p.svc /\ q.rule = p.rule
  BY RequestFields DEF AccessInv, Request
<1> HIDE DEF q
<1>6. RuleAction(q) = RuleAction(p) /\ ModeOf(q) = ModeOf(p)
  BY <1>5, SameRow
<1>7. /\ p.svc \in Services /\ p.in \in Inputs
      /\ p.rule = matchAccessRule(p.svc.rules, realClientIP(p.in), p.in.path)
  BY <1>1, <1>3 DEF Decided
<1>8. ASSUME RuleAction(p) # "allow", user = None
      PROVE  ModeOf(p) = "public" \/ Method(p.svc) \in {"pin", "email_code"}
  BY <1>1, <1>8, MethodKinds DEF authorizeRequest
<1>9. ASSUME RuleAction(p) # "allow", Method(p.svc) = "email_code",
             EffectiveAccessForService(p.svc).emails # {}
      PROVE  EffectiveAccessForService(p.svc).emails \cap proven # {}
  <2>1. enforceAccessMethod(p.svc)
    BY <1>1, <1>9 DEF authorizeRequest
  <2>2. /\ jar.route.method = "email_code"
        /\ jar.route.email \in EffectiveAccessForService(p.svc).emails
    BY <1>9, <2>1 DEF enforceAccessMethod, routeEmailAllowed
  <2>3. jar.route.email # None
    BY <1>7, <2>2, EmailsAreEmails, NamesAssumption
  <2> QED BY <2>2, <2>3 DEF AccessInv, AddressesProven
<1>10. Decided(q)
  BY <1>5, <1>6, <1>7, <1>8, <1>9 DEF Decided
<1> QED BY <1>1, <1>4, <1>10, RequestStep DEF Authorize

\* The windows are open and the policy lets the user in.
LEMMA ForwardKeeps ==
    ASSUME AccessInv, NEW r \in Requests, Forward(r)
    PROVE  AccessInv'
<1> DEFINE p == req[r]
           q == [p EXCEPT !.pc = "forward"]
<1>1. p.pc = "finish" /\ RestrictedOK(p) /\ req' = [req EXCEPT ![r] = q]
  BY RequestFields DEF Forward, AccessInv, TypeOK
<1>2. Decided(p)
  BY DEF AccessInv
<1>3. q \in Request
  BY RequestFields DEF AccessInv, Request, PCs
<1>4. q.pc = "forward" /\ q.user = p.user /\ q.in = p.in /\ q.svc = p.svc /\ q.rule = p.rule
  BY RequestFields DEF AccessInv, Request
<1> HIDE DEF q
<1>5. RuleAction(q) = RuleAction(p) /\ ModeOf(q) = ModeOf(p)
  BY <1>4, SameRow
<1>6. Decided(q)
  BY <1>1, <1>2, <1>4, <1>5 DEF Decided, RestrictedOK
<1> QED BY <1>1, <1>3, <1>6, RequestStep DEF Forward

\* A code is looked up.
LEMMA VerifyLookupKeeps ==
    ASSUME AccessInv, NEW r \in Requests, NEW t \in Tokens, VerifyLookup(r, t)
    PROVE  AccessInv'
<1> DEFINE q == [Idle EXCEPT !.pc = "verify", !.token = t, !.svc = svc, !.email = token[t].email]
<1>1. svc \in Services /\ token[t].email \in Emails
  BY RowsTyped DEF AccessInv, VerifyLookup, Usable
<1>2. req' = [req EXCEPT ![r] = q]
  BY DEF VerifyLookup
<1>3. q.pc = "verify" /\ q.token = t /\ q.email = token[t].email
  BY DEF Idle
<1>4. q \in Request
  BY <1>1, NothingTyped DEF Request, Idle, PCs, Ways, Emailed
<1> HIDE DEF q
<1>5. Decided(q)
  BY <1>1, <1>3 DEF Decided
<1> QED BY <1>2, <1>4, <1>5, RequestStep DEF VerifyLookup

\* A magic link is looked up.
LEMMA MagicLookupKeeps ==
    ASSUME AccessInv, NEW r \in Requests, NEW t \in Tokens, MagicLookup(r, t)
    PROVE  AccessInv'
<1> DEFINE m == magicLinkMethod(svc)
           q == [Idle EXCEPT !.pc = "magic", !.token = t, !.method = m]
<1>1. m \in Ways
  BY DEF magicLinkMethod, Ways
<1>2. req' = [req EXCEPT ![r] = q]
  BY DEF MagicLookup
<1> HIDE DEF m
<1>3. q.pc = "magic" /\ q.token = t
  BY DEF Idle
<1>4. q \in Request
  BY <1>1, NothingTyped DEF Request, Idle, PCs, Ways, Emailed
<1> HIDE DEF q
<1>5. Decided(q)
  BY <1>3 DEF Decided
<1> QED BY <1>2, <1>4, <1>5, RequestStep DEF MagicLookup

-----------------------------------------------------------------------------
(* Credentials, administration and time.                                   *)

\* The decisions about all requests stand.
LEMMA DecisionsStand ==
    ASSUME AccessInv, req' = req, proven \subseteq proven'
    PROVE  \A r \in Requests : Decided(req[r])'
  BY DecisionStands DEF AccessInv

\* The clock goes on: what is remembered stays remembered.
LEMMA TickKeeps ==
    ASSUME AccessInv, Tick
    PROVE  AccessInv'
<1> USE DEF AccessInv, Tick
<1>1. now \in Nat /\ now' = now + 1 /\ now' \in 0..MaxNow
  BY TimesAssumption DEF TypeOK
<1>2. TypeOK'
  BY <1>1 DEF TypeOK
<1>3. UnusedUnopened' /\ AddressesProven'
  BY DEF UnusedUnopened, AddressesProven
<1>4. Remembered'
  <2>1. \A b \in Bridges : bridge[b].exp \in Nat /\ \A x \in local[b] : x \in Nat
    BY DEF TypeOK, BridgeToken
  <2>2. \A b \in Bridges : bridge[b].exp <= now + BridgeTTL => bridge[b].exp <= now' + BridgeTTL
    BY <1>1, <2>1, TimesAssumption
  <2>3. \A b \in Bridges : \A x \in local[b] : x <= now => x <= now'
    BY <1>1, <2>1
  <2> QED BY <2>2, <2>3 DEF Remembered, Uses
<1> QED BY <1>2, <1>3, <1>4, DecisionsStand

\* An administrator saves a service.
LEMMA SaveServiceKeeps ==
    ASSUME AccessInv, NEW s \in Setups[setup].services, SaveService(s)
    PROVE  AccessInv'
<1> USE DEF AccessInv, SaveService
<1>1. TypeOK'
  BY DEF TypeOK
<1>2. UnusedUnopened' /\ AddressesProven' /\ Remembered'
  BY DEF UnusedUnopened, AddressesProven, Remembered, Uses
<1> QED BY <1>1, <1>2, DecisionsStand

\* The user or the login session changes.
LEMMA ChangeUserKeeps ==
    ASSUME AccessInv, NEW u \in Setups[setup].users, ChangeUser(u)
    PROVE  AccessInv'
<1> USE DEF AccessInv, ChangeUser
<1>1. TypeOK'
  BY DEF TypeOK
<1>2. UnusedUnopened' /\ AddressesProven' /\ Remembered'
  BY DEF UnusedUnopened, AddressesProven, Remembered, Uses
<1> QED BY <1>1, <1>2, DecisionsStand

\* A bridge token is issued: nobody has used it.
LEMMA BridgeIssued ==
    ASSUME AccessInv, NEW b \in Bridges, bridge[b] = NoBridge, NEW x \in BridgeToken,
           bridge' = [bridge EXCEPT ![b] = x], x.kind # "none", x.exp = now + BridgeTTL,
           x.method = "email_code" => x.email \in proven' \union {None},
           proven \subseteq proven', \A y \in Bridges : opened'[y] = opened[y],
           jar'.route = jar.route \/
             (jar'.route.method = "email_code" => jar'.route.email \in proven' \union {None}),
           UNCHANGED <<setup, now, redis, local, failed, forgotten>>
    PROVE  bridge' \in [Bridges -> BridgeToken] /\ Remembered' /\ AddressesProven'
<1> USE DEF AccessInv
<1>1. /\ bridge' \in [Bridges -> BridgeToken] /\ bridge'[b] = x
      /\ \A y \in Bridges : y # b => bridge'[y] = bridge[y]
  BY DEF TypeOK
<1>2. redis[b].n = 0 /\ local[b] = {} /\ forgotten[b] = 0 /\ opened[b] <= Uses(b)
  <2>1. bridge[b].kind = "none"
    BY NothingFields
  <2> QED BY <2>1 DEF Remembered
<1>3. AddressesProven'
  BY <1>1 DEF AddressesProven
<1>4. now + BridgeTTL <= now + BridgeTTL
  BY TimesAssumption, RowsTyped
<1>5. ASSUME NEW y \in Bridges
      PROVE  /\ opened'[y] <= Uses(y)'
             /\ redis'[y].n # 0 => Setups[setup'].redis
             /\ local'[y] # {} \/ forgotten'[y] # 0 => failed' \/ ~Setups[setup'].redis
             /\ bridge'[y].kind = "none" => redis'[y].n = 0 /\ local'[y] = {} /\ forgotten'[y] = 0
             /\ bridge'[y].exp <= now' + BridgeTTL
             /\ redis'[y].n # 0 => redis'[y].exp > bridge'[y].exp
             /\ \A z \in local'[y] : z <= now' /\ z + JtiWindow > bridge'[y].exp
  <2>1. CASE y = b
    BY <1>1, <1>2, <1>4, <2>1 DEF Uses
  <2>2. CASE y # b
    BY <1>1, <2>2 DEF Uses, Remembered
  <2> QED BY <2>1, <2>2
<1>6. Remembered'
  BY <1>5 DEF Remembered
<1> QED BY <1>1, <1>3, <1>6

\* A bridge token for a login or for a route.
LEMMA BridgeRecords ==
    ASSUME TypeOK, NEW m \in Ways, NEW e \in Emailed
    PROVE  /\ [kind |-> "session", method |-> "", email |-> None,
               host |-> issueHostSessionToken, exp |-> now + BridgeTTL] \in BridgeToken
           /\ [kind |-> "route", method |-> m, email |-> e,
               host |-> 0, exp |-> now + BridgeTTL] \in BridgeToken
<1>1. now + BridgeTTL \in Nat /\ now + TokenTTL \in Nat
  BY RowsTyped, TimesAssumption
<1> QED BY <1>1 DEF BridgeToken, Ways, Emailed, issueHostSessionToken

\* A route access cookie is set, or not: the address in it is the one given.
LEMMA CookieSet ==
    ASSUME TypeOK, NEW m \in Ways, NEW e \in Emailed, SetCookieHere(m, e)
    PROVE  /\ jar' \in [route: Cookie, host: Nat]
           /\ jar'.route = jar.route \/ (jar'.route.method = m /\ jar'.route.email = e)
<1> DEFINE x == [method |-> m, email |-> e, exp |-> now + RouteTTL]
<1>1. x \in Cookie /\ x.method = m /\ x.email = e
  <2>1. now + RouteTTL \in Nat
    BY RowsTyped, TimesAssumption
  <2> QED BY <2>1 DEF Cookie
<1>2. jar' = jar \/ jar' = [jar EXCEPT !.route = x]
  BY DEF SetCookieHere, SetRouteAccessCookie
<1> HIDE DEF x
<1> QED BY <1>1, <1>2 DEF TypeOK

\* The right pin was given.
LEMMA RoutePINKeeps ==
    ASSUME AccessInv, NEW b \in Bridges, RoutePIN(b)
    PROVE  AccessInv'
<1> USE DEF AccessInv, RoutePIN
<1> DEFINE x == [kind |-> "route", method |-> "pin", email |-> None,
                 host |-> 0, exp |-> now + BridgeTTL]
<1>1. x \in BridgeToken /\ x.kind # "none" /\ x.exp = now + BridgeTTL /\ x.method = "pin"
  BY BridgeRecords DEF Ways, Emailed
<1>2. bridge[b] = NoBridge /\ bridge' = [bridge EXCEPT ![b] = x]
  BY DEF IssueRouteAccessBridgeToken
<1> HIDE DEF x
<1>c. /\ jar' \in [route: Cookie, host: Nat]
      /\ jar'.route = jar.route \/ (jar'.route.method = "pin" /\ jar'.route.email = None)
  BY CookieSet DEF Ways, Emailed
<1>3. bridge' \in [Bridges -> BridgeToken] /\ Remembered' /\ AddressesProven'
  BY <1>1, <1>2, <1>c, BridgeIssued
<1>4. TypeOK' /\ UnusedUnopened'
  BY <1>3, <1>c DEF TypeOK, UnusedUnopened
<1> QED BY <1>3, <1>4, DecisionsStand

\* A login is carried over to the host of the service.
LEMMA CreateSessionBridgeKeeps ==
    ASSUME AccessInv, NEW b \in Bridges, CreateSessionBridge(b)
    PROVE  AccessInv'
<1> USE DEF AccessInv, CreateSessionBridge
<1> DEFINE x == [kind |-> "session", method |-> "", email |-> None,
                 host |-> issueHostSessionToken, exp |-> now + BridgeTTL]
<1>1. x \in BridgeToken /\ x.kind # "none" /\ x.exp = now + BridgeTTL /\ x.method = ""
  BY BridgeRecords DEF Ways, Emailed
<1>2. bridge[b] = NoBridge /\ bridge' = [bridge EXCEPT ![b] = x]
  BY DEF IssueSessionBridgeToken
<1> HIDE DEF x
<1>3. bridge' \in [Bridges -> BridgeToken] /\ Remembered' /\ AddressesProven'
  BY <1>1, <1>2, BridgeIssued
<1>4. TypeOK' /\ UnusedUnopened'
  BY <1>3 DEF TypeOK, UnusedUnopened
<1> QED BY <1>3, <1>4, DecisionsStand

\* A row of login_tokens is written.
LEMMA TokenIssued ==
    ASSUME AccessInv, NEW t \in Tokens, NEW scope \in {"route_access", "magic_link"},
           NEW e \in Emailed,
           scope = "route_access" => e \in Emails, NewToken(t, scope, e),
           UNCHANGED <<setup, now, svc, usr, bridge, redis, local, jar, req, opened, failed,
                       forgotten, proven>>
    PROVE  AccessInv'
<1> USE DEF AccessInv
<1> DEFINE x == [scope |-> scope, email |-> e, used |-> FALSE, exp |-> now + CodeTTL]
<1>1. now + CodeTTL \in Nat
  BY RowsTyped, TimesAssumption
<1>2. x \in TokenRow /\ x.scope = scope /\ x.email = e /\ x.used = FALSE
  BY <1>1 DEF TokenRow
<1>3. ~token[t].used /\ token' = [token EXCEPT ![t] = x]
  BY DEF NewToken, NoToken
<1> HIDE DEF x
<1>4. /\ token' \in [Tokens -> TokenRow] /\ token'[t] = x
      /\ \A y \in Tokens : y # t => token'[y] = token[y]
  BY <1>2, <1>3 DEF TypeOK
<1>5. TypeOK'
  BY <1>4 DEF TypeOK
<1>6. \A y \in Tokens : token'[y].scope = "route_access" => token'[y].email \in Emails
  BY <1>2, <1>4
<1>7. UnusedUnopened'
  BY <1>3, <1>4 DEF UnusedUnopened
<1>8. Remembered' /\ AddressesProven'
  BY DEF Remembered, Uses, AddressesProven
<1> QED BY <1>5, <1>6, <1>7, <1>8, DecisionsStand

\* A code is used, or a link: the row was not used before.
LEMMA Marked ==
    ASSUME AccessInv, NEW t \in Tokens, MarkUsedMatches(t),
           token' = [token EXCEPT ![t].used = TRUE],
           \/ opened' = opened
           \/ opened' = [opened EXCEPT ![t] = @ + 1]
    PROVE  /\ token' \in [Tokens -> TokenRow]
           /\ opened' \in [Tokens \union Bridges -> Nat]
           /\ \A y \in Bridges : opened'[y] = opened[y]
           /\ \A y \in Tokens : token'[y].scope = "route_access" => token'[y].email \in Emails
           /\ UnusedUnopened'
<1> USE DEF AccessInv
<1> DEFINE x == [token[t] EXCEPT !.used = TRUE]
<1>1. /\ x \in TokenRow /\ x.scope = token[t].scope /\ x.email = token[t].email /\ x.used = TRUE
      /\ token' = [token EXCEPT ![t] = x]
  <2>1. token[t] \in TokenRow
    BY DEF TypeOK
  <2>2. x \in TokenRow /\ x.scope = token[t].scope /\ x.email = token[t].email /\ x.used = TRUE
    BY <2>1 DEF TokenRow
  <2> QED BY <2>2 DEF TypeOK
<1> HIDE DEF x
<1>2. /\ token' \in [Tokens -> TokenRow] /\ token'[t] = x
      /\ \A y \in Tokens : y # t => token'[y] = token[y]
  BY <1>1 DEF TypeOK
<1>3. opened[t] = 0
  BY DEF UnusedUnopened, MarkUsedMatches
<1>4. /\ opened' \in [Tokens \union Bridges -> Nat]
      /\ opened'[t] <= 1
      /\ \A y \in Tokens \union Bridges : y # t => opened'[y] = opened[y]
  BY <1>3 DEF TypeOK
<1>5. \A y \in Bridges : y # t
  BY NamesAssumption
<1>6. UnusedUnopened'
  BY <1>1, <1>2, <1>4 DEF UnusedUnopened
<1> QED BY <1>1, <1>2, <1>4, <1>5, <1>6

\* A code is presented and used.
LEMMA VerifyMarkKeeps ==
    ASSUME AccessInv, NEW r \in Requests, NEW b \in Bridges, VerifyMark(r, b)
    PROVE  AccessInv'
<1> USE DEF AccessInv, VerifyMark
<1> DEFINE t == req[r].token
           e == req[r].email
           x == [kind |-> "route", method |-> "email_code", email |-> e,
                 host |-> 0, exp |-> now + BridgeTTL]
<1>1. t \in Tokens /\ e \in Emails
  BY DEF Decided
<1>2. /\ token' \in [Tokens -> TokenRow]
      /\ opened' \in [Tokens \union Bridges -> Nat]
      /\ \A y \in Bridges : opened'[y] = opened[y]
      /\ \A y \in Tokens : token'[y].scope = "route_access" => token'[y].email \in Emails
      /\ UnusedUnopened'
  BY <1>1, Marked
<1>3. proven' = proven \union {e} /\ UNCHANGED <<setup, now, svc, usr, redis, local, failed, forgotten>>
  OBVIOUS
<1>4. req' \in [Requests -> Request] /\ req'[r] = Idle /\ \A z \in Requests : z # r => req'[z] = req[z]
  BY NothingTyped DEF Return, TypeOK
<1>c. /\ jar' \in [route: Cookie, host: Nat]
      /\ jar'.route = jar.route \/ (jar'.route.method = "email_code" /\ jar'.route.email = e)
  <2>1. CASE jar' = jar
    BY <2>1 DEF TypeOK
  <2>2. CASE SetCookieHere("email_code", e)
    BY <1>1, <2>2, CookieSet DEF Ways, Emailed
  <2> QED BY <2>1, <2>2
<1>5. bridge' \in [Bridges -> BridgeToken] /\ Remembered' /\ AddressesProven'
  <2>1. CASE bridge' = bridge
    <3>1. Remembered'
      BY <1>2, <1>3, <2>1 DEF Remembered, Uses
    <3>2. AddressesProven'
      BY <1>3, <1>c, <2>1 DEF AddressesProven
    <3> QED BY <3>1, <3>2, <2>1 DEF TypeOK
  <2>2. CASE bridge[b] = NoBridge /\ bridge' = [bridge EXCEPT ![b] = x]
    <3>1. /\ x \in BridgeToken /\ x.kind # "none" /\ x.exp = now + BridgeTTL
          /\ x.method = "email_code" /\ x.email = e
      BY <1>1, BridgeRecords DEF Ways, Emailed
    <3> HIDE DEF x
    <3> QED BY <1>2, <1>3, <1>c, <2>2, <3>1, BridgeIssued
  <2> QED BY <2>1, <2>2 DEF IssueRouteAccessBridgeToken
<1>6. TypeOK'
  BY <1>1, <1>2, <1>3, <1>4, <1>5, <1>c DEF TypeOK
<1>7. \A z \in Requests : Decided(req[z])'
  <2>1. Decided(req[r])'
    <3>1. req'[r].pc = "idle"
      BY <1>4, NothingFields
    <3> QED BY <3>1 DEF Decided
  <2>2. \A z \in Requests : z # r => Decided(req[z])'
    BY <1>3, <1>4, DecisionStands
  <2> QED BY <2>1, <2>2
<1> QED BY <1>2, <1>5, <1>6, <1>7

\* A magic link is used: the cookie carries no address.
LEMMA MagicMarkKeeps ==
    ASSUME AccessInv, NEW r \in Requests, MagicMark(r)
    PROVE  AccessInv'
<1> USE DEF AccessInv, MagicMark
<1> DEFINE t == req[r].token
           x == [method |-> req[r].method, email |-> None, exp |-> now + RouteTTL]
<1>1. t \in Tokens
  BY DEF Decided
<1>2. /\ token' \in [Tokens -> TokenRow]
      /\ opened' \in [Tokens \union Bridges -> Nat]
      /\ \A y \in Bridges : opened'[y] = opened[y]
      /\ \A y \in Tokens : token'[y].scope = "route_access" => token'[y].email \in Emails
      /\ UnusedUnopened'
  BY <1>1, Marked
<1>3. UNCHANGED <<setup, now, svc, usr, bridge, redis, local, failed, forgotten, proven>>
  OBVIOUS
<1>4. req' \in [Requests -> Request] /\ req'[r] = Idle /\ \A z \in Requests : z # r => req'[z] = req[z]
  BY NothingTyped DEF Return, TypeOK
<1>5. x \in Cookie /\ x.email = None
  <2>1. now + RouteTTL \in Nat
    BY RowsTyped, TimesAssumption
  <2> QED BY <2>1, RequestFields DEF Cookie, Emailed
<1>6. jar' \in [route: Cookie, host: Nat] /\ jar'.route = x
  BY <1>5 DEF SetRouteAccessCookie, TypeOK
<1> HIDE DEF x
<1>7. Remembered' /\ AddressesProven'
  <2>1. Remembered'
    BY <1>2, <1>3 DEF Remembered, Uses
  <2>2. AddressesProven'
    BY <1>3, <1>5, <1>6 DEF AddressesProven
  <2> QED BY <2>1, <2>2
<1>8. TypeOK'
  BY <1>2, <1>3, <1>4, <1>6 DEF TypeOK
<1>9. \A z \in Requests : Decided(req[z])'
  <2>1. Decided(req[r])'
    <3>1. req'[r].pc = "idle"
      BY <1>4, NothingFields
    <3> QED BY <3>1 DEF Decided
  <2>2. \A z \in Requests : z # r => Decided(req[z])'
    BY <1>3, <1>4, DecisionStands
  <2> QED BY <2>1, <2>2
<1> QED BY <1>2, <1>7, <1>8, <1>9

\* A bridge token is redeemed: what the two counters remember.
LEMMA BridgeRedeemed ==
    ASSUME AccessInv, NEW b \in Bridges, NEW itself \in CountsItself, Consumed(b, itself),
           bridge[b].kind # "none", bridge[b].exp > now, UNCHANGED <<setup, now, bridge, token,
           forgotten>>
    PROVE  /\ redis' \in [Bridges -> [n: 0..2, exp: Nat]] /\ local' \in [Bridges -> SUBSET Nat]
           /\ opened' \in [Tokens \union Bridges -> Nat] /\ failed' \in BOOLEAN
           /\ UnusedUnopened' /\ Remembered'
<1> USE DEF AccessInv
<1> DEFINE e == bridge[b].exp
           allowed == ConsumeBridgeToken(b, itself)
<1>1. /\ now \in Nat /\ e \in Nat /\ e > now /\ e <= now + BridgeTTL
      /\ BridgeTTL \in Nat /\ JtiWindow \in Nat /\ JtiWindow > BridgeTTL
      /\ now + JtiWindow > e
  BY RowsTyped, TimesAssumption DEF TypeOK, BridgeToken, Remembered
<1>2. /\ redis[b].n \in 0..2 /\ redis[b].exp \in Nat /\ local[b] \subseteq Nat
      /\ redis[b].n # 0 => redis[b].exp > e
      /\ \A x \in local[b] : x <= now /\ x + JtiWindow > e
      /\ opened[b] \in Nat /\ opened[b] <= Uses(b)
      /\ local[b] # {} \/ forgotten[b] # 0 => failed \/ ~Setups[setup].redis
      /\ redis[b].n # 0 => Setups[setup].redis
      /\ forgotten[b] \in Nat
  BY DEF TypeOK, Remembered
<1>r. Setups[setup].redis \in BOOLEAN /\ itself \in BOOLEAN /\ (~itself => Setups[setup].redis)
  <2>1. Setups[setup].redis \in BOOLEAN
    BY SetupsAssumption DEF TypeOK
  <2> QED BY <2>1 DEF CountsItself
<1>3. /\ failed' = (failed \/ (itself /\ Setups[setup].redis)) /\ failed' \in BOOLEAN
      /\ forgotten' = forgotten /\ setup' = setup
  BY <1>r DEF Consumed, TypeOK
<1>4. /\ opened' \in [Tokens \union Bridges -> Nat]
      /\ opened'[b] = IF allowed THEN opened[b] + 1 ELSE opened[b]
      /\ \A y \in Tokens \union Bridges : y # b => opened'[y] = opened[y]
  BY DEF Consumed, TypeOK
<1>5. UnusedUnopened'
  <2>1. \A t \in Tokens : t # b
    BY NamesAssumption
  <2> QED BY <1>4, <2>1 DEF UnusedUnopened
<1> HIDE DEF allowed
<1>6. /\ redis' \in [Bridges -> [n: 0..2, exp: Nat]] /\ local' \in [Bridges -> SUBSET Nat]
      /\ \A y \in Bridges : y # b => redis'[y] = redis[y] /\ local'[y] = local[y]
      /\ redis'[b].n # 0 => redis'[b].exp > e
      /\ \A x \in local'[b] : x <= now /\ x + JtiWindow > e
      /\ local'[b] # {} \/ forgotten'[b] # 0 => failed' \/ ~Setups[setup].redis
      /\ redis'[b].n # 0 => Setups[setup].redis
      /\ opened'[b] <= Uses(b)'
  <2>1. CASE ~itself
    <3> DEFINE x == Incremented(b)
    <3>1. redis' = [redis EXCEPT ![b] = x] /\ local' = local /\ (allowed <=> x.n <= 1)
      BY <2>1 DEF Consumed, allowed, ConsumeBridgeToken
    <3>2. /\ x \in [n: 0..2, exp: Nat] /\ x.exp > e /\ x.n # 0
          /\ IF redis[b].n = 0 THEN x.n = 1 ELSE x.n = 2
      <4>1. CASE redis[b].n = 0
        <5>1. x = [n |-> 1, exp |-> now + JtiWindow]
          BY <4>1 DEF Incremented
        <5> QED BY <1>1, <4>1, <5>1
      <4>2. CASE redis[b].n # 0
        <5>1. ~(now >= redis[b].exp)
          BY <1>1, <1>2, <4>2
        <5>2. x = [n |-> 2, exp |-> redis[b].exp]
          BY <4>2, <5>1 DEF Incremented
        <5> QED BY <1>2, <4>2, <5>2
      <4> QED BY <4>1, <4>2
    <3> HIDE DEF x
    <3>3. /\ redis' \in [Bridges -> [n: 0..2, exp: Nat]] /\ redis'[b] = x
          /\ \A y \in Bridges : y # b => redis'[y] = redis[y]
      BY <3>1, <3>2 DEF TypeOK
    <3>4. opened'[b] <= Uses(b)'
      BY <1>2, <1>3, <1>4, <3>1, <3>2, <3>3 DEF Uses
    <3> QED BY <1>2, <1>3, <1>r, <2>1, <3>1, <3>2, <3>3, <3>4 DEF TypeOK
  <2>2. CASE itself
    <3> DEFINE s == Counted(b)
    <3>1. redis' = redis /\ local' = [local EXCEPT ![b] = s] /\ (allowed <=> local[b] \intersect s = {})
      BY <2>2 DEF Consumed, allowed, ConsumeBridgeToken
    <3>2. /\ s = local[b] \union {now}
      <4>1. \A x \in local[b] : x > now - JtiWindow
        BY <1>1, <1>2
      <4> QED BY <4>1 DEF Counted
    <3> HIDE DEF s
    <3>3. s \in SUBSET Nat /\ s # {} /\ \A x \in s : x <= now /\ x + JtiWindow > e
      BY <1>1, <1>2, <3>2
    <3>4. /\ local' \in [Bridges -> SUBSET Nat] /\ local'[b] = s
          /\ \A y \in Bridges : y # b => local'[y] = local[y]
      BY <3>1, <3>3 DEF TypeOK
    <3>5. allowed <=> local[b] = {}
      BY <3>1, <3>2
    <3>6. opened'[b] <= Uses(b)'
      BY <1>2, <1>3, <1>4, <3>1, <3>3, <3>4, <3>5 DEF Uses
    <3> QED BY <1>2, <1>3, <1>r, <2>2, <3>1, <3>3, <3>4, <3>6 DEF TypeOK
  <2> QED BY <2>1, <2>2
<1>7. ASSUME NEW y \in Bridges
      PROVE  /\ opened'[y] <= Uses(y)'
             /\ redis'[y].n # 0 => Setups[setup'].redis
             /\ local'[y] # {} \/ forgotten'[y] # 0 => failed' \/ ~Setups[setup'].redis
             /\ bridge'[y].kind = "none" => redis'[y].n = 0 /\ local'[y] = {} /\ forgotten'[y] = 0
             /\ bridge'[y].exp <= now' + BridgeTTL
             /\ redis'[y].n # 0 => redis'[y].exp > bridge'[y].exp
             /\ \A z \in local'[y] : z <= now' /\ z + JtiWindow > bridge'[y].exp
  <2>1. CASE y = b
    BY <1>1, <1>3, <1>6, <2>1
  <2>2. CASE y # b
    <3>1. /\ redis'[y] = redis[y] /\ local'[y] = local[y] /\ opened'[y] = opened[y]
          /\ forgotten'[y] = forgotten[y] /\ Uses(y)' = Uses(y)
      BY <1>3, <1>4, <1>6, <2>2 DEF Uses
    <3> QED BY <1>3, <3>1 DEF Remembered
  <2> QED BY <2>1, <2>2
<1>8. Remembered'
  BY <1>7 DEF Remembered
<1> QED BY <1>3, <1>4, <1>5, <1>6, <1>8

\* A login arrives at the host.
LEMMA SessionBridgeKeeps ==
    ASSUME AccessInv, NEW b \in Bridges, NEW itself \in CountsItself, SessionBridge(b, itself)
    PROVE  AccessInv'
<1> USE DEF AccessInv, SessionBridge
<1>1. bridge[b].kind # "none" /\ bridge[b].exp > now /\ bridge[b].host \in Nat
  BY DEF BridgeValid, TypeOK, BridgeToken
<1>2. /\ redis' \in [Bridges -> [n: 0..2, exp: Nat]] /\ local' \in [Bridges -> SUBSET Nat]
      /\ opened' \in [Tokens \union Bridges -> Nat] /\ failed' \in BOOLEAN
      /\ UnusedUnopened' /\ Remembered'
  BY <1>1, BridgeRedeemed
<1>3. jar' \in [route: Cookie, host: Nat] /\ jar'.route = jar.route
  BY <1>1 DEF SetSessionCookieForHost, TypeOK
<1>4. TypeOK' /\ AddressesProven'
  BY <1>2, <1>3 DEF TypeOK, AddressesProven
<1> QED BY <1>2, <1>4, DecisionsStand

\* A pin or a code arrives at the host.
LEMMA RouteAccessBridgeKeeps ==
    ASSUME AccessInv, NEW b \in Bridges, NEW itself \in CountsItself, RouteAccessBridge(b, itself)
    PROVE  AccessInv'
<1> USE DEF AccessInv, RouteAccessBridge
<1> DEFINE x == [method |-> bridge[b].method, email |-> bridge[b].email, exp |-> now + RouteTTL]
<1>1. bridge[b].kind # "none" /\ bridge[b].exp > now
  BY DEF BridgeValid
<1>2. /\ redis' \in [Bridges -> [n: 0..2, exp: Nat]] /\ local' \in [Bridges -> SUBSET Nat]
      /\ opened' \in [Tokens \union Bridges -> Nat] /\ failed' \in BOOLEAN
      /\ UnusedUnopened' /\ Remembered'
  BY <1>1, BridgeRedeemed
<1>3. x \in Cookie /\ x.method = bridge[b].method /\ x.email = bridge[b].email
  <2>1. now + RouteTTL \in Nat
    BY RowsTyped, TimesAssumption
  <2>2. bridge[b].method \in Ways /\ bridge[b].email \in Emailed
    BY DEF TypeOK, BridgeToken
  <2> QED BY <2>1, <2>2 DEF Cookie
<1>4. jar' = jar \/ jar' = [jar EXCEPT !.route = x]
  BY DEF SetRouteAccessCookie
<1> HIDE DEF x
<1>5. jar' \in [route: Cookie, host: Nat] /\ (jar'.route = jar.route \/ jar'.route = x)
  BY <1>3, <1>4 DEF TypeOK
<1>6. TypeOK'
  BY <1>2, <1>5 DEF TypeOK
<1>7. AddressesProven'
  BY <1>3, <1>5 DEF AddressesProven
<1> QED BY <1>2, <1>6, <1>7, DecisionsStand

\* The process starts again: what it counted is forgotten, and that is counted.
LEMMA RestartKeeps ==
    ASSUME AccessInv, Restart
    PROVE  AccessInv'
<1> USE DEF AccessInv, Restart
<1>1. UNCHANGED <<setup, now, svc, usr, token, bridge, redis, jar, opened, failed, proven>>
  OBVIOUS
<1>2. req' \in [Requests -> Request] /\ \A r \in Requests : req'[r] = Idle
  BY NothingTyped
<1>3. /\ local' \in [Bridges -> SUBSET Nat] /\ forgotten' \in [Bridges -> Nat]
      /\ \A b \in Bridges : /\ local'[b] = {}
                            /\ forgotten'[b] = forgotten[b] + IF local[b] = {} THEN 0 ELSE 1
  BY DEF TypeOK
<1>4. TypeOK'
  BY <1>1, <1>2, <1>3 DEF TypeOK
<1>5. UnusedUnopened' /\ AddressesProven'
  BY <1>1 DEF UnusedUnopened, AddressesProven
<1>6. ASSUME NEW y \in Bridges
      PROVE  /\ opened'[y] <= Uses(y)'
             /\ redis'[y].n # 0 => Setups[setup'].redis
             /\ local'[y] # {} \/ forgotten'[y] # 0 => failed' \/ ~Setups[setup'].redis
             /\ bridge'[y].kind = "none" => redis'[y].n = 0 /\ local'[y] = {} /\ forgotten'[y] = 0
             /\ bridge'[y].exp <= now' + BridgeTTL
             /\ redis'[y].n # 0 => redis'[y].exp > bridge'[y].exp
             /\ \A z \in local'[y] : z <= now' /\ z + JtiWindow > bridge'[y].exp
  <2>1. forgotten[y] \in Nat /\ opened[y] \in Nat
    BY DEF TypeOK
  <2>2. Uses(y)' = Uses(y)
    BY <1>1, <1>3, <2>1 DEF Uses
  <2> QED BY <1>1, <1>3, <2>1, <2>2 DEF Remembered
<1>7. Remembered'
  BY <1>6 DEF Remembered
<1>8. \A r \in Requests : Decided(req[r])'
  <2>1. \A r \in Requests : req'[r].pc = "idle"
    BY <1>2, NothingFields
  <2> QED BY <2>1 DEF Decided
<1> QED BY <1>1, <1>4, <1>5, <1>7, <1>8

-----------------------------------------------------------------------------
(* The invariant, and what follows from it.                                *)

\* The initial states have it.
LEMMA InitHolds == Init => AccessInv
<1> SUFFICES ASSUME Init PROVE AccessInv
  OBVIOUS
<1> USE DEF Init
<1>1. TypeOK
  <2>1. [n |-> 0, exp |-> 0] \in [n: 0..2, exp: Nat]
    OBVIOUS
  <2>2. jar \in [route: Cookie, host: Nat]
    BY NothingTyped
  <2>3. redis \in [Bridges -> [n: 0..2, exp: Nat]] /\ local \in [Bridges -> SUBSET Nat]
    BY <2>1 DEF NoKey
  <2>4. /\ token \in [Tokens -> TokenRow] /\ bridge \in [Bridges -> BridgeToken]
        /\ req \in [Requests -> Request] /\ opened \in [Tokens \union Bridges -> Nat]
        /\ forgotten \in [Bridges -> Nat]
    BY NothingTyped
  <2>5. now \in 0..MaxNow
    BY TimesAssumption
  <2> QED BY <2>2, <2>3, <2>4, <2>5 DEF TypeOK
<1>2. UnusedUnopened /\ \A t \in Tokens : token[t].scope = "route_access" => token[t].email \in Emails
  BY DEF UnusedUnopened, NoToken
<1>3. Remembered
  <2>1. 0 <= now + BridgeTTL
    BY TimesAssumption
  <2>2. \A b \in Bridges : /\ bridge[b].exp = 0 /\ redis[b].n = 0 /\ local[b] = {}
                            /\ opened[b] = 0 /\ forgotten[b] = 0
    BY DEF NoBridge, NoKey
  <2> QED BY <2>1, <2>2 DEF Remembered, Uses
<1>4. AddressesProven
  BY DEF AddressesProven, NoBridge, NoCookie
<1>5. \A r \in Requests : Decided(req[r])
  BY IdleDecided
<1> QED BY <1>1, <1>2, <1>3, <1>4, <1>5 DEF AccessInv

\* Every step keeps it.
LEMMA StepHolds == AccessInv /\ [Next]_vars => AccessInv'
<1> SUFFICES ASSUME AccessInv, [Next]_vars PROVE AccessInv'
  OBVIOUS
<1>0. CASE Restart
  BY <1>0, RestartKeeps
<1>1. CASE Tick
  BY <1>1, TickKeeps
<1>2. CASE \E s \in Setups[setup].services : SaveService(s)
  BY <1>2, SaveServiceKeeps
<1>3. CASE \E u \in Setups[setup].users : ChangeUser(u)
  BY <1>3, ChangeUserKeeps
<1>4. ASSUME NEW b \in Bridges,
             \/ RoutePIN(b) \/ CreateSessionBridge(b)
             \/ \E f \in CountsItself : SessionBridge(b, f) \/ RouteAccessBridge(b, f)
      PROVE  AccessInv'
  BY <1>4, RoutePINKeeps, CreateSessionBridgeKeeps, SessionBridgeKeeps, RouteAccessBridgeKeeps
<1>5. ASSUME NEW t \in Tokens, IssueMagicLink(t) \/ \E e \in Emails : RequestEmailCode(t, e)
      PROVE  AccessInv'
  <2>1. CASE IssueMagicLink(t)
    BY <2>1, TokenIssued DEF IssueMagicLink, Emailed
  <2>2. CASE \E e \in Emails : RequestEmailCode(t, e)
    BY <2>2, TokenIssued DEF RequestEmailCode, Emailed
  <2> QED BY <1>5, <2>1, <2>2
<1>6. ASSUME NEW r \in Setups[setup].requests,
             \/ \E in \in Setups[setup].inputs : Arrive(r, in)
             \/ Authorize(r) \/ Forward(r) \/ Finish(r)
             \/ \E t \in Tokens : VerifyLookup(r, t) \/ MagicLookup(r, t)
             \/ \E b \in Bridges : VerifyMark(r, b)
             \/ MagicMark(r)
      PROVE  AccessInv'
  <2>1. r \in Requests /\ \A in \in Setups[setup].inputs : in \in Inputs
    BY RowsTyped DEF AccessInv
  <2> QED BY <1>6, <2>1, ArriveKeeps, AuthorizeKeeps, ForwardKeeps, FinishKeeps, VerifyLookupKeeps,
             MagicLookupKeeps, VerifyMarkKeeps, MagicMarkKeeps
<1>7. CASE UNCHANGED vars
  <2>1. TypeOK' /\ UnusedUnopened' /\ Remembered' /\ AddressesProven'
    BY <1>7 DEF vars, AccessInv, TypeOK, UnusedUnopened, Remembered, Uses, AddressesProven
  <2> QED BY <1>7, <2>1, DecisionsStand DEF vars, AccessInv
<1> QED BY <1>0, <1>1, <1>2, <1>3, <1>4, <1>5, <1>6, <1>7 DEF Next

\* The inductive invariant of the admission: what the two counters of a bridge
\* token remember while it is valid and what a restart forgets, where an address in a cookie comes from,
\* and what has been decided about each request.
THEOREM AccessInvariant == Spec => []AccessInv
  BY InitHolds, StepHolds, PTL DEF Spec

\* A restricted service is reached only by a listed user, by an API token with a
\* listed role or through an allow rule (Handler, authorizeRequest,
\* authenticateAPIToken, isAllowedByRestrictedPolicy), whatever the rules, the
\* lists it inherits from a service group and the changes under way.
THEOREM OnlyListedUsers == Spec => []RestrictedHolds
<1>1. AccessInv => RestrictedHolds
  <2> SUFFICES ASSUME AccessInv, NEW r \in Requests, req[r].pc = "forward", Restricted(req[r].svc),
                      ~NamedByAllowRule(req[r])
               PROVE  req[r].user # None /\ Listed(req[r].user, req[r].svc)
    BY DEF RestrictedHolds
  <2> DEFINE q == req[r]
  <2>1. /\ q.svc \in Services /\ RestrictedOK(q)
        /\ q.rule = matchAccessRule(q.svc.rules, realClientIP(q.in), q.in.path)
    BY DEF AccessInv, Decided
  <2>2. RuleAction(q) # "allow"
    BY <2>1, AllowNames
  <2>3. Policy(q.svc).mode = "restricted"
    BY <2>1, RestrictedPolicy
  <2>4. ModeOf(q) = "restricted"
    BY <2>3 DEF ModeOf
  <2>5. isAllowedByRestrictedPolicy(q.user, Policy(q.svc))
    BY <2>1, <2>2, <2>4 DEF RestrictedOK
  <2>6. Listed(q.user, q.svc)
    BY <2>1, <2>5, RestrictedPolicy
  <2> QED BY <2>5, <2>6 DEF isAllowedByRestrictedPolicy
<1> QED BY <1>1, AccessInvariant, PTL

\* A service limited to some addresses opens only after a code sent to one of
\* them was presented (VerifyRouteEmailCode, handleRouteAccessBridge,
\* enforceAccessMethod, ConsumeMagicLink).
THEOREM OnlyProvenAddresses == Spec => []EmailProven
<1>1. AccessInv => EmailProven
  <2> SUFFICES ASSUME AccessInv, NEW r \in Requests
               PROVE  LET q == req[r] IN
                      /\ q.pc = "forward" /\ RuleAction(q) # "allow" /\ q.user = None =>
                           ModeOf(q) = "public" \/ Method(q.svc) \in {"pin", "email_code"}
                      /\ q.pc = "forward" /\ RuleAction(q) # "allow" /\ Method(q.svc) = "email_code" =>
                           LET emails == EffectiveAccessForService(q.svc).emails
                           IN emails # {} => emails \cap proven # {}
    BY DEF EmailProven
  <2>1. Decided(req[r])
    BY DEF AccessInv
  <2> QED BY <2>1 DEF Decided
<1> QED BY <1>1, AccessInvariant, PTL

\* Codes and links are used once, and so are bridge tokens while Redis counts; a
\* failing Redis and every restart of a process that counts by itself allow one
\* more use (MarkUsed, ConsumeBridgeToken), however many there are.
THEOREM UsedOnce == Spec => []CredentialOnce
<1>1. AccessInv => CredentialOnce
  <2> SUFFICES ASSUME AccessInv PROVE CredentialOnce
    OBVIOUS
  <2>1. \A t \in Tokens : opened[t] <= 1
    BY DEF AccessInv, UnusedUnopened
  <2>2. ASSUME NEW b \in Bridges
        PROVE  /\ Setups[setup].redis /\ ~failed => opened[b] <= 1
               /\ opened[b] <= (IF failed THEN 2 ELSE 1) + forgotten[b]
    <3>1. /\ opened[b] \in Nat /\ forgotten[b] \in Nat /\ opened[b] <= Uses(b)
          /\ redis[b].n # 0 => Setups[setup].redis
          /\ local[b] # {} \/ forgotten[b] # 0 => failed \/ ~Setups[setup].redis
      BY DEF AccessInv, Remembered, TypeOK
    <3> QED BY <3>1 DEF Uses
  <2> QED BY <2>1, <2>2 DEF CredentialOnce
<1> QED BY <1>1, AccessInvariant, PTL

\* A client cannot choose the address the rules see by what it writes in front
\* of the forwarded chain (clientIPFromForwardedChain), for chains of any length.
THEOREM ClientAddressHolds == Spec => []ForgedHopIgnored
<1>1. AccessInv => ForgedHopIgnored
  <2> SUFFICES ASSUME AccessInv, NEW r \in Requests, req[r].in # None, req[r].in.chain # <<>>,
                      \E i \in DOMAIN Tail(req[r].in.chain) : Tail(req[r].in.chain)[i] \notin Trusted
               PROVE  realClientIP(req[r].in) =
                        realClientIP([req[r].in EXCEPT !.chain = Tail(req[r].in.chain)])
    BY DEF ForgedHopIgnored
  <2> DEFINE in == req[r].in
             d == Tail(in.chain)
             cut == [in EXCEPT !.chain = d]
  <2>1. in \in Inputs
    BY RequestFields DEF AccessInv
  <2>2. IsList(in.chain) /\ {"peer", "chain", "realIP"} \subseteq DOMAIN in
    BY <2>1, RowsAssumption
  <2>3. clientIPFromForwardedChain(in.chain) = clientIPFromForwardedChain(d)
    BY <2>2, TailDecides
  <2> HIDE DEF in, d
  <2>4. cut.peer = in.peer /\ cut.chain = d /\ cut.realIP = in.realIP
    BY <2>2
  <2> HIDE DEF cut
  <2>5. realClientIP(cut) = realClientIP(in)
    BY <2>3, <2>4 DEF realClientIP
  <2> QED BY <2>5 DEF in, d, cut
<1> QED BY <1>1, AccessInvariant, PTL

-----------------------------------------------------------------------------
(* Passkeys.                                                               *)

\* A challenge that is given out is stored once, or twice and noted; storing
\* it may sweep others from memory.
LEMMA StoreEffect ==
    ASSUME P!NoneApart, P!PasskeysTypeOK, NEW c \in Challenges, NEW e \in P!Entries,
           P!storeSession(c, e)
    PROVE  /\ inRedis' \in [Challenges -> P!Entries \union {None}]
           /\ inMemory' \in [Challenges -> P!Entries \union {None}]
           /\ doubtful' \in {doubtful, doubtful \union {c}}
           /\ \A d \in Challenges \ {c} :
                 inRedis'[d] = inRedis[d] /\ inMemory'[d] \in {inMemory[d], None}
           /\ inRedis[c] = None /\ inMemory[c] = None /\ c \notin doubtful' =>
                 inRedis'[c] = None \/ inMemory'[c] = None
<1> USE DEF P!PasskeysTypeOK
<1>1. CASE P!Save(c, e) /\ UNCHANGED <<inMemory, doubtful>>
  BY <1>1 DEF P!Save
<1>2. CASE /\ inMemory' = [d \in Challenges |-> IF d = c THEN e
                                            ELSE IF d \in expired THEN None ELSE inMemory[d]]
           /\ \/ UNCHANGED <<inRedis, doubtful>>
              \/ P!Save(c, e) /\ doubtful' = doubtful \union {c}
  BY <1>2 DEF P!Save
<1> QED
  BY <1>1, <1>2 DEF P!storeSession

\* What giving out challenge c changes.
Begun(c) ==
    /\ c \notin begun /\ begun' = begun \union {c}
    /\ inRedis' \in [Challenges -> P!Entries \union {None}]
    /\ inMemory' \in [Challenges -> P!Entries \union {None}]
    /\ doubtful' \in {doubtful, doubtful \union {c}}
    /\ \A d \in Challenges \ {c} :
          inRedis'[d] = inRedis[d] /\ inMemory'[d] \in {inMemory[d], None}
    /\ inRedis[c] = None /\ inMemory[c] = None /\ c \notin doubtful' =>
          inRedis'[c] = None \/ inMemory'[c] = None
    /\ UNCHANGED <<passkeys, finish, answered, accepted, crowded, deleted, revived>>

\* The three ways to give out a challenge.
LEMMA BeginEffect ==
    ASSUME P!NoneApart, P!PasskeysTypeOK, NEW c \in Challenges,
           P!BeginRegistration(c) \/ P!BeginLogin(c) \/ P!BeginLoginDecoy(c)
    PROVE  Begun(c)
<1>1. PICK e \in P!Entries : P!Begin(c, e)
  BY DEF P!BeginRegistration, P!BeginLogin, P!BeginLoginDecoy, P!Entries
<1> QED
  BY <1>1, StoreEffect DEF P!Begin, Begun

\* A challenge that is popped for a purpose it fits loses a copy.
LEMMA PopEffect ==
    ASSUME P!NoneApart, P!PasskeysTypeOK, NEW c \in Challenges,
           NEW purpose \in {"register", "login"}, NEW got \in BOOLEAN,
           P!popSession(c, purpose, got)
    PROVE  /\ inRedis' \in [Challenges -> P!Entries \union {None}]
           /\ inMemory' \in [Challenges -> P!Entries \union {None}]
           /\ \A d \in Challenges \ {c} : inRedis'[d] = inRedis[d] /\ inMemory'[d] = inMemory[d]
           /\ inRedis'[c] \in {inRedis[c], None} /\ inMemory'[c] \in {inMemory[c], None}
           /\ got => \/ inRedis[c] # None /\ inRedis'[c] = None /\ inMemory'[c] = inMemory[c]
                     \/ inMemory[c] # None /\ inMemory'[c] = None
<1> USE DEF P!PasskeysTypeOK, P!NoneApart, P!Entries
<1>1. CASE /\ inRedis[c] # None /\ P!Pop(c) /\ UNCHANGED inMemory
           /\ got = (inRedis[c] = purpose /\ c \notin expired)
  BY <1>1 DEF P!Pop
<1>2. CASE /\ UNCHANGED inRedis \/ P!Pop(c)
           /\ inMemory' = P!Popped(c)
           /\ got = (inMemory[c] = purpose /\ c \notin expired)
  <2>1. got => inMemory[c] # None
    BY <1>2
  <2>2. /\ inRedis' \in [Challenges -> P!Entries \union {None}]
        /\ \A d \in Challenges \ {c} : inRedis'[d] = inRedis[d]
        /\ inRedis'[c] \in {inRedis[c], None}
    BY <1>2 DEF P!Pop
  <2>3. inMemory' = [inMemory EXCEPT ![c] = None]
    BY <1>2 DEF P!Popped
  <2> QED
    BY <2>1, <2>2, <2>3
<1> QED
  BY <1>1, <1>2 DEF P!popSession

\* What an answer to challenge c changes.
Finished(r, c) ==
    /\ c \in begun
    /\ inRedis' \in [Challenges -> P!Entries \union {None}]
    /\ inMemory' \in [Challenges -> P!Entries \union {None}]
    /\ \A d \in Challenges \ {c} : inRedis'[d] = inRedis[d] /\ inMemory'[d] = inMemory[d]
    /\ inRedis'[c] \in {inRedis[c], None} /\ inMemory'[c] \in {inMemory[c], None}
    /\ \/ UNCHANGED <<finish, answered>>
       \/ /\ \E p \in {"register", "login"} :
                finish' = [finish EXCEPT ![r] = [pc |-> p, c |-> c, k |-> None, n |-> 0]]
          /\ answered' = [answered EXCEPT ![c] = @ + 1]
          /\ \/ inRedis[c] # None /\ inRedis'[c] = None /\ inMemory'[c] = inMemory[c]
             \/ inMemory[c] # None /\ inMemory'[c] = None
    /\ UNCHANGED <<passkeys, begun, doubtful, accepted, crowded, deleted, revived>>

\* The two ways to answer a challenge.
LEMMA FinishEffect ==
    ASSUME P!NoneApart, P!PasskeysTypeOK, NEW r \in Flights, NEW c \in Challenges,
           P!FinishRegistration(r, c) \/ P!FinishLogin(r, c)
    PROVE  Finished(r, c)
<1>1. PICK p \in {"register", "login"} : P!Finish(r, c, p)
  BY DEF P!FinishRegistration, P!FinishLogin
<1>2. PICK got \in BOOLEAN :
        /\ P!popSession(c, p, got)
        /\ IF got THEN P!Start(r, [pc |-> p, c |-> c, k |-> None, n |-> 0])
           ELSE finish[r] = None /\ UNCHANGED finish
        /\ answered' = IF got THEN [answered EXCEPT ![c] = @ + 1] ELSE answered
  BY <1>1 DEF P!Finish
<1>3. c \in begun /\ UNCHANGED <<passkeys, begun, doubtful, accepted, crowded, deleted, revived>>
  BY <1>1 DEF P!Finish
<1>4. CASE got = TRUE
  BY <1>2, <1>3, <1>4, PopEffect DEF P!Start, Finished
<1>5. CASE got = FALSE
  BY <1>2, <1>3, <1>5, PopEffect DEF Finished
<1> QED
  BY <1>4, <1>5

\* What the check of a signature with counter n changes.
Verified(r, k, n) ==
    /\ finish[r] # None /\ finish[r].pc = "login" /\ passkeys[k] # None
    /\ \/ /\ P!CounterRises(n, passkeys[k])
          /\ finish' = [finish EXCEPT ![r] = [finish[r] EXCEPT !.pc = "load", !.k = k, !.n = n]]
       \/ finish' = [finish EXCEPT ![r] = None]
    /\ \/ crowded' = crowded \union {k}
       \/ crowded' = crowded /\ \A q \in Flights : ~P!Using(q, k)
    /\ UNCHANGED <<passkeys, inRedis, inMemory, begun, answered, doubtful, accepted,
                   deleted, revived>>

\* Verify gives the request a passkey, or ends it.
LEMMA VerifyEffect ==
    ASSUME NEW r \in Flights, NEW k \in PasskeyIds, NEW n \in 0..MaxCount, P!Verify(r, k, n)
    PROVE  Verified(r, k, n)
  BY DEF Verified, P!Verify, P!At, P!End, P!Using, P!webauthn

\* What the lookup of the passkey changes.
Loaded(r) ==
    /\ finish[r] # None /\ finish[r].pc = "load"
    /\ \/ finish' = [finish EXCEPT ![r] = None]
       \/ finish' = [finish EXCEPT ![r].pc = "save"]
    /\ UNCHANGED <<passkeys, inRedis, inMemory, begun, answered, doubtful, accepted,
                   crowded, deleted, revived>>

\* GetByCredentialID moves the request on, or ends it.
LEMMA LoadEffect ==
    ASSUME NEW r \in Flights, P!LoadPasskey(r)
    PROVE  Loaded(r)
  BY DEF Loaded, P!LoadPasskey, P!At, P!End, P!webauthn, P!history

\* The requests that the handlers build are of their type.
LEMMA PasskeyRecords ==
    ASSUME P!NoneApart
    PROVE  /\ \A p \in {"register", "login"}, c \in Challenges :
                 [pc |-> p, c |-> c, k |-> None, n |-> 0] \in P!Handler
           /\ \A q \in P!Handler, k \in PasskeyIds, n \in 0..MaxCount :
                 [q EXCEPT !.pc = "load", !.k = k, !.n = n] \in P!Handler
<1>1. 0 \in 0..MaxCount
  BY DEF P!NoneApart
<1>2. \A p \in {"register", "login"}, c \in Challenges :
        [pc |-> p, c |-> c, k |-> None, n |-> 0] \in P!Handler
  BY <1>1 DEF P!Handler
<1>3. \A q \in P!Handler, k \in PasskeyIds, n \in 0..MaxCount :
        [q EXCEPT !.pc = "load", !.k = k, !.n = n] \in P!Handler
  BY DEF P!Handler
<1> QED
  BY <1>2, <1>3

\* Every step keeps the types.
LEMMA PasskeysTypeStep ==
    ASSUME P!NoneApart, P!PasskeysInv, [P!Next]_P!vars
    PROVE  P!PasskeysTypeOK'
<1> USE DEF P!NoneApart, P!PasskeysInv, P!PasskeysTypeOK
<1>1. ASSUME NEW c \in Challenges, P!BeginRegistration(c)
      PROVE  P!PasskeysTypeOK'
  <2>1. Begun(c)
    BY <1>1, BeginEffect, Zenon DEF P!PasskeysInv
  <2> QED
    BY <2>1 DEF Begun
<1>2. ASSUME NEW c \in Challenges, P!BeginLogin(c) PROVE P!PasskeysTypeOK'
  <2>1. Begun(c)
    BY <1>2, BeginEffect, Zenon DEF P!PasskeysInv
  <2> QED
    BY <2>1 DEF Begun
<1>3. ASSUME NEW c \in Challenges, P!BeginLoginDecoy(c) PROVE P!PasskeysTypeOK'
  <2>1. Begun(c)
    BY <1>3, BeginEffect, Zenon DEF P!PasskeysInv
  <2> QED
    BY <2>1 DEF Begun
<1>4. ASSUME NEW c \in Challenges, P!Expire(c) PROVE P!PasskeysTypeOK'
  BY <1>4 DEF P!Expire, P!history
<1>5. ASSUME NEW r \in Flights, NEW c \in Challenges, P!FinishRegistration(r, c)
      PROVE  P!PasskeysTypeOK'
  <2>1. Finished(r, c)
    BY <1>5, FinishEffect, Zenon DEF P!PasskeysInv
  <2>2. finish' \in [Flights -> P!Handler \union {None}]
    <3>1. CASE UNCHANGED finish
      BY <3>1
    <3>2. ASSUME NEW p \in {"register", "login"},
                 finish' = [finish EXCEPT ![r] = [pc |-> p, c |-> c, k |-> None, n |-> 0]]
          PROVE  finish' \in [Flights -> P!Handler \union {None}]
      BY <3>2, PasskeyRecords
    <3> QED
      BY <2>1, <3>1, <3>2 DEF Finished
  <2>3. answered' \in [Challenges -> Nat]
    BY <2>1 DEF Finished
  <2> QED
    BY <2>1, <2>2, <2>3 DEF Finished
<1>6. ASSUME NEW r \in Flights, NEW c \in Challenges, P!FinishLogin(r, c)
      PROVE  P!PasskeysTypeOK'
  <2>1. Finished(r, c)
    BY <1>6, FinishEffect, Zenon DEF P!PasskeysInv
  <2>2. finish' \in [Flights -> P!Handler \union {None}]
    <3>1. CASE UNCHANGED finish
      BY <3>1
    <3>2. ASSUME NEW p \in {"register", "login"},
                 finish' = [finish EXCEPT ![r] = [pc |-> p, c |-> c, k |-> None, n |-> 0]]
          PROVE  finish' \in [Flights -> P!Handler \union {None}]
      BY <3>2, PasskeyRecords
    <3> QED
      BY <2>1, <3>1, <3>2 DEF Finished
  <2>3. answered' \in [Challenges -> Nat]
    BY <2>1 DEF Finished
  <2> QED
    BY <2>1, <2>2, <2>3 DEF Finished
<1>7. ASSUME NEW r \in Flights, NEW k \in PasskeyIds, P!CreatePasskey(r, k)
      PROVE  P!PasskeysTypeOK'
  BY <1>7 DEF P!CreatePasskey, P!At, P!End, P!history
<1>8. ASSUME NEW r \in Flights, NEW k \in PasskeyIds, NEW n \in 0..MaxCount, P!Verify(r, k, n)
      PROVE  P!PasskeysTypeOK'
  <2>1. Verified(r, k, n)
    BY <1>8, VerifyEffect
  <2>2. finish[r] \in P!Handler
    BY <2>1 DEF Verified
  <2>3. [finish[r] EXCEPT !.pc = "load", !.k = k, !.n = n] \in P!Handler
    BY <2>2, PasskeyRecords
  <2>4. finish' \in [Flights -> P!Handler \union {None}]
    BY <2>1, <2>3 DEF Verified
  <2> QED
    BY <2>1, <2>4 DEF Verified
<1>9. ASSUME NEW r \in Flights, P!LoadPasskey(r) PROVE P!PasskeysTypeOK'
  <2>1. Loaded(r)
    BY <1>9, LoadEffect
  <2>2. finish' \in [Flights -> P!Handler \union {None}]
    <3>1. CASE finish' = [finish EXCEPT ![r] = None]
      BY <3>1
    <3>2. CASE finish' = [finish EXCEPT ![r].pc = "save"]
      <4>1. finish[r] \in P!Handler
        BY <2>1 DEF Loaded
      <4>2. [finish[r] EXCEPT !.pc = "save"] \in P!Handler
        BY <4>1 DEF P!Handler
      <4> QED
        BY <3>2, <4>2
    <3> QED
      BY <2>1, <3>1, <3>2 DEF Loaded
  <2> QED
    BY <2>1, <2>2 DEF Loaded
<1>10. ASSUME NEW r \in Flights, P!SavePasskey(r) PROVE P!PasskeysTypeOK'
  BY <1>10 DEF P!SavePasskey, P!At, P!End, P!PasskeyLoaded, P!Handler
<1>11. ASSUME NEW r \in Flights, P!Fail(r) PROVE P!PasskeysTypeOK'
  BY <1>11 DEF P!Fail, P!End, P!webauthn, P!history
<1>12. ASSUME NEW k \in PasskeyIds, P!DeletePasskey(k) PROVE P!PasskeysTypeOK'
  BY <1>12 DEF P!DeletePasskey
<1>13. CASE P!Restart
  BY <1>13 DEF P!Restart, P!history
<1>14. CASE UNCHANGED P!vars
  BY <1>14 DEF P!vars, P!webauthn, P!history
<1> QED
  BY <1>1, <1>2, <1>3, <1>4, <1>5, <1>6, <1>7, <1>8, <1>9, <1>10, <1>11, <1>12,
     <1>13, <1>14 DEF P!Next

\* Every step keeps the count of the copies of a challenge.
LEMMA CopiesOfStep ==
    ASSUME P!NoneApart, P!PasskeysInv, P!PasskeysTypeOK', [P!Next]_P!vars,
           NEW d \in Challenges
    PROVE  P!CopiesOf(d)'
<1>a. P!CopiesOf(d) /\ answered[d] \in Nat
  BY DEF P!PasskeysInv, P!CopiesCounted, P!PasskeysTypeOK
<1>b. P!PasskeysTypeOK
  BY DEF P!PasskeysInv
<1> USE <1>a, <1>b DEF P!CopiesOf, P!Copies
<1>1. ASSUME NEW c \in Challenges, P!BeginRegistration(c) PROVE P!CopiesOf(d)'
  <2>1. Begun(c)
    BY <1>1, BeginEffect
  <2>2. CASE d = c
    BY <2>1, <2>2 DEF Begun
  <2>3. CASE d # c
    <3>1. /\ inRedis'[d] = inRedis[d] /\ inMemory'[d] \in {inMemory[d], None}
          /\ answered' = answered /\ (d \in begun' <=> d \in begun)
          /\ (d \in doubtful' <=> d \in doubtful)
      BY <2>1, <2>3 DEF Begun
    <3> QED
      BY <3>1
  <2> QED
    BY <2>2, <2>3
<1>2. ASSUME NEW c \in Challenges, P!BeginLogin(c) PROVE P!CopiesOf(d)'
  <2>1. Begun(c)
    BY <1>2, BeginEffect
  <2>2. CASE d = c
    BY <2>1, <2>2 DEF Begun
  <2>3. CASE d # c
    <3>1. /\ inRedis'[d] = inRedis[d] /\ inMemory'[d] \in {inMemory[d], None}
          /\ answered' = answered /\ (d \in begun' <=> d \in begun)
          /\ (d \in doubtful' <=> d \in doubtful)
      BY <2>1, <2>3 DEF Begun
    <3> QED
      BY <3>1
  <2> QED
    BY <2>2, <2>3
<1>3. ASSUME NEW c \in Challenges, P!BeginLoginDecoy(c) PROVE P!CopiesOf(d)'
  <2>1. Begun(c)
    BY <1>3, BeginEffect
  <2>2. CASE d = c
    BY <2>1, <2>2 DEF Begun
  <2>3. CASE d # c
    <3>1. /\ inRedis'[d] = inRedis[d] /\ inMemory'[d] \in {inMemory[d], None}
          /\ answered' = answered /\ (d \in begun' <=> d \in begun)
          /\ (d \in doubtful' <=> d \in doubtful)
      BY <2>1, <2>3 DEF Begun
    <3> QED
      BY <3>1
  <2> QED
    BY <2>2, <2>3
<1>4. ASSUME NEW c \in Challenges, P!Expire(c) PROVE P!CopiesOf(d)'
  BY <1>4 DEF P!Expire, P!history
<1>5. ASSUME NEW r \in Flights, NEW c \in Challenges, P!FinishRegistration(r, c)
      PROVE  P!CopiesOf(d)'
  <2>1. Finished(r, c)
    BY <1>5, FinishEffect
  <2>2. CASE d = c
    <3>1. /\ inRedis'[d] \in {inRedis[d], None} /\ inMemory'[d] \in {inMemory[d], None}
          /\ d \in begun /\ begun' = begun /\ doubtful' = doubtful
          /\ \/ answered'[d] = answered[d]
             \/ /\ answered'[d] = answered[d] + 1
                /\ \/ inRedis[d] # None /\ inRedis'[d] = None /\ inMemory'[d] = inMemory[d]
                   \/ inMemory[d] # None /\ inMemory'[d] = None
      BY <2>1, <2>2 DEF Finished, P!PasskeysTypeOK
    <3> QED
      BY <3>1
  <2>3. CASE d # c
    <3>1. /\ inRedis'[d] = inRedis[d] /\ inMemory'[d] = inMemory[d] /\ answered'[d] = answered[d]
          /\ begun' = begun /\ doubtful' = doubtful
      BY <2>1, <2>3 DEF Finished, P!PasskeysTypeOK
    <3> QED
      BY <3>1
  <2> QED
    BY <2>2, <2>3
<1>6. ASSUME NEW r \in Flights, NEW c \in Challenges, P!FinishLogin(r, c)
      PROVE  P!CopiesOf(d)'
  <2>1. Finished(r, c)
    BY <1>6, FinishEffect
  <2>2. CASE d = c
    <3>1. /\ inRedis'[d] \in {inRedis[d], None} /\ inMemory'[d] \in {inMemory[d], None}
          /\ d \in begun /\ begun' = begun /\ doubtful' = doubtful
          /\ \/ answered'[d] = answered[d]
             \/ /\ answered'[d] = answered[d] + 1
                /\ \/ inRedis[d] # None /\ inRedis'[d] = None /\ inMemory'[d] = inMemory[d]
                   \/ inMemory[d] # None /\ inMemory'[d] = None
      BY <2>1, <2>2 DEF Finished, P!PasskeysTypeOK
    <3> QED
      BY <3>1
  <2>3. CASE d # c
    <3>1. /\ inRedis'[d] = inRedis[d] /\ inMemory'[d] = inMemory[d] /\ answered'[d] = answered[d]
          /\ begun' = begun /\ doubtful' = doubtful
      BY <2>1, <2>3 DEF Finished, P!PasskeysTypeOK
    <3> QED
      BY <3>1
  <2> QED
    BY <2>2, <2>3
<1>7. ASSUME NEW r \in Flights, NEW k \in PasskeyIds, P!CreatePasskey(r, k)
      PROVE  P!CopiesOf(d)'
  BY <1>7 DEF P!CreatePasskey, P!At, P!End, P!history
<1>8. ASSUME NEW r \in Flights, NEW k \in PasskeyIds, NEW n \in 0..MaxCount, P!Verify(r, k, n)
      PROVE  P!CopiesOf(d)'
  <2>1. Verified(r, k, n)
    BY <1>8, VerifyEffect
  <2>2. CASE finish' = [finish EXCEPT ![r] = None]
    BY <2>1, <2>2 DEF Verified
  <2>3. CASE /\ P!CounterRises(n, passkeys[k])
             /\ finish' = [finish EXCEPT ![r] = [finish[r] EXCEPT !.pc = "load", !.k = k, !.n = n]]
    BY <2>1, <2>3 DEF Verified
  <2> QED
    BY <2>1, <2>2, <2>3 DEF Verified
<1>9. ASSUME NEW r \in Flights, P!LoadPasskey(r) PROVE P!CopiesOf(d)'
  <2>1. Loaded(r)
    BY <1>9, LoadEffect
  <2>2. CASE finish' = [finish EXCEPT ![r] = None]
    BY <2>1, <2>2 DEF Loaded
  <2>3. CASE finish' = [finish EXCEPT ![r].pc = "save"]
    BY <2>1, <2>3 DEF Loaded
  <2> QED
    BY <2>1, <2>2, <2>3 DEF Loaded
<1>10. ASSUME NEW r \in Flights, P!SavePasskey(r) PROVE P!CopiesOf(d)'
  BY <1>10 DEF P!SavePasskey, P!At, P!End
<1>11. ASSUME NEW r \in Flights, P!Fail(r) PROVE P!CopiesOf(d)'
  BY <1>11 DEF P!Fail, P!End, P!webauthn, P!history
<1>12. ASSUME NEW k \in PasskeyIds, P!DeletePasskey(k) PROVE P!CopiesOf(d)'
  BY <1>12 DEF P!DeletePasskey
<1>13. CASE P!Restart
  BY <1>13 DEF P!Restart, P!history
<1>14. CASE UNCHANGED P!vars
  BY <1>14 DEF P!vars, P!webauthn, P!history
<1> QED
  BY <1>1, <1>2, <1>3, <1>4, <1>5, <1>6, <1>7, <1>8, <1>9, <1>10, <1>11, <1>12,
     <1>13, <1>14 DEF P!Next

\* Every step keeps what a request knows of its passkey.
LEMMA LoadedStep ==
    ASSUME P!NoneApart, P!PasskeysInv, P!PasskeysTypeOK', [P!Next]_P!vars
    PROVE  P!PasskeyLoaded'
<1> USE DEF P!NoneApart, P!PasskeysInv, P!PasskeysTypeOK, P!PasskeyLoaded,
   P!Using, P!Handler
<1>1. ASSUME NEW c \in Challenges, P!BeginRegistration(c)
      PROVE  P!PasskeyLoaded'
  <2>1. Begun(c)
    BY <1>1, BeginEffect, Zenon DEF P!PasskeysInv
  <2> QED
    BY <2>1 DEF Begun
<1>2. ASSUME NEW c \in Challenges, P!BeginLogin(c) PROVE P!PasskeyLoaded'
  <2>1. Begun(c)
    BY <1>2, BeginEffect, Zenon DEF P!PasskeysInv
  <2> QED
    BY <2>1 DEF Begun
<1>3. ASSUME NEW c \in Challenges, P!BeginLoginDecoy(c) PROVE P!PasskeyLoaded'
  <2>1. Begun(c)
    BY <1>3, BeginEffect, Zenon DEF P!PasskeysInv
  <2> QED
    BY <2>1 DEF Begun
<1>4. ASSUME NEW c \in Challenges, P!Expire(c) PROVE P!PasskeyLoaded'
  BY <1>4 DEF P!Expire, P!history
<1>5. ASSUME NEW r \in Flights, NEW c \in Challenges, P!FinishRegistration(r, c)
      PROVE  P!PasskeyLoaded'
  <2>1. Finished(r, c)
    BY <1>5, FinishEffect, Zenon DEF P!PasskeysInv
  <2>2. CASE UNCHANGED finish
    BY <2>1, <2>2 DEF Finished
  <2>3. ASSUME NEW p \in {"register", "login"},
               finish' = [finish EXCEPT ![r] = [pc |-> p, c |-> c, k |-> None, n |-> 0]]
        PROVE  P!PasskeyLoaded'
    BY <2>1, <2>3 DEF Finished
  <2> QED
    BY <2>1, <2>2, <2>3 DEF Finished
<1>6. ASSUME NEW r \in Flights, NEW c \in Challenges, P!FinishLogin(r, c)
      PROVE  P!PasskeyLoaded'
  <2>1. Finished(r, c)
    BY <1>6, FinishEffect, Zenon DEF P!PasskeysInv
  <2>2. CASE UNCHANGED finish
    BY <2>1, <2>2 DEF Finished
  <2>3. ASSUME NEW p \in {"register", "login"},
               finish' = [finish EXCEPT ![r] = [pc |-> p, c |-> c, k |-> None, n |-> 0]]
        PROVE  P!PasskeyLoaded'
    BY <2>1, <2>3 DEF Finished
  <2> QED
    BY <2>1, <2>2, <2>3 DEF Finished
<1>7. ASSUME NEW r \in Flights, NEW k \in PasskeyIds, P!CreatePasskey(r, k)
      PROVE  P!PasskeyLoaded'
  BY <1>7 DEF P!CreatePasskey, P!At, P!End, P!history
<1>8. ASSUME NEW r \in Flights, NEW k \in PasskeyIds, NEW n \in 0..MaxCount, P!Verify(r, k, n)
      PROVE  P!PasskeyLoaded'
  <2>1. Verified(r, k, n)
    BY <1>8, VerifyEffect
  <2>2. CASE finish' = [finish EXCEPT ![r] = None]
    BY <2>1, <2>2 DEF Verified
  <2>3. CASE /\ P!CounterRises(n, passkeys[k])
             /\ finish' = [finish EXCEPT ![r] = [finish[r] EXCEPT !.pc = "load", !.k = k, !.n = n]]
    BY <2>1, <2>3 DEF Verified
  <2> QED
    BY <2>1, <2>2, <2>3 DEF Verified
<1>9. ASSUME NEW r \in Flights, P!LoadPasskey(r) PROVE P!PasskeyLoaded'
  <2>1. Loaded(r)
    BY <1>9, LoadEffect
  <2>2. CASE finish' = [finish EXCEPT ![r] = None]
    BY <2>1, <2>2 DEF Loaded
  <2>3. CASE finish' = [finish EXCEPT ![r].pc = "save"]
    BY <2>1, <2>3 DEF Loaded
  <2> QED
    BY <2>1, <2>2, <2>3 DEF Loaded
<1>10. ASSUME NEW r \in Flights, P!SavePasskey(r) PROVE P!PasskeyLoaded'
  BY <1>10 DEF P!SavePasskey, P!At, P!End
<1>11. ASSUME NEW r \in Flights, P!Fail(r) PROVE P!PasskeyLoaded'
  BY <1>11 DEF P!Fail, P!End, P!webauthn, P!history
<1>12. ASSUME NEW k \in PasskeyIds, P!DeletePasskey(k) PROVE P!PasskeyLoaded'
  BY <1>12 DEF P!DeletePasskey
<1>13. CASE P!Restart
  BY <1>13 DEF P!Restart, P!history
<1>14. CASE UNCHANGED P!vars
  BY <1>14 DEF P!vars, P!webauthn, P!history
<1> QED
  BY <1>1, <1>2, <1>3, <1>4, <1>5, <1>6, <1>7, <1>8, <1>9, <1>10, <1>11, <1>12,
     <1>13, <1>14 DEF P!Next

\* Every step keeps counters rising.
LEMMA CountersStep ==
    ASSUME P!NoneApart, P!PasskeysInv, P!PasskeysTypeOK', [P!Next]_P!vars
    PROVE  P!CountersRise'
<1> USE DEF P!NoneApart, P!PasskeysInv, P!PasskeysTypeOK, P!PasskeyLoaded,
   P!CountersRise, P!CounterOf, P!CounterRises, P!Using, P!Handler,
   P!DeletedStaysOut
<1>1. ASSUME NEW c \in Challenges, P!BeginRegistration(c) PROVE P!CountersRise'
  <2>1. Begun(c)
    BY <1>1, BeginEffect, Zenon DEF P!PasskeysInv
  <2> QED
    BY <2>1 DEF Begun
<1>2. ASSUME NEW c \in Challenges, P!BeginLogin(c) PROVE P!CountersRise'
  <2>1. Begun(c)
    BY <1>2, BeginEffect, Zenon DEF P!PasskeysInv
  <2> QED
    BY <2>1 DEF Begun
<1>3. ASSUME NEW c \in Challenges, P!BeginLoginDecoy(c) PROVE P!CountersRise'
  <2>1. Begun(c)
    BY <1>3, BeginEffect, Zenon DEF P!PasskeysInv
  <2> QED
    BY <2>1 DEF Begun
<1>4. ASSUME NEW c \in Challenges, P!Expire(c) PROVE P!CountersRise'
  BY <1>4 DEF P!Expire, P!history
<1>5. ASSUME NEW r \in Flights, NEW c \in Challenges, P!FinishRegistration(r, c)
      PROVE  P!CountersRise'
  <2>1. Finished(r, c)
    BY <1>5, FinishEffect, Zenon DEF P!PasskeysInv
  <2>2. CASE UNCHANGED finish
    BY <2>1, <2>2 DEF Finished
  <2>3. ASSUME NEW p \in {"register", "login"},
               finish' = [finish EXCEPT ![r] = [pc |-> p, c |-> c, k |-> None, n |-> 0]]
        PROVE  P!CountersRise'
    BY <2>1, <2>3 DEF Finished
  <2> QED
    BY <2>1, <2>2, <2>3 DEF Finished
<1>6. ASSUME NEW r \in Flights, NEW c \in Challenges, P!FinishLogin(r, c)
      PROVE  P!CountersRise'
  <2>1. Finished(r, c)
    BY <1>6, FinishEffect, Zenon DEF P!PasskeysInv
  <2>2. CASE UNCHANGED finish
    BY <2>1, <2>2 DEF Finished
  <2>3. ASSUME NEW p \in {"register", "login"},
               finish' = [finish EXCEPT ![r] = [pc |-> p, c |-> c, k |-> None, n |-> 0]]
        PROVE  P!CountersRise'
    BY <2>1, <2>3 DEF Finished
  <2> QED
    BY <2>1, <2>2, <2>3 DEF Finished
<1>7. ASSUME NEW r \in Flights, NEW k \in PasskeyIds, P!CreatePasskey(r, k)
      PROVE  P!CountersRise'
  <2>1. /\ finish' = [finish EXCEPT ![r] = None] /\ passkeys' = [passkeys EXCEPT ![k] = 0]
        /\ passkeys[k] = None /\ k \notin deleted
        /\ UNCHANGED <<accepted, crowded, revived>>
    BY <1>7 DEF P!CreatePasskey, P!End, P!history
  <2>2. \A q \in Flights, j \in PasskeyIds :
          P!Using(q, j)' => P!Using(q, j) /\ finish'[q] = finish[q]
    BY <2>1
  <2>3. (\A q \in Flights : ~P!Using(q, k)) /\ (\A n \in 0..MaxCount : accepted[k][n] = 0)
    BY <2>1
  <2>4. \A j \in PasskeyIds : passkeys'[j] = IF j = k THEN 0 ELSE passkeys[j]
    BY <2>1
  <2> HIDE DEF P!Using, P!CounterRises
  <2>5. SUFFICES ASSUME NEW j \in PasskeyIds \ (crowded \union revived)
                 PROVE  P!CounterOf(j)'
    BY <2>1 DEF P!CountersRise
  <2>6. P!CounterOf(j)
    BY <2>5 DEF P!CountersRise
  <2>7. CASE j = k
    BY <2>1, <2>2, <2>3, <2>7 DEF P!CounterOf
  <2>8. CASE j # k
    BY <2>1, <2>2, <2>4, <2>6, <2>8 DEF P!CounterOf
  <2> QED
    BY <2>7, <2>8
<1>8. ASSUME NEW r \in Flights, NEW k \in PasskeyIds, NEW n \in 0..MaxCount, P!Verify(r, k, n)
      PROVE  P!CountersRise'
  <2>1. Verified(r, k, n)
    BY <1>8, VerifyEffect
  <2>2. /\ finish[r] # None /\ finish[r].k = None /\ finish[r] \in P!Handler
        /\ UNCHANGED <<passkeys, accepted, revived>> /\ crowded \subseteq crowded'
    BY <2>1 DEF Verified
  <2>3. \A j \in PasskeyIds : ~P!Using(r, j)
    BY <2>2
  <2>4. \A q \in Flights \ {r} : finish'[q] = finish[q]
    BY <2>1 DEF Verified
  <2>5. CASE finish' = [finish EXCEPT ![r] = None]
    <3>1. \A j \in PasskeyIds : ~P!Using(r, j)'
      BY <2>5
    <3>2. \A q \in Flights, j \in PasskeyIds :
            P!Using(q, j)' => P!Using(q, j) /\ finish'[q] = finish[q]
      BY <2>4, <3>1
    <3> HIDE DEF P!Using, P!CounterRises
    <3> QED
      BY <2>2, <3>2
  <2>6. CASE /\ P!CounterRises(n, passkeys[k])
             /\ finish' = [finish EXCEPT ![r] = [finish[r] EXCEPT !.pc = "load", !.k = k, !.n = n]]
    <3>1. finish'[r].k = k /\ finish'[r].n = n
      BY <2>2, <2>6
    <3>2. k \in crowded' \/ \A q \in Flights : ~P!Using(q, k)
      BY <2>1 DEF Verified
    <3>3. SUFFICES ASSUME NEW j \in PasskeyIds \ (crowded' \union revived')
                   PROVE  P!CounterOf(j)'
      BY DEF P!CountersRise
    <3>4. P!CounterOf(j)
      BY <2>2, <3>3 DEF P!CountersRise
    <3>5. CASE j = k
      BY <2>2, <2>3, <2>4, <2>6, <3>1, <3>2, <3>3, <3>4, <3>5 DEF P!CounterOf
    <3>6. CASE j # k
      <4>1. \A q \in Flights : P!Using(q, j)' => P!Using(q, j) /\ finish'[q] = finish[q]
        BY <2>4, <3>1, <3>6
      <4> HIDE DEF P!Using, P!CounterRises, P!CountersRise
      <4> QED
        BY <2>2, <3>4, <4>1 DEF P!CounterOf
    <3> QED
      BY <3>5, <3>6
  <2> QED
    BY <2>1, <2>5, <2>6 DEF Verified
<1>9. ASSUME NEW r \in Flights, P!LoadPasskey(r) PROVE P!CountersRise'
  <2>1. Loaded(r)
    BY <1>9, LoadEffect
  <2>2. CASE finish' = [finish EXCEPT ![r] = None]
    BY <2>1, <2>2 DEF Loaded
  <2>3. CASE finish' = [finish EXCEPT ![r].pc = "save"]
    BY <2>1, <2>3 DEF Loaded
  <2> QED
    BY <2>1, <2>2, <2>3 DEF Loaded
<1>10. ASSUME NEW r \in Flights, P!SavePasskey(r) PROVE P!CountersRise'
  BY <1>10 DEF P!SavePasskey, P!At, P!End
<1>11. ASSUME NEW r \in Flights, P!Fail(r) PROVE P!CountersRise'
  BY <1>11 DEF P!Fail, P!End, P!webauthn, P!history
<1>12. ASSUME NEW k \in PasskeyIds, P!DeletePasskey(k) PROVE P!CountersRise'
  BY <1>12 DEF P!DeletePasskey
<1>13. CASE P!Restart
  BY <1>13 DEF P!Restart, P!history
<1>14. CASE UNCHANGED P!vars
  BY <1>14 DEF P!vars, P!webauthn, P!history
<1> QED
  BY <1>1, <1>2, <1>3, <1>4, <1>5, <1>6, <1>7, <1>8, <1>9, <1>10, <1>11, <1>12,
     <1>13, <1>14 DEF P!Next

\* Every step keeps deleted passkeys out.
LEMMA DeletedStep ==
    ASSUME P!NoneApart, P!PasskeysInv, P!PasskeysTypeOK', [P!Next]_P!vars
    PROVE  P!DeletedStaysOut'
<1> USE DEF P!NoneApart, P!PasskeysInv, P!PasskeysTypeOK, P!PasskeyLoaded,
   P!Handler, P!DeletedStaysOut
<1>1. ASSUME NEW c \in Challenges, P!BeginRegistration(c)
      PROVE  P!DeletedStaysOut'
  <2>1. Begun(c)
    BY <1>1, BeginEffect, Zenon DEF P!PasskeysInv
  <2> QED
    BY <2>1 DEF Begun
<1>2. ASSUME NEW c \in Challenges, P!BeginLogin(c) PROVE P!DeletedStaysOut'
  <2>1. Begun(c)
    BY <1>2, BeginEffect, Zenon DEF P!PasskeysInv
  <2> QED
    BY <2>1 DEF Begun
<1>3. ASSUME NEW c \in Challenges, P!BeginLoginDecoy(c)
      PROVE  P!DeletedStaysOut'
  <2>1. Begun(c)
    BY <1>3, BeginEffect, Zenon DEF P!PasskeysInv
  <2> QED
    BY <2>1 DEF Begun
<1>4. ASSUME NEW c \in Challenges, P!Expire(c) PROVE P!DeletedStaysOut'
  BY <1>4 DEF P!Expire, P!history
<1>5. ASSUME NEW r \in Flights, NEW c \in Challenges, P!FinishRegistration(r, c)
      PROVE  P!DeletedStaysOut'
  <2>1. Finished(r, c)
    BY <1>5, FinishEffect, Zenon DEF P!PasskeysInv
  <2>2. CASE UNCHANGED finish
    BY <2>1, <2>2 DEF Finished
  <2>3. ASSUME NEW p \in {"register", "login"},
               finish' = [finish EXCEPT ![r] = [pc |-> p, c |-> c, k |-> None, n |-> 0]]
        PROVE  P!DeletedStaysOut'
    BY <2>1, <2>3 DEF Finished
  <2> QED
    BY <2>1, <2>2, <2>3 DEF Finished
<1>6. ASSUME NEW r \in Flights, NEW c \in Challenges, P!FinishLogin(r, c)
      PROVE  P!DeletedStaysOut'
  <2>1. Finished(r, c)
    BY <1>6, FinishEffect, Zenon DEF P!PasskeysInv
  <2>2. CASE UNCHANGED finish
    BY <2>1, <2>2 DEF Finished
  <2>3. ASSUME NEW p \in {"register", "login"},
               finish' = [finish EXCEPT ![r] = [pc |-> p, c |-> c, k |-> None, n |-> 0]]
        PROVE  P!DeletedStaysOut'
    BY <2>1, <2>3 DEF Finished
  <2> QED
    BY <2>1, <2>2, <2>3 DEF Finished
<1>7. ASSUME NEW r \in Flights, NEW k \in PasskeyIds, P!CreatePasskey(r, k)
      PROVE  P!DeletedStaysOut'
  BY <1>7 DEF P!CreatePasskey, P!At, P!End, P!history
<1>8. ASSUME NEW r \in Flights, NEW k \in PasskeyIds, NEW n \in 0..MaxCount, P!Verify(r, k, n)
      PROVE  P!DeletedStaysOut'
  <2>1. Verified(r, k, n)
    BY <1>8, VerifyEffect
  <2>2. CASE finish' = [finish EXCEPT ![r] = None]
    BY <2>1, <2>2 DEF Verified
  <2>3. CASE /\ P!CounterRises(n, passkeys[k])
             /\ finish' = [finish EXCEPT ![r] = [finish[r] EXCEPT !.pc = "load", !.k = k, !.n = n]]
    BY <2>1, <2>3 DEF Verified
  <2> QED
    BY <2>1, <2>2, <2>3 DEF Verified
<1>9. ASSUME NEW r \in Flights, P!LoadPasskey(r) PROVE P!DeletedStaysOut'
  <2>1. Loaded(r)
    BY <1>9, LoadEffect
  <2>2. CASE finish' = [finish EXCEPT ![r] = None]
    BY <2>1, <2>2 DEF Loaded
  <2>3. CASE finish' = [finish EXCEPT ![r].pc = "save"]
    BY <2>1, <2>3 DEF Loaded
  <2> QED
    BY <2>1, <2>2, <2>3 DEF Loaded
<1>10. ASSUME NEW r \in Flights, P!SavePasskey(r) PROVE P!DeletedStaysOut'
  BY <1>10 DEF P!SavePasskey, P!At, P!End
<1>11. ASSUME NEW r \in Flights, P!Fail(r) PROVE P!DeletedStaysOut'
  BY <1>11 DEF P!Fail, P!End, P!webauthn, P!history
<1>12. ASSUME NEW k \in PasskeyIds, P!DeletePasskey(k) PROVE P!DeletedStaysOut'
  BY <1>12 DEF P!DeletePasskey
<1>13. CASE P!Restart
  BY <1>13 DEF P!Restart, P!history
<1>14. CASE UNCHANGED P!vars
  BY <1>14 DEF P!vars, P!webauthn, P!history
<1> QED
  BY <1>1, <1>2, <1>3, <1>4, <1>5, <1>6, <1>7, <1>8, <1>9, <1>10, <1>11, <1>12,
     <1>13, <1>14 DEF P!Next

\* The initial states satisfy the invariant.
LEMMA PasskeysInit == ASSUME P!NoneApart, P!Init PROVE P!PasskeysInv
<1>1. P!PasskeysTypeOK
  BY DEF P!NoneApart, P!Init, P!PasskeysTypeOK
<1>2. P!CopiesCounted
  BY DEF P!Init, P!CopiesCounted, P!CopiesOf, P!Copies
<1>3. P!PasskeyLoaded /\ P!DeletedStaysOut
  BY DEF P!Init, P!PasskeyLoaded, P!Using, P!DeletedStaysOut
<1>4. P!CountersRise
  BY DEF P!NoneApart, P!Init, P!CountersRise, P!CounterOf, P!Using
<1> QED
  BY <1>1, <1>2, <1>3, <1>4 DEF P!PasskeysInv

\* The invariant gives the property.
LEMMA PasskeysImplied == ASSUME P!NoneApart, P!PasskeysInv PROVE P!LoginsApart
<1>1. P!ChallengeOnce
  <2> SUFFICES ASSUME NEW c \in Challenges
               PROVE  answered[c] <= IF c \in doubtful THEN 2 ELSE 1
    BY DEF P!ChallengeOnce
  <2>1. answered[c] \in Nat /\ P!CopiesOf(c)
    BY DEF P!PasskeysInv, P!PasskeysTypeOK, P!CopiesCounted
  <2> QED
    BY <2>1 DEF P!CopiesOf, P!Copies
<1>2. P!CopyNoticed
  <2> SUFFICES ASSUME NEW k \in PasskeyIds \ (crowded \union revived), NEW n \in 1..MaxCount
               PROVE  accepted[k][n] <= 1
    BY DEF P!CopyNoticed
  <2>1. n \in 0..MaxCount
    BY DEF P!NoneApart
  <2>2. accepted[k][n] \in Nat /\ P!CounterOf(k)
    BY <2>1 DEF P!PasskeysInv, P!PasskeysTypeOK, P!CountersRise
  <2> QED
    BY <2>2 DEF P!CounterOf
<1> QED
  BY <1>1, <1>2 DEF P!LoginsApart, P!PasskeysInv

\* A challenge is answered once, a counter accepted once and a deleted passkey
\* stays out, but for the races that are named, for any number of challenges,
\* passkeys and requests (popSession, FinishLogin, Save).
THEOREM PasskeyLoginsApart == P!Spec => []P!LoginsApart
<1> USE LoginsAssumption
<1>1. P!Init => P!PasskeysInv
  BY PasskeysInit
<1>2. P!PasskeysInv /\ [P!Next]_P!vars => P!PasskeysInv'
  <2> SUFFICES ASSUME P!PasskeysInv, [P!Next]_P!vars PROVE P!PasskeysInv'
    OBVIOUS
  <2>1. P!PasskeysTypeOK'
    BY PasskeysTypeStep
  <2>2. P!CopiesCounted'
    BY <2>1, CopiesOfStep DEF P!CopiesCounted
  <2> QED
    BY <2>1, <2>2, LoadedStep, CountersStep, DeletedStep DEF P!PasskeysInv
<1>3. P!PasskeysInv => P!LoginsApart
  BY PasskeysImplied
<1> QED
  BY <1>1, <1>2, <1>3, PTL DEF P!Spec

-----------------------------------------------------------------------------
(* OidcLogin: what the steps change.                                       *)

\* The account a lookup takes is one of those it found.
LEMMA LeastFound ==
    ASSUME NEW S \in SUBSET O!Ids, S # {}
    PROVE  O!Least(S) \in S
<1>1. S \in SUBSET Nat
  BY DEF O!Ids
<1>2. \E x \in S : \A y \in S : x <= y
  BY <1>1, Smallest
<1> QED
  BY <1>2 DEF O!Least

\* Only callback r moves.
Others(r) == \A q \in Flights \ {r} : callback'[q] = callback[q]

\* What a new callback changes.
Exchanged(r, s) ==
    /\ callback[r] = None /\ Others(r) /\ callback' \in [Flights -> O!Callback \union {None}]
    /\ callback'[r] # None /\ callback'[r].sub = s /\ callback'[r].pc = "ref"
    /\ overlap \subseteq overlap'
    /\ s \in overlap' \/ \A q \in Flights : callback[q] # None => callback[q].sub # s
    /\ UNCHANGED <<accounts, made, reached, vouched, overlaid>>

\* Exchange is such a step.
LEMMA ExchangeEffect ==
    ASSUME O!NoneApart, O!OidcTypeOK, NEW r \in Flights, NEW s \in Subjects,
           NEW e \in Addresses \union {None}, NEW v \in BOOLEAN, O!Exchange(r, s, e, v)
    PROVE  Exchanged(r, s)
<1> DEFINE c == [pc |-> "ref", sub |-> s, email |-> e, ok |-> v,
                 linking |-> cfg.linking, id |-> None, row |-> None]
<1>1. c \in O!Callback
  BY DEF O!Callback, O!OidcTypeOK, O!Configs
<1>2. callback' = [callback EXCEPT ![r] = c] /\ callback[r] = None
  BY DEF O!Exchange
<1>3. /\ callback'[r] # None /\ callback'[r].sub = s /\ callback'[r].pc = "ref" /\ Others(r)
      /\ callback' \in [Flights -> O!Callback \union {None}]
  BY <1>1, <1>2 DEF O!OidcTypeOK, O!NoneApart, Others
<1>4. /\ overlap \subseteq overlap'
      /\ s \in overlap' \/ \A q \in Flights : callback[q] # None => callback[q].sub # s
  BY DEF O!Exchange
<1> QED
  BY <1>2, <1>3, <1>4 DEF O!Exchange, Exchanged

\* What the lookup by subject changes.
FoundSubject(r) ==
    /\ callback[r] # None /\ callback[r].pc = "ref"
    /\ Others(r) /\ callback' \in [Flights -> O!Callback \union {None}]
    /\ callback'[r] # None /\ callback'[r].sub = callback[r].sub
    /\ \/ \E u \in O!Rows :
             /\ accounts[u].ref = callback[r].sub
             /\ callback'[r].pc = "touch" /\ callback'[r].id = u /\ callback'[r].row = accounts[u]
       \/ /\ \A u \in O!Rows : accounts[u].ref # callback[r].sub
          /\ callback'[r].pc = "email"
    /\ UNCHANGED <<accounts, made, reached, vouched, overlaid, overlap>>

\* FindBySubject is such a step.
LEMMA SubjectEffect ==
    ASSUME O!NoneApart, O!OidcTypeOK, NEW r \in Flights, O!FindBySubject(r)
    PROVE  FoundSubject(r)
<1> DEFINE found == O!GetByProviderRef(callback[r].sub)
<1>1. found \in SUBSET O!Ids /\ \A u \in found : u \in O!Rows /\ accounts[u].ref = callback[r].sub
  BY DEF O!GetByProviderRef, O!Rows
<1>2. callback[r] \in O!Callback /\ callback[r] # None /\ callback[r].pc = "ref"
  BY DEF O!FindBySubject, O!OidcTypeOK
<1>3. UNCHANGED <<accounts, made, reached, vouched, overlaid, overlap>>
  BY DEF O!FindBySubject, O!history
<1>4. CASE found # {} /\ O!Go(r, "touch", found)
  <2> DEFINE u == O!Least(found)
             q == [callback[r] EXCEPT !.pc = "touch", !.id = u, !.row = accounts[u]]
  <2>1. u \in found
    BY <1>1, <1>4, LeastFound
  <2>2. accounts[u] \in O!UserRow
    BY <1>1, <2>1 DEF O!Rows, O!OidcTypeOK
  <2>3. /\ q \in O!Callback /\ q.pc = "touch" /\ q.sub = callback[r].sub
        /\ q.id = u /\ q.row = accounts[u]
    BY <1>1, <1>2, <2>1, <2>2 DEF O!Callback
  <2>4. callback' = [callback EXCEPT ![r] = q]
    BY <1>4 DEF O!Go
  <2> HIDE DEF q
  <2> QED
    BY <1>1, <1>2, <1>3, <2>1, <2>3, <2>4 DEF FoundSubject, Others, O!OidcTypeOK, O!NoneApart
<1>5. CASE found = {} /\ callback' = [callback EXCEPT ![r].pc = "email"]
  <2> DEFINE q == [callback[r] EXCEPT !.pc = "email"]
  <2>1. q \in O!Callback /\ q.pc = "email" /\ q.sub = callback[r].sub
    BY <1>2 DEF O!Callback
  <2>2. callback' = [callback EXCEPT ![r] = q]
    BY <1>5
  <2>3. \A u \in O!Rows : accounts[u].ref # callback[r].sub
    BY <1>5 DEF O!GetByProviderRef
  <2> HIDE DEF q
  <2> QED
    BY <1>2, <1>3, <2>1, <2>2, <2>3 DEF FoundSubject, Others, O!OidcTypeOK, O!NoneApart
<1> QED
  BY <1>4, <1>5 DEF O!FindBySubject

\* What the lookup by email changes.
FoundEmail(r) ==
    /\ callback[r] # None /\ callback[r].pc = "email"
    /\ Others(r) /\ callback' \in [Flights -> O!Callback \union {None}]
    /\ callback'[r] # None => callback'[r].sub = callback[r].sub
    /\ \/ callback'[r] # None /\ callback'[r].pc = "create" /\ UNCHANGED vouched
       \/ \E u \in O!Rows :
             /\ accounts[u].ref \in {None, callback[r].sub}
             /\ callback'[r] # None
             /\ callback'[r].pc = "link" /\ callback'[r].id = u /\ callback'[r].row = accounts[u]
             /\ vouched' = [vouched EXCEPT ![u] = @ \union {callback[r].sub}]
       \/ callback'[r] = None /\ UNCHANGED vouched
    /\ UNCHANGED <<accounts, made, reached, overlaid, overlap>>

\* FindByEmail is such a step.
LEMMA EmailEffect ==
    ASSUME O!NoneApart, O!OidcTypeOK, NEW r \in Flights, O!FindByEmail(r)
    PROVE  FoundEmail(r)
<1> DEFINE found == IF callback[r].email = None THEN {} ELSE O!GetByEmail(callback[r].email)
<1>1. found \in SUBSET O!Ids /\ \A u \in found : u \in O!Rows
  BY DEF O!GetByEmail, O!Rows
<1>2. callback[r] \in O!Callback /\ callback[r] # None /\ callback[r].pc = "email"
  BY DEF O!FindByEmail, O!OidcTypeOK
<1>3. UNCHANGED <<accounts, made, reached, overlaid, overlap>>
  BY DEF O!FindByEmail
<1>4. CASE /\ found # {} /\ O!MayLink(callback[r], accounts[O!Least(found)])
           /\ O!Go(r, "link", found)
           /\ vouched' = IF callback[r].ok THEN [vouched EXCEPT ![O!Least(found)] = @ \union {callback[r].sub}]
                        ELSE vouched
  <2> DEFINE u == O!Least(found)
             q == [callback[r] EXCEPT !.pc = "link", !.id = u, !.row = accounts[u]]
  <2>1. u \in found
    BY <1>1, <1>4, LeastFound
  <2>2. accounts[u] \in O!UserRow
    BY <1>1, <2>1 DEF O!Rows, O!OidcTypeOK
  <2>3. /\ q \in O!Callback /\ q.pc = "link" /\ q.sub = callback[r].sub
        /\ q.id = u /\ q.row = accounts[u]
    BY <1>1, <1>2, <2>1, <2>2 DEF O!Callback
  <2>4. callback' = [callback EXCEPT ![r] = q]
    BY <1>4 DEF O!Go
  <2>5. callback[r].ok /\ accounts[u].ref \in {None, callback[r].sub}
    BY <1>4 DEF O!MayLink
  <2>6. vouched' = [vouched EXCEPT ![u] = @ \union {callback[r].sub}]
    BY <1>4, <2>5
  <2> HIDE DEF q, u
  <2> QED
    BY <1>1, <1>2, <1>3, <2>1, <2>3, <2>4, <2>5, <2>6
       DEF FoundEmail, Others, O!OidcTypeOK, O!NoneApart
<1>5. CASE /\ found = {}
           /\ callback' = [callback EXCEPT ![r].pc = "create"]
           /\ UNCHANGED vouched
  <2> DEFINE q == [callback[r] EXCEPT !.pc = "create"]
  <2>1. q \in O!Callback /\ q.pc = "create" /\ q.sub = callback[r].sub
    BY <1>2 DEF O!Callback
  <2>2. callback' = [callback EXCEPT ![r] = q]
    BY <1>5
  <2> HIDE DEF q
  <2> QED
    BY <1>2, <1>3, <1>5, <2>1, <2>2 DEF FoundEmail, Others, O!OidcTypeOK, O!NoneApart
<1>6. CASE callback' = [callback EXCEPT ![r] = None] /\ UNCHANGED vouched
  BY <1>2, <1>3, <1>6 DEF FoundEmail, Others, O!OidcTypeOK
<1> QED
  BY <1>4, <1>5, <1>6 DEF O!FindByEmail

\* What the write to a found account changes.
Written(r) ==
    LET u == callback[r].id
        s == callback[r].sub IN
    /\ callback[r] # None /\ callback[r].pc \in {"touch", "link"} /\ u \in O!Ids
    /\ Others(r) /\ callback'[r] = None /\ callback' \in [Flights -> O!Callback \union {None}]
    /\ reached' \in [O!Ids -> SUBSET Subjects]
    /\ accounts' \in [O!Ids -> O!UserRow \union {None}]
    /\ \A v \in O!Ids \ {u} : accounts'[v] = accounts[v] /\ reached'[v] = reached[v]
    /\ \/ UNCHANGED <<accounts, reached, overlaid>>
       \/ /\ callback[r].pc = "link" => accounts[u] # None
          /\ accounts[u] = None => accounts'[u] = None
          /\ accounts[u] # None => accounts'[u] # None /\ accounts'[u].ref = s
          /\ reached'[u] \in {reached[u], reached[u] \union {s}}
          /\ overlaid \subseteq overlaid'
          /\ u \in overlaid' \/ accounts[u] = None \/ accounts[u].ref = callback[r].row.ref
    /\ UNCHANGED <<made, vouched, overlap>>

\* Touch and Link are such steps.
LEMMA WriteEffect ==
    ASSUME O!NoneApart, O!OidcTypeOK, NEW r \in Flights, O!CallbackFound(r),
           O!Touch(r) \/ O!Link(r)
    PROVE  Written(r)
<1> DEFINE u == callback[r].id
           s == callback[r].sub
<1>1. /\ callback[r] \in O!Callback /\ callback[r] # None /\ callback[r].pc \in {"touch", "link"}
      /\ callback' = [callback EXCEPT ![r] = None]
      /\ UNCHANGED <<made, vouched, overlap>>
      /\ callback[r].pc = "link" <=> O!Link(r)
  BY DEF O!Touch, O!Link, O!OidcTypeOK
<1>2. u \in O!Ids /\ s \in Subjects /\ callback[r].email \in Addresses \union {None}
  <2>1. u \in 1..made
    BY <1>1 DEF O!CallbackFound
  <2>2. made \in 0..MaxUsers
    BY DEF O!OidcTypeOK
  <2>3. u \in O!Ids
    BY <2>1, <2>2 DEF O!Ids, O!NoneApart
  <2>4. s \in Subjects /\ callback[r].email \in Addresses \union {None}
    BY <1>1 DEF O!Callback
  <2> QED
    BY <2>3, <2>4
<1>3. Others(r) /\ callback'[r] = None /\ callback' \in [Flights -> O!Callback \union {None}]
  BY <1>1 DEF Others, O!OidcTypeOK
<1> HIDE DEF u, s
<1>4. CASE UNCHANGED <<accounts, reached, overlaid>>
  BY <1>1, <1>2, <1>3, <1>4 DEF Written, O!OidcTypeOK, u, s
<1>5. CASE O!Land(u, callback[r]) /\ O!Overlay(u, callback[r])
  <2> reached' \in [O!Ids -> SUBSET Subjects]
    BY <1>2, <1>5 DEF O!Land, O!OidcTypeOK, s
  <2>1. CASE accounts[u] = None /\ accounts' = accounts /\ ~O!Link(r)
    BY <1>1, <1>2, <1>3, <1>5, <2>1 DEF Written, O!Land, O!Overlay, O!OidcTypeOK, u, s
  <2>2. ASSUME NEW w \in O!UserRow, w.ref = s, accounts[u] # None,
               accounts' = [accounts EXCEPT ![u] = w]
        PROVE  Written(r)
    BY <1>1, <1>2, <1>3, <1>5, <2>2
       DEF Written, O!Land, O!Overlay, O!OidcTypeOK, O!NoneApart, u, s
  <2>3. accounts[u] # None =>
          /\ [accounts[u] EXCEPT !.email = callback[r].email, !.ref = s] \in O!UserRow
          /\ [accounts[u] EXCEPT !.email = callback[r].email, !.ref = s].ref = s
          /\ [accounts[u] EXCEPT !.ref = s] \in O!UserRow
          /\ [accounts[u] EXCEPT !.ref = s].ref = s
    <3>1. accounts[u] # None => accounts[u] \in O!UserRow
      BY <1>2 DEF O!OidcTypeOK
    <3> QED
      BY <1>2, <3>1 DEF O!UserRow
  <2>4. CASE O!Touch(r)
    <3>1. ~O!Link(r)
      BY <1>1, <2>4 DEF O!Touch
    <3>2. CASE accounts[u] = None
      <4>1. accounts' = accounts
        BY <2>4, <3>2 DEF O!Touch, u
      <4> QED
        BY <2>1, <3>1, <3>2, <4>1
    <3>3. CASE accounts[u] # None /\ ~UNCHANGED <<accounts, reached, overlaid>>
      <4>1. accounts' = [accounts EXCEPT ![u] = [accounts[u] EXCEPT !.email = callback[r].email, !.ref = s]]
        BY <2>4, <3>3 DEF O!Touch, u, s
      <4> QED
        BY <2>2, <2>3, <3>3, <4>1
    <3> QED
      BY <1>4, <3>2, <3>3
  <2>5. CASE O!Link(r)
    <3>1. \/ accounts[u] # None /\ accounts' = [accounts EXCEPT ![u] = [@ EXCEPT !.ref = s]]
          \/ UNCHANGED <<accounts, reached, overlaid>>
      BY <2>5 DEF O!Link, u, s
    <3> QED
      BY <1>4, <2>2, <2>3, <3>1
  <2> QED
    BY <2>4, <2>5
<1> QED
  BY <1>4, <1>5 DEF O!Touch, O!Link, u, s

\* What a new account for a subject changes.
Made(r) ==
    /\ callback[r] # None /\ callback[r].pc = "create" /\ Others(r) /\ callback'[r] = None
    /\ callback' \in [Flights -> O!Callback \union {None}]
    /\ \/ UNCHANGED <<accounts, made, reached, vouched>>
       \/ /\ made' = made + 1 /\ made' \in O!Ids
          /\ accounts' = [accounts EXCEPT ![made + 1] =
                          [email |-> callback[r].email, ref |-> callback[r].sub, active |-> TRUE]]
          /\ reached' = [reached EXCEPT ![made + 1] = {callback[r].sub}]
          /\ vouched' = [vouched EXCEPT ![made + 1] = {callback[r].sub}]
    /\ UNCHANGED <<overlaid, overlap>>

\* Create is such a step.
LEMMA MakeEffect ==
    ASSUME O!NoneApart, O!OidcTypeOK, NEW r \in Flights, O!Create(r)
    PROVE  Made(r)
<1>1. Others(r) /\ callback'[r] = None /\ callback' \in [Flights -> O!Callback \union {None}]
  BY DEF O!Create, Others, O!OidcTypeOK
<1>2. made < MaxUsers => made + 1 \in O!Ids
  BY DEF O!Ids, O!OidcTypeOK, O!NoneApart
<1> QED
  BY <1>1, <1>2 DEF O!Create, O!NewRow, Made

-----------------------------------------------------------------------------
(* OidcLogin: one lemma per kind of step.                                  *)

\* A new callback has found nothing yet.
LEMMA ExchangedInv ==
    ASSUME O!NoneApart, O!OidcInv, NEW r \in Flights, NEW s \in Subjects, Exchanged(r, s),
           cfg' = cfg
    PROVE  O!OidcInv'
<1>1. O!OidcTypeOK'
  BY DEF O!OidcInv, O!OidcTypeOK, Exchanged
<1>2. ASSUME NEW u \in O!Ids PROVE O!RowProven(u)' /\ O!OneClaim(u)'
  <2>1. O!RowProven(u) /\ O!OneClaim(u)
    BY DEF O!OidcInv
  <2>2. \A q \in Flights : O!Touching(q, u)' => O!Touching(q, u) /\ callback'[q] = callback[q]
    BY DEF Exchanged, Others, O!Touching
  <2> QED
    BY <2>1, <2>2 DEF Exchanged, O!RowProven, O!OneClaim
<1>3. ASSUME NEW q \in Flights PROVE O!CallbackFound(q)' /\ O!LookupHolds(q)'
  <2>1. CASE q = r
    BY <2>1 DEF Exchanged, Others, O!CallbackFound, O!LookupHolds
  <2>2. CASE q # r
    <3>1. O!CallbackFound(q) /\ O!LookupHolds(q) /\ callback'[q] = callback[q]
      BY <2>2 DEF O!OidcInv, Exchanged, Others
    <3> QED
      BY <2>2, <3>1 DEF Exchanged, Others, O!CallbackFound, O!LookupHolds
  <2> QED
    BY <2>1, <2>2
<1>4. O!OneAccount' /\ O!ReachedProven'
  BY DEF O!OidcInv, O!OneAccount, O!ReachedProven, O!Rows, Exchanged
<1> QED
  BY <1>1, <1>2, <1>3, <1>4 DEF O!OidcInv

\* The lookup by subject finds the account that the subject owns.
LEMMA FoundSubjectInv ==
    ASSUME O!NoneApart, O!OidcInv, NEW r \in Flights, FoundSubject(r), cfg' = cfg
    PROVE  O!OidcInv'
<1>1. O!OidcTypeOK'
  BY DEF O!OidcInv, O!OidcTypeOK, FoundSubject
<1>2. callback[r] \in O!Callback /\ callback[r].sub \in Subjects /\ callback[r].sub # None
  BY DEF O!OidcInv, O!OidcTypeOK, FoundSubject, O!Callback, O!NoneApart
<1>3. ASSUME NEW u \in O!Ids PROVE O!RowProven(u)' /\ O!OneClaim(u)'
  <2>1. O!RowProven(u) /\ O!OneClaim(u)
    BY DEF O!OidcInv
  <2>2. \A q \in Flights : O!Touching(q, u)' =>
          \/ O!Touching(q, u) /\ callback'[q] = callback[q]
          \/ q = r /\ accounts[u] # None /\ accounts[u].ref = callback'[q].sub /\ callback'[q].sub = callback[r].sub
    BY DEF FoundSubject, Others, O!Touching, O!Rows
  <2>3. UNCHANGED <<accounts, made, reached, vouched, overlaid>>
    BY DEF FoundSubject
  <2> QED
    BY <1>2, <2>1, <2>2, <2>3 DEF O!RowProven, O!OneClaim
<1>4. ASSUME NEW q \in Flights PROVE O!CallbackFound(q)' /\ O!LookupHolds(q)'
  <2>1. CASE q = r
    <3>1. O!CallbackFound(q)'
      <4>1. CASE callback'[r].pc = "email"
        BY <2>1, <4>1 DEF O!CallbackFound
      <4>2. CASE callback'[r].pc = "touch"
        <5>1. PICK u \in O!Rows : /\ accounts[u].ref = callback[r].sub
                                  /\ callback'[r].id = u /\ callback'[r].row = accounts[u]
          BY <4>2 DEF FoundSubject
        <5>2. accounts[u] \in O!UserRow /\ u \in O!Ids /\ O!RowProven(u) /\ accounts[u] # None
          BY DEF O!OidcInv, O!OidcTypeOK, O!Rows
        <5>3. u \in 1..made /\ callback[r].sub \in vouched[u]
          BY <1>2, <5>1, <5>2 DEF O!RowProven, O!Ids, O!OidcInv, O!OidcTypeOK
        <5> QED
          BY <2>1, <4>2, <5>1, <5>2, <5>3 DEF O!CallbackFound, FoundSubject
      <4> QED
        BY <4>1, <4>2 DEF FoundSubject
    <3>2. O!LookupHolds(q)'
      <4>1. O!LookupHolds(r) /\ O!OneAccount
        BY DEF O!OidcInv
      <4> QED
        BY <1>2, <2>1, <4>1 DEF O!LookupHolds, O!OneAccount, FoundSubject, Others, O!Rows
    <3> QED
      BY <3>1, <3>2
  <2>2. CASE q # r
    <3>1. O!CallbackFound(q) /\ O!LookupHolds(q) /\ callback'[q] = callback[q]
      BY <2>2 DEF O!OidcInv, FoundSubject, Others
    <3> QED
      BY <2>2, <3>1 DEF FoundSubject, Others, O!CallbackFound, O!LookupHolds
  <2> QED
    BY <2>1, <2>2
<1>5. O!OneAccount' /\ O!ReachedProven'
  BY DEF O!OidcInv, O!OneAccount, O!ReachedProven, O!Rows, FoundSubject
<1> QED
  BY <1>1, <1>3, <1>4, <1>5 DEF O!OidcInv

\* The lookup by email finds a local account, or the subject's own.
LEMMA FoundEmailInv ==
    ASSUME O!NoneApart, O!OidcInv, NEW r \in Flights, FoundEmail(r), cfg' = cfg
    PROVE  O!OidcInv'
<1>1. callback[r] \in O!Callback /\ callback[r].sub \in Subjects /\ callback[r].sub # None
  BY DEF O!OidcInv, O!OidcTypeOK, FoundEmail, O!Callback, O!NoneApart
<1>2. /\ vouched' \in [O!Ids -> SUBSET Subjects]
      /\ \A u \in O!Ids : vouched[u] \subseteq vouched'[u]
  <2>1. vouched \in [O!Ids -> SUBSET Subjects]
    BY DEF O!OidcInv, O!OidcTypeOK
  <2>2. CASE UNCHANGED vouched
    BY <2>1, <2>2
  <2>3. ASSUME NEW u \in O!Rows, vouched' = [vouched EXCEPT ![u] = @ \union {callback[r].sub}]
        PROVE  /\ vouched' \in [O!Ids -> SUBSET Subjects]
               /\ \A v \in O!Ids : vouched[v] \subseteq vouched'[v]
    BY <1>1, <2>1, <2>3 DEF O!Rows
  <2> QED
    BY <2>2, <2>3 DEF FoundEmail
<1>3. O!OidcTypeOK'
  BY <1>2 DEF O!OidcInv, O!OidcTypeOK, FoundEmail
<1>4. ASSUME NEW u \in O!Ids PROVE O!RowProven(u)' /\ O!OneClaim(u)'
  <2>1. O!RowProven(u) /\ O!OneClaim(u)
    BY DEF O!OidcInv
  <2>2. \A q \in Flights : O!Touching(q, u)' => O!Touching(q, u) /\ callback'[q] = callback[q]
    BY DEF FoundEmail, Others, O!Touching
  <2>3. UNCHANGED <<accounts, made, reached, overlaid>>
    BY DEF FoundEmail
  <2> QED
    BY <1>2, <2>1, <2>2, <2>3 DEF O!RowProven, O!OneClaim
<1>5. ASSUME NEW q \in Flights PROVE O!CallbackFound(q)' /\ O!LookupHolds(q)'
  <2>1. CASE q = r
    <3>1. O!CallbackFound(q)'
      <4>1. CASE callback'[r] = None \/ callback'[r].pc = "create"
        BY <2>1, <4>1 DEF O!CallbackFound
      <4>2. CASE callback'[r] # None /\ callback'[r].pc = "link"
        <5>1. PICK u \in O!Rows :
                /\ accounts[u].ref \in {None, callback[r].sub}
                /\ callback'[r].id = u /\ callback'[r].row = accounts[u]
                /\ vouched' = [vouched EXCEPT ![u] = @ \union {callback[r].sub}]
          BY <4>2 DEF FoundEmail
        <5>2. accounts[u] \in O!UserRow /\ u \in O!Ids /\ O!RowProven(u) /\ accounts[u] # None
          BY DEF O!OidcInv, O!OidcTypeOK, O!Rows
        <5>3. u \in 1..made
          BY <5>2 DEF O!RowProven, O!Ids, O!OidcInv, O!OidcTypeOK
        <5>4. callback[r].sub \in vouched'[u]
          BY <5>1, <5>2 DEF O!OidcInv, O!OidcTypeOK
        <5> QED
          BY <2>1, <4>2, <5>1, <5>2, <5>3, <5>4 DEF O!CallbackFound, FoundEmail
      <4> QED
        BY <4>1, <4>2 DEF FoundEmail
    <3>2. O!LookupHolds(q)'
      <4>1. O!LookupHolds(r)
        BY DEF O!OidcInv
      <4> QED
        BY <2>1, <4>1 DEF O!LookupHolds, FoundEmail, Others
    <3> QED
      BY <3>1, <3>2
  <2>2. CASE q # r
    <3>1. O!CallbackFound(q) /\ O!LookupHolds(q) /\ callback'[q] = callback[q]
      BY <2>2 DEF O!OidcInv, FoundEmail, Others
    <3>2. O!CallbackFound(q)'
      <4>1. callback[q] # None /\ callback[q].pc \in {"touch", "link"} => callback[q].id \in O!Ids
        BY <3>1 DEF O!CallbackFound, O!Ids, O!OidcInv, O!OidcTypeOK, O!NoneApart
      <4> QED
        BY <1>2, <3>1, <4>1 DEF FoundEmail, O!CallbackFound
    <3>3. O!LookupHolds(q)'
      BY <2>2, <3>1 DEF FoundEmail, Others, O!LookupHolds
    <3> QED
      BY <3>2, <3>3
  <2> QED
    BY <2>1, <2>2
<1>6. O!OneAccount' /\ O!ReachedProven'
  BY <1>2 DEF O!OidcInv, O!OneAccount, O!ReachedProven, O!Rows, FoundEmail
<1> QED
  BY <1>3, <1>4, <1>5, <1>6 DEF O!OidcInv

\* A write to a found account gives it to its subject, or is noted.
LEMMA WrittenInv ==
    ASSUME O!NoneApart, O!OidcInv, NEW r \in Flights, Written(r), cfg' = cfg
    PROVE  O!OidcInv'
<1> DEFINE w == callback[r].id
           s == callback[r].sub
<1>1. /\ callback[r] \in O!Callback /\ callback[r] # None /\ s \in Subjects /\ s # None
      /\ O!CallbackFound(r) /\ O!LookupHolds(r) /\ w \in O!Ids
  BY DEF O!OidcInv, O!OidcTypeOK, Written, O!Callback, O!NoneApart
<1>2. /\ callback[r].pc \in {"touch", "link"} /\ Others(r) /\ callback'[r] = None
      /\ \A v \in O!Ids \ {w} : accounts'[v] = accounts[v] /\ reached'[v] = reached[v]
      /\ UNCHANGED <<made, vouched, overlap>>
      /\ overlaid \subseteq overlaid'
  BY DEF Written
<1>3. \/ UNCHANGED <<accounts, reached, overlaid>>
      \/ /\ callback[r].pc = "link" => accounts[w] # None
         /\ accounts[w] = None => accounts'[w] = None
         /\ accounts[w] # None => accounts'[w] # None /\ accounts'[w].ref = s
         /\ reached'[w] \in {reached[w], reached[w] \union {s}}
         /\ w \in overlaid' \/ accounts[w] = None \/ accounts[w].ref = callback[r].row.ref
  BY DEF Written
<1>4. O!OidcTypeOK'
  BY DEF O!OidcInv, O!OidcTypeOK, Written
<1> HIDE DEF w, s
<1>5. ASSUME NEW u \in O!Ids PROVE O!RowProven(u)'
  <2>1. O!RowProven(u)
    BY DEF O!OidcInv
  <2>2. s \in vouched[w] /\ O!RowProven(w)
    BY <1>1, <1>2 DEF O!CallbackFound, O!OidcInv, w, s
  <2> QED
    BY <1>2, <1>3, <2>1, <2>2 DEF O!RowProven
<1>6. ASSUME NEW u \in O!Ids PROVE O!OneClaim(u)'
  <2>1. O!OneClaim(u)
    BY DEF O!OidcInv
  <2>2. \A q \in Flights : O!Touching(q, u)' => O!Touching(q, u) /\ callback'[q] = callback[q]
    BY <1>2 DEF Others, O!Touching
  <2>3. CASE u # w
    BY <1>2, <2>1, <2>2, <2>3 DEF O!OneClaim
  <2>4. CASE u = w /\ UNCHANGED <<accounts, reached>>
    BY <1>2, <2>1, <2>2, <2>4 DEF O!OneClaim
  <2>5. CASE u = w /\ ~UNCHANGED <<accounts, reached>>
    <3>1. /\ accounts[w] = None => accounts'[w] = None
          /\ accounts[w] # None => accounts'[w] # None /\ accounts'[w].ref = s
          /\ reached'[w] \in {reached[w], reached[w] \union {s}}
          /\ w \in overlaid' \/ accounts[w] = None \/ accounts[w].ref = callback[r].row.ref
          /\ callback[r].pc = "link" => accounts[w] # None
      BY <1>3, <2>5
    <3>2. /\ callback[r].row.ref = None \/ callback[r].row.ref = s
          /\ callback[r].pc = "touch" => callback[r].row.ref = s
          /\ callback[r].pc = "touch" => O!Touching(r, w)
      BY <1>1, <1>2 DEF O!CallbackFound, O!Touching, w, s
    <3>3. w <= made
      BY <1>1, <1>2 DEF O!CallbackFound, O!OidcInv, O!OidcTypeOK, w
    <3>4. w \notin overlaid' =>
            /\ \A x \in reached[w] : x = s
            /\ \A q \in Flights : O!Touching(q, w) => callback[q].sub = s
      <4>1. CASE callback[r].pc = "touch"
        BY <1>2, <2>1, <2>5, <3>2, <4>1 DEF O!OneClaim, s
      <4>2. CASE callback[r].pc = "link"
        BY <1>2, <2>1, <2>5, <3>1, <3>2, <4>2 DEF O!OneClaim
      <4> QED
        BY <1>2, <4>1, <4>2
    <3>5. accounts'[w] # None => accounts'[w].ref # None
      BY <1>1, <3>1 DEF s
    <3>6. ~(w > made')
      BY <1>1, <1>2, <3>3 DEF O!Ids, O!OidcInv, O!OidcTypeOK
    <3> QED
      BY <1>2, <2>2, <2>5, <3>1, <3>4, <3>5, <3>6 DEF O!OneClaim
  <2> QED
    BY <2>3, <2>4, <2>5
<1>7. ASSUME NEW q \in Flights PROVE O!CallbackFound(q)' /\ O!LookupHolds(q)'
  <2>1. CASE q = r
    BY <1>2, <2>1 DEF O!CallbackFound, O!LookupHolds
  <2>2. CASE q # r
    <3>1. O!CallbackFound(q) /\ O!LookupHolds(q) /\ callback'[q] = callback[q]
      BY <1>2, <2>2 DEF O!OidcInv, Others
    <3>2. O!CallbackFound(q)'
      BY <1>2, <3>1 DEF O!CallbackFound
    <3>3. O!LookupHolds(q)'
      <4>1. callback[q] # None /\ callback[q].sub \notin overlap => callback[q].sub # s
        BY <1>1, <2>2, <3>1 DEF O!LookupHolds, s
      <4>2. \A v \in O!Ids : accounts'[v] # None =>
              accounts[v] # None /\ (accounts'[v].ref = accounts[v].ref \/ accounts'[v].ref = s)
        BY <1>2, <1>3
      <4> QED
        BY <1>2, <3>1, <4>1, <4>2 DEF O!LookupHolds, Others
    <3> QED
      BY <3>2, <3>3
  <2> QED
    BY <2>1, <2>2
<1>8. O!OneAccount'
  <2> SUFFICES ASSUME NEW u \in O!Ids, NEW v \in O!Ids, u # v,
                      accounts'[u] # None, accounts'[v] # None,
                      accounts'[u].ref # None, accounts'[u].ref = accounts'[v].ref
               PROVE  accounts'[u].ref \in overlap'
    BY DEF O!OneAccount, O!Rows
  <2>1. CASE accounts'[u].ref = accounts[u].ref /\ accounts'[v].ref = accounts[v].ref
    <3>1. accounts[u] # None /\ accounts[v] # None
      BY <1>2, <1>3
    <3> QED
      BY <1>2, <2>1, <3>1 DEF O!OneAccount, O!Rows, O!OidcInv
  <2>2. CASE ~(accounts'[u].ref = accounts[u].ref /\ accounts'[v].ref = accounts[v].ref)
    <3>1. accounts'[u].ref = s /\ (u = w \/ v = w)
      BY <1>2, <1>3, <2>2
    <3>2. \E x \in O!Ids \ {w} : accounts[x] # None /\ accounts[x].ref = s
      BY <1>2, <3>1
    <3> QED
      BY <1>1, <1>2, <3>1, <3>2 DEF O!LookupHolds, w, s
  <2> QED
    BY <2>1, <2>2
<1>9. O!ReachedProven'
  <2>1. s \in vouched[w]
    BY <1>1, <1>2 DEF O!CallbackFound, w, s
  <2>2. \A u \in O!Ids : reached[u] \subseteq vouched[u]
    BY DEF O!OidcInv, O!ReachedProven
  <2> QED
    BY <1>1, <1>2, <1>3, <2>1, <2>2 DEF O!ReachedProven
<1> QED
  BY <1>4, <1>5, <1>6, <1>7, <1>8, <1>9 DEF O!OidcInv

\* A new account for a subject is its only one, unless two callbacks of the
\* subject raced.
LEMMA MadeInv ==
    ASSUME O!NoneApart, O!OidcInv, NEW r \in Flights, Made(r), cfg' = cfg
    PROVE  O!OidcInv'
<1> DEFINE s == callback[r].sub
           fresh == [email |-> callback[r].email, ref |-> s, active |-> TRUE]
           new == made + 1
<1>1. /\ callback[r] \in O!Callback /\ callback[r] # None /\ s \in Subjects /\ s # None
      /\ O!LookupHolds(r) /\ callback[r].email \in Addresses \union {None}
  BY DEF O!OidcInv, O!OidcTypeOK, Made, O!Callback, O!NoneApart
<1>2. fresh \in O!UserRow /\ fresh.ref = s
  BY <1>1 DEF O!UserRow
<1>a. fresh # None
  BY <1>2 DEF O!NoneApart
<1>3. /\ callback[r].pc = "create" /\ Others(r) /\ callback'[r] = None
      /\ UNCHANGED <<overlaid, overlap>>
  BY DEF Made
<1> HIDE DEF s, fresh
<1>4. \/ UNCHANGED <<accounts, made, reached, vouched>>
      \/ /\ made' = new /\ new \in O!Ids /\ made < new
         /\ accounts'[new] = fresh /\ reached'[new] = {s} /\ vouched'[new] = {s}
         /\ \A v \in O!Ids \ {new} :
              accounts'[v] = accounts[v] /\ reached'[v] = reached[v] /\ vouched'[v] = vouched[v]
  BY DEF Made, O!OidcInv, O!OidcTypeOK, s, fresh
<1>5. O!OidcTypeOK'
  <2>1. /\ accounts' \in [O!Ids -> O!UserRow \union {None}]
        /\ reached' \in [O!Ids -> SUBSET Subjects] /\ vouched' \in [O!Ids -> SUBSET Subjects]
    BY <1>1, <1>2 DEF Made, O!OidcInv, O!OidcTypeOK, s, fresh
  <2>2. made' \in 0..MaxUsers
    BY DEF Made, O!OidcInv, O!OidcTypeOK, O!Ids, O!NoneApart
  <2>3. callback' \in [Flights -> O!Callback \union {None}]
    BY DEF Made
  <2> QED
    BY <2>1, <2>2, <2>3 DEF O!OidcInv, O!OidcTypeOK
<1>6. /\ \A u \in O!Ids : u <= made => u # new
      /\ made \in Nat /\ new \in Nat /\ O!Ids \subseteq Nat
      /\ \A q \in Flights : callback[q] # None /\ callback[q].pc \in {"touch", "link"} =>
           callback[q].id \in O!Ids /\ callback[q].id <= made
  <2>1. made \in 0..MaxUsers /\ MaxUsers \in Nat
    BY DEF O!OidcInv, O!OidcTypeOK, O!NoneApart
  <2>2. \A q \in Flights : O!CallbackFound(q)
    BY DEF O!OidcInv
  <2> QED
    BY <2>1, <2>2 DEF O!CallbackFound, O!Ids
<1> HIDE DEF new
<1>7. ASSUME NEW u \in O!Ids PROVE O!RowProven(u)' /\ O!OneClaim(u)'
  <2>1. O!RowProven(u) /\ O!OneClaim(u)
    BY DEF O!OidcInv
  <2>2. \A q \in Flights : O!Touching(q, u)' => O!Touching(q, u) /\ callback'[q] = callback[q]
    BY <1>3 DEF Others, O!Touching
  <2>3. CASE UNCHANGED <<accounts, made, reached, vouched>>
    BY <1>3, <2>1, <2>2, <2>3 DEF O!RowProven, O!OneClaim
  <2>4. CASE /\ made' = new /\ u = new /\ accounts'[new] = fresh
             /\ reached'[new] = {s} /\ vouched'[new] = {s}
    <3>1. \A q \in Flights : ~O!Touching(q, new)
      BY <1>6, <2>4 DEF O!Touching
    <3>2. new <= new /\ ~(new > new)
      BY <1>6
    <3> QED
      BY <1>1, <1>2, <2>2, <2>4, <3>1, <3>2 DEF O!RowProven, O!OneClaim
  <2>5. CASE /\ made' = new /\ made < new
             /\ accounts'[u] = accounts[u] /\ reached'[u] = reached[u] /\ vouched'[u] = vouched[u]
    <3>1. (u <= made => u <= new) /\ (u > new => u > made)
      BY <1>6, <2>5
    <3> QED
      BY <1>3, <2>1, <2>2, <2>5, <3>1 DEF O!RowProven, O!OneClaim
  <2> QED
    BY <1>4, <2>3, <2>4, <2>5
<1>8. ASSUME NEW q \in Flights PROVE O!CallbackFound(q)' /\ O!LookupHolds(q)'
  <2>1. CASE q = r
    BY <1>3, <2>1 DEF O!CallbackFound, O!LookupHolds
  <2>2. CASE q # r
    <3>1. O!CallbackFound(q) /\ O!LookupHolds(q) /\ callback'[q] = callback[q]
      BY <1>3, <2>2 DEF O!OidcInv, Others
    <3>2. O!CallbackFound(q)'
      <4>1. callback[q] # None /\ callback[q].pc \in {"touch", "link"} =>
              vouched'[callback[q].id] = vouched[callback[q].id]
        BY <1>4, <1>6
      <4>2. 1..made \subseteq 1..made'
        BY <1>4, <1>6
      <4> QED
        BY <3>1, <4>1, <4>2 DEF O!CallbackFound
    <3>3. O!LookupHolds(q)'
      <4>1. callback[q] # None /\ callback[q].sub \notin overlap => callback[q].sub # s
        BY <1>1, <2>2, <3>1 DEF O!LookupHolds, s
      <4>2. \A v \in O!Ids : accounts'[v] # None =>
              accounts'[v] = accounts[v] \/ accounts'[v].ref = s
        BY <1>2, <1>4
      <4> QED
        BY <1>3, <3>1, <4>1, <4>2 DEF O!LookupHolds, Others
    <3> QED
      BY <3>2, <3>3
  <2> QED
    BY <2>1, <2>2
<1>9. O!OneAccount'
  <2> SUFFICES ASSUME NEW u \in O!Ids, NEW v \in O!Ids, u # v,
                      accounts'[u] # None, accounts'[v] # None,
                      accounts'[u].ref # None, accounts'[u].ref = accounts'[v].ref
               PROVE  accounts'[u].ref \in overlap'
    BY DEF O!OneAccount, O!Rows
  <2>1. CASE accounts'[u] = accounts[u] /\ accounts'[v] = accounts[v]
    BY <1>3, <2>1 DEF O!OneAccount, O!Rows, O!OidcInv
  <2>2. CASE ~(accounts'[u] = accounts[u] /\ accounts'[v] = accounts[v])
    <3>1. accounts'[u].ref = s /\ \E x \in O!Ids : accounts[x] # None /\ accounts[x].ref = s
      BY <1>2, <1>4, <2>2
    <3> QED
      BY <1>1, <1>3, <3>1 DEF O!LookupHolds, s
  <2> QED
    BY <2>1, <2>2
<1>10. O!ReachedProven'
  BY <1>4 DEF O!OidcInv, O!ReachedProven
<1> QED
  BY <1>5, <1>7, <1>8, <1>9, <1>10 DEF O!OidcInv

\* A callback that ends changes nothing.
LEMMA OidcFailInv ==
    ASSUME O!NoneApart, O!OidcInv, NEW r \in Flights, O!Fail(r)
    PROVE  O!OidcInv'
<1>1. /\ callback' = [callback EXCEPT ![r] = None]
      /\ UNCHANGED <<accounts, made, cfg, reached, vouched, overlaid, overlap>>
  BY DEF O!Fail, O!history
<1>2. \A q \in Flights : callback'[q] # None => callback'[q] = callback[q]
  BY <1>1 DEF O!OidcInv, O!OidcTypeOK
<1>3. O!OidcTypeOK'
  BY <1>1 DEF O!OidcInv, O!OidcTypeOK
<1>4. ASSUME NEW u \in O!Ids PROVE O!RowProven(u)' /\ O!OneClaim(u)'
  <2>1. O!RowProven(u) /\ O!OneClaim(u)
    BY DEF O!OidcInv
  <2>2. \A q \in Flights : O!Touching(q, u)' => O!Touching(q, u) /\ callback'[q] = callback[q]
    BY <1>2 DEF O!Touching
  <2> QED
    BY <1>1, <2>1, <2>2 DEF O!RowProven, O!OneClaim
<1>5. ASSUME NEW q \in Flights PROVE O!CallbackFound(q)' /\ O!LookupHolds(q)'
  <2>1. O!CallbackFound(q) /\ O!LookupHolds(q)
    BY DEF O!OidcInv
  <2> QED
    BY <1>1, <1>2, <2>1 DEF O!CallbackFound, O!LookupHolds
<1>6. O!OneAccount' /\ O!ReachedProven'
  BY <1>1 DEF O!OidcInv, O!OneAccount, O!ReachedProven, O!Rows
<1> QED
  BY <1>3, <1>4, <1>5, <1>6 DEF O!OidcInv

\* The administrator never changes whose account it is.
LEMMA OidcAdminInv ==
    ASSUME O!NoneApart, O!OidcInv,
           \/ \E e \in Addresses : O!CreateUser(e)
           \/ \E u \in O!Ids, e \in Addresses, a \in BOOLEAN : O!UpdateUser(u, e, a)
           \/ \E u \in O!Ids : O!DeleteUser(u)
    PROVE  O!OidcInv'
<1>1. UNCHANGED <<cfg, callback, reached, vouched, overlaid, overlap>>
  BY DEF O!CreateUser, O!UpdateUser, O!DeleteUser, O!history
<1>2. made \in 0..MaxUsers /\ MaxUsers \in Nat /\ O!Ids \subseteq Nat
      /\ accounts \in [O!Ids -> O!UserRow \union {None}]
  BY DEF O!OidcInv, O!OidcTypeOK, O!NoneApart, O!Ids
<1>3. /\ made' \in 0..MaxUsers /\ made <= made'
      /\ accounts' \in [O!Ids -> O!UserRow \union {None}]
      /\ \A v \in O!Ids : accounts'[v] # None =>
           \/ accounts[v] # None /\ accounts'[v].ref = accounts[v].ref
           \/ accounts'[v].ref = None /\ v > made /\ v <= made'
      /\ \A v \in O!Ids : v > made' => accounts'[v] = accounts[v]
  <2>1. CASE \E e \in Addresses : O!CreateUser(e)
    <3>1. PICK e \in Addresses : O!CreateUser(e)
      BY <2>1
    <3> DEFINE fresh == [email |-> e, ref |-> None, active |-> TRUE]
    <3>2. fresh \in O!UserRow /\ fresh.ref = None
      BY DEF O!UserRow
    <3>3. made < MaxUsers /\ made' = made + 1 /\ accounts' = [accounts EXCEPT ![made + 1] = fresh]
      BY <3>1 DEF O!CreateUser, O!NewRow
    <3> HIDE DEF fresh
    <3>4. /\ accounts'[made + 1] = fresh /\ made + 1 \in O!Ids
          /\ \A v \in O!Ids \ {made + 1} : accounts'[v] = accounts[v]
          /\ accounts' \in [O!Ids -> O!UserRow \union {None}]
      BY <1>2, <3>2, <3>3 DEF O!Ids
    <3>5. ASSUME NEW v \in O!Ids
          PROVE  /\ accounts'[v] # None =>
                      \/ accounts[v] # None /\ accounts'[v].ref = accounts[v].ref
                      \/ accounts'[v].ref = None /\ v > made /\ v <= made'
                 /\ v > made' => accounts'[v] = accounts[v]
      BY <1>2, <3>2, <3>3, <3>4
    <3> QED
      BY <1>2, <3>3, <3>4, <3>5
  <2>2. CASE \E u \in O!Ids, e \in Addresses, a \in BOOLEAN : O!UpdateUser(u, e, a)
    <3>1. PICK u \in O!Ids, e \in Addresses, a \in BOOLEAN : O!UpdateUser(u, e, a)
      BY <2>2
    <3> DEFINE fresh == [accounts[u] EXCEPT !.email = e, !.active = a]
    <3>2. accounts[u] # None /\ accounts[u] \in O!UserRow /\ made' = made
      BY <1>2, <3>1 DEF O!UpdateUser
    <3>3. fresh \in O!UserRow /\ fresh.ref = accounts[u].ref
      BY <3>2 DEF O!UserRow
    <3>4. accounts' = [accounts EXCEPT ![u] = fresh]
      BY <3>1 DEF O!UpdateUser
    <3>5. ~(u > made')
      BY <1>2, <3>2 DEF O!OidcInv, O!RowProven
    <3> HIDE DEF fresh
    <3> QED
      BY <1>2, <3>2, <3>3, <3>4, <3>5
  <2>3. CASE \E u \in O!Ids : O!DeleteUser(u)
    <3>1. PICK u \in O!Ids : O!DeleteUser(u)
      BY <2>3
    <3>2. accounts' = [accounts EXCEPT ![u] = None] /\ made' = made /\ accounts[u] # None
      BY <3>1 DEF O!DeleteUser
    <3>3. ~(u > made')
      BY <1>2, <3>2 DEF O!OidcInv, O!RowProven
    <3> QED
      BY <1>2, <3>2, <3>3
  <2> QED
    BY <2>1, <2>2, <2>3
<1>4. O!OidcTypeOK'
  BY <1>1, <1>3 DEF O!OidcInv, O!OidcTypeOK
<1>5. ASSUME NEW u \in O!Ids PROVE O!RowProven(u)' /\ O!OneClaim(u)'
  <2>1. O!RowProven(u) /\ O!OneClaim(u)
    BY DEF O!OidcInv
  <2>2. u \in Nat /\ made \in Nat /\ made' \in Nat
    BY <1>2, <1>3
  <2>3. O!RowProven(u)'
    BY <1>1, <1>3, <2>1, <2>2 DEF O!RowProven
  <2>4. u > made => \A q \in Flights : ~O!Touching(q, u)
    <3>1. \A q \in Flights : O!CallbackFound(q)
      BY DEF O!OidcInv
    <3> QED
      BY <2>2, <3>1 DEF O!CallbackFound, O!Touching
  <2>5. \A q \in Flights : O!Touching(q, u)' <=> O!Touching(q, u)
    BY <1>1 DEF O!Touching
  <2>6. u > made' => u > made
    BY <1>3, <2>2
  <2>7. O!OneClaim(u)'
    BY <1>1, <1>3, <2>1, <2>4, <2>5, <2>6 DEF O!OneClaim
  <2> QED
    BY <2>3, <2>7
<1>6. ASSUME NEW q \in Flights PROVE O!CallbackFound(q)' /\ O!LookupHolds(q)'
  <2>1. O!CallbackFound(q) /\ O!LookupHolds(q)
    BY DEF O!OidcInv
  <2>2. 1..made \subseteq 1..made'
    BY <1>2, <1>3
  <2>3. callback[q] # None => callback[q].sub # None
    BY DEF O!OidcInv, O!OidcTypeOK, O!Callback, O!NoneApart
  <2> QED
    BY <1>1, <1>3, <2>1, <2>2, <2>3 DEF O!CallbackFound, O!LookupHolds
<1>7. O!OneAccount' /\ O!ReachedProven'
  BY <1>1, <1>3 DEF O!OidcInv, O!OneAccount, O!ReachedProven, O!Rows
<1> QED
  BY <1>4, <1>5, <1>6, <1>7 DEF O!OidcInv

\* The settings, and stuttering, are no part of the invariant.
LEMMA OidcIdleInv ==
    ASSUME O!OidcInv, (\E c \in O!Configs : O!SetConfig(c)) \/ UNCHANGED O!vars
    PROVE  O!OidcInv'
<1>1. /\ UNCHANGED <<accounts, made, callback, reached, vouched, overlaid, overlap>>
      /\ cfg' \in O!Configs
  BY DEF O!SetConfig, O!vars, O!history, O!OidcInv, O!OidcTypeOK
<1>2. O!OidcTypeOK'
  BY <1>1 DEF O!OidcInv, O!OidcTypeOK
<1> QED
  BY <1>1, <1>2 DEF O!OidcInv, O!RowProven, O!OneClaim, O!Touching, O!CallbackFound,
     O!LookupHolds, O!OneAccount, O!ReachedProven, O!Rows

\* The initial states satisfy the invariant.
LEMMA OidcInit == ASSUME O!NoneApart, O!Init PROVE O!OidcInv
<1>1. PICK e \in Addresses : accounts = [u \in O!Ids |->
            IF u <= made THEN [email |-> e, ref |-> None, active |-> TRUE] ELSE None]
  BY DEF O!Init
<1> DEFINE fresh == [email |-> e, ref |-> None, active |-> TRUE]
<1>2. fresh \in O!UserRow /\ fresh.ref = None
  BY DEF O!UserRow
<1>3. accounts = [u \in O!Ids |-> IF u <= made THEN fresh ELSE None]
  BY <1>1
<1> HIDE DEF fresh
<1>4. made \in {0, 1} /\ O!Ids \subseteq Nat
  BY DEF O!Init, O!Ids, O!NoneApart
<1> QED
  <2>1. made \in 0..MaxUsers
    BY DEF O!Init, O!NoneApart
  <2>2. /\ reached = [u \in O!Ids |-> {}] /\ vouched = [u \in O!Ids |-> {}]
        /\ callback = [r \in Flights |-> None] /\ cfg \in O!Configs
    BY DEF O!Init, O!Configs
  <2>3. O!OidcTypeOK
    BY <1>2, <1>3, <2>1, <2>2 DEF O!OidcTypeOK
  <2>4. ASSUME NEW u \in O!Ids PROVE O!RowProven(u) /\ O!OneClaim(u)
    BY <1>2, <1>3, <1>4, <2>2 DEF O!RowProven, O!OneClaim, O!Touching
  <2>5. ASSUME NEW r \in Flights PROVE O!CallbackFound(r) /\ O!LookupHolds(r)
    BY <2>2 DEF O!CallbackFound, O!LookupHolds
  <2>6. O!OneAccount /\ O!ReachedProven
    BY <1>2, <1>3, <2>2 DEF O!OneAccount, O!ReachedProven, O!Rows
  <2> QED
    BY <2>3, <2>4, <2>5, <2>6 DEF O!OidcInv

\* The invariant gives the property.
LEMMA OidcImplied == ASSUME O!OidcInv PROVE O!LoginsApart
<1>1. O!SubjectsApart
  <2> SUFFICES ASSUME NEW u \in O!Ids \ overlaid PROVE Cardinality(reached[u]) <= 1
    BY DEF O!SubjectsApart, O!Cardinality, Cardinality
  <2>1. \A s, t \in reached[u] : s = t
    BY DEF O!OidcInv, O!OneClaim
  <2>2. CASE reached[u] = {}
    BY <2>2, FS_EmptySet
  <2>3. CASE reached[u] # {}
    <3>1. PICK s \in reached[u] : reached[u] = {s}
      BY <2>1, <2>3
    <3>2. Cardinality({s}) = 1
      BY FS_Singleton
    <3> QED
      BY <3>1, <3>2
  <2> QED
    BY <2>2, <2>3
<1> QED
  BY <1>1 DEF O!LoginsApart, O!OidcInv

\* An account is reached by one subject, which it was made for or whose email
\* the provider vouched for, and a subject has one account, but for the races
\* that are named, for any number of accounts, subjects and callbacks
\* (findOrCreateOIDCUser).
THEOREM OidcLoginsApart == O!Spec => []O!LoginsApart
<1> USE LoginsAssumption
<1>1. O!Init => O!OidcInv
  BY OidcInit
<1>2. O!OidcInv /\ [O!Next]_O!vars => O!OidcInv'
  <2> SUFFICES ASSUME O!OidcInv, [O!Next]_O!vars PROVE O!OidcInv'
    OBVIOUS
  <2> O!OidcTypeOK
    BY DEF O!OidcInv
  <2>1. ASSUME NEW r \in Flights, NEW s \in Subjects, NEW e \in Addresses \union {None},
               NEW v \in BOOLEAN, O!Exchange(r, s, e, v)
        PROVE  O!OidcInv'
    <3>1. Exchanged(r, s)
      BY <2>1, ExchangeEffect
    <3> QED
      BY <2>1, <3>1, ExchangedInv DEF O!Exchange
  <2>2. ASSUME NEW r \in Flights, O!FindBySubject(r) PROVE O!OidcInv'
    <3>1. FoundSubject(r)
      BY <2>2, SubjectEffect
    <3> QED
      BY <2>2, <3>1, FoundSubjectInv DEF O!FindBySubject
  <2>3. ASSUME NEW r \in Flights, O!FindByEmail(r) PROVE O!OidcInv'
    <3>1. FoundEmail(r)
      BY <2>3, EmailEffect
    <3> QED
      BY <2>3, <3>1, FoundEmailInv DEF O!FindByEmail
  <2>4. ASSUME NEW r \in Flights, O!Touch(r) \/ O!Link(r) PROVE O!OidcInv'
    <3>1. O!CallbackFound(r)
      BY DEF O!OidcInv
    <3>2. Written(r)
      BY <2>4, <3>1, WriteEffect
    <3> QED
      BY <2>4, <3>2, WrittenInv DEF O!Touch, O!Link
  <2>5. ASSUME NEW r \in Flights, O!Create(r) PROVE O!OidcInv'
    <3>1. Made(r)
      BY <2>5, MakeEffect
    <3> QED
      BY <2>5, <3>1, MadeInv DEF O!Create
  <2> QED
    BY <2>1, <2>2, <2>3, <2>4, <2>5, OidcFailInv, OidcAdminInv, OidcIdleInv DEF O!Next
<1>3. O!OidcInv => O!LoginsApart
  BY OidcImplied
<1> QED
  BY <1>1, <1>2, <1>3, PTL DEF O!Spec

\* Neither kind of login opens somebody else's account, however the ceremonies
\* and callbacks of both overlap (FinishLogin, findOrCreateOIDCUser).
THEOREM LoginsKeptApart == P!Spec /\ O!Spec => []LoginsApart
<1>1. P!LoginsApart /\ O!LoginsApart => LoginsApart
  BY DEF LoginsApart
<1> QED
  BY <1>1, PasskeyLoginsApart, OidcLoginsApart, PTL
=============================================================================
