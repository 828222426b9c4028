------------------------------- MODULE Access -------------------------------
(***************************************************************************)
(* Admission of a visitor to one published service: the request pipeline   *)
(* of the proxy (internal/proxy manager.go Handler, access.go,             *)
(* access_rules.go) and the one-time credentials that open a service       *)
(* without an account or carry a login over to the service's host (bridge  *)
(* tokens, e-mail codes, route pins, magic links: internal/auth            *)
(* route_access.go and magic_link.go, internal/http route_auth.go).        *)
(*                                                                         *)
(* Data is reduced to what a decision can tell apart.  A prefix list is    *)
(* the set of addresses it contains; a path is a sequence of segments,     *)
(* each with a name, whether it carries a ";" parameter and whether it is  *)
(* written in capitals.  One user with one login session, one API token    *)
(* and one browser; the cache of authenticated users is in AuthCache,      *)
(* stale routes in Routing.                                                *)
(***************************************************************************)
EXTENDS Integers, Sequences, FiniteSets, FiniteSetsExt

CONSTANTS
    Requests,    \* handlers in flight
    Bridges,     \* bridge tokens, by jti
    Tokens,      \* login_tokens rows of scope route_access or magic_link
    Services,    \* states of the services row an administrator may save
    Users,       \* states of the users row, the login session and the API token
    Inputs,      \* requests a client may send
    Setups,      \* which of the above occur together: a record for each setup
    Emails,      \* addresses a visitor may own
    Trusted,     \* addresses of trusted proxies (TrustedProxyCIDRs)
    None,
    BridgeTTL,   \* lifetime of a bridge token (2 minutes)
    TokenTTL,    \* tokenTTL, lifetime of a host session token
    JtiWindow,   \* how long a consumed jti is remembered (5 minutes)
    RouteTTL,    \* routeAuthTTL, lifetime of a route access cookie
    CodeTTL,     \* lifetime of an e-mail code or a magic link
    MaxNow,      \* bound on the clock
    Restarts     \* bound on the restarts that forget a use of a bridge token

ASSUME TimesAssumption ==
    /\ BridgeTTL \in Nat /\ RouteTTL \in Nat /\ CodeTTL \in Nat /\ MaxNow \in Nat
    /\ TokenTTL \in Nat /\ Restarts \in Nat
    /\ JtiWindow \in Nat /\ JtiWindow > BridgeTTL
\* redis: Redis is configured; adminHost: the service is on the administration
\* host.
ASSUME SetupsAssumption ==
    \A i \in DOMAIN Setups :
        Setups[i] \in [services: SUBSET Services, users: SUBSET Users,
                       requests: SUBSET Requests, inputs: SUBSET Inputs,
                       redis: BOOLEAN, adminHost: BOOLEAN]
ASSUME NamesAssumption ==
    /\ None \notin Bridges \union Tokens \union Emails
    /\ None \notin Inputs /\ None \notin Services
    /\ Bridges \intersect Tokens = {}

\* Rules and forwarded hops are lists, service groups have primary keys, and
\* the addresses a service is limited to are addresses.
IsList(s) == Len(s) \in Nat /\ DOMAIN s = 1..Len(s)
ASSUME RowsAssumption ==
    /\ \A s \in Services :
         /\ IsList(s.rules) /\ s.emails \subseteq Emails
         /\ None \notin s.serviceGroups
         /\ \A g \in s.serviceGroups :
              /\ g.id \in Nat /\ g.emails \subseteq Emails
              /\ \A h \in s.serviceGroups : g.id = h.id => g = h
    /\ \A in \in Inputs : IsList(in.chain) /\ {"peer", "chain", "realIP"} \subseteq DOMAIN in

VARIABLES
    setup,    \* the installation, which stays as it is
    now,
    svc,      \* the services row
    usr,      \* the users row and the login session
    token,    \* login_tokens rows
    bridge,   \* bridge tokens issued
    redis,    \* Redis counter of each jti
    local,    \* process-local counter of each jti (LocalLimiter)
    jar,      \* cookies the browser holds for the service's host
    req,      \* program counter and local variables of each handler
    opened,   \* history: how often each credential was accepted
    failed,   \* history: Redis has failed
    forgotten,\* history: restarts that lost the memory of a bridge token's use
    proven    \* history: addresses whose code was presented

vars == <<setup, now, svc, usr, token, bridge, redis, local, jar, req, opened, failed, forgotten, proven>>

NoToken == [scope |-> "none", email |-> None, used |-> FALSE, exp |-> 0]
NoBridge == [kind |-> "none", method |-> "", email |-> None, host |-> 0, exp |-> 0]
NoCookie == [method |-> "", email |-> None, exp |-> 0]
NoKey == [n |-> 0, exp |-> 0]

PCs == {"idle", "authorize", "finish", "forward", "verify", "magic"}
Idle == [pc |-> "idle", in |-> None, svc |-> None, rule |-> 0, user |-> None,
         token |-> None, method |-> "", email |-> None]

Init ==
    /\ setup \in DOMAIN Setups
    /\ now = 0
    /\ svc \in Setups[setup].services
    /\ usr \in Setups[setup].users
    /\ token = [t \in Tokens |-> NoToken]
    /\ bridge = [b \in Bridges |-> NoBridge]
    /\ redis = [b \in Bridges |-> NoKey]
    /\ local = [b \in Bridges |-> {}]
    /\ jar = [route |-> NoCookie, host |-> 0]   \* host: expiry of the host session token
    /\ req = [r \in Requests |-> Idle]
    /\ opened = [x \in Tokens \union Bridges |-> 0]
    /\ failed = FALSE
    /\ forgotten = [b \in Bridges |-> 0]
    /\ proven = {}

-----------------------------------------------------------------------------
(* The policy of a service: its own or the one of its first service group  *)
(* that has any, completed from the legacy auth_policy column.             *)

normalizedPolicy(p, legacy) ==
    IF p.mode # "" THEN p
    ELSE CASE legacy = "public" -> [p EXCEPT !.mode = "public"]
           [] legacy = "admin_only" -> [p EXCEPT !.mode = "restricted", !.roles = {"admin"}]
           [] OTHER -> [p EXCEPT !.mode = "authenticated"]

normalizedAccessMethod(m) ==
    IF m \in {"oidc_only", "pin", "email_code"} THEN m ELSE "session"

NoPolicy == [mode |-> "", roles |-> {}, groups |-> {}]

\* The service group that decides: the lowest id among those with a policy.
DecidingGroup(gs) == IF gs = {} THEN None ELSE CHOOSE g \in gs : \A h \in gs : g.id <= h.id

EffectiveAccessForService(s) ==
    LET own == [mode |-> s.mode, roles |-> s.roles, groups |-> s.groups]
        withPolicy == {g \in s.serviceGroups : g.mode # "" \/ g.method # ""}
        group == DecidingGroup(withPolicy)
        inherited == [mode |-> group.mode, roles |-> group.roles, groups |-> group.groups]
    IN IF ~s.useGroupPolicy
       THEN [policy |-> normalizedPolicy(own, s.legacy),
             method |-> normalizedAccessMethod(s.method), emails |-> s.emails]
       ELSE IF group = None
       THEN [policy |-> normalizedPolicy(NoPolicy, s.legacy),
             method |-> normalizedAccessMethod(s.method), emails |-> s.emails]
       ELSE [policy |-> normalizedPolicy(inherited, s.legacy),
             method |-> normalizedAccessMethod(IF s.method # "" THEN s.method ELSE group.method),
             emails |-> IF s.method # "" THEN s.emails ELSE group.emails]

Policy(s) == EffectiveAccessForService(s).policy
Method(s) == EffectiveAccessForService(s).method

\* routeEmailAllowed and validateRouteEmailDomain: an empty list allows all.
routeEmailAllowed(e, emails) == emails = {} \/ e \in emails

\* isAllowedByRestrictedPolicy, the proxy's check: empty lists admit nobody.
isAllowedByRestrictedPolicy(u, policy) ==
    /\ u # None
    /\ u.role \in policy.roles \/ u.groups \cap policy.groups # {}

\* restrictedPolicyAllowsUser, the check where links are shown: empty lists admit
\* everybody.
restrictedPolicyAllowsUser(u, policy) ==
    \/ isAllowedByRestrictedPolicy(u, policy)
    \/ policy.roles = {} /\ policy.groups = {}

\* A wildcard service admits logins only on the hosts it lists.
LoginAllowedOnHost(s) == s.wildcard => s.loginHost

-----------------------------------------------------------------------------
(* What the proxy makes of the client's address, path and time.            *)

\* Mutant: the first untrusted address of the chain, which the client wrote.
MutFirstHop(chain) ==
    LET untrusted == {i \in DOMAIN chain : chain[i] \notin Trusted}
    IN IF untrusted = {} THEN None ELSE chain[Min(untrusted)]

\* clientIPFromForwardedChain: from the right, the first address that is not
\* one of the trusted proxies.
clientIPFromForwardedChain(chain) ==
    LET untrusted == {i \in DOMAIN chain : chain[i] \notin Trusted}
    IN IF untrusted = {} THEN None ELSE chain[Max(untrusted)]

realClientIP(in) ==
    IF in.peer \notin Trusted THEN in.peer
    ELSE IF clientIPFromForwardedChain(in.chain) # None
         THEN clientIPFromForwardedChain(in.chain)
    ELSE IF in.realIP # None THEN in.realIP ELSE in.peer

\* canonicalRequestPath refuses dot segments, with or without a parameter.
canonicalRequestPath(path) == \A i \in DOMAIN path : path[i].name \notin {".", ".."}

stripPathParams(path) ==
    [i \in DOMAIN path |-> [name |-> path[i].name, param |-> FALSE, caps |-> path[i].caps]]

\* accessRulePathMatches: the pattern is a prefix of the path, "*" matches any
\* segment, and only an allow rule distinguishes case.
accessRulePathMatches(pattern, path, foldCase) ==
    /\ Len(path) >= Len(pattern)
    /\ \A i \in DOMAIN pattern :
         \/ pattern[i] = "*"
         \/ /\ path[i].name = pattern[i] /\ ~path[i].param
            /\ foldCase \/ ~path[i].caps

matches(rule, ip, path) ==
    /\ rule.include # {} => ip \in rule.include
    /\ ip \notin rule.exclude
    /\ \/ rule.paths = {}
       \/ \E p \in rule.paths : accessRulePathMatches(p, path, rule.action # "allow")

\* Mutant: an allow rule needs only one of the two readings of the path.
MutEitherReading(rule, ip, path) ==
    matches(rule, ip, path) \/ matches(rule, ip, stripPathParams(path))

\* An allow rule must match the path as it is and without parameters; any other
\* rule applies when either reading matches.
RuleHits(rule, ip, path) ==
    IF rule.action = "allow"
    THEN matches(rule, ip, path) /\ matches(rule, ip, stripPathParams(path))
    ELSE matches(rule, ip, path) \/ matches(rule, ip, stripPathParams(path))

\* matchAccessRule: index of the first rule that applies, or 0.
matchAccessRule(rules, ip, path) ==
    LET hits == {i \in DOMAIN rules : RuleHits(rules[i], ip, path)}
    IN IF hits = {} THEN 0 ELSE Min(hits)

\* accessWindowMatches, with hours for minutes; a window may end on the next day.
accessWindowMatches(w, day, hour) ==
    /\ w.days # {} => day \in w.days
    /\ IF w.end >= w.start THEN hour >= w.start /\ hour <= w.end
                           ELSE hour >= w.start \/ hour <= w.end

WindowsOpen(s, in) == s.windows = {} \/ \E w \in s.windows : accessWindowMatches(w, in.day, in.hour)

countryAllowedByRoute(country, s) ==
    \/ country = ""
    \/ country \notin s.blockedCountries /\ (s.countries # {} => country \in s.countries)

\* enforceNetworkRules; reputation and geo are the answers of the blocklist and
\* of the country database: "open" and "closed" are "cannot tell", as configured.
enforceNetworkRules(s, in) ==
    LET ip == realClientIP(in) IN
    /\ ip # None
    /\ ip \notin s.block
    /\ s.allow # {} => ip \in s.allow
    /\ in.reputation \in {"clean", "open"}
    /\ s.countries \union s.blockedCountries # {} =>
         \/ in.geo = "open"
         \/ in.geo \notin {"open", "closed"} /\ countryAllowedByRoute(in.geo, s)

-----------------------------------------------------------------------------
Return(r) == req' = [req EXCEPT ![r] = Idle]

\* A refused or redirected request, an error, or the end of the response.
Finish(r) ==
    /\ req[r].pc # "idle"
    /\ Return(r)
    /\ UNCHANGED <<setup, now, svc, usr, token, bridge, redis, local, jar, opened, failed, forgotten, proven>>

\* Handler up to the access rules: the route is matched and copied.  A request
\* refused here changes nothing that is modelled.
Arrive(r, in) ==
    /\ req[r].pc = "idle"
    /\ canonicalRequestPath(in.path)
    /\ ~in.ambiguous                       \* ";" parameters change the route
    /\ enforceNetworkRules(svc, in)
    /\ LET i == matchAccessRule(svc.rules, realClientIP(in), in.path)
           action == IF i = 0 THEN "none" ELSE svc.rules[i].action
       IN /\ action # "deny"
          /\ req' = [req EXCEPT ![r] = [Idle EXCEPT !.pc = "authorize", !.in = in,
                                          !.svc = svc, !.rule = i]]
    /\ UNCHANGED <<setup, now, svc, usr, token, bridge, redis, local, jar, opened, failed, forgotten, proven>>

RuleAction(q) == IF q.rule = 0 THEN "none" ELSE q.svc.rules[q.rule].action

\* The access mode after the rules: "authenticate" raises a public route.
ModeOf(q) ==
    IF RuleAction(q) = "authenticate" /\ Policy(q.svc).mode = "public"
    THEN "authenticated" ELSE Policy(q.svc).mode

\* parseHostSessionToken: the token is for this host and has not expired.
parseHostSessionToken(exp) == exp > now

\* hostSessionFor: the login session the token was issued in is still usable.
hostSessionFor(u) == u.session = "live"

AuthenticateHostSessionToken(exp) ==
    parseHostSessionToken(exp) /\ hostSessionFor(usr) /\ usr.active

\* AuthenticateAccessToken: an access token of the login session.
AuthenticateAccessToken == hostSessionFor(usr) /\ usr.active

\* authenticateAPIToken: a user without groups, with the role of the API token;
\* usr.api is "" when the token was revoked or has expired.
authenticateAPIToken ==
    IF usr.api = "" THEN None ELSE [role |-> usr.api, provider |-> "", groups |-> {}]

\* AuthenticateHostRequest without an API token: a bearer token, which may be of
\* either kind, or the cookie of the host.
AuthenticateHostRequest(in) ==
    IF in.bearer = "access" THEN AuthenticateAccessToken ELSE AuthenticateHostSessionToken(jar.host)

\* AuthenticateRequest without an API token: an access token, as bearer or in the
\* cookie the login left on the administration host.
AuthenticateRequest(in) == in.bearer # "host" /\ AuthenticateAccessToken

\* authenticateProxyRequest: both try an API token first.  A login needs a
\* finished account setup as well (BootstrapAccessAllowed; an API token that is
\* refused there counts as usr.api = "").
authenticateProxyRequest(in) ==
    IF in.bearer = "api" THEN authenticateAPIToken
    ELSE IF /\ usr.bootstrapped
            /\ IF Setups[setup].adminHost THEN AuthenticateRequest(in) ELSE AuthenticateHostRequest(in)
         THEN [role |-> usr.role, provider |-> usr.provider, groups |-> usr.groups] ELSE None

\* The route access cookie is there and has not expired.
RouteAccessCookieClaims == jar.route # NoCookie /\ jar.route.exp > now

\* The pin and e-mail cases of enforceAccessMethod.
enforceAccessMethod(s) ==
    /\ RouteAccessCookieClaims
    /\ jar.route.method = Method(s)
    /\ Method(s) = "email_code" =>
         routeEmailAllowed(jar.route.email, EffectiveAccessForService(s).emails)

\* Mutant: a pin or a code is enough on a restricted route.
MutNoUserNeeded(q, user) ==
    CASE Method(q.svc) = "oidc_only" -> user # None /\ user.provider = "oidc"
      [] Method(q.svc) \in {"pin", "email_code"} -> enforceAccessMethod(q.svc)
      [] OTHER -> TRUE

\* The access method, then the switch of authorizeRequest on the access mode.
authorizeRequest(q, user) ==
    CASE Method(q.svc) = "oidc_only" -> user # None /\ user.provider = "oidc"
      [] Method(q.svc) \in {"pin", "email_code"} -> enforceAccessMethod(q.svc)
      [] OTHER -> ModeOf(q) = "public" \/ user # None

\* authorizeRequest; an allow rule skips it and leaves the user unknown.
Authorize(r) ==
    /\ req[r].pc = "authorize"
    /\ LET q == req[r]
           asked == \/ Method(q.svc) = "oidc_only"
                    \/ Method(q.svc) = "session" /\ ModeOf(q) # "public"
           user == IF asked /\ RuleAction(q) # "allow"
                   THEN authenticateProxyRequest(q.in) ELSE None
       IN /\ RuleAction(q) = "allow" \/ authorizeRequest(q, user)
          /\ req' = [req EXCEPT ![r].pc = "finish", ![r].user = user]
    /\ UNCHANGED <<setup, now, svc, usr, token, bridge, redis, local, jar, opened, failed, forgotten, proven>>

RestrictedOK(q) ==
    ModeOf(q) = "restricted" /\ RuleAction(q) # "allow" =>
        isAllowedByRestrictedPolicy(q.user, Policy(q.svc))

\* Access windows, restricted policy, then the request goes to the upstream.
Forward(r) ==
    /\ req[r].pc = "finish"
    /\ WindowsOpen(req[r].svc, req[r].in)
    /\ RestrictedOK(req[r])
    /\ req' = [req EXCEPT ![r].pc = "forward"]
    /\ UNCHANGED <<setup, now, svc, usr, token, bridge, redis, local, jar, opened, failed, forgotten, proven>>

-----------------------------------------------------------------------------
(* Credentials.                                                            *)

\* SetSessionCookieForHost, SetRouteAccessCookie.
SetSessionCookieForHost(b) == jar' = [jar EXCEPT !.host = bridge[b].host]
SetRouteAccessCookie(method, email) ==
    jar' = [jar EXCEPT !.route = [method |-> method, email |-> email, exp |-> now + RouteTTL]]

\* issueHostSessionToken: what the bridge token carries over to the host.
issueHostSessionToken == now + TokenTTL

IssueSessionBridgeToken(b) ==
    /\ bridge[b] = NoBridge
    /\ bridge' = [bridge EXCEPT ![b] = [kind |-> "session", method |-> "", email |-> None,
                                       host |-> issueHostSessionToken, exp |-> now + BridgeTTL]]

IssueRouteAccessBridgeToken(b, method, email) ==
    /\ bridge[b] = NoBridge
    /\ bridge' = [bridge EXCEPT ![b] = [kind |-> "route", method |-> method, email |-> email,
                                       host |-> 0, exp |-> now + BridgeTTL]]

\* handleRoutePIN and handleRouteVerifyEmailCode set the cookie as well, on the
\* host they are served from, which is the service's own only on the
\* administration host.
SetCookieHere(method, email) ==
    IF Setups[setup].adminHost THEN SetRouteAccessCookie(method, email) ELSE UNCHANGED jar

\* handleRoutePIN with the right pin; a wrong one, or too many, change nothing.
RoutePIN(b) ==
    /\ Method(svc) = "pin" /\ svc.pinSet /\ LoginAllowedOnHost(svc)
    /\ IssueRouteAccessBridgeToken(b, "pin", None)
    /\ SetCookieHere("pin", None)
    /\ UNCHANGED <<setup, now, svc, usr, token, redis, local, req, opened, failed, forgotten, proven>>

\* viewerCanAccessService, where a link to the service is shown.
viewerCanAccessService(u, s) ==
    /\ Method(s) = "oidc_only" => u.provider = "oidc" /\ u.active
    /\ Policy(s).mode = "restricted" => restrictedPolicyAllowsUser(u, Policy(s))

\* sessionBridgeHostAllowed: a service of the host takes logins, and the host is
\* not the one of the administration.
sessionBridgeHostAllowed(s) ==
    /\ ~Setups[setup].adminHost
    /\ LoginAllowedOnHost(s)
    /\ Method(s) \in {"session", "oidc_only"}
    /\ Policy(s).mode \in {"authenticated", "restricted"}

\* handleCreateSessionBridgeToken; an API token is refused.
CreateSessionBridge(b) ==
    /\ usr.session = "live" /\ usr.active
    /\ sessionBridgeHostAllowed(svc)
    /\ viewerCanAccessService(usr, svc)
    /\ IssueSessionBridgeToken(b)
    /\ UNCHANGED <<setup, now, svc, usr, token, redis, local, jar, req, opened, failed, forgotten, proven>>

NewToken(t, scope, e) ==
    /\ token[t] = NoToken
    /\ token' = [token EXCEPT ![t] =
         [scope |-> scope, email |-> e, used |-> FALSE, exp |-> now + CodeTTL]]

RequestEmailCode(t, e) ==
    /\ Method(svc) = "email_code"
    /\ routeEmailAllowed(e, EffectiveAccessForService(svc).emails)
    /\ NewToken(t, "route_access", e)
    /\ UNCHANGED <<setup, now, svc, usr, bridge, redis, local, jar, req, opened, failed, forgotten, proven>>

IssueMagicLink(t) ==
    /\ ~svc.wildcard
    /\ NewToken(t, "magic_link", None)
    /\ UNCHANGED <<setup, now, svc, usr, bridge, redis, local, jar, req, opened, failed, forgotten, proven>>

\* The row is found, unused and not expired when it is read.
Usable(t, scope) == token[t].scope = scope /\ ~token[t].used /\ now <= token[t].exp

\* Mutant: used_at IS NULL is left out of the update.
MutMarkAgain(t) == token[t].scope # "none"

MarkUsedMatches(t) == ~token[t].used

\* VerifyRouteEmailCode up to MarkUsed.
VerifyLookup(r, t) ==
    /\ req[r].pc = "idle"
    /\ Method(svc) = "email_code"
    /\ routeEmailAllowed(token[t].email, EffectiveAccessForService(svc).emails)
    /\ Usable(t, "route_access")
    /\ req' = [req EXCEPT ![r] = [Idle EXCEPT !.pc = "verify", !.token = t, !.svc = svc,
                                              !.email = token[t].email]]
    /\ UNCHANGED <<setup, now, svc, usr, token, bridge, redis, local, jar, opened, failed, forgotten, proven>>

\* MarkUsed, then handleRouteVerifyEmailCode issues the bridge token and sets the
\* cookie.
VerifyMark(r, b) ==
    /\ req[r].pc = "verify"
    /\ LET t == req[r].token IN
       /\ MarkUsedMatches(t)
       /\ token' = [token EXCEPT ![t].used = TRUE]
       /\ proven' = proven \union {req[r].email}
       /\ IF LoginAllowedOnHost(req[r].svc)
          THEN /\ IssueRouteAccessBridgeToken(b, "email_code", req[r].email)
               /\ opened' = [opened EXCEPT ![t] = @ + 1]
               /\ SetCookieHere("email_code", req[r].email)
          ELSE UNCHANGED <<bridge, opened, jar>>
    /\ Return(r)
    /\ UNCHANGED <<setup, now, svc, usr, redis, local, failed, forgotten>>

\* magicLinkMethod: the cookie names the route's method if it takes cookies.
magicLinkMethod(s) == IF Method(s) \in {"pin", "email_code"} THEN Method(s) ELSE "email_code"

\* handleMagicLink and ConsumeMagicLink up to MarkUsed.
MagicLookup(r, t) ==
    /\ req[r].pc = "idle"
    /\ Usable(t, "magic_link")
    /\ req' = [req EXCEPT ![r] = [Idle EXCEPT !.pc = "magic", !.token = t,
                                              !.method = magicLinkMethod(svc)]]
    /\ UNCHANGED <<setup, now, svc, usr, token, bridge, redis, local, jar, opened, failed, forgotten, proven>>

MagicMark(r) ==
    /\ req[r].pc = "magic"
    /\ LET t == req[r].token IN
       /\ MarkUsedMatches(t)
       /\ token' = [token EXCEPT ![t].used = TRUE]
       /\ opened' = [opened EXCEPT ![t] = @ + 1]
       /\ SetRouteAccessCookie(req[r].method, None)
    /\ Return(r)
    /\ UNCHANGED <<setup, now, svc, usr, bridge, redis, local, failed, forgotten, proven>>

-----------------------------------------------------------------------------
(* ConsumeBridgeToken: a rate limit of one use per jti, kept in Redis or,  *)
(* where there is none and while it fails, in the memory of the process.   *)

\* RedisLimiter.Allow: INCR, with the expiry set by the first call.
Incremented(b) ==
    IF redis[b].n = 0 \/ now >= redis[b].exp THEN [n |-> 1, exp |-> now + JtiWindow]
    ELSE [n |-> 2, exp |-> redis[b].exp]

\* LocalLimiter.Allow: the calls still inside the window, and this one.
Counted(b) == {t \in local[b] : t > now - JtiWindow} \union {now}

\* Whether the process has to count by itself: always without Redis.
CountsItself == IF Setups[setup].redis THEN BOOLEAN ELSE {TRUE}

\* ConsumeBridgeToken: the first use is allowed, as far as the counter knows.
ConsumeBridgeToken(b, itself) ==
    IF itself THEN local[b] \intersect Counted(b) = {} ELSE Incremented(b).n <= 1

\* What the call leaves behind.
Consumed(b, itself) ==
    /\ redis' = IF itself THEN redis ELSE [redis EXCEPT ![b] = Incremented(b)]
    /\ local' = IF itself THEN [local EXCEPT ![b] = Counted(b)] ELSE local
    /\ failed' = (failed \/ (itself /\ Setups[setup].redis))
    /\ opened' = IF ConsumeBridgeToken(b, itself) THEN [opened EXCEPT ![b] = @ + 1] ELSE opened

\* ParseSessionBridgeToken, ParseRouteAccessBridgeToken.
BridgeValid(b, kind) == bridge[b].kind = kind /\ bridge[b].exp > now

\* handleSessionBridge.
SessionBridge(b, itself) ==
    /\ BridgeValid(b, "session")
    /\ Consumed(b, itself)
    /\ IF ConsumeBridgeToken(b, itself) THEN SetSessionCookieForHost(b) ELSE UNCHANGED jar
    /\ UNCHANGED <<setup, now, svc, usr, token, bridge, req, forgotten, proven>>

\* handleRouteAccessBridge.
RouteAccessBridge(b, itself) ==
    /\ BridgeValid(b, "route")
    /\ Consumed(b, itself)
    /\ IF ConsumeBridgeToken(b, itself)
       THEN SetRouteAccessCookie(bridge[b].method, bridge[b].email) ELSE UNCHANGED jar
    /\ UNCHANGED <<setup, now, svc, usr, token, bridge, req, forgotten, proven>>

-----------------------------------------------------------------------------
(* Administration and time.                                                *)

SaveService(s) ==
    /\ svc # s
    /\ svc' = s
    /\ UNCHANGED <<setup, now, usr, token, bridge, redis, local, jar, req, opened, failed, forgotten, proven>>

\* Deactivation, demotion, sign-out, a membership or the account setup.
ChangeUser(u) ==
    /\ usr # u
    /\ usr.session = "revoked" => u.session = "revoked"
    /\ usr.provider = u.provider
    /\ usr' = u
    /\ UNCHANGED <<setup, now, svc, token, bridge, redis, local, jar, req, opened, failed, forgotten, proven>>

Tick ==
    /\ now < MaxNow
    /\ now' = now + 1
    /\ UNCHANGED <<setup, svc, usr, token, bridge, redis, local, jar, req, opened, failed, forgotten, proven>>

\* The process stops and is started again: the counters in its memory and the
\* handlers in flight are gone, Redis, the database and the cookies are not.
Restart ==
    /\ \A b \in Bridges : forgotten[b] < Restarts
    /\ local' = [b \in Bridges |-> {}]
    /\ req' = [r \in Requests |-> Idle]
    /\ forgotten' = [b \in Bridges |-> forgotten[b] + IF local[b] = {} THEN 0 ELSE 1]
    /\ UNCHANGED <<setup, now, svc, usr, token, bridge, redis, jar, opened, failed, proven>>

Next ==
    \/ Tick
    \/ Restart
    \/ \E s \in Setups[setup].services : SaveService(s)
    \/ \E u \in Setups[setup].users : ChangeUser(u)
    \/ \E b \in Bridges :
         \/ RoutePIN(b) \/ CreateSessionBridge(b)
         \/ \E itself \in CountsItself : SessionBridge(b, itself) \/ RouteAccessBridge(b, itself)
    \/ \E t \in Tokens : IssueMagicLink(t) \/ \E e \in Emails : RequestEmailCode(t, e)
    \/ \E r \in Setups[setup].requests :
         \/ \E in \in Setups[setup].inputs : Arrive(r, in)
         \/ Authorize(r)
         \/ Forward(r)
         \/ Finish(r)
         \/ \E t \in Tokens : VerifyLookup(r, t) \/ MagicLookup(r, t)
         \/ \E b \in Bridges : VerifyMark(r, b)
         \/ MagicMark(r)

Spec == Init /\ [][Next]_vars

-----------------------------------------------------------------------------
(* Properties.                                                             *)

Emailed == Emails \union {None}
Ways == {"", "pin", "email_code"}
Cookie == [method: Ways, email: Emailed, exp: Nat]
TokenRow == [scope: {"none", "route_access", "magic_link"}, email: Emailed, used: BOOLEAN, exp: Nat]
BridgeToken == [kind: {"none", "session", "route"}, method: Ways, email: Emailed, host: Nat, exp: Nat]
Visitor == [role: {u.role : u \in Users} \union {u.api : u \in Users},
            provider: {u.provider : u \in Users} \union {""},
            groups: {u.groups : u \in Users} \union {{}}]
Request == [pc: PCs, in: Inputs \union {None}, svc: Services \union {None}, rule: Nat,
            user: Visitor \union {None}, token: Tokens \union {None}, method: Ways, email: Emailed]

TypeOK ==
    /\ now \in 0..MaxNow
    /\ setup \in DOMAIN Setups /\ svc \in Setups[setup].services /\ usr \in Setups[setup].users
    /\ token \in [Tokens -> TokenRow]
    /\ bridge \in [Bridges -> BridgeToken]
    /\ redis \in [Bridges -> [n: 0..2, exp: Nat]]
    /\ local \in [Bridges -> SUBSET Nat]
    /\ jar \in [route: Cookie, host: Nat]
    /\ req \in [Requests -> Request]
    /\ opened \in [Tokens \union Bridges -> Nat]
    /\ failed \in BOOLEAN /\ forgotten \in [Bridges -> Nat] /\ proven \subseteq Emails

\* The policies that could decide for a service that follows its groups.
FirstPolicies(s) ==
    {g \in s.serviceGroups : /\ g.mode # "" \/ g.method # ""
                             /\ \A h \in s.serviceGroups :
                                  h.id < g.id => h.mode = "" /\ h.method = ""}

\* The service is restricted: by its own columns, or by its first service group.
Restricted(s) ==
    IF s.useGroupPolicy
    THEN \E g \in FirstPolicies(s) : g.mode = "restricted"
    ELSE s.mode = "restricted"

\* The roles and groups its administrator listed, there or here, hold u.
Listed(u, s) ==
    IF s.useGroupPolicy
    THEN \E g \in FirstPolicies(s) : u.role \in g.roles \/ u.groups \cap g.groups # {}
    ELSE u.role \in s.roles \/ u.groups \cap s.groups # {}

\* A request that an earlier rule does not stop and an allow rule names, whether
\* or not the upstream ignores path parameters.
NamedByAllowRule(q) ==
    \E i \in DOMAIN q.svc.rules :
        /\ q.svc.rules[i].action = "allow"
        /\ \A path \in {q.in.path, stripPathParams(q.in.path)} :
             /\ matches(q.svc.rules[i], realClientIP(q.in), path)
             /\ \A j \in 1..(i - 1) :
                  q.svc.rules[j].action # "allow" => ~matches(q.svc.rules[j], realClientIP(q.in), path)

\* Nobody reaches a restricted service but a signed-in user with a listed role
\* or group, an API token with a listed role, or a client an allow rule names
\* under both readings of the path, although the lists may be inherited from a
\* service group, may be changed while the request is under way, and are applied
\* in three places (Handler, authorizeRequest, isAllowedByRestrictedPolicy).
RestrictedHolds ==
    \A r \in Requests :
        req[r].pc = "forward" /\ Restricted(req[r].svc) =>
            \/ NamedByAllowRule(req[r])
            \/ req[r].user # None /\ Listed(req[r].user, req[r].svc)

\* A request without a user gets past a policy that asks for one only by a route
\* access cookie or an allow rule; a service limited to some addresses opens to
\* a visitor only once a code sent to one of them was presented, through every
\* chain of code, bridge token and cookie (VerifyRouteEmailCode,
\* handleRouteAccessBridge, enforceAccessMethod).
EmailProven ==
    \A r \in Requests :
        LET q == req[r] IN
        /\ q.pc = "forward" /\ RuleAction(q) # "allow" /\ q.user = None =>
              ModeOf(q) = "public" \/ Method(q.svc) \in {"pin", "email_code"}
        /\ q.pc = "forward" /\ RuleAction(q) # "allow" /\ Method(q.svc) = "email_code" =>
              LET emails == EffectiveAccessForService(q.svc).emails
              IN emails # {} => emails \cap proven # {}

\* A code or a magic link is accepted once, whatever handlers race for it, so
\* that what it is exchanged for, a bridge token and the route access cookie,
\* is handed out once (MarkUsed).  A bridge token is accepted once as long as Redis counts, through
\* every restart, for the jti is remembered longer than the token lives.  A
\* failing Redis costs one more use, since the memory of the process starts
\* empty; and where the process counts by itself, as in an installation without
\* Redis, so does every restart after a use, but nothing else
\* (ConsumeBridgeToken, NewService).
CredentialOnce ==
    /\ \A t \in Tokens : opened[t] <= 1
    /\ \A b \in Bridges :
         /\ Setups[setup].redis /\ ~failed => opened[b] <= 1
         /\ opened[b] <= (IF failed THEN 2 ELSE 1) + forgotten[b]

\* What a client writes in front of the forwarded chain does not change the
\* address the rules are applied to (clientIPFromForwardedChain).
ForgedHopIgnored ==
    \A r \in Requests :
        LET in == req[r].in IN
        /\ in # None /\ in.chain # <<>>
        /\ \E i \in DOMAIN Tail(in.chain) : Tail(in.chain)[i] \notin Trusted
        => realClientIP(in) = realClientIP([in EXCEPT !.chain = Tail(in.chain)])

-----------------------------------------------------------------------------
(* The inductive invariant behind them.                                    *)

\* A code or a link that is not used has opened nothing.
UnusedUnopened == \A t \in Tokens : opened[t] <= 1 /\ (~token[t].used => opened[t] = 0)

\* While a bridge token is valid its uses are remembered: each of the two
\* counters lets one pass, the process counts only where Redis does not, and
\* every restart that empties its counter lets one more pass.
Uses(b) == (IF redis[b].n = 0 THEN 0 ELSE 1) + (IF local[b] = {} THEN 0 ELSE 1) + forgotten[b]
Remembered ==
    \A b \in Bridges :
        /\ opened[b] <= Uses(b)
        /\ redis[b].n # 0 => Setups[setup].redis
        /\ local[b] # {} \/ forgotten[b] # 0 => failed \/ ~Setups[setup].redis
        /\ bridge[b].kind = "none" => redis[b].n = 0 /\ local[b] = {} /\ forgotten[b] = 0
        /\ bridge[b].exp <= now + BridgeTTL
        /\ redis[b].n # 0 => redis[b].exp > bridge[b].exp
        /\ \A x \in local[b] : x <= now /\ x + JtiWindow > bridge[b].exp

\* An address in a bridge token or a cookie was proven.
AddressesProven ==
    /\ \A b \in Bridges : bridge[b].method = "email_code" => bridge[b].email \in proven \union {None}
    /\ jar.route.method = "email_code" => jar.route.email \in proven \union {None}

\* How far the decision about a request has come.
Decided(q) ==
    /\ q.pc \in {"authorize", "finish", "forward"} =>
         /\ q.svc \in Services /\ q.in \in Inputs
         /\ q.rule = matchAccessRule(q.svc.rules, realClientIP(q.in), q.in.path)
    /\ q.pc \in {"finish", "forward"} /\ RuleAction(q) # "allow" =>
         /\ q.user = None => ModeOf(q) = "public" \/ Method(q.svc) \in {"pin", "email_code"}
         /\ Method(q.svc) = "email_code" =>
              LET emails == EffectiveAccessForService(q.svc).emails
              IN emails # {} => emails \cap proven # {}
    /\ q.pc = "forward" => RestrictedOK(q)
    /\ q.pc \in {"verify", "magic"} => q.token \in Tokens
    /\ q.pc = "verify" => q.email \in Emails

AccessInv ==
    /\ TypeOK
    /\ \A t \in Tokens : token[t].scope = "route_access" => token[t].email \in Emails
    /\ UnusedUnopened
    /\ Remembered
    /\ AddressesProven
    /\ \A r \in Requests : Decided(req[r])
=============================================================================
