------------------------------ MODULE MCAccess ------------------------------
(***************************************************************************)
(* Model-checking instance of Edge.  Its parts share no state but the      *)
(* clock, so each behaviour exercises one of them and leaves the others    *)
(* alone; CertWorker is exercised twice: its jobs without the cache, and   *)
(* the cache with one name.                                                *)
(***************************************************************************)
EXTENDS Edge, TLC

Only(p, vs) == part \in p /\ UNCHANGED <<part, vs>>

mcVars == <<part, now, accessOnly, proxyOnly, hubOnly>>

\* What a behaviour about certificates is limited to; with two names only the
\* purge of the first may fail, so that the second is purged after an error; with
\* one, it fails only while nothing else is done; and when it is over no other
\* job begins.
CertScope ==
    /\ leftover # {} /\ C!Quiet => job' = job
    /\ part = "issue" => /\ ~drift /\ flight' = flight
                         /\ leftover' \subseteq {"b"}
                         /\ C!Quiet' /\ row' = None => magic'["a"] = 0
                         /\ row = None /\ row' # None => row'.names = <<"b", "a">>
    /\ part = "serve" => /\ now' = 0
                         /\ leftover' # {} => \E j \in Jobs : \A k \in Jobs \ {j} : job'[k] = C!IdleJob
                         /\ \A j \in Jobs : job'[j].pc # "edit"
                         /\ row' # None => row'.names = <<"a">> /\ row'.failures = 0 /\ row'.auto

\* Setups with many policies leave the restarts that forget to the others.
AccessScope == setup \in {1, 2} => forgotten' = forgotten

PasskeysIdle ==
    passkeys = None /\ inRedis = None /\ inMemory = None /\ begun = None /\ expired = None /\
    finish = None /\ restarts = None /\ answered = None /\ doubtful = None /\
    accepted = None /\ crowded = None /\ deleted = None /\ revived = None

OidcIdle ==
    accounts = None /\ made = None /\ cfg = None /\ callback = None /\ logins = None /\
    edits = None /\ reached = None /\ vouched = None /\ overlaid = None /\ overlap = None

OneOf(X) == CHOOSE x \in X : TRUE

\* The parts left alone start in one of their initial states, or with None.
MCInit ==
    /\ part \in {"access", "upstream", "throttle", "reputation", "issue", "serve",
                 "passkeys", "oidc"}
    /\ Init /\ U!Init /\ D!Init /\ R!Init /\ C!Init
    /\ IF part = "passkeys" THEN P!Init ELSE PasskeysIdle
    /\ IF part = "oidc" THEN O!Init /\ ~cfg.verified ELSE OidcIdle
    /\ part # "access" =>
         setup = 1 /\ svc = OneOf(Setups[1].services) /\ usr = OneOf(Setups[1].users)
    /\ part # "reputation" => lapi = {} /\ pending = R!NothingPending /\ wanted

MCNext ==
    \/ Only({"access"}, <<proxyOnly, hubOnly>>) /\ Next /\ AccessScope
    \/ Only({"upstream"}, <<accessOnly, throttleOnly, reputationOnly, certOnly, hubOnly>>) /\ U!Next
    \/ Only({"throttle"}, <<accessOnly, upstreamOnly, reputationOnly, certOnly, hubOnly>>) /\ D!Next
    \/ Only({"reputation"}, <<accessOnly, upstreamOnly, throttleOnly, certOnly, hubOnly>>) /\ R!Next
    \/ /\ Only({"issue", "serve"}, <<accessOnly, upstreamOnly, throttleOnly, reputationOnly, hubOnly>>)
       /\ C!Next /\ CertScope
    \/ Only({"passkeys"}, <<now, accessOnly, proxyOnly, oidcOnly>>) /\ P!Next
    \/ Only({"oidc"}, <<now, accessOnly, proxyOnly, passkeyOnly>>) /\ O!Next
    \/ /\ now = MaxNow \/ part \in {"issue", "serve", "passkeys", "oidc"}
       /\ UNCHANGED mcVars                                \* bounds are no deadlock

MCSpec == MCInit /\ [][MCNext]_mcVars

\* Loads are alike, and so are logins in progress; in the configuration
\* challenges and subjects are the same model values, so they are permuted too.
Alike == Permutations(Flights)

MCNameLists == {<<"a">>, <<"b", "a">>}
MCRouted == [url: {"http://a", "http://b"}, tunnelIP: {None}]

Plain == [mode |-> "authenticated", roles |-> {}, groups |-> {}, method |-> "", legacy |-> "",
          useGroupPolicy |-> FALSE, serviceGroups |-> {}, emails |-> {}, pinSet |-> FALSE,
          wildcard |-> FALSE, loginHost |-> FALSE, allow |-> {}, block |-> {}, rules |-> <<>>,
          windows |-> {}, countries |-> {}, blockedCountries |-> {}]

Group(i, mode, method, roles, groups) ==
    [id |-> i, mode |-> mode, method |-> method, roles |-> roles, groups |-> groups, emails |-> {}]

Rule(action, include, exclude, paths) ==
    [action |-> action, include |-> include, exclude |-> exclude, paths |-> paths]

\* Restricted, with a path opened by an allow rule behind a deny rule.
Ruled == [Plain EXCEPT !.mode = "restricted", !.roles = {"admin"}, !.groups = {"g1"},
    !.rules = <<Rule("deny", {"bad"}, {}, {<<"api">>}),
                Rule("allow", {}, {"lan"}, {<<"api", "*">>}),
                Rule("authenticate", {}, {}, {})>>]

\* Follows its groups: 1 has no policy, 2 decides, 3 would open the service.
Grouped == [Plain EXCEPT !.mode = "public", !.useGroupPolicy = TRUE,
    !.allow = {"lan", "web"}, !.countries = {"de"}, !.blockedCountries = {"fr"},
    !.serviceGroups = {Group(1, "", "", {}, {}), Group(2, "restricted", "oidc_only", {"admin"}, {"g1"}),
                       Group(3, "public", "", {}, {})}]

Pinned == [Plain EXCEPT !.method = "pin", !.pinSet = TRUE, !.wildcard = TRUE, !.loginHost = TRUE]

Coded == [Plain EXCEPT !.method = "email_code", !.emails = {"ann"}, !.block = {"bad"},
    !.windows = {[days |-> {"fri"}, start |-> 22, end |-> 2]}]

Open == [Plain EXCEPT !.mode = "", !.legacy = "public", !.rules =
    <<Rule("authenticate", {"web"}, {}, {<<"api">>})>>]

MCServices == {Ruled, Grouped, Pinned, Coded, Open}

Seg(name) == [name |-> name, param |-> FALSE, caps |-> FALSE]

Base == [peer |-> "web", chain |-> <<>>, realIP |-> None, path |-> <<Seg("home")>>,
         ambiguous |-> FALSE, bearer |-> "", reputation |-> "clean", geo |-> "de",
         day |-> "fri", hour |-> 23]

MCInputs == {Base,
    [Base EXCEPT !.peer = "lb", !.chain = <<"lan", "bad", "lb">>, !.path = <<Seg("api"), Seg("x")>>],
    [Base EXCEPT !.peer = "lb", !.realIP = "lan", !.bearer = "access", !.geo = "open"],
    [Base EXCEPT !.path = <<[Seg("api") EXCEPT !.param = TRUE], Seg("x")>>, !.bearer = "host",
              !.hour = 1],
    [Base EXCEPT !.bearer = "api"],
    [Base EXCEPT !.path = <<Seg("api"), [Seg("x") EXCEPT !.caps = TRUE]>>, !.day = "sat"],
    [Base EXCEPT !.path = <<Seg("api"), Seg("..")>>, !.geo = "fr", !.reputation = "blocked"]}

User(role, provider, groups, session, active, done, api) ==
    [role |-> role, provider |-> provider, groups |-> groups, session |-> session,
     active |-> active, bootstrapped |-> done, api |-> api]

MCUsers == {User("admin", "local", {}, "live", TRUE, TRUE, "viewer"),
            User("viewer", "local", {}, "live", TRUE, TRUE, "admin"),
            User("viewer", "local", {"g1"}, "live", TRUE, FALSE, ""),
            User("viewer", "local", {"g1"}, "revoked", TRUE, TRUE, ""),
            User("viewer", "oidc", {"g1"}, "live", TRUE, TRUE, ""),
            User("admin", "oidc", {}, "live", TRUE, TRUE, "admin"),
            User("admin", "oidc", {}, "live", FALSE, TRUE, "admin")}

Ann == {User("viewer", "local", {}, "live", TRUE, TRUE, "admin")}

Setup(services, users, requests, inputs, redisUsed, admin) ==
    [services |-> services, users |-> users, requests |-> requests, inputs |-> inputs,
     redis |-> redisUsed, adminHost |-> admin]

\* Policies against users, the same with cookies, and races for a credential.
MCSetups ==
  <<Setup({Ruled, Open}, MCUsers, {"r1"}, MCInputs, FALSE, FALSE),
    Setup({Grouped, Coded}, MCUsers, {"r1"}, MCInputs, TRUE, FALSE),
    Setup({Coded, Pinned, Open}, Ann, {"r1"}, MCInputs, FALSE, TRUE),
    Setup({Coded, Pinned}, Ann, {"r1", "r2"}, {}, TRUE, FALSE),
    Setup({Grouped, Ruled}, MCUsers, {"r1"}, {Base, [Base EXCEPT !.bearer = "api"]}, FALSE, TRUE)>>
=============================================================================
