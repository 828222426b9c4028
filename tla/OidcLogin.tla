----------------------------- MODULE OidcLogin -----------------------------
(***************************************************************************)
(* Accounts and the identity provider: which account an OIDC login reaches *)
(* (internal/auth/oidc.go, oidc_login.go, runtime.go), beside the          *)
(* administrator's requests on the same rows (internal/http/users.go).     *)
(*                                                                         *)
(* The email column is unique; the provider's reference is only indexed.   *)
(* A login looks an account up, by subject and then by email, and writes   *)
(* it in later statements.  What follows the login is in Sessions and Mfa. *)
(***************************************************************************)
EXTENDS Integers, FiniteSets

CONSTANTS
    MaxUsers,       \* bound on the accounts ever made; their ids are 1..MaxUsers
    MaxLogins,      \* bound on the callbacks
    MaxEdits,       \* bound on the administrator's requests
    Subjects,       \* subjects of the identity provider
    Emails,         \* email addresses
    Requests,       \* callbacks in progress
    None            \* no value; as an email, the empty one

VARIABLES
    users,          \* rows by id: None or [email, ref, active]; ref None is local
    made,           \* accounts made so far
    cfg,            \* OIDC settings: [on, linking, verified]
    req,            \* callbacks in progress
    logins, edits,  \* counters of the bounds
    reached,        \* history: subjects that logged in, by account
    proven,         \* history: subjects that may reach an account, by account
    overlaid,       \* history: accounts written over a row other than the loaded one
    crowded         \* history: subjects with two callbacks at a time

history == <<reached, proven, overlaid, crowded>>
vars == <<users, made, cfg, req, logins, edits, history>>

Ids == 1..MaxUsers
Rows == {u \in Ids : users[u] # None}
Configs == [on : BOOLEAN, linking : BOOLEAN, verified : BOOLEAN]
Least(S) == CHOOSE u \in S : \A v \in S : u <= v
Taken(e) == \E u \in Rows : users[u].email = e

\* There may be a local account already.
Init ==
    /\ made \in {0, 1}
    /\ \E e \in Emails : users = [u \in Ids |->
            IF u <= made THEN [email |-> e, ref |-> None, active |-> TRUE] ELSE None]
    /\ cfg \in [on : {TRUE}, linking : BOOLEAN, verified : BOOLEAN]
    /\ req = [r \in Requests |-> None]
    /\ reached = [u \in Ids |-> {}] /\ proven = [u \in Ids |-> {}]
    /\ overlaid = {} /\ crowded = {} /\ logins = 0 /\ edits = 0

-----------------------------------------------------------------------------
(* Exchange and the checks on the claims.  The provider redeems a code     *)
(* once and vouches for subject, email and whether the email is verified;  *)
(* the state is a signed value the hub keeps nothing of.                   *)

ClaimsOK(verified) == cfg.verified => verified

Exchange(r, s, e, v) ==
    /\ req[r] = None
    /\ logins < MaxLogins
    /\ logins' = logins + 1
    /\ cfg.on
    /\ ClaimsOK(v)
    /\ req' = [req EXCEPT ![r] = [pc |-> "ref", sub |-> s, email |-> e, ok |-> v,
                                  linking |-> cfg.linking, id |-> None, row |-> None]]
    /\ crowded' = IF \E q \in Requests : req[q] # None /\ req[q].sub = s
                  THEN crowded \union {s} ELSE crowded
    /\ UNCHANGED <<users, made, cfg, edits, reached, proven, overlaid>>

GetByProviderRef(s) == {u \in Rows : users[u].ref = s}
GetByEmail(e) == {u \in Rows : users[u].email = e}

Go(r, pc, found) ==
    req' = [req EXCEPT ![r] = [@ EXCEPT !.pc = pc, !.id = Least(found),
                                        !.row = users[Least(found)]]]

\* findOrCreateOIDCUser, the lookup by subject ...
FindBySubject(r) ==
    LET found == GetByProviderRef(req[r].sub) IN
    /\ req[r] # None /\ req[r].pc = "ref"
    /\ \/ found # {} /\ Go(r, "touch", found)
       \/ found = {} /\ req' = [req EXCEPT ![r].pc = "email"]
    /\ UNCHANGED <<users, made, cfg, logins, edits, history>>

\* Mutant: an account of another subject is taken over.
MutAnySubject(q, row) == q.ok /\ (row.ref = None => q.linking)

\* An account found by email is used only when the provider vouches for the
\* email, when local accounts may be linked, and when no other subject has it.
MayLink(q, row) ==
    /\ q.ok
    /\ row.ref = None => q.linking
    /\ row.ref # None => row.ref = q.sub

\* ... and by email; an empty email is not looked up.
FindByEmail(r) ==
    LET found == IF req[r].email = None THEN {} ELSE GetByEmail(req[r].email) IN
    /\ req[r] # None /\ req[r].pc = "email"
    /\ \/ /\ found = {}
          /\ req' = [req EXCEPT ![r].pc = "create"]
          /\ UNCHANGED proven
       \/ /\ found # {} /\ MayLink(req[r], users[Least(found)])
          /\ Go(r, "link", found)
          /\ proven' = IF req[r].ok THEN [proven EXCEPT ![Least(found)] = @ \union {req[r].sub}]
                       ELSE proven
       \/ /\ found # {} /\ ~MayLink(req[r], users[Least(found)])
          /\ req' = [req EXCEPT ![r] = None]
          /\ UNCHANGED proven
    /\ UNCHANGED <<users, made, cfg, logins, edits, reached, overlaid, crowded>>

\* The end of CompleteOIDC: the account as it was loaded must be active.
Land(u, q) ==
    reached' = IF q.row.active THEN [reached EXCEPT ![u] = @ \union {q.sub}] ELSE reached

Overlay(u, q) ==
    overlaid' = IF users[u] # None /\ users[u].ref # q.row.ref THEN overlaid \union {u}
                ELSE overlaid

\* The account of the subject gets the email of the claims, which fails when
\* another account has it; no row of that id is not an error.
Touch(r) ==
    LET q == req[r]
        u == q.id IN
    /\ q # None /\ q.pc = "touch"
    /\ req' = [req EXCEPT ![r] = None]
    /\ \/ /\ users[u] = None \/ GetByEmail(q.email) \subseteq {u}
          /\ users' = IF users[u] = None THEN users
                      ELSE [users EXCEPT ![u] = [@ EXCEPT !.email = q.email, !.ref = q.sub]]
          /\ Land(u, q)
          /\ Overlay(u, q)
       \/ /\ users[u] # None /\ ~(GetByEmail(q.email) \subseteq {u})
          /\ UNCHANGED <<users, reached, overlaid>>
    /\ UNCHANGED <<made, cfg, logins, edits, proven, crowded>>

\* A local account becomes the subject's; a row that is gone is an error.
Link(r) ==
    LET q == req[r]
        u == q.id IN
    /\ q # None /\ q.pc = "link"
    /\ req' = [req EXCEPT ![r] = None]
    /\ \/ /\ users[u] # None
          /\ users' = [users EXCEPT ![u] = [@ EXCEPT !.ref = q.sub]]
          /\ Land(u, q)
          /\ Overlay(u, q)
       \/ /\ users[u] = None
          /\ UNCHANGED <<users, reached, overlaid>>
    /\ UNCHANGED <<made, cfg, logins, edits, proven, crowded>>

NewRow(u, row) ==
    /\ made < MaxUsers /\ u = made + 1
    /\ made' = u
    /\ users' = [users EXCEPT ![u] = row]

\* The unique email makes one of two such inserts fail.
Create(r) ==
    LET q == req[r] IN
    /\ q # None /\ q.pc = "create"
    /\ req' = [req EXCEPT ![r] = None]
    /\ \/ /\ ~Taken(q.email)
          /\ NewRow(made + 1, [email |-> q.email, ref |-> q.sub, active |-> TRUE])
          /\ reached' = [reached EXCEPT ![made + 1] = {q.sub}]
          /\ proven' = [proven EXCEPT ![made + 1] = {q.sub}]
       \/ /\ Taken(q.email)
          /\ UNCHANGED <<users, made, reached, proven>>
    /\ UNCHANGED <<cfg, logins, edits, overlaid, crowded>>

\* A callback ends on an error of the database or the provider.
Fail(r) ==
    /\ req[r] # None
    /\ req' = [req EXCEPT ![r] = None]
    /\ UNCHANGED <<users, made, cfg, logins, edits, history>>

-----------------------------------------------------------------------------
(* The administrator.                                                      *)

Edit == edits < MaxEdits /\ edits' = edits + 1

CreateUser(e) ==
    /\ ~Taken(e)
    /\ NewRow(made + 1, [email |-> e, ref |-> None, active |-> TRUE])
    /\ Edit
    /\ UNCHANGED <<cfg, req, logins, history>>

\* handleUpdateUser names the columns it writes.
UpdateUser(u, e, a) ==
    /\ users[u] # None
    /\ GetByEmail(e) \subseteq {u}
    /\ users' = [users EXCEPT ![u] = [@ EXCEPT !.email = e, !.active = a]]
    /\ Edit
    /\ UNCHANGED <<made, cfg, req, logins, history>>

DeleteUser(u) ==
    /\ users[u] # None
    /\ users' = [users EXCEPT ![u] = None]
    /\ Edit
    /\ UNCHANGED <<made, cfg, req, logins, history>>

\* The settings are read for every login; the authenticator kept for them is
\* used as long as they are the same.
SetConfig(c) ==
    /\ cfg # c
    /\ cfg' = c
    /\ Edit
    /\ UNCHANGED <<users, made, req, logins, history>>

Next ==
    \/ \E r \in Requests, s \in Subjects, e \in Emails \union {None}, v \in BOOLEAN :
            Exchange(r, s, e, v)
    \/ \E r \in Requests : FindBySubject(r) \/ FindByEmail(r) \/ Touch(r) \/ Link(r)
                           \/ Create(r) \/ Fail(r)
    \/ \E e \in Emails : CreateUser(e)
    \/ \E u \in Ids, e \in Emails, a \in BOOLEAN : UpdateUser(u, e, a)
    \/ \E u \in Ids : DeleteUser(u)
    \/ \E c \in Configs : SetConfig(c)

Spec == Init /\ [][Next]_vars

-----------------------------------------------------------------------------
\* Two subjects reach one account only when they linked it at the same time:
\* whoever links a local account first keeps it, and its owner's later email
\* changes do not open it to others (findOrCreateOIDCUser).
SubjectsApart == \A u \in Ids \ overlaid : Cardinality(reached[u]) <= 1

\* One subject has two accounts only when two of its first logins ran at the
\* same time: the reference is looked up, never enforced.
OneAccount ==
    \A u, v \in Rows : u # v /\ users[u].ref # None /\ users[u].ref = users[v].ref
        => users[u].ref \in crowded

\* A subject only reaches an account made for it, or one whose email the
\* provider had vouched for when the account was looked up.
ReachedProven == \A u \in Ids : reached[u] \subseteq proven[u]

\* Nobody reaches another subject's account, except in the races named above
\* (findOrCreateOIDCUser).
LoginsApart == SubjectsApart /\ OneAccount /\ ReachedProven

-----------------------------------------------------------------------------
(* The inductive invariant behind LoginsApart.                             *)

UserRow == [email: Emails \union {None}, ref: Subjects \union {None}, active: BOOLEAN]
Callback == [pc: {"ref", "email", "touch", "link", "create"}, sub: Subjects,
             email: Emails \union {None}, ok: BOOLEAN, linking: BOOLEAN,
             id: Ids \union {None}, row: UserRow \union {None}]

\* None is a value of its own.
NoneApart ==
    /\ None \notin UserRow /\ None \notin Callback /\ None \notin Subjects
    /\ None \notin Nat /\ MaxUsers \in Nat \ {0}

OidcTypeOK ==
    /\ users \in [Ids -> UserRow \union {None}]
    /\ made \in 0..MaxUsers /\ cfg \in Configs
    /\ req \in [Requests -> Callback \union {None}]
    /\ reached \in [Ids -> SUBSET Subjects] /\ proven \in [Ids -> SUBSET Subjects]

\* Ids are given in order and once, and the subject of an account may have it.
RowProven(u) ==
    users[u] # None => /\ u <= made
                       /\ users[u].ref # None => users[u].ref \in proven[u]

\* A callback that found an account has its row of the time, and its subject
\* may have it.
CallbackFound(r) ==
    req[r] # None /\ req[r].pc \in {"touch", "link"} =>
        /\ req[r].id \in 1..made /\ req[r].row \in UserRow
        /\ req[r].sub \in proven[req[r].id]
        /\ req[r].row.ref = None \/ req[r].row.ref = req[r].sub
        /\ req[r].pc = "touch" => req[r].row.ref = req[r].sub

Touching(r, u) == req[r] # None /\ req[r].pc = "touch" /\ req[r].id = u

\* The subjects that reached an account, are about to, or own it are one,
\* unless a row changed hands under a callback; a local account has none.
OneClaim(u) ==
    /\ u \notin overlaid =>
         /\ \A s, t \in reached[u] : s = t
         /\ \A r \in Requests : Touching(r, u) =>
              /\ \A s \in reached[u] : s = req[r].sub
              /\ \A q \in Requests : Touching(q, u) => req[q].sub = req[r].sub
              /\ users[u] # None => users[u].ref = req[r].sub
         /\ users[u] # None => \A s \in reached[u] : users[u].ref = s
    /\ users[u] # None /\ users[u].ref = None =>
         reached[u] = {} /\ \A r \in Requests : ~Touching(r, u)
    /\ u > made => reached[u] = {} /\ users[u] = None

\* A subject with one callback at a time has what that callback found.
LookupHolds(r) ==
    req[r] # None /\ req[r].sub \notin crowded =>
        /\ \A q \in Requests : req[q] # None /\ req[q].sub = req[r].sub => q = r
        /\ req[r].pc \in {"email", "link", "create"} =>
              \A v \in Ids : users[v] # None => users[v].ref # req[r].sub
        /\ req[r].pc = "touch" =>
              \A v \in Ids : users[v] # None /\ users[v].ref = req[r].sub => v = req[r].id

OidcInv ==
    /\ OidcTypeOK
    /\ \A u \in Ids : RowProven(u) /\ OneClaim(u)
    /\ \A r \in Requests : CallbackFound(r) /\ LookupHolds(r)
    /\ OneAccount /\ ReachedProven
=============================================================================
