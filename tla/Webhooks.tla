------------------------------ MODULE Webhooks ------------------------------
(***************************************************************************)
(* Audit webhooks (internal/audit/webhook.go, internal/http/               *)
(* audit_webhooks.go, internal/store/audit_webhook_store.go).  Logging an  *)
(* event reads the active, subscribed hooks and starts one goroutine for   *)
(* each; the goroutine posts the event, signed with the hook's secret, and *)
(* then saves the WHOLE row it was started with, to note the result.  The  *)
(* administrators' edits load a row and save it whole as well, and Save    *)
(* inserts a row that has gone.                                            *)
(*                                                                         *)
(* The secret is stored encrypted under the first configured key and is    *)
(* read with any configured key; keys change when the hub is restarted.    *)
(* A stored value is [plain, under]: the secret and the keys it is         *)
(* encrypted under, outermost first.                                       *)
(***************************************************************************)
EXTENDS Integers, Sequences, FiniteSets

CONSTANTS
    Hooks,          \* webhook ids; an id is given once
    Admins,         \* update and rotation requests in progress
    KeyLists,       \* DATA_ENCRYPTION_SECRET followed by the legacy secrets
    MaxSecrets,     \* bound on the secrets made
    MaxFires,       \* bound on the deliveries started
    MaxRestarts,    \* bound on restarts
    None

VARIABLES
    row,            \* audit_webhooks, by id
    keys,           \* dataEncryptionBytes
    flights,        \* fire goroutines, by the number of their delivery
    edit,           \* rows loaded by update and rotation requests
    sent,           \* history: the last signed post
    fires, secrets, restarts,   \* counters of the bounds
    given,          \* history: the secret last given to the administrator
    off,            \* history: hooks turned off or deleted last
    stale           \* history: hooks whose row a stale copy was saved over

vars == <<row, keys, flights, edit, sent, fires, secrets, restarts, given,
          off, stale>>

-----------------------------------------------------------------------------
(* Stored values.                                                          *)

Plain(s) == [plain |-> s, under |-> <<>>]

IsEncryptedValue(v) == v.under # <<>>

Elements(s) == {s[i] : i \in DOMAIN s}

DecryptStringAuto(v) ==
    IF v.under[1] \in Elements(keys) THEN [v EXCEPT !.under = Tail(@)] ELSE None

EncryptStringV2(v) == [v EXCEPT !.under = <<keys[1]>> \o @]

\* Mutant: encrypts whatever it is given.
MutAlwaysEncrypt(v) == EncryptStringV2(v)

encryptSecret(v) == IF IsEncryptedValue(v) THEN v ELSE EncryptStringV2(v)

\* A value no configured key opens is left as it is.
decryptSecret(v) ==
    IF IsEncryptedValue(v) /\ DecryptStringAuto(v) # None THEN DecryptStringAuto(v)
    ELSE v

-----------------------------------------------------------------------------
(* The store.  A copy is a row as a reader holds it, with the row it read. *)

Copy(h, r) == [hook |-> h, was |-> r, now |-> [r EXCEPT !.secret = decryptSecret(@)]]

\* Save of a copy, inserting the row when it has gone.
Update(c) ==
    /\ row' = [row EXCEPT ![c.hook] = [c.now EXCEPT !.secret = encryptSecret(@)]]
    /\ stale' = IF row[c.hook] = c.was THEN stale ELSE stale \union {c.hook}

\* An empty event list stands for DefaultWebhookEvents, which has the actions
\* create, update and delete and not rotate_secret; "*" matches every action.
EventLists == {"default", "all"}
Matched(r, action) == r.events = "all" \/ action \in {"create", "update", "delete"}

ActiveByEvent(rows, action) ==
    {h \in Hooks : rows[h] # None /\ rows[h].active /\ Matched(rows[h], action)}

\* Dispatch: a goroutine for every hook found, none when they cannot be read.
Dispatch(rows, action) ==
    \E found \in {ActiveByEvent(rows, action), {}} :
        \E number \in [found -> fires + 1 .. fires + Cardinality(found)] :
            /\ fires + Cardinality(found) <= MaxFires
            /\ \A h, g \in found : number[h] = number[g] => h = g
            /\ flights' = flights \union
                    {[n |-> number[h], c |-> Copy(h, rows[h])] : h \in found}
            /\ fires' = fires + Cardinality(found)

-----------------------------------------------------------------------------
Init ==
    /\ row = [h \in Hooks |-> None]
    /\ keys \in KeyLists
    /\ flights = {} /\ sent = None
    /\ edit = [a \in Admins |-> None]
    /\ fires = 0 /\ secrets = 0 /\ restarts = 0
    /\ given = [h \in Hooks |-> None]
    /\ off = {} /\ stale = {}

\* handleCreateAuditWebhook.  The request may ask for an inactive hook, but
\* the column's default replaces a false value on insertion, so the row is
\* active either way.
Create(h) ==
    /\ given[h] = None
    /\ secrets < MaxSecrets
    /\ secrets' = secrets + 1
    /\ given' = [given EXCEPT ![h] = secrets + 1]
    /\ \E ev \in EventLists :
          row' = [row EXCEPT ![h] = [active |-> TRUE, events |-> ev,
                    secret |-> encryptSecret(Plain(secrets + 1))]]
    /\ Dispatch(row', "create")
    /\ UNCHANGED <<keys, edit, sent, restarts, off, stale>>

\* GetByID of handleUpdateAuditWebhook and handleRotateAuditWebhookSecret.
Load(a, h) ==
    /\ edit[a] = None
    /\ row[h] # None
    /\ edit' = [edit EXCEPT ![a] = Copy(h, row[h])]
    /\ UNCHANGED <<row, keys, flights, sent, fires, secrets, restarts, given, off, stale>>

\* The rest of handleUpdateAuditWebhook: active, the events or the secret are
\* replaced by what the request gives, the row is saved and the edit logged.
UpdateHook(a, active, ev, own) ==
    LET c == edit[a] IN
    /\ c # None
    /\ secrets + (IF own THEN 1 ELSE 0) <= MaxSecrets
    /\ edit' = [edit EXCEPT ![a] = None]
    /\ secrets' = IF own THEN secrets + 1 ELSE secrets
    /\ given' = IF own THEN [given EXCEPT ![c.hook] = secrets + 1] ELSE given
    /\ off' = IF active THEN off \ {c.hook} ELSE off \union {c.hook}
    /\ Update([c EXCEPT !.now = [active |-> active, events |-> ev,
          secret |-> IF own THEN Plain(secrets + 1) ELSE c.now.secret]])
    /\ Dispatch(row', "update")
    /\ UNCHANGED <<keys, sent, restarts>>

\* The rest of handleRotateAuditWebhookSecret.
Rotate(a) ==
    LET c == edit[a] IN
    /\ c # None
    /\ secrets < MaxSecrets
    /\ edit' = [edit EXCEPT ![a] = None]
    /\ secrets' = secrets + 1
    /\ given' = [given EXCEPT ![c.hook] = secrets + 1]
    /\ Update([c EXCEPT !.now.secret = Plain(secrets + 1)])
    /\ Dispatch(row', "rotate_secret")
    /\ UNCHANGED <<keys, sent, restarts, off>>

\* A request refused after the row was loaded: an invalid body, a private
\* target, a secret that is too short.
GiveUp(a) ==
    /\ edit[a] # None
    /\ edit' = [edit EXCEPT ![a] = None]
    /\ UNCHANGED <<row, keys, flights, sent, fires, secrets, restarts, given, off, stale>>

\* handleDeleteAuditWebhook; a missing row is reported and nothing is logged.
Delete(h) ==
    /\ row[h] # None
    /\ row' = [row EXCEPT ![h] = None]
    /\ off' = off \union {h}
    /\ Dispatch(row', "delete")
    /\ UNCHANGED <<keys, edit, sent, secrets, restarts, given, stale>>

\* Any other event the hub logs: the rest of the administration, or an action
\* that only "*" matches.
LogEvent(action) ==
    /\ Dispatch(row, action)
    /\ UNCHANGED <<row, keys, edit, sent, secrets, restarts, given, off, stale>>

\* The body in the format of the target's kind, signed with the secret the
\* copy holds; an unreadable one signs as it is stored.
Post(c) == [hook |-> c.hook, sig |-> c.now.secret]

\* The time and the status, saved with the rest of the copy, if it can be.
recordResult(c) == Update(c) \/ UNCHANGED <<row, stale>>

\* handleTestAuditWebhook: one delivery, to an inactive hook too; no result
\* is saved.
DeliverTest(h) ==
    /\ row[h] # None
    /\ sent' = Post(Copy(h, row[h]))
    /\ UNCHANGED <<row, keys, flights, edit, fires, secrets, restarts, given, off, stale>>

\* fire: the post reaches the target or it does not, within the timeout, and
\* recordResult saves the copy the goroutine was started with.
Fire(f) ==
    /\ flights' = flights \ {f}
    /\ sent' \in {Post(f.c), sent}
    /\ recordResult(f.c)
    /\ UNCHANGED <<keys, edit, fires, secrets, restarts, given, off>>

\* The hub stops, with what is in flight, and starts with other keys.
Restart ==
    /\ restarts < MaxRestarts
    /\ restarts' = restarts + 1
    /\ keys' \in KeyLists
    /\ flights' = {}
    /\ edit' = [a \in Admins |-> None]
    /\ UNCHANGED <<row, sent, fires, secrets, given, off, stale>>

Next ==
    \/ \E h \in Hooks : Create(h) \/ Delete(h) \/ DeliverTest(h)
    \/ \E a \in Admins, h \in Hooks : Load(a, h)
    \/ \E a \in Admins, active \in BOOLEAN, ev \in EventLists, own \in BOOLEAN :
          UpdateHook(a, active, ev, own)
    \/ \E a \in Admins : Rotate(a) \/ GiveUp(a)
    \/ \E action \in {"update", "login"} : LogEvent(action)
    \/ \E f \in flights : Fire(f)
    \/ Restart

Spec == Init /\ [][Next]_vars

-----------------------------------------------------------------------------
\* A stored secret opens, with the one key it is under, to the secret the
\* administrator was last given, whatever keys the hub was restarted with
\* between the edits, unless a copy loaded before the last change was saved
\* over it (encryptSecret and decryptSecret of the webhook store).
SecretRecoverable ==
    \A h \in Hooks : row[h] # None /\ h \notin stale =>
        /\ row[h].secret.plain = given[h]
        /\ Len(row[h].secret.under) = 1

\* No delivery is started for a hook that was turned off or deleted before
\* the event was logged, and a deleted hook does not come back, except by a
\* stale copy saved over the change (Dispatch, ActiveByEvent, Save).
OffStaysOff ==
    \A h \in Hooks : h \in off /\ h \notin stale =>
        /\ row[h] # None => ~row[h].active
        /\ \A f \in flights : f.c.hook = h => f.c.was.active /\ f.c.was # row[h]

\* A delivery in progress for a row that has not changed since it was read is
\* signed with the administrator's secret, opened unless the key it is under
\* is no longer configured.
SignedWithGiven ==
    \A f \in flights :
        f.c.was = row[f.c.hook] /\ f.c.hook \notin stale =>
            LET sig == f.c.now.secret IN
            /\ sig.plain = given[f.c.hook]
            /\ sig.under = <<>> \/ sig.under[1] \notin Elements(keys)

-----------------------------------------------------------------------------
(* The inductive invariant behind these.                                   *)

Keys == UNION {Elements(k) : k \in KeyLists}
StoredSecret == [plain: Nat, under: Seq(Keys)]
HookRow == [active: BOOLEAN, events: EventLists, secret: StoredSecret]
HookCopy == [hook: Hooks, was: HookRow, now: HookRow]

\* There is a key to encrypt with; None is a value of its own.
HookAssumption ==
    /\ \A k \in KeyLists : k \in Seq(Keys) /\ k # <<>>
    /\ None \notin Nat /\ None \notin StoredSecret /\ None \notin HookRow /\ None \notin HookCopy

HookStateOK ==
    /\ row \in [Hooks -> HookRow \union {None}] /\ keys \in KeyLists
    /\ \A f \in flights : f.c \in HookCopy
    /\ edit \in [Admins -> HookCopy \union {None}]
    /\ given \in [Hooks -> Nat \union {None}] /\ secrets \in Nat

\* A copy is the row that was read, with its secret opened if it could be.
Read(c) == c.now = [c.was EXCEPT !.secret = decryptSecret(@)]

CopiesRead ==
    /\ \A f \in flights : Read(f.c) /\ f.c.was.active
    /\ \A a \in Admins : edit[a] # None => Read(edit[a])

\* Nothing is known of a hook that was not created.
Unborn ==
    \A h \in Hooks : given[h] = None =>
        /\ row[h] = None /\ h \notin off
        /\ \A a \in Admins : edit[a] # None => edit[a].hook # h
        /\ \A f \in flights : f.c.hook # h

HookInv == HookStateOK /\ CopiesRead /\ Unborn /\ SecretRecoverable /\ OffStaysOff
=============================================================================
