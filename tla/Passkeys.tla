------------------------------ MODULE Passkeys ------------------------------
(***************************************************************************)
(* Passkeys of one account and their challenges (internal/auth/webauthn.go,*)
(* webauthn_redis.go, internal/http/passkeys.go).                          *)
(*                                                                         *)
(* A challenge is in Redis, or in the memory of the hub when Redis did not *)
(* confirm it.  Requests run one database statement at a time.  An         *)
(* authenticator, or a copy of it, signs a challenge with a counter; one   *)
(* that is synchronised between devices always signs with 0.               *)
(***************************************************************************)
EXTENDS Integers, FiniteSets

CONSTANTS
    Challenges,     \* WebAuthn session ids
    Passkeys,       \* credential ids
    Requests,       \* requests in progress
    MaxCount,       \* bound on the counters of authenticators
    MaxStarts,      \* bound on the restarts of the hub
    None

VARIABLES
    passkeys,       \* user_credentials: None or the stored sign count
    redis, local,   \* challenges: None, "register", "login" or "decoy"
    begun,          \* challenges given out
    expired,        \* challenges older than five minutes
    req,            \* requests in progress
    starts,         \* restarts so far
    answered,       \* history: times a challenge was accepted
    doubtful,       \* history: challenges whose Save failed after Redis had them
    accepted,       \* history: times a counter was accepted, by passkey
    crowded,        \* history: passkeys of two logins at a time
    deleted,        \* history: passkeys deleted
    revived         \* history: deleted passkeys that a login saved back

history == <<answered, doubtful, accepted, crowded, deleted, revived>>
webauthn == <<passkeys, redis, local, begun, expired>>
vars == <<webauthn, req, starts, history>>

Init ==
    /\ passkeys \in [Passkeys -> {None, 0}]
    /\ redis = [c \in Challenges |-> None] /\ local = [c \in Challenges |-> None]
    /\ begun = {} /\ expired = {}
    /\ req = [r \in Requests |-> None] /\ starts = 0
    /\ answered = [c \in Challenges |-> 0] /\ doubtful = {}
    /\ accepted = [k \in Passkeys |-> [n \in 0..MaxCount |-> 0]]
    /\ crowded = {} /\ deleted = {} /\ revived = {}

-----------------------------------------------------------------------------
(* Challenges.                                                             *)

Save(c, entry) == redis' = [redis EXCEPT ![c] = entry]
Pop(c) == redis' = [redis EXCEPT ![c] = None]

\* Redis, or memory when Save fails, which it may although Redis has the
\* value; storing in memory sweeps what has expired there.
storeSession(c, entry) ==
    \/ Save(c, entry) /\ UNCHANGED <<local, doubtful>>
    \/ /\ local' = [d \in Challenges |-> IF d = c THEN entry
                                         ELSE IF d \in expired THEN None ELSE local[d]]
       /\ \/ UNCHANGED <<redis, doubtful>>
          \/ Save(c, entry) /\ doubtful' = doubtful \union {c}

Begin(c, entry) ==
    /\ c \notin begun
    /\ begun' = begun \union {c}
    /\ storeSession(c, entry)
    /\ UNCHANGED <<passkeys, expired, req, starts, answered, accepted,
                   crowded, deleted, revived>>

BeginRegistration(c) == Begin(c, "register")
BeginLogin(c) == (\E k \in Passkeys : passkeys[k] # None) /\ Begin(c, "login")

\* For an address without an account or without passkeys; it looks the same
\* from outside.
BeginLoginDecoy(c) == Begin(c, "decoy")

\* Five minutes pass; Redis drops the challenge by itself.
Expire(c) ==
    /\ c \in begun \ expired
    /\ expired' = expired \union {c}
    /\ redis' = [redis EXCEPT ![c] = None]
    /\ UNCHANGED <<passkeys, local, begun, req, starts, history>>

\* Mutant: a challenge in memory is left there.
MutPeekLocal(c) == local

\* The local half of popSession: the challenge goes whatever comes of it.
Popped(c) == [local EXCEPT ![c] = None]

\* popSession: Redis first, where GetDel may fail before or after it took
\* effect, and memory when Redis gave nothing.
popSession(c, purpose, Got) ==
    \/ /\ redis[c] # None
       /\ Pop(c)
       /\ UNCHANGED local
       /\ Got = (redis[c] = purpose /\ c \notin expired)
    \/ /\ UNCHANGED redis \/ Pop(c)
       /\ local' = Popped(c)
       /\ Got = (local[c] = purpose /\ c \notin expired)

Start(r, q) == req[r] = None /\ req' = [req EXCEPT ![r] = q]
End(r) == req' = [req EXCEPT ![r] = None]
At(r, pc) == req[r] # None /\ req[r].pc = pc

-----------------------------------------------------------------------------
(* Passkeys.                                                               *)

\* Both kinds pop the challenge first; a decoy goes no further.
Finish(r, c, purpose) ==
    /\ c \in begun
    /\ \E got \in BOOLEAN :
        /\ popSession(c, purpose, got)
        /\ IF got THEN Start(r, [pc |-> purpose, c |-> c, k |-> None, n |-> 0])
           ELSE req[r] = None /\ UNCHANGED req
        /\ answered' = IF got THEN [answered EXCEPT ![c] = @ + 1] ELSE answered
    /\ UNCHANGED <<passkeys, begun, expired, starts, doubtful, accepted,
                   crowded, deleted, revived>>

FinishRegistration(r, c) == Finish(r, c, "register")
FinishLogin(r, c) == Finish(r, c, "login")

\* The rest of FinishRegistration; a credential id is given once.
CreatePasskey(r, k) ==
    /\ At(r, "register")
    /\ passkeys[k] = None /\ k \notin deleted
    /\ passkeys' = [passkeys EXCEPT ![k] = 0]
    /\ End(r)
    /\ UNCHANGED <<redis, local, begun, expired, starts, history>>

\* No CloneWarning: the counter rises, or the authenticator has none.
CounterRises(n, stored) == n > stored \/ (n = 0 /\ stored = 0)

\* FinishLogin up to the clone warning, with the passkeys of the account.
Verify(r, k, n) ==
    /\ At(r, "login")
    /\ passkeys[k] # None
    /\ IF CounterRises(n, passkeys[k])
       THEN req' = [req EXCEPT ![r] = [@ EXCEPT !.pc = "load", !.k = k, !.n = n]]
       ELSE End(r)
    /\ crowded' = IF \E q \in Requests : req[q] # None /\ req[q].k = k
                  THEN crowded \union {k} ELSE crowded
    /\ UNCHANGED <<webauthn, starts, answered, doubtful, accepted,
                   deleted, revived>>

\* GetByCredentialID.
LoadPasskey(r) ==
    /\ At(r, "load")
    /\ IF passkeys[req[r].k] = None THEN End(r)
       ELSE req' = [req EXCEPT ![r].pc = "save"]
    /\ UNCHANGED <<webauthn, starts, history>>

\* Save of the whole row with the new counter, which inserts a missing row;
\* what is left is CompletePasskeyLogin, a login as in Sessions.
SavePasskey(r) ==
    LET k == req[r].k IN
    /\ At(r, "save")
    /\ passkeys' = [passkeys EXCEPT ![k] = req[r].n]
    /\ revived' = IF passkeys[k] = None THEN revived \union {k} ELSE revived
    /\ accepted' = [accepted EXCEPT ![k][req[r].n] = @ + 1]
    /\ End(r)
    /\ UNCHANGED <<redis, local, begun, expired, starts, answered,
                   doubtful, crowded, deleted>>

\* The request ends: the response does not fit, or the database fails.
Fail(r) ==
    /\ req[r] # None
    /\ End(r)
    /\ UNCHANGED <<webauthn, starts, history>>

DeletePasskey(k) ==
    /\ passkeys[k] # None
    /\ passkeys' = [passkeys EXCEPT ![k] = None]
    /\ deleted' = deleted \union {k}
    /\ UNCHANGED <<redis, local, begun, expired, req, starts, answered,
                   doubtful, accepted, crowded, revived>>

-----------------------------------------------------------------------------
\* A restart loses what is in memory.
Restart ==
    /\ starts < MaxStarts
    /\ starts' = starts + 1
    /\ local' = [c \in Challenges |-> None]
    /\ req' = [r \in Requests |-> None]
    /\ UNCHANGED <<passkeys, redis, begun, expired, history>>

Next ==
    \/ \E c \in Challenges : \/ BeginRegistration(c) \/ BeginLogin(c) \/ BeginLoginDecoy(c)
                              \/ Expire(c)
    \/ \E r \in Requests, c \in Challenges : FinishRegistration(r, c) \/ FinishLogin(r, c)
    \/ \E r \in Requests, k \in Passkeys : CreatePasskey(r, k)
    \/ \E r \in Requests, k \in Passkeys, n \in 0..MaxCount : Verify(r, k, n)
    \/ \E r \in Requests : LoadPasskey(r) \/ SavePasskey(r) \/ Fail(r)
    \/ \E k \in Passkeys : DeletePasskey(k)
    \/ Restart

Spec == Init /\ [][Next]_vars

-----------------------------------------------------------------------------
\* A challenge is answered once, whatever Redis loses: twice only when Redis
\* kept a value it had failed to confirm (storeSession, popSession).
ChallengeOnce ==
    \A c \in Challenges : answered[c] <= IF c \in doubtful THEN 2 ELSE 1

\* A counter that was accepted is not accepted again, so that a copy of an
\* authenticator shows itself, unless two logins of the passkey overlapped:
\* the later Save may put the counter back.
CopyNoticed ==
    \A k \in Passkeys \ (crowded \union revived), n \in 1..MaxCount : accepted[k][n] <= 1

\* A deleted passkey stays deleted, unless a login had loaded it.
DeletedStaysOut == \A k \in deleted \ revived : passkeys[k] = None

\* A used challenge, a copied authenticator or a deleted passkey opens no
\* account, except in the races named above (popSession, FinishLogin).
LoginsApart == ChallengeOnce /\ CopyNoticed /\ DeletedStaysOut

-----------------------------------------------------------------------------
(* The inductive invariant behind LoginsApart.                             *)

Entries == {"register", "login", "decoy"}
Handler == [pc: {"register", "login", "load", "save"}, c: Challenges,
            k: Passkeys \union {None}, n: 0..MaxCount]

\* None is a value of its own.
NoneApart ==
    /\ None \notin Entries /\ None \notin Handler
    /\ None \notin Nat /\ None \notin Passkeys
    /\ MaxCount \in Nat

PasskeysTypeOK ==
    /\ passkeys \in [Passkeys -> 0..MaxCount \union {None}]
    /\ redis \in [Challenges -> Entries \union {None}]
    /\ local \in [Challenges -> Entries \union {None}]
    /\ req \in [Requests -> Handler \union {None}]
    /\ answered \in [Challenges -> Nat]
    /\ accepted \in [Passkeys -> [0..MaxCount -> Nat]]

Copies(c) == (IF redis[c] = None THEN 0 ELSE 1) + (IF local[c] = None THEN 0 ELSE 1)

\* A challenge is stored once, or twice when Redis did not confirm it, and an
\* answer takes one of its copies.
CopiesOf(c) ==
    /\ c \notin begun => answered[c] = 0 /\ Copies(c) = 0 /\ c \notin doubtful
    /\ answered[c] + Copies(c) <= IF c \in doubtful THEN 2 ELSE 1
CopiesCounted == \A c \in Challenges : CopiesOf(c)

Using(r, k) == req[r] # None /\ req[r].k = k

\* A request has a passkey from Verify on, and the row was there.
PasskeyLoaded ==
    /\ \A r \in Requests : req[r] # None => (req[r].pc \in {"load", "save"} <=> req[r].k # None)
    /\ \A k \in Passkeys : passkeys[k] = None /\ k \notin deleted =>
          (\A r \in Requests : ~Using(r, k)) /\ (\A n \in 0..MaxCount : accepted[k][n] = 0)

\* While one login at a time uses a passkey, its counter is above the stored
\* one, which is above every counter accepted before.
CounterOf(k) ==
    /\ \A r, q \in Requests : Using(r, k) /\ Using(q, k) => r = q
    /\ \A r \in Requests : Using(r, k) /\ passkeys[k] # None
          => CounterRises(req[r].n, passkeys[k])
    /\ \A n \in 1..MaxCount : accepted[k][n] > 0 =>
          accepted[k][n] = 1 /\ (passkeys[k] # None => n <= passkeys[k])
CountersRise == \A k \in Passkeys \ (crowded \union revived) : CounterOf(k)

PasskeysInv ==
    PasskeysTypeOK /\ CopiesCounted /\ PasskeyLoaded /\ CountersRise /\ DeletedStaysOut
=============================================================================
