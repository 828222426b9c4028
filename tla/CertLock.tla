----------------------------- MODULE CertLock -----------------------------
(***************************************************************************)
(* The database lock that keeps hubs from ordering the same certificate at *)
(* the same time: a row with an expiry, renewed by a goroutine, taken over *)
(* once it expired (internal/acme/certmagic_storage.go, Lock, Unlock,      *)
(* tryAcquire, startLease).  One lock name; names do not affect each       *)
(* other, as an acquisition only deletes rows that are expired.            *)
(***************************************************************************)
EXTENDS Integers, FiniteSets

CONSTANTS
    Procs,      \* hub processes
    Callers,    \* goroutines that take the lock
    ProcOf,     \* ProcOf[c] is the process of caller c
    Owners,     \* random owner strings, each drawn once
    None,
    TTL,        \* lockTTL, in ticks
    Every,      \* renewEvery, a third of it
    MaxFails    \* renewals in a row that may fail

ASSUME TimesAssumption ==
    TTL \in Nat \ {0} /\ Every \in Nat \ {0} /\ MaxFails \in Nat
\* A renewal is still in time after MaxFails failed ones: with the code's thirty
\* and ten seconds, one of them.
ASSUME MarginAssumption == (MaxFails + 1) * Every < TTL
ASSUME ProcOfAssumption == ProcOf \in [Callers -> Procs]
ASSUME NoneAssumption == None \notin Owners /\ None \notin Procs

VARIABLES
    row,     \* the row of distributed_locks
    owners,  \* per process: the owner it remembers for the lock
    lease,   \* the renewing goroutine of each owner
    caller,  \* program counter and owner of each caller
    drawn,   \* owner strings drawn so far
    stalled  \* history: some process has missed a tick

vars == <<row, owners, lease, caller, drawn, stalled>>

\* ttl is expires_at minus now; at 0 an acquisition may delete the row.
Row == [owner: Owners \union {None}, ttl: 0..TTL]
NoRow == [owner |-> None, ttl |-> 0]

\* A cancelled goroutine may renew once more before it notices.
Lease == [state: {"off", "on", "cancelled"}, proc: Procs \union {None},
          due: 0..Every, fails: 0..MaxFails]
NoLease == [state |-> "off", proc |-> None, due |-> 0, fails |-> 0]

Caller == [pc: {"idle", "waiting", "leasing", "held", "unlocking"},
           own: Owners \union {None}]
Idle == [pc |-> "idle", own |-> None]

Init ==
    /\ row = NoRow
    /\ owners = [p \in Procs |-> None]
    /\ lease = [o \in Owners |-> NoLease]
    /\ caller = [c \in Callers |-> Idle]
    /\ drawn = {}
    /\ stalled = FALSE

Goto(c, where, o) == caller' = [caller EXCEPT ![c] = [pc |-> where, own |-> o]]

Expired == row.owner # None /\ row.ttl = 0

-----------------------------------------------------------------------------
Lock(c) ==
    /\ caller[c].pc = "idle"
    /\ Goto(c, "waiting", None)
    /\ UNCHANGED <<row, owners, lease, drawn, stalled>>

\* tryAcquire, when the row is missing or expired: one transaction deletes
\* and inserts.  An attempt that finds a valid row changes nothing.
tryAcquire(c, o) ==
    /\ caller[c].pc = "waiting"
    /\ o \notin drawn
    /\ row = NoRow \/ Expired
    /\ row' = [owner |-> o, ttl |-> TTL]
    /\ drawn' = drawn \union {o}
    /\ Goto(c, "leasing", o)
    /\ UNCHANGED <<owners, lease, stalled>>

\* The context of a waiting Lock ends, or the database fails.
LockFails(c) ==
    /\ caller[c].pc = "waiting"
    /\ Goto(c, "idle", None)
    /\ UNCHANGED <<row, owners, lease, drawn, stalled>>

\* Mutant: the goroutine of the previous owner keeps running.
MutCancel(l, o) == l

\* cancel() of the goroutine that renews for owner o.
Cancel(l, o) ==
    [x \in Owners |-> IF x = o /\ l[x].state = "on"
                      THEN [state |-> "cancelled", proc |-> l[x].proc,
                            due |-> l[x].due, fails |-> l[x].fails]
                      ELSE l[x]]

\* startLease remembers the owner, cancels the goroutine of the owner this
\* process remembered before, and starts a new one.
startLease(c) ==
    LET p == ProcOf[c] IN
    /\ caller[c].pc = "leasing"
    /\ owners' = [owners EXCEPT ![p] = caller[c].own]
    /\ lease' = [Cancel(lease, owners[p]) EXCEPT ![caller[c].own] =
                   [state |-> "on", proc |-> p, due |-> Every, fails |-> 0]]
    /\ Goto(c, "held", caller[c].own)
    /\ UNCHANGED <<row, drawn, stalled>>

\* Mutants: a renewal does not move expires_at, or moves it from its old value.
MutRenewedRow(o) == row
MutRenewAddsUp(o) == IF row.owner = o THEN [row EXCEPT !.ttl = @ + TTL] ELSE row

\* UPDATE ... WHERE name AND owner: a row of another owner is left alone, and
\* the goroutine does not notice.
RenewedRow(o) == IF row.owner = o THEN [owner |-> o, ttl |-> TTL] ELSE row

Renew(o) ==
    /\ lease[o].due = 0
    /\ \/ /\ lease[o].state = "on"
          /\ lease' = [lease EXCEPT ![o] =
               [state |-> "on", proc |-> lease[o].proc, due |-> Every, fails |-> 0]]
       \/ /\ lease[o].state = "cancelled"
          /\ lease' = [lease EXCEPT ![o] = NoLease]
    /\ row' = RenewedRow(o)
    /\ UNCHANGED <<owners, caller, drawn, stalled>>

\* The error of a renewal is ignored.
RenewFails(o) ==
    /\ lease[o].state = "on" /\ lease[o].due = 0
    /\ lease[o].fails < MaxFails
    /\ lease' = [lease EXCEPT ![o] = [state |-> "on", proc |-> lease[o].proc, due |-> Every,
                                      fails |-> lease[o].fails + 1]]
    /\ UNCHANGED <<row, owners, caller, drawn, stalled>>

LeaseStops(o) ==
    /\ lease[o].state = "cancelled"
    /\ lease' = [lease EXCEPT ![o] = NoLease]
    /\ UNCHANGED <<row, owners, caller, drawn, stalled>>

\* Unlock forgets and cancels the owner the process remembers.
Unlock(c) ==
    LET p == ProcOf[c] IN
    /\ caller[c].pc = "held"
    /\ owners' = [owners EXCEPT ![p] = None]
    /\ lease' = Cancel(lease, owners[p])
    /\ Goto(c, IF owners[p] = None THEN "idle" ELSE "unlocking", owners[p])
    /\ UNCHANGED <<row, drawn, stalled>>

\* Mutant: the row is deleted whoever owns it.
MutDeletedRow(o) == NoRow

\* DELETE ... WHERE name AND owner.
DeletedRow(o) == IF row.owner = o THEN NoRow ELSE row

\* The row goes, or the call fails and the row stays until it expires.
UnlockRow(c) ==
    /\ caller[c].pc = "unlocking"
    /\ row' \in {row, DeletedRow(caller[c].own)}
    /\ Goto(c, "idle", None)
    /\ UNCHANGED <<owners, lease, drawn, stalled>>

\* A process dies with its goroutines and its memory.
Crash(p) ==
    /\ \E c \in Callers : ProcOf[c] = p /\ caller[c].pc # "idle"
    /\ owners' = [owners EXCEPT ![p] = None]
    /\ lease' = [o \in Owners |-> IF lease[o].proc = p THEN NoLease ELSE lease[o]]
    /\ caller' = [c \in Callers |-> IF ProcOf[c] = p THEN Idle ELSE caller[c]]
    /\ UNCHANGED <<row, drawn, stalled>>

-----------------------------------------------------------------------------
\* No process stalls at this tick: renewals that were due have been made or
\* have failed, and an acquired lock has its goroutine.
Punctual ==
    /\ \A o \in Owners : lease[o].state = "on" => lease[o].due > 0
    /\ \A c \in Callers : caller[c].pc # "leasing"

Less(n) == IF n = 0 THEN 0 ELSE n - 1

Tick ==
    /\ row' = [owner |-> row.owner, ttl |-> Less(row.ttl)]
    /\ lease' = [o \in Owners |-> [state |-> lease[o].state, proc |-> lease[o].proc,
                                   due |-> Less(lease[o].due), fails |-> lease[o].fails]]
    /\ stalled' = (stalled \/ ~Punctual)
    /\ UNCHANGED <<owners, caller, drawn>>

Step(c) ==
    \/ Lock(c) \/ LockFails(c) \/ startLease(c) \/ Unlock(c) \/ UnlockRow(c)
    \/ \E o \in Owners : tryAcquire(c, o)

Others ==
    \/ \E c \in Callers : Step(c)
    \/ \E o \in Owners : Renew(o) \/ RenewFails(o) \/ LeaseStops(o)
    \/ \E p \in Procs : Crash(p)

Next == Tick \/ Others
Spec == Init /\ [][Next]_vars

\* Time passes.
FairSpec == Spec /\ WF_vars(Tick)

-----------------------------------------------------------------------------
(* Properties.                                                             *)

DataOK ==
    /\ row \in Row
    /\ owners \in [Procs -> Owners \union {None}]
    /\ lease \in [Owners -> Lease]
    /\ caller \in [Callers -> Caller]
    /\ drawn \in SUBSET Owners

\* Row, remembered owners, goroutines and callers keep their types.
TypeOK == DataOK /\ stalled \in BOOLEAN

Has(c) == caller[c].pc \in {"leasing", "held"}

\* At most one caller has the lock, with crashes, failed unlocks and up to
\* MaxFails failed renewals in a row, as long as no process has stalled past
\* a renewal (Lock, startLease).
MutualExclusion == ~stalled => \A c, d \in Callers : Has(c) /\ Has(d) => c = d

\* An unlock that comes late, after the lease ran out and another process took
\* the lock over, does not take the lock from its new holder (Unlock).  Within
\* one process it may: owners has one entry for the name.
UnlockOwnOnly ==
    [][\A c \in Callers : caller[c].pc = "unlocking" /\ caller'[c].pc = "idle" /\ row' # row =>
         \A d \in Callers : ProcOf[d] # ProcOf[c] /\ Has(d) => caller[d].own # row.owner]_vars

\* No caller has owner o any more.
Orphan(o) == \A c \in Callers : caller[c].own # o

\* A lock left behind by a crash or by a failed unlock can be taken again
\* sooner or later: no goroutine goes on renewing it (startLease, Unlock).
OrphanFreed ==
    \A o \in Owners : row.owner = o /\ Orphan(o) ~> row.owner # o \/ Expired

-----------------------------------------------------------------------------
(* The inductive invariant behind MutualExclusion, while nobody stalls.    *)

\* Owner strings are drawn before use and belong to one caller each.
OwnersApart ==
    /\ row.owner # None => row.owner \in drawn
    /\ \A c \in Callers :
         /\ caller[c].pc \in {"leasing", "held", "unlocking"} => caller[c].own \in drawn
         /\ caller[c].pc \in {"idle", "waiting"} => caller[c].own = None
    /\ \A c, d \in Callers : caller[c].own # None /\ caller[c].own = caller[d].own => c = d

\* A process remembers the owner of its caller that holds the lock, no other.
OwnersHeld ==
    /\ \A p \in Procs : owners[p] # None =>
         \E c \in Callers : ProcOf[c] = p /\ caller[c].pc = "held" /\ caller[c].own = owners[p]
    /\ \A c \in Callers : caller[c].pc = "held" => owners[ProcOf[c]] = caller[c].own

\* Ticks until the last renewal that may come is made.
Reach(o) == lease[o].due + (MaxFails - lease[o].fails) * Every

\* Who has the lock owns the row, and the row outlasts the next renewals.
RowLasts ==
    \A c \in Callers :
        /\ Has(c) => row.owner = caller[c].own
        /\ caller[c].pc = "leasing" => row.ttl = TTL
        /\ caller[c].pc = "held" =>
             /\ lease[caller[c].own].state = "on"
             /\ lease[caller[c].own].proc = ProcOf[c]
             /\ Reach(caller[c].own) < row.ttl

IInv == DataOK /\ OwnersApart /\ OwnersHeld /\ RowLasts

\* What holds after a stall too, behind UnlockOwnOnly: an owner string is used
\* and remembered in the process that drew it.
OwnersAtHome ==
    /\ \A c \in Callers :
         /\ caller[c].pc \in {"leasing", "held", "unlocking"} => caller[c].own # None
         /\ caller[c].own # None => caller[c].own \in drawn
         /\ \A d \in Callers : caller[c].own # None /\ caller[c].own = caller[d].own =>
              ProcOf[c] = ProcOf[d]
    /\ \A p \in Procs : owners[p] # None =>
         /\ owners[p] \in drawn
         /\ \A c \in Callers : owners[p] = caller[c].own => ProcOf[c] = p
         /\ \A q \in Procs : owners[p] = owners[q] => p = q
=============================================================================
