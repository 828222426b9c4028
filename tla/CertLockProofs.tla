--------------------------- MODULE CertLockProofs ---------------------------
(***************************************************************************)
(* Proof that the certificate lock excludes, for any number of processes,  *)
(* callers and owner strings and any lifetimes with enough margin, as long *)
(* as no process stalls.  The invariant ties the holder to the row and the *)
(* row's remaining time to the renewals still to come.                     *)
(***************************************************************************)
EXTENDS CertLock, TLAPS

\* The lifetime exceeds the wait for the last renewal that may come.
LEMMA Margin ==
    /\ MaxFails * Every \in Nat
    /\ Every + MaxFails * Every < TTL
  BY TimesAssumption, MarginAssumption, SMT

\* One more failed renewal uses up one interval.
LEMMA Interval ==
    ASSUME NEW n \in 0..MaxFails
    PROVE  /\ (MaxFails - n) * Every \in Nat
           /\ n < MaxFails => (MaxFails - (n + 1)) * Every + Every = (MaxFails - n) * Every
  BY TimesAssumption, SMT

\* Reach is a natural number.
LEMMA ReachNat ==
    ASSUME DataOK, NEW o \in Owners
    PROVE  Reach(o) \in Nat
<1>1. lease[o].due \in Nat /\ lease[o].fails \in 0..MaxFails
  BY TimesAssumption DEF DataOK, Lease
<1>2. (MaxFails - lease[o].fails) * Every \in Nat
  BY <1>1, Interval
<1> QED
  BY <1>1, <1>2 DEF Reach

\* The initial states satisfy the invariant.
LEMMA InitInv == Init => IInv
<1> SUFFICES ASSUME Init PROVE IInv
  OBVIOUS
<1>1. DataOK
  BY TimesAssumption DEF Init, DataOK, Row, NoRow, Lease, NoLease, Caller, Idle
<1>2. OwnersApart /\ OwnersHeld /\ RowLasts
  BY DEF Init, OwnersApart, OwnersHeld, RowLasts, Has, Idle, NoRow
<1> QED
  BY <1>1, <1>2 DEF IInv

\* The invariant makes callers exclude each other.
LEMMA Excludes ==
    ASSUME IInv, NEW c \in Callers, NEW d \in Callers, Has(c), Has(d)
    PROVE  c = d
<1>1. caller[c].own = caller[d].own
  BY DEF IInv, RowLasts
<1>2. caller[c].own # None
  BY NoneAssumption DEF IInv, OwnersApart, DataOK, Has
<1> QED
  BY <1>1, <1>2 DEF IInv, OwnersApart

\* While someone has the lock, its row is neither missing nor expired.
LEMMA RowValid ==
    ASSUME IInv, NEW c \in Callers, Has(c)
    PROVE  row # NoRow /\ ~Expired
<1>1. row.owner # None
  BY NoneAssumption DEF IInv, OwnersApart, DataOK, Has, RowLasts
<1>2. caller[c].own \in Owners
  BY DEF IInv, OwnersApart, DataOK, Has
<1>3. row.ttl > 0
  <2>1. CASE caller[c].pc = "leasing"
    BY <2>1, TimesAssumption DEF IInv, RowLasts
  <2>2. CASE caller[c].pc = "held"
    <3>1. Reach(caller[c].own) \in Nat /\ Reach(caller[c].own) < row.ttl
      BY <2>2, <1>2, ReachNat DEF IInv, RowLasts
    <3>2. row.ttl \in Int
      BY TimesAssumption DEF IInv, DataOK, Row
    <3> QED
      BY <3>1, <3>2
  <2> QED
    BY <2>1, <2>2 DEF Has
<1> QED
  BY <1>1, <1>3 DEF NoRow, Expired

-----------------------------------------------------------------------------
(* One lemma per action.                                                   *)

\* Lock and LockFails only move a caller that has no owner.
LEMMA WaitStep ==
    ASSUME IInv, NEW c \in Callers, Lock(c) \/ LockFails(c)
    PROVE  IInv'
<1> USE DEF IInv
<1>1. PICK where \in {"idle", "waiting"} :
        /\ caller' = [caller EXCEPT ![c] = [pc |-> where, own |-> None]]
        /\ caller[c].pc \in {"idle", "waiting"} /\ caller[c].own = None
        /\ UNCHANGED <<row, owners, lease, drawn>>
  BY DEF Lock, LockFails, Goto, OwnersApart
<1>2. DataOK'
  BY <1>1 DEF DataOK, Caller
<1>3. caller \in [Callers -> Caller]
  BY DEF DataOK
<1>4. OwnersApart'
  BY <1>1, <1>3 DEF OwnersApart
<1>5. OwnersHeld'
  BY <1>1, <1>3 DEF OwnersHeld
<1>6. RowLasts'
  BY <1>1, <1>3 DEF RowLasts, Has, Reach
<1> QED
  BY <1>2, <1>4, <1>5, <1>6

\* An acquisition finds nobody who has the lock, and writes a full lifetime.
LEMMA AcquireStep ==
    ASSUME IInv, NEW c \in Callers, NEW o \in Owners, tryAcquire(c, o)
    PROVE  IInv'
<1> USE DEF IInv
<1>1. \A d \in Callers : ~Has(d)
  BY RowValid DEF tryAcquire
<1>2. /\ row' = [owner |-> o, ttl |-> TTL]
      /\ caller' = [caller EXCEPT ![c] = [pc |-> "leasing", own |-> o]]
      /\ drawn' = drawn \union {o}
      /\ UNCHANGED <<owners, lease>>
      /\ caller[c].pc = "waiting" /\ o \notin drawn
  BY DEF tryAcquire, Goto
<1>3. DataOK'
  BY <1>2, TimesAssumption DEF DataOK, Row, Caller
<1>4. caller \in [Callers -> Caller]
  BY DEF DataOK
<1>5. o # None
  BY NoneAssumption
<1>6. OwnersApart'
  <2>1. \A d \in Callers : caller[d].own # o
    BY <1>2, <1>4, <1>5 DEF OwnersApart, Caller
  <2> QED
    BY <1>2, <1>4, <2>1 DEF OwnersApart
<1>7. OwnersHeld'
  BY <1>1, <1>2, <1>4 DEF OwnersHeld, Has
<1>8. RowLasts'
  <2> SUFFICES ASSUME NEW d \in Callers PROVE RowLasts!(d)'
    BY DEF RowLasts
  <2>1. CASE d = c
    BY <2>1, <1>2, <1>4 DEF Has
  <2>2. CASE d # c
    BY <2>2, <1>1, <1>2, <1>4 DEF Has
  <2> QED
    BY <2>1, <2>2
<1> QED
  BY <1>3, <1>6, <1>7, <1>8

\* The process had no owner to cancel: its caller would have the lock as well.
LEMMA StartStep ==
    ASSUME IInv, NEW c \in Callers, startLease(c)
    PROVE  IInv'
<1> USE DEF IInv
<1> DEFINE p == ProcOf[c]
<1>1. PICK o \in Owners :
        p \in Procs /\ o = caller[c].own /\ o # None /\ caller[c].pc = "leasing"
  BY ProcOfAssumption, NoneAssumption DEF startLease, OwnersApart, DataOK
<1>2. \A d \in Callers : Has(d) => d = c
  BY <1>1, Excludes DEF Has
<1>3. owners[p] = None
  BY <1>1, <1>2 DEF OwnersHeld, Has
<1>4. Cancel(lease, owners[p]) = lease
  BY <1>3, NoneAssumption DEF Cancel, DataOK
<1>5. /\ owners' = [owners EXCEPT ![p] = o]
      /\ lease' = [lease EXCEPT ![o] = [state |-> "on", proc |-> p, due |-> Every, fails |-> 0]]
      /\ caller' = [caller EXCEPT ![c] = [pc |-> "held", own |-> o]]
      /\ UNCHANGED <<row, drawn>>
  BY <1>1, <1>4 DEF startLease, Goto
<1>6. caller \in [Callers -> Caller] /\ lease \in [Owners -> Lease]
  BY DEF DataOK
<1> HIDE DEF p
<1>7. DataOK'
  BY <1>1, <1>5, TimesAssumption DEF DataOK, Caller, Lease
<1>8. OwnersApart'
  BY <1>1, <1>5, <1>6 DEF OwnersApart
<1>9. OwnersHeld'
  <2>1. \A d \in Callers : d # c => caller'[d].pc # "held"
    BY <1>2, <1>5, <1>6 DEF Has
  <2>2. caller'[c] = [pc |-> "held", own |-> o] /\ owners'[p] = o
    BY <1>1, <1>5, <1>6 DEF DataOK
  <2>3. \A q \in Procs : q # p => owners'[q] = None
    <3> SUFFICES ASSUME NEW q \in Procs, q # p PROVE owners'[q] = None
      OBVIOUS
    <3>1. owners'[q] = owners[q]
      BY <1>5 DEF DataOK
    <3>2. owners[q] = None
      BY <1>1, <1>2 DEF OwnersHeld, Has
    <3> QED
      BY <3>1, <3>2
  <2> QED
    BY <2>1, <2>2, <2>3 DEF OwnersHeld, p
<1>10. RowLasts'
  <2> SUFFICES ASSUME NEW d \in Callers PROVE RowLasts!(d)'
    BY DEF RowLasts
  <2>1. CASE d # c
    BY <2>1, <1>2, <1>5, <1>6 DEF Has
  <2>2. CASE d = c
    <3>1. caller'[c] = [pc |-> "held", own |-> o]
      BY <1>5, <1>6
    <3>2. row.owner = o /\ row.ttl = TTL
      BY <1>1 DEF RowLasts, Has
    <3>3. lease'[o] = [state |-> "on", proc |-> p, due |-> Every, fails |-> 0]
      BY <1>1, <1>5, <1>6
    <3>4. Reach(o)' = Every + (MaxFails - 0) * Every
      <4>1. lease'[o].due = Every /\ lease'[o].fails = 0
        BY <3>3
      <4> QED
        BY <4>1 DEF Reach
    <3>5. Every + (MaxFails - 0) * Every < TTL
      BY Margin, TimesAssumption
    <3>6. caller'[c].own = o /\ caller'[c].pc = "held" /\ row' = row
      BY <3>1, <1>5
    <3>7. lease'[caller'[c].own].state = "on" /\ lease'[caller'[c].own].proc = ProcOf[c]
      BY <3>3, <3>6 DEF p
    <3>8. (Reach(caller[c].own) < row.ttl)'
      BY <3>2, <3>4, <3>5, <3>6 DEF Reach
    <3> QED
      BY <2>2, <3>2, <3>6, <3>7, <3>8 DEF Has
  <2> QED
    BY <2>1, <2>2
<1> QED
  BY <1>7, <1>8, <1>9, <1>10

\* A renewal restores the full lifetime of the holder's row, if it is one.
LEMMA RenewStep ==
    ASSUME IInv, NEW o \in Owners, Renew(o)
    PROVE  IInv'
<1> USE DEF IInv
<1>1. UNCHANGED <<owners, caller, drawn>> /\ row' = RenewedRow(o)
  BY DEF Renew
<1>2. DataOK'
  BY TimesAssumption DEF Renew, DataOK, Lease, NoLease, RenewedRow, Row
<1>3. row \in Row /\ lease \in [Owners -> Lease] /\ caller \in [Callers -> Caller]
  BY DEF DataOK
<1>4. row'.owner = row.owner /\ row'.ttl \in {row.ttl, TTL} /\ (row.owner = o => row'.ttl = TTL)
  BY <1>1, <1>3 DEF RenewedRow, Row
<1>5. OwnersApart' /\ OwnersHeld'
  BY <1>1, <1>4 DEF OwnersApart, OwnersHeld
<1>6. RowLasts'
  <2> SUFFICES ASSUME NEW c \in Callers PROVE RowLasts!(c)'
    BY DEF RowLasts
  <2>1. CASE caller[c].pc # "held"
    BY <2>1, <1>1, <1>4 DEF RowLasts, Has
  <2>2. CASE caller[c].pc = "held" /\ caller[c].own # o
    <3>1. lease'[caller[c].own] = lease[caller[c].own]
      <4>1. caller[c].own \in Owners
        BY <2>2 DEF OwnersApart, DataOK
      <4> QED
        BY <2>2, <1>3, <4>1 DEF Renew
    <3>2. row.owner # o
      BY <2>2 DEF RowLasts, Has
    <3>3. row' = row
      BY <1>1, <3>2 DEF RenewedRow
    <3> QED
      BY <2>2, <3>1, <3>3, <1>1 DEF RowLasts, Has, Reach
  <2>3. CASE caller[c].pc = "held" /\ caller[c].own = o
    <3>1. /\ lease[o].state = "on" /\ lease[o].proc = ProcOf[c] /\ row.owner = o
      BY <2>3 DEF RowLasts, Has
    <3>2. /\ lease'[o].state = "on" /\ lease'[o].proc = ProcOf[c]
          /\ lease'[o].due = Every /\ lease'[o].fails = 0
      BY <3>1, <1>3 DEF Renew, Lease
    <3>3. Reach(o)' = Every + (MaxFails - 0) * Every
      BY <3>2 DEF Reach
    <3>4. Every + (MaxFails - 0) * Every < TTL
      BY Margin, TimesAssumption
    <3> QED
      BY <2>3, <3>1, <3>2, <3>3, <3>4, <1>1, <1>4 DEF Has
  <2> QED
    BY <2>1, <2>2, <2>3
<1> QED
  BY <1>2, <1>5, <1>6

\* A failed renewal uses up one of the intervals the row's lifetime has room for.
LEMMA RenewFailsStep ==
    ASSUME IInv, NEW o \in Owners, RenewFails(o)
    PROVE  IInv'
<1> USE DEF IInv
<1>1. /\ UNCHANGED <<row, owners, caller, drawn>>
      /\ lease[o].state = "on" /\ lease[o].due = 0 /\ lease[o].fails < MaxFails
      /\ lease' = [lease EXCEPT ![o] = [state |-> "on", proc |-> lease[o].proc, due |-> Every,
                                        fails |-> lease[o].fails + 1]]
  BY DEF RenewFails
<1>2. lease \in [Owners -> Lease]
  BY DEF DataOK
<1>3. lease[o].fails \in 0..MaxFails /\ lease[o].proc \in Procs \union {None}
  BY <1>2 DEF Lease
<1>4. DataOK'
  <2>1. lease[o].fails + 1 \in 0..MaxFails /\ Every \in 0..Every
    BY <1>1, <1>3, TimesAssumption
  <2> QED
    BY <1>1, <1>2, <1>3, <2>1 DEF DataOK, Lease
<1>5. OwnersApart' /\ OwnersHeld'
  BY <1>1 DEF OwnersApart, OwnersHeld
<1>6. /\ lease'[o].state = "on" /\ lease'[o].proc = lease[o].proc
      /\ lease'[o].due = Every /\ lease'[o].fails = lease[o].fails + 1
  BY <1>1, <1>2
<1>7. Reach(o)' = Reach(o)
  <2>1. (MaxFails - (lease[o].fails + 1)) * Every + Every = (MaxFails - lease[o].fails) * Every
    BY <1>1, <1>3, Interval
  <2>2. Reach(o) = 0 + (MaxFails - lease[o].fails) * Every
    BY <1>1 DEF Reach
  <2>3. Reach(o)' = Every + (MaxFails - (lease[o].fails + 1)) * Every
    BY <1>6 DEF Reach
  <2> QED
    BY <1>3, <2>1, <2>2, <2>3, TimesAssumption
<1>8. RowLasts'
  <2> SUFFICES ASSUME NEW c \in Callers PROVE RowLasts!(c)'
    BY DEF RowLasts
  <2>1. CASE caller[c].own = o
    BY <2>1, <1>1, <1>6, <1>7 DEF RowLasts, Has
  <2>2. CASE caller[c].own # o
    <3>1. caller[c].pc = "held" => lease'[caller[c].own] = lease[caller[c].own]
      BY <2>2, <1>1, <1>2 DEF OwnersApart, DataOK
    <3> QED
      BY <3>1, <1>1 DEF RowLasts, Has, Reach
  <2> QED
    BY <2>1, <2>2
<1> QED
  BY <1>4, <1>5, <1>8

\* A goroutine that stops was cancelled, so no caller holds the lock by it.
LEMMA LeaseStopsStep ==
    ASSUME IInv, NEW o \in Owners, LeaseStops(o)
    PROVE  IInv'
<1> USE DEF IInv
<1>1. /\ UNCHANGED <<row, owners, caller, drawn>>
      /\ lease[o].state = "cancelled" /\ lease' = [lease EXCEPT ![o] = NoLease]
  BY DEF LeaseStops
<1>2. lease \in [Owners -> Lease]
  BY DEF DataOK
<1>3. DataOK'
  BY <1>1, TimesAssumption DEF DataOK, Lease, NoLease
<1>4. OwnersApart' /\ OwnersHeld'
  BY <1>1 DEF OwnersApart, OwnersHeld
<1>5. RowLasts'
  <2> SUFFICES ASSUME NEW c \in Callers PROVE RowLasts!(c)'
    BY DEF RowLasts
  <2>1. caller[c].pc = "held" => lease'[caller[c].own] = lease[caller[c].own]
    BY <1>1, <1>2 DEF RowLasts, OwnersApart, DataOK
  <2> QED
    BY <2>1, <1>1 DEF RowLasts, Has, Reach
<1> QED
  BY <1>3, <1>4, <1>5

\* The owner the process forgets is the caller's own, and nobody else has the lock.
LEMMA UnlockStep ==
    ASSUME IInv, NEW c \in Callers, Unlock(c)
    PROVE  IInv'
<1> USE DEF IInv
<1> DEFINE p == ProcOf[c]
<1>1. PICK o \in Owners : p \in Procs /\ o = caller[c].own /\ o # None /\ caller[c].pc = "held"
  BY ProcOfAssumption, NoneAssumption DEF Unlock, OwnersApart, DataOK
<1>2. \A d \in Callers : Has(d) => d = c
  BY <1>1, Excludes DEF Has
<1>3. owners[p] = o
  BY <1>1 DEF OwnersHeld
<1>4. /\ owners' = [owners EXCEPT ![p] = None]
      /\ lease' = Cancel(lease, o)
      /\ caller' = [caller EXCEPT ![c] = [pc |-> "unlocking", own |-> o]]
      /\ UNCHANGED <<row, drawn>>
  BY <1>1, <1>3 DEF Unlock, Goto
<1>5. caller \in [Callers -> Caller] /\ lease \in [Owners -> Lease]
      /\ owners \in [Procs -> Owners \union {None}]
  BY DEF DataOK
<1> HIDE DEF p
<1>6. DataOK'
  <2>1. lease' \in [Owners -> Lease]
    BY <1>4, <1>5 DEF Cancel, Lease
  <2> QED
    BY <1>1, <1>4, <1>5, <2>1 DEF DataOK, Caller
<1>7. OwnersApart'
  BY <1>1, <1>4, <1>5 DEF OwnersApart
<1>8. \A d \in Callers : caller'[d].pc \notin {"leasing", "held"}
  BY <1>2, <1>4, <1>5 DEF Has
<1>9. OwnersHeld'
  <2>1. \A q \in Procs : owners'[q] = None
    <3> SUFFICES ASSUME NEW q \in Procs PROVE owners'[q] = None
      OBVIOUS
    <3>1. CASE q = p
      BY <3>1, <1>4, <1>5
    <3>2. CASE q # p
      <4>1. owners'[q] = owners[q]
        BY <3>2, <1>4, <1>5
      <4>2. owners[q] = None
        BY <1>2, <3>2 DEF OwnersHeld, Has, p
      <4> QED
        BY <4>1, <4>2
    <3> QED
      BY <3>1, <3>2
  <2> QED
    BY <1>8, <2>1 DEF OwnersHeld
<1>10. RowLasts'
  BY <1>8 DEF RowLasts, Has
<1> QED
  BY <1>6, <1>7, <1>9, <1>10

\* The row that goes was written for the caller that unlocks.
LEMMA UnlockRowStep ==
    ASSUME IInv, NEW c \in Callers, UnlockRow(c)
    PROVE  IInv'
<1> USE DEF IInv
<1>1. PICK o \in Owners : o = caller[c].own /\ o # None /\ caller[c].pc = "unlocking"
  BY NoneAssumption DEF UnlockRow, OwnersApart, DataOK
<1>2. /\ row' = row \/ (row.owner = o /\ row' = NoRow)
      /\ caller' = [caller EXCEPT ![c] = [pc |-> "idle", own |-> None]]
      /\ UNCHANGED <<owners, lease, drawn>>
  BY <1>1 DEF UnlockRow, Goto, DeletedRow
<1>3. caller \in [Callers -> Caller] /\ row \in Row
  BY DEF DataOK
<1>4. DataOK'
  BY <1>2, <1>3, TimesAssumption DEF DataOK, Row, NoRow, Caller
<1>5. row'.owner # None => row' = row
  BY <1>2 DEF NoRow
<1>6. OwnersApart'
  BY <1>2, <1>3, <1>5 DEF OwnersApart
<1>7. OwnersHeld'
  BY <1>1, <1>2, <1>3 DEF OwnersHeld
<1>8. RowLasts'
  <2> SUFFICES ASSUME NEW d \in Callers, Has(d)' PROVE RowLasts!(d)'
    BY DEF RowLasts, Has
  <2>1. d # c /\ caller'[d] = caller[d] /\ Has(d)
    BY <1>2, <1>3 DEF Has
  <2>2. caller[d].own # o
    BY <2>1, <1>1 DEF OwnersApart
  <2>3. row.owner = caller[d].own
    BY <2>1 DEF RowLasts
  <2>4. row' = row
    BY <1>2, <2>2, <2>3
  <2> QED
    BY <1>2, <2>1, <2>4 DEF RowLasts, Has, Reach
<1> QED
  BY <1>4, <1>6, <1>7, <1>8

\* A crash keeps the types.
LEMMA CrashTypes ==
    ASSUME DataOK, NEW p \in Procs, Crash(p)
    PROVE  DataOK'
<1>1. NoLease \in Lease /\ Idle \in Caller
  BY TimesAssumption DEF NoLease, Lease, Idle, Caller
<1> QED
  BY <1>1 DEF DataOK, Crash

\* A crash takes callers, memory and goroutines of one process, and of no other.
LEMMA CrashStep ==
    ASSUME IInv, NEW p \in Procs, Crash(p)
    PROVE  IInv'
<1> USE DEF IInv
<1>1. /\ owners' = [owners EXCEPT ![p] = None]
      /\ lease' = [o \in Owners |-> IF lease[o].proc = p THEN NoLease ELSE lease[o]]
      /\ caller' = [c \in Callers |-> IF ProcOf[c] = p THEN Idle ELSE caller[c]]
      /\ UNCHANGED <<row, drawn>>
  BY DEF Crash
<1>2. caller \in [Callers -> Caller] /\ lease \in [Owners -> Lease]
      /\ owners \in [Procs -> Owners \union {None}]
  BY DEF DataOK
<1>3. DataOK'
  BY CrashTypes
<1>4. \A c \in Callers : caller'[c] = Idle \/ (ProcOf[c] # p /\ caller'[c] = caller[c])
  BY <1>1
<1>5. OwnersApart'
  BY <1>1, <1>4 DEF OwnersApart, Idle
<1>6. OwnersHeld'
  <2>1. ASSUME NEW q \in Procs, owners'[q] # None
        PROVE  \E c \in Callers :
                 ProcOf[c] = q /\ caller'[c].pc = "held" /\ caller'[c].own = owners'[q]
    <3>1. q # p /\ owners'[q] = owners[q]
      BY <2>1, <1>1, <1>2
    <3>2. PICK c \in Callers : ProcOf[c] = q /\ caller[c].pc = "held" /\ caller[c].own = owners[q]
      BY <2>1, <3>1 DEF OwnersHeld
    <3>3. caller'[c] = caller[c]
      BY <3>1, <3>2, <1>1
    <3> QED
      BY <3>1, <3>2, <3>3
  <2>2. ASSUME NEW c \in Callers, caller'[c].pc = "held"
        PROVE  owners'[ProcOf[c]] = caller'[c].own
    <3>1. ProcOf[c] # p /\ caller'[c] = caller[c]
      BY <2>2, <1>4 DEF Idle
    <3>2. owners[ProcOf[c]] = caller[c].own
      BY <2>2, <3>1 DEF OwnersHeld
    <3>3. owners'[ProcOf[c]] = owners[ProcOf[c]]
      BY <3>1, <1>1, <1>2, ProcOfAssumption
    <3> QED
      BY <3>1, <3>2, <3>3
  <2> QED
    BY <2>1, <2>2 DEF OwnersHeld
<1>7. RowLasts'
  <2> SUFFICES ASSUME NEW d \in Callers, Has(d)' PROVE RowLasts!(d)'
    BY DEF RowLasts, Has
  <2>1. ProcOf[d] # p /\ caller'[d] = caller[d]
    BY <1>4 DEF Has, Idle
  <2>2. caller[d].pc = "held" => lease'[caller[d].own] = lease[caller[d].own]
    BY <2>1, <1>1 DEF RowLasts, OwnersApart, DataOK
  <2> QED
    BY <1>1, <2>1, <2>2 DEF RowLasts, Has, Reach
<1> QED
  BY <1>3, <1>5, <1>6, <1>7

\* A tick keeps the types.
LEMMA TickTypes ==
    ASSUME DataOK, Tick
    PROVE  DataOK'
<1>1. /\ row' = [owner |-> row.owner, ttl |-> Less(row.ttl)]
      /\ lease' = [o \in Owners |-> [state |-> lease[o].state, proc |-> lease[o].proc,
                                      due |-> Less(lease[o].due), fails |-> lease[o].fails]]
      /\ UNCHANGED <<owners, caller, drawn>>
  BY DEF Tick
<1>2. row \in Row /\ lease \in [Owners -> Lease]
  BY DEF DataOK
<1>3. \A n \in Nat : \A m \in 0..n : Less(m) \in 0..n
  BY DEF Less
<1> QED
  <2>1. row' \in Row
    BY <1>1, <1>2, <1>3, TimesAssumption DEF Row
  <2>2. lease' \in [Owners -> Lease]
    <3> SUFFICES ASSUME NEW o \in Owners
                 PROVE  [state |-> lease[o].state, proc |-> lease[o].proc,
                         due |-> Less(lease[o].due), fails |-> lease[o].fails] \in Lease
      BY <1>1
    <3>1. lease[o] \in Lease
      BY <1>2
    <3>2. Less(lease[o].due) \in 0..Every
      BY <3>1, <1>3, TimesAssumption DEF Lease
    <3> QED
      BY <3>1, <3>2 DEF Lease
  <2> QED
    BY <1>1, <2>1, <2>2 DEF DataOK

\* A tick brings the row's end and the last renewal closer by the same amount.
LEMMA TickStep ==
    ASSUME IInv, Punctual, Tick
    PROVE  IInv'
<1> USE DEF IInv
<1>1. /\ row' = [owner |-> row.owner, ttl |-> Less(row.ttl)]
      /\ lease' = [o \in Owners |-> [state |-> lease[o].state, proc |-> lease[o].proc,
                                      due |-> Less(lease[o].due), fails |-> lease[o].fails]]
      /\ UNCHANGED <<owners, caller, drawn>>
  BY DEF Tick
<1>2. row \in Row /\ lease \in [Owners -> Lease]
  BY DEF DataOK
<1>4. DataOK'
  BY TickTypes
<1>5. row'.owner = row.owner
  BY <1>1
<1>6. OwnersApart' /\ OwnersHeld'
  BY <1>1, <1>5 DEF OwnersApart, OwnersHeld
<1>7. RowLasts'
  <2> SUFFICES ASSUME NEW d \in Callers, Has(d) PROVE RowLasts!(d)'
    BY <1>1 DEF RowLasts, Has
  <2>1. PICK o \in Owners : o = caller[d].own /\ caller[d].pc = "held"
    BY DEF Punctual, Has, OwnersApart, DataOK
  <2>2. /\ row.owner = o /\ lease[o].state = "on" /\ lease[o].proc = ProcOf[d]
        /\ Reach(o) < row.ttl
    BY <2>1 DEF RowLasts, Has
  <2>3. lease[o].due \in Nat /\ lease[o].due > 0 /\ lease[o].fails \in 0..MaxFails
    BY <2>2, <1>2, TimesAssumption DEF Punctual, Lease
  <2>4. lease'[o].state = "on" /\ lease'[o].proc = ProcOf[d]
        /\ lease'[o].due = lease[o].due - 1 /\ lease'[o].fails = lease[o].fails
    BY <1>1, <2>2, <2>3 DEF Less
  <2>5. (MaxFails - lease[o].fails) * Every \in Nat
    BY <2>3, Interval
  <2>6. Reach(o)' = Reach(o) - 1 /\ Reach(o) \in Nat
    <3>1. Reach(o)' = (lease[o].due - 1) + (MaxFails - lease[o].fails) * Every
      BY <2>4 DEF Reach
    <3>2. Reach(o) = lease[o].due + (MaxFails - lease[o].fails) * Every
      BY DEF Reach
    <3> QED
      BY <2>3, <2>5, <3>1, <3>2
  <2>7. row'.ttl = row.ttl - 1 /\ row.ttl \in Nat
    <3>1. row.ttl \in Nat
      BY <1>2, TimesAssumption DEF Row
    <3> QED
      BY <3>1, <2>2, <2>6, <1>1 DEF Less
  <2>8. Reach(o)' < row'.ttl
    BY <2>2, <2>6, <2>7
  <2> QED
    BY <1>1, <1>5, <2>1, <2>2, <2>4, <2>8 DEF Has
<1> QED
  BY <1>4, <1>6, <1>7

\* Every step that leaves nobody stalled preserves the invariant.
LEMMA NextInv ==
    ASSUME IInv, [Next]_vars, ~stalled'
    PROVE  IInv'
<1>1. CASE Tick
  <2>1. Punctual
    BY <1>1 DEF Tick
  <2> QED
    BY <1>1, <2>1, TickStep
<1>2. ASSUME NEW c \in Callers, Step(c) PROVE IInv'
  BY <1>2, WaitStep, AcquireStep, StartStep, UnlockStep, UnlockRowStep DEF Step
<1>3. ASSUME NEW o \in Owners, Renew(o) \/ RenewFails(o) \/ LeaseStops(o) PROVE IInv'
  BY <1>3, RenewStep, RenewFailsStep, LeaseStopsStep
<1>4. ASSUME NEW p \in Procs, Crash(p) PROVE IInv'
  BY <1>4, CrashStep
<1>5. CASE UNCHANGED vars
  BY <1>5 DEF vars, IInv, DataOK, OwnersApart, OwnersHeld, RowLasts, Has, Reach
<1> QED
  BY <1>1, <1>2, <1>3, <1>4, <1>5 DEF Next, Others

\* Only a tick changes stalled, and never back.
LEMMA StalledStep ==
    ASSUME [Next]_vars
    PROVE  /\ stalled => stalled'
           /\ stalled \in BOOLEAN => stalled' \in BOOLEAN
<1>1. CASE Tick
  BY <1>1 DEF Tick
<1>2. ASSUME NEW c \in Callers, Step(c) PROVE stalled' = stalled
  BY <1>2 DEF Step, Lock, LockFails, startLease, Unlock, UnlockRow, tryAcquire
<1>3. ASSUME NEW o \in Owners, Renew(o) \/ RenewFails(o) \/ LeaseStops(o)
      PROVE  stalled' = stalled
  BY <1>3 DEF Renew, RenewFails, LeaseStops
<1>4. ASSUME NEW p \in Procs, Crash(p) PROVE stalled' = stalled
  BY <1>4 DEF Crash
<1>5. CASE UNCHANGED vars
  BY <1>5 DEF vars
<1> QED
  BY <1>1, <1>2, <1>3, <1>4, <1>5 DEF Next, Others

-----------------------------------------------------------------------------
(* Types are kept by stalled processes too, which the invariant above does *)
(* not cover.                                                              *)

\* The steps of a caller keep the types.
LEMMA CallerTypes ==
    ASSUME DataOK, NEW c \in Callers, Step(c)
    PROVE  DataOK'
<1>1. ProcOf[c] \in Procs /\ caller[c].own \in Owners \union {None}
      /\ \A p \in Procs : owners[p] \in Owners \union {None}
  BY ProcOfAssumption DEF DataOK, Caller
<1>2. \A o \in Owners \union {None} : Cancel(lease, o) \in [Owners -> Lease]
  BY DEF DataOK, Cancel, Lease
<1>3. ASSUME NEW where \in {"idle", "waiting", "leasing", "held", "unlocking"},
             NEW o \in Owners \union {None}, Goto(c, where, o)
      PROVE  caller' \in [Callers -> Caller]
  BY <1>3 DEF DataOK, Goto, Caller
<1>4. CASE Lock(c) \/ LockFails(c)
  BY <1>3, <1>4 DEF DataOK, Lock, LockFails
<1>5. ASSUME NEW o \in Owners, tryAcquire(c, o) PROVE DataOK'
  BY <1>3, <1>5, TimesAssumption DEF DataOK, tryAcquire, Row
<1>6. CASE startLease(c)
  <2>1. owners' \in [Procs -> Owners \union {None}] /\ caller' \in [Callers -> Caller]
    BY <1>1, <1>3, <1>6 DEF DataOK, startLease
  <2>2. [state |-> "on", proc |-> ProcOf[c], due |-> Every, fails |-> 0] \in Lease
    BY <1>1, TimesAssumption DEF Lease
  <2>3. lease' \in [Owners -> Lease]
    <3>1. Cancel(lease, owners[ProcOf[c]]) \in [Owners -> Lease]
      BY <1>1, <1>2
    <3> QED
      BY <1>6, <2>2, <3>1 DEF startLease
  <2> QED
    BY <1>6, <2>1, <2>3 DEF DataOK, startLease
<1>7. CASE Unlock(c)
  <2>1. owners' \in [Procs -> Owners \union {None}] /\ lease' \in [Owners -> Lease]
    BY <1>1, <1>2, <1>7 DEF DataOK, Unlock
  <2>2. caller' \in [Callers -> Caller]
    BY <1>1, <1>3, <1>7 DEF Unlock
  <2> QED
    BY <1>7, <2>1, <2>2 DEF DataOK, Unlock
<1>8. CASE UnlockRow(c)
  <2>1. row' \in Row
    BY <1>8, TimesAssumption DEF DataOK, UnlockRow, DeletedRow, Row, NoRow
  <2>2. caller' \in [Callers -> Caller]
    BY <1>3, <1>8 DEF UnlockRow
  <2> QED
    BY <1>8, <2>1, <2>2 DEF DataOK, UnlockRow
<1> QED
  BY <1>4, <1>5, <1>6, <1>7, <1>8 DEF Step

\* The goroutines keep the types.
LEMMA LeaseTypes ==
    ASSUME DataOK, NEW o \in Owners, Renew(o) \/ RenewFails(o) \/ LeaseStops(o)
    PROVE  DataOK'
<1>1. lease[o] \in Lease /\ NoLease \in Lease
  BY TimesAssumption DEF DataOK, Lease, NoLease
<1>2. CASE Renew(o)
  BY <1>1, <1>2, TimesAssumption DEF DataOK, Renew, RenewedRow, Row, Lease
<1>3. CASE RenewFails(o)
  <2>1. lease[o].fails + 1 \in 0..MaxFails /\ Every \in 0..Every
    BY <1>1, <1>3, TimesAssumption DEF RenewFails, Lease
  <2> QED
    BY <1>1, <1>3, <2>1 DEF DataOK, RenewFails, Lease
<1>4. CASE LeaseStops(o)
  BY <1>1, <1>4 DEF DataOK, LeaseStops
<1> QED
  BY <1>2, <1>3, <1>4

-----------------------------------------------------------------------------
(* The theorems.                                                           *)

\* Row, remembered owners, goroutines and callers keep their types, stalled
\* or not.
THEOREM LockTypeCorrect == Spec => []TypeOK
<1>1. Init => TypeOK
  BY InitInv DEF Init, IInv, TypeOK
<1>2. TypeOK /\ [Next]_vars => TypeOK'
  <2> SUFFICES ASSUME DataOK, stalled \in BOOLEAN, [Next]_vars PROVE TypeOK'
    BY DEF TypeOK
  <2>1. stalled' \in BOOLEAN
    BY StalledStep
  <2>2. CASE Tick
    BY <2>1, <2>2, TickTypes DEF TypeOK
  <2>3. ASSUME NEW p \in Procs, Crash(p) PROVE DataOK'
    BY <2>3, CrashTypes
  <2>4. CASE UNCHANGED vars
    BY <2>1, <2>4 DEF vars, TypeOK, DataOK
  <2> QED
    BY <2>1, <2>2, <2>3, <2>4, CallerTypes, LeaseTypes DEF TypeOK, Next, Others
<1> QED
  BY <1>1, <1>2, PTL DEF Spec

\* As long as nobody has stalled, the holder owns the row and the row outlasts
\* the renewals to come, whatever crashes, lost unlocks and up to MaxFails
\* failed renewals in a row do.
THEOREM LockInvariance == Spec => [](~stalled => IInv)
<1>1. Init => (~stalled => IInv)
  BY InitInv
<1>2. (~stalled => IInv) /\ [Next]_vars => (~stalled => IInv)'
  BY NextInv, StalledStep
<1> QED
  BY <1>1, <1>2, PTL DEF Spec

\* Two hubs never hold the certificate lock at once as long as none of them
\* has stalled past a renewal (Lock, startLease).
THEOREM LockExcludes == Spec => []MutualExclusion
<1>1. (~stalled => IInv) => MutualExclusion
  BY Excludes DEF MutualExclusion
<1> QED
  BY <1>1, LockInvariance, PTL

\* Every step of a caller, a goroutine or a crash keeps owner strings in the
\* process that drew them, stalled or not.
LEMMA AtHomeStep ==
    ASSUME DataOK, OwnersAtHome, [Next]_vars
    PROVE  OwnersAtHome'
<1>0. /\ \A c \in Callers : ProcOf[c] \in Procs /\ caller[c] \in Caller
      /\ \A c \in Callers : caller[c].own \in Owners \union {None}
      /\ caller \in [Callers -> Caller] /\ owners \in [Procs -> Owners \union {None}]
      /\ None \notin drawn
  BY ProcOfAssumption, NoneAssumption DEF DataOK, Caller
<1>1. ASSUME UNCHANGED <<owners, caller, drawn>>
      PROVE  OwnersAtHome'
  BY <1>1 DEF OwnersAtHome
<1>2. ASSUME NEW c \in Callers, Lock(c) \/ LockFails(c) \/ UnlockRow(c)
      PROVE  OwnersAtHome'
  <2>1. /\ UNCHANGED <<owners, drawn>>
        /\ \A d \in Callers : d # c => caller'[d] = caller[d]
        /\ caller'[c].own = None /\ caller'[c].pc \in {"idle", "waiting"}
    BY <1>0, <1>2 DEF Lock, LockFails, UnlockRow, Goto
  <2> QED
    BY <1>0, <2>1 DEF OwnersAtHome
<1>3. ASSUME NEW c \in Callers, NEW o \in Owners, tryAcquire(c, o)
      PROVE  OwnersAtHome'
  <2>1. /\ owners' = owners /\ drawn' = drawn \union {o} /\ o \notin drawn /\ o # None
        /\ \A d \in Callers : d # c => caller'[d] = caller[d]
        /\ caller'[c].own = o
    BY <1>0, <1>3, NoneAssumption DEF tryAcquire, Goto
  <2> QED
    BY <1>0, <2>1 DEF OwnersAtHome
<1>4. ASSUME NEW c \in Callers, startLease(c)
      PROVE  OwnersAtHome'
  <2> DEFINE p == ProcOf[c]
  <2>1. /\ drawn' = drawn /\ caller[c].pc = "leasing"
        /\ \A q \in Procs : owners'[q] = IF q = p THEN caller[c].own ELSE owners[q]
        /\ \A d \in Callers : d # c => caller'[d] = caller[d]
        /\ caller'[c].own = caller[c].own
    BY <1>0, <1>4 DEF startLease, Goto
  <2>2. \A d \in Callers : caller'[d].own = caller[d].own
    BY <2>1
  <2>3. caller[c].own # None
    BY <2>1 DEF OwnersAtHome
  <2>4. \A d \in Callers : caller'[d].pc \in {"leasing", "held", "unlocking"} => caller'[d].own # None
    BY <2>1, <2>3 DEF OwnersAtHome
  <2> QED
    BY <1>0, <2>1, <2>2, <2>3, <2>4 DEF OwnersAtHome
<1>5. ASSUME NEW c \in Callers, Unlock(c)
      PROVE  OwnersAtHome'
  <2> DEFINE p == ProcOf[c]
  <2>1. /\ drawn' = drawn
        /\ \A q \in Procs : owners'[q] = IF q = p THEN None ELSE owners[q]
        /\ \A d \in Callers : d # c => caller'[d] = caller[d]
        /\ caller'[c].own = owners[p]
        /\ owners[p] = None => caller'[c].pc = "idle"
    BY <1>0, <1>5 DEF Unlock, Goto
  <2> QED
    BY <1>0, <2>1 DEF OwnersAtHome
<1>6. ASSUME NEW p \in Procs, Crash(p)
      PROVE  OwnersAtHome'
  <2>1. /\ drawn' = drawn
        /\ \A q \in Procs : owners'[q] = IF q = p THEN None ELSE owners[q]
        /\ \A d \in Callers : caller'[d] = IF ProcOf[d] = p THEN Idle ELSE caller[d]
        /\ Idle.own = None /\ Idle.pc = "idle"
    BY <1>0, <1>6 DEF Crash, Idle
  <2> QED
    BY <1>0, <2>1 DEF OwnersAtHome
<1>7. ASSUME Tick \/ UNCHANGED vars \/ \E o \in Owners : Renew(o) \/ RenewFails(o) \/ LeaseStops(o)
      PROVE  OwnersAtHome'
  <2>1. UNCHANGED <<owners, caller, drawn>>
    BY <1>7 DEF Tick, vars, Renew, RenewFails, LeaseStops
  <2> QED
    BY <1>1, <2>1
<1> QED
  BY <1>2, <1>3, <1>4, <1>5, <1>6, <1>7 DEF Next, Others, Step

\* UnlockOwnOnly: an unlock that comes late does not take the lock from its new
\* holder in another process, for any hubs and lifetimes, stalled or not (Unlock).
THEOREM LateUnlockHarmless == Spec => UnlockOwnOnly
<1> DEFINE HoldersKept ==
             \A c \in Callers :
               caller[c].pc = "unlocking" /\ caller'[c].pc = "idle" /\ row' # row =>
                 \A d \in Callers : ProcOf[d] # ProcOf[c] /\ Has(d) => caller[d].own # row.owner
<1>1. Init => OwnersAtHome
  BY DEF Init, Idle, OwnersAtHome
<1>2. TypeOK /\ OwnersAtHome /\ [Next]_vars => OwnersAtHome'
  BY AtHomeStep DEF TypeOK
<1>3. TypeOK /\ OwnersAtHome /\ [Next]_vars => [HoldersKept]_vars
  <2> SUFFICES ASSUME TypeOK, OwnersAtHome, Next, NEW c \in Callers,
                      caller[c].pc = "unlocking", caller'[c].pc = "idle", row' # row
               PROVE  row.owner = caller[c].own /\ caller[c].own # None
    BY DEF OwnersAtHome, Has
  <2>1. caller \in [Callers -> Caller] /\ caller[c].own # None
    BY DEF TypeOK, DataOK, OwnersAtHome
  <2>2. CASE UnlockRow(c)
    BY <2>1, <2>2 DEF UnlockRow, DeletedRow
  <2>3. ASSUME NEW e \in Callers, Step(e), e # c
        PROVE  FALSE
    <3>1. caller'[c] = caller[c]
      BY <2>1, <2>3 DEF Step, Lock, LockFails, startLease, Unlock, UnlockRow, tryAcquire, Goto
    <3> QED
      BY <3>1
  <2>4. ASSUME Step(c), ~UnlockRow(c)
        PROVE  FALSE
    BY <2>4 DEF Step, Lock, LockFails, startLease, Unlock, tryAcquire
  <2>5. ASSUME Tick \/ \E o \in Owners : Renew(o) \/ RenewFails(o) \/ LeaseStops(o)
        PROVE  FALSE
    BY <2>5 DEF Tick, Renew, RenewFails, LeaseStops
  <2>6. ASSUME NEW p \in Procs, Crash(p)
        PROVE  FALSE
    BY <2>6 DEF Crash
  <2> QED
    BY <2>2, <2>3, <2>4, <2>5, <2>6 DEF Next, Others
<1> QED
  BY <1>1, <1>2, <1>3, LockTypeCorrect, PTL DEF Spec, UnlockOwnOnly
=============================================================================
