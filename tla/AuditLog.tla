----------------------------- MODULE AuditLog -----------------------------
(***************************************************************************)
(* What the audit store promises, without hashes, transactions or batches: *)
(* a log of entries that grows by whole batches, loses entries only from   *)
(* its front and never the newest one, and may be compacted by dropping    *)
(* the access noise.  An ordered log grows at its end and loses only       *)
(* entries past the retention limit; in one that is not, a batch may       *)
(* appear anywhere between entries that keep their order.                  *)
(***************************************************************************)
EXTENDS Integers, Sequences, FiniteSets

CONSTANTS
    Entry,          \* audit entries
    Recent(_),      \* the entry is within the retention period
    Noise(_)        \* the entry is access noise that compaction removes

VARIABLES
    log,            \* the entries kept, in the order they are read
    ordered         \* batches become visible in the order they are numbered

Init == log = <<>> /\ ordered \in BOOLEAN

\* place says where the entries of log are in log'.
Extend ==
    /\ log' \in Seq(Entry)
    /\ Len(log') > Len(log)
    /\ \E place \in [1..Len(log) -> 1..Len(log')] :
         /\ \A i, j \in 1..Len(log) : i < j => place[i] < place[j]
         /\ \A i \in 1..Len(log) : log'[place[i]] = log[i] /\ (ordered => place[i] = i)

Retain(n) ==
    /\ n < Len(log)
    /\ ordered => \A i \in 1..n : ~Recent(log[i])
    /\ log' = SubSeq(log, n + 1, Len(log))

Quiet == {i \in 1..Len(log) : ~Noise(log[i])}

\* The rest stays, in its order.
Compact ==
    /\ log' \in Seq(Entry) /\ Len(log') = Cardinality(Quiet)
    /\ \A q \in Quiet : log'[Cardinality({k \in Quiet : k <= q})] = log[q]

Next ==
    /\ \/ Extend
       \/ \E n \in 1..Len(log) : Retain(n)
       \/ Compact
    /\ UNCHANGED ordered

Spec == Init /\ [][Next]_<<log, ordered>>
=============================================================================
