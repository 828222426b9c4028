---------------------------- MODULE AuditChain ----------------------------
(***************************************************************************)
(* The audit table: rows chained by keyed hashes, written one at a time    *)
(* (Create) or in batches (CreateBatch), pruned by the retention loop,     *)
(* compacted offline, and verified (internal/store/audit_store.go and      *)
(* audit_retention.go).                                                    *)
(*                                                                         *)
(* A hash is the sequence of the entries it was computed over: Hash(p, e)  *)
(* appends e to p, so hashes are equal only for equal histories, which is  *)
(* what HMAC-SHA256 stands for.  The empty string is <<>>.                 *)
(*                                                                         *)
(* A transaction reads, then writes and commits.  With SQLite the pool has *)
(* one connection, so statements of others wait for an open transaction.   *)
(* With PostgreSQL transactions run at READ COMMITTED and only conflicting *)
(* writes wait.  An INSERT draws its ids before its rows are visible, so a *)
(* lower id may be committed after a higher one and appear before rows     *)
(* that were read already.  The deletion of a prune locks the rows it      *)
(* removes until its checkpoint is committed, so that part is one step.    *)
(***************************************************************************)
EXTENDS Integers, Sequences, FiniteSets

CONSTANTS
    Drivers,        \* the databases considered: "sqlite", "postgres"
    Fracs,          \* 1: timestamps have a part below a microsecond, 0: none
    Actors,         \* goroutines that write or prune, on any hub
    MaxEntries,     \* bound on the entries ever written
    MaxInsert,      \* largest batch given to CreateBatch
    PruneBatch,     \* auditPruneBatchSize
    VerifyBatch     \* batchSize of VerifyChain

ASSUME ChainAssumption ==
    /\ Drivers \subseteq {"sqlite", "postgres"} /\ Fracs \subseteq {0, 1}
    /\ MaxEntries \in Nat /\ MaxInsert \in Nat \ {0}
    /\ PruneBatch \in Nat \ {0} /\ VerifyBatch \in Nat \ {0}

VARIABLES
    driver,         \* database_driver of the hub
    rows,           \* audit_logs by id: id, entry, prev_hash, hash
    nextId,         \* the id sequence of the table
    checkpoint,     \* signed checkpoint of the last prune
    drawn,          \* number of entries handed to the store so far
    act,            \* transactions of the actors
    ver             \* the verification in progress

vars == <<driver, rows, nextId, checkpoint, drawn, act, ver>>

-----------------------------------------------------------------------------
\* Entries differ in their number; a kind says what retention and
\* compaction make of them.  "noise" is access noise past retention.
Kinds == {"old", "recent", "noise"}
Entries == [n: 1..MaxEntries, kind: Kinds, frac: {0, 1}]
Hashes == Seq(Entries)

Recent(e) == e.kind = "recent"
auditRowIsAccessNoise(e) == e.kind = "noise"

computeAuditHash(prev, e) == Append(prev, e)

NoCheckpoint == [some |-> FALSE, id |-> 0, hash |-> <<>>, pruned |-> 0]
IdleAct == [pc |-> "idle", prev |-> <<>>, items |-> <<>>, ids |-> <<>>, last |-> 0,
            lastHash |-> <<>>]
\* newest and pruned are history: the newest row when the verification
\* started, and whether rows were removed since.
IdleVer == [pc |-> "idle", prev |-> <<>>, last |-> 0, newest |-> 0, pruned |-> FALSE]

Init ==
    /\ driver \in Drivers
    /\ rows = <<>>
    /\ nextId = 1
    /\ checkpoint = NoCheckpoint
    /\ drawn = 0
    /\ act = [a \in Actors |-> IdleAct]
    /\ ver = IdleVer

-----------------------------------------------------------------------------
\* A statement can run: no other transaction holds the only connection.
Free == driver = "sqlite" => \A a \in Actors : act[a].pc = "idle"

NewestId == IF rows = <<>> THEN 0 ELSE rows[Len(rows)].id

latestAuditHash == IF rows = <<>> THEN <<>> ELSE rows[Len(rows)].hash

\* The number of rows up to id; the rows are in the order of their ids.
Through(id) == Cardinality({i \in 1..Len(rows) : rows[i].id <= id})

\* The rows after id and below bound, oldest first, at most limit of them.
After(id, limit, bound) ==
    LET from == Through(id)
        to == Through(bound - 1)
    IN  SubSeq(rows, from + 1, IF to - from < limit THEN to ELSE from + limit)

\* What the timestamp column keeps: SQLite stores text with nanoseconds, the
\* timestamptz of PostgreSQL has a resolution of one microsecond.
Stored(e) == IF driver = "sqlite" THEN e ELSE [e EXCEPT !.frac = 0]

\* Rows for these entries with their hashes chained on from prev.
ChainOn(prev, entries, ids) ==
    LET HashAt(i) == prev \o SubSeq(entries, 1, i)
    IN  [i \in 1..Len(entries) |->
           [id |-> ids[i], entry |-> Stored(entries[i]),
            prev |-> HashAt(i - 1), hash |-> computeAuditHash(HashAt(i - 1), entries[i])]]

-----------------------------------------------------------------------------
(* Create and CreateBatch: read the latest hash, insert, commit.           *)

\* These rows in the order of their ids, as the table is read.
Ids(S) == {r.id : r \in S}
ById(S) == [i \in 1..Cardinality(Ids(S)) |->
              CHOOSE r \in S : Cardinality({k \in Ids(S) : k <= r.id}) = i]

WriteBegin(a, kinds, f) ==
    /\ act[a].pc = "idle" /\ Free
    /\ drawn + Len(kinds) <= MaxEntries
    /\ drawn' = drawn + Len(kinds)
    /\ act' = [act EXCEPT ![a] =
         [IdleAct EXCEPT !.pc = "insert", !.prev = latestAuditHash,
                         !.items = [i \in 1..Len(kinds) |->
                                      [n |-> drawn + i, kind |-> kinds[i], frac |-> f]]]]
    /\ UNCHANGED <<driver, rows, nextId, checkpoint, ver>>

\* The INSERT draws an id for one row after the other; nobody sees them yet.
WriteInsert(a) ==
    /\ act[a].pc = "insert" /\ Len(act[a].ids) < Len(act[a].items)
    /\ nextId' = nextId + 1
    /\ act' = [act EXCEPT ![a].ids = Append(act[a].ids, nextId)]
    /\ UNCHANGED <<driver, rows, checkpoint, drawn, ver>>

WriteCommit(a) ==
    /\ act[a].pc = "insert" /\ Len(act[a].ids) = Len(act[a].items)
    /\ LET new == ChainOn(act[a].prev, act[a].items, act[a].ids)
       IN  rows' = ById({rows[i] : i \in 1..Len(rows)} \cup {new[i] : i \in 1..Len(new)})
    /\ act' = [act EXCEPT ![a] = IdleAct]
    /\ UNCHANGED <<driver, nextId, checkpoint, drawn, ver>>

\* A failed statement, a cancelled context or a crash rolls back.  SQLite takes
\* the ids drawn back, the sequence of PostgreSQL does not.
Rollback(a) ==
    /\ act[a].pc # "idle"
    /\ nextId' = IF driver = "sqlite" /\ act[a].ids # <<>> THEN act[a].ids[1] ELSE nextId
    /\ act' = [act EXCEPT ![a] = IdleAct]
    /\ UNCHANGED <<driver, rows, checkpoint, drawn, ver>>

-----------------------------------------------------------------------------
(* pruneBatch, one round of the loop in PruneBefore.                       *)

\* Mutant: the cut runs past a recent row.
MutCutPastRecent(batch) == {i \in 1..Len(batch) : ~Recent(batch[i].entry)}

\* The oldest rows below the newest one.
PruneCandidates == After(0, PruneBatch, NewestId)

\* Positions of the batch before the first one within retention.
Cut(batch) == {i \in 1..Len(batch) : \A j \in 1..i : ~Recent(batch[j].entry)}

PruneRead(a) ==
    /\ act[a].pc = "idle" /\ Free
    /\ LET batch == PruneCandidates
           cut == Cut(batch)
           last == CHOOSE i \in cut : \A j \in cut : j <= i
       IN  /\ cut # {}
           /\ act' = [act EXCEPT ![a] =
                [IdleAct EXCEPT !.pc = "delete", !.last = batch[last].id,
                                !.lastHash = batch[last].hash]]
    /\ UNCHANGED <<driver, rows, nextId, checkpoint, drawn, ver>>

\* Mutant: the previous count is not carried over.
MutForgetCount(previous, removed) == removed

PrunedTotal(previous, removed) == previous.pruned + removed

\* Nothing is written when another prune has removed the rows already.
PruneCommit(a) ==
    /\ act[a].pc = "delete"
    /\ LET removed == {i \in 1..Len(rows) : rows[i].id <= act[a].last}
       IN  /\ rows' = SubSeq(rows, Through(act[a].last) + 1, Len(rows))
           /\ checkpoint' = IF removed = {} THEN checkpoint
                ELSE [some |-> TRUE, id |-> act[a].last, hash |-> act[a].lastHash,
                      pruned |-> PrunedTotal(checkpoint, Cardinality(removed))]
           /\ ver' = IF ver.pc = "scan" /\ removed # {}
                     THEN [ver EXCEPT !.pruned = TRUE] ELSE ver
    /\ act' = [act EXCEPT ![a] = IdleAct]
    /\ UNCHANGED <<driver, nextId, drawn>>

-----------------------------------------------------------------------------
(* Compact, run by the command line tool with the server stopped.          *)

\* Mutant: the checkpoint survives the compaction.
MutKeepCheckpoint == checkpoint

deleteAuditCheckpoint == NoCheckpoint

\* The positions of the rows kept, and where such a row comes among them.
Quiet == {i \in 1..Len(rows) : ~auditRowIsAccessNoise(rows[i].entry)}
Rank(q) == Cardinality({k \in Quiet : k <= q})

Compact ==
    /\ rows # <<>>
    /\ \A a \in Actors : act[a].pc = "idle"
    /\ ver.pc # "scan"
    /\ LET kept == [i \in 1..Cardinality(Quiet) |-> rows[CHOOSE q \in Quiet : Rank(q) = i]]
           entries == [i \in DOMAIN kept |-> kept[i].entry]
           chained == ChainOn(<<>>, entries, [i \in DOMAIN kept |-> kept[i].id])
       IN  rows' = [i \in DOMAIN kept |->
                      [kept[i] EXCEPT !.prev = chained[i].prev, !.hash = chained[i].hash]]
    /\ checkpoint' = deleteAuditCheckpoint
    /\ UNCHANGED <<driver, nextId, drawn, act, ver>>

-----------------------------------------------------------------------------
(* VerifyChain: the checkpoint, then the rows in batches, each statement   *)
(* on its own.                                                             *)

\* Mutant: the anchor's id is taken from the checkpoint and its hash is not.
MutVerifyFromGenesis ==
    /\ ver.pc # "scan" /\ Free
    /\ ver' = [pc |-> "scan", prev |-> <<>>, last |-> checkpoint.id,
               newest |-> NewestId, pruned |-> FALSE]
    /\ UNCHANGED <<driver, rows, nextId, checkpoint, drawn, act>>

VerifyStart ==
    /\ ver.pc # "scan" /\ Free
    /\ ver' = [pc |-> "scan", prev |-> checkpoint.hash, last |-> checkpoint.id,
               newest |-> NewestId, pruned |-> FALSE]
    /\ UNCHANGED <<driver, rows, nextId, checkpoint, drawn, act>>

\* The rows follow each other, and the first one follows prev.
verifyAuditChainSegment(prev, batch) ==
    \A i \in 1..Len(batch) :
        LET before == IF i = 1 THEN prev ELSE batch[i - 1].hash
        IN  /\ batch[i].prev = before
            /\ batch[i].hash = computeAuditHash(before, batch[i].entry)

LastBatch(batch) == Len(batch) < VerifyBatch

VerifyScan ==
    /\ ver.pc = "scan" /\ Free
    /\ LET batch == After(ver.last, VerifyBatch, nextId)
       IN  ver' = IF batch = <<>> THEN [ver EXCEPT !.pc = "valid"]
                  ELSE IF ~verifyAuditChainSegment(ver.prev, batch)
                  THEN [ver EXCEPT !.pc = "invalid"]
                  ELSE [ver EXCEPT !.pc = IF LastBatch(batch) THEN "valid" ELSE "scan",
                                   !.prev = batch[Len(batch)].hash,
                                   !.last = batch[Len(batch)].id]
    /\ UNCHANGED <<driver, rows, nextId, checkpoint, drawn, act>>

-----------------------------------------------------------------------------
Next ==
    \/ \E a \in Actors :
         \/ \E k \in 1..MaxInsert : \E kinds \in [1..k -> Kinds], f \in Fracs :
              WriteBegin(a, kinds, f)
         \/ WriteInsert(a)
         \/ WriteCommit(a)
         \/ Rollback(a)
         \/ PruneRead(a)
         \/ PruneCommit(a)
    \/ Compact
    \/ VerifyStart
    \/ VerifyScan

Spec == Init /\ [][Next]_vars

-----------------------------------------------------------------------------
(* Properties.                                                             *)

Row == [id: Nat, entry: Entries, prev: Hashes, hash: Hashes]
Transactions == [pc: {"idle", "insert", "delete"}, prev: Hashes, items: Seq(Entries),
                 ids: Seq(Nat), last: Nat, lastHash: Hashes]
Verifications == [pc: {"idle", "scan", "valid", "invalid"}, prev: Hashes, last: Nat,
                  newest: Nat, pruned: BOOLEAN]

\* Every variable keeps its type.
TypeOK ==
    /\ driver \in {"sqlite", "postgres"}
    /\ rows \in Seq(Row)
    /\ nextId \in Nat \ {0} /\ drawn \in 0..MaxEntries
    /\ checkpoint \in [some: BOOLEAN, id: Nat, hash: Hashes, pruned: Nat]
    /\ act \in [Actors -> Transactions]
    /\ ver \in Verifications

\* Each row follows the one before, the first one follows the checkpoint and
\* no row hides below it.
Chained ==
    /\ verifyAuditChainSegment(checkpoint.hash, rows)
    /\ \A i \in 1..Len(rows) : rows[i].id > checkpoint.id

\* With SQLite the table verifies from its checkpoint at every moment, through
\* batches, concurrent writers, prunes and compactions.
ChainIntact == driver = "sqlite" => Chained

\* The same of either database, as SECURITY.md promises a hash chained audit
\* log with previous hash verification.
ChainIntactEverywhere == Chained

\* With SQLite VerifyChain reports a mismatch only when a prune removed rows
\* between its read of the checkpoint and its read of the rows.
MismatchOnlyFromPrune == driver = "sqlite" /\ ver.pc = "invalid" => ver.pruned

\* A verification that reports success has come as far as the row that was the
\* newest when it started, whatever was inserted or removed meanwhile.
VerifiedThrough == ver.pc = "valid" => ver.last >= ver.newest

\* The checkpoint's count of pruned entries grows by exactly the rows each
\* prune removes, when two hubs prune at the same time too.
PrunedCounted ==
    [][Len(rows') < Len(rows) /\ checkpoint'.some =>
         checkpoint'.pruned = checkpoint.pruned + Len(rows) - Len(rows')]_vars

Log == INSTANCE AuditLog
         WITH Entry <- Entries, Noise <- auditRowIsAccessNoise,
              log <- [i \in 1..Len(rows) |-> rows[i].entry], ordered <- driver = "sqlite"

\* The entries in the table are a log that loses entries from its front only,
\* never the newest, or access noise.  With SQLite it grows at its end and what
\* a prune removes is past retention.  With PostgreSQL rows committed late may
\* appear between the others, which keep their order, and a prune may remove
\* such a row though it is recent.
ImplementsAuditLog == Log!Spec

-----------------------------------------------------------------------------
(* The inductive invariant behind these.                                   *)

\* Ids rise, up to the next one, and with SQLite from the checkpoint on; prunes
\* leave a row.
IdsRise ==
    /\ \A i, j \in 1..Len(rows) : i < j => rows[i].id < rows[j].id
    /\ \A i \in 1..Len(rows) : 0 < rows[i].id /\ rows[i].id < nextId
    /\ \A i \in 1..Len(rows) : driver = "sqlite" => checkpoint.id < rows[i].id
    /\ checkpoint.id < nextId
    /\ rows = <<>> => checkpoint.hash = <<>>

\* The ids an INSERT has drawn rise and are nobody else's.
IdsDrawn ==
    /\ \A a \in Actors : act[a].pc # "insert" => act[a].ids = <<>>
    /\ \A a \in Actors : Len(act[a].ids) <= Len(act[a].items)
    /\ \A a \in Actors : \A i \in 1..Len(act[a].ids) :
         /\ 0 < act[a].ids[i] /\ act[a].ids[i] < nextId
         /\ \A j \in 1..Len(act[a].ids) : i < j => act[a].ids[i] < act[a].ids[j]
         /\ \A j \in 1..Len(rows) : rows[j].id # act[a].ids[i]
         /\ \A b \in Actors \ {a} : \A j \in 1..Len(act[b].ids) :
              act[b].ids[j] # act[a].ids[i]

\* With SQLite they follow everything in the table.
DrawnLast ==
    driver = "sqlite" =>
        \A a \in Actors : \A i \in 1..Len(act[a].ids) :
            /\ \A j \in 1..Len(rows) : rows[j].id < act[a].ids[i]
            /\ checkpoint.id < act[a].ids[i]
            /\ ver.pc = "scan" => ver.last < act[a].ids[i]

\* A transaction still does what it set out to do: a prune leaves the newest
\* row, and with SQLite the recent ones.
WritesSome == \A a \in Actors : act[a].pc = "insert" => act[a].items # <<>>
PrunesOld ==
    \A a \in Actors : act[a].pc = "delete" =>
        /\ act[a].last < NewestId
        /\ driver = "sqlite" => \A i \in 1..Len(rows) :
              rows[i].id <= act[a].last => ~Recent(rows[i].entry)

\* With SQLite there is one at a time, and what it read is still so.
OneAtATime ==
    driver = "sqlite" =>
        /\ \A a, b \in Actors : act[a].pc # "idle" /\ act[b].pc # "idle" => a = b
        /\ \A a \in Actors :
            /\ act[a].pc = "insert" => act[a].prev = latestAuditHash
            /\ act[a].pc = "delete" => \E n \in 1..Len(rows) :
                  rows[n].id = act[a].last /\ rows[n].hash = act[a].lastHash

\* The hash that the rows after the first n follow.
AnchorAt(n) == IF n = 0 THEN checkpoint.hash ELSE rows[n].hash

\* A verification has yet to see the newest row, or stands at it, and knows the
\* hash the rest must follow.
VerifiesOn ==
    ver.pc = "scan" =>
        /\ ver.newest <= NewestId /\ ver.last < nextId
        /\ driver = "sqlite" /\ ~ver.pruned => \E n \in 0..Len(rows) :
              /\ ver.prev = AnchorAt(n)
              /\ \A i \in 1..Len(rows) : rows[i].id <= ver.last <=> i <= n

ChainInv ==
    /\ TypeOK /\ IdsRise /\ IdsDrawn /\ DrawnLast /\ WritesSome /\ PrunesOld /\ OneAtATime /\ VerifiesOn
    /\ ChainIntact /\ MismatchOnlyFromPrune /\ VerifiedThrough
=============================================================================
