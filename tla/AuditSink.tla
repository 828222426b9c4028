----------------------------- MODULE AuditSink -----------------------------
(***************************************************************************)
(* The asynchronous audit sink (internal/audit/logger.go): handlers put    *)
(* events into a bounded channel, one goroutine moves them to a buffer and *)
(* writes the buffer to the audit store when it is full, when the flush    *)
(* ticker fires and when the sink is closed.  What a handler does when the *)
(* channel is full depends on the policy the hub was started with.         *)
(*                                                                         *)
(* Every channel operation and every call of the store is one action.  The *)
(* hub closes the sink before it shuts its servers down, so handlers may   *)
(* still write events after Close.  Events are numbered as they are made.  *)
(***************************************************************************)
EXTENDS Integers, Sequences, FiniteSets

CONSTANTS
    Producers,      \* goroutines that log events
    Cap,            \* capacity of the channel
    BatchSize,      \* buffer length that forces a flush
    MaxEvents       \* bound on the number of events

\* What the bounds must be for the sink to take its steps.
SinkAssumption ==
    Cap \in Nat \ {0} /\ BatchSize \in Nat \ {0} /\ MaxEvents \in Nat

VARIABLES
    policy,         \* dropPolicy
    events,         \* the channel
    buffer,         \* run's buffer
    batch,          \* the batch being written by CreateBatch
    sink,           \* where run is
    cancelled,      \* Close has cancelled run's context
    log,            \* events in the store, in the order written
    prod,           \* WriteEvent calls in progress
    drawn,          \* events made so far
    sent,           \* history: events in the order they entered the channel
    gone,           \* history: events lost, by a failed batch or an eviction
    direct,         \* history: events written by the handler itself
    atClose         \* history: Len(sent) when Close was called

vars == <<policy, events, buffer, batch, sink, cancelled, log, prod, drawn,
          sent, gone, direct, atClose>>

runVars == <<buffer, batch, sink, cancelled, atClose>>

-----------------------------------------------------------------------------
Policies == {"block", "drop_newest", "drop_oldest", "sync_fallback"}
Idle == [pc |-> "idle", ev |-> 0]

Init ==
    /\ policy \in Policies
    /\ events = <<>> /\ buffer = <<>> /\ batch = <<>>
    /\ sink = "select"
    /\ cancelled = FALSE
    /\ log = <<>>
    /\ prod = [p \in Producers |-> Idle]
    /\ drawn = 0
    /\ sent = <<>> /\ gone = {} /\ direct = {}
    /\ atClose = 0

Room == Len(events) < Cap

Enqueue(e) ==
    /\ events' = Append(events, e)
    /\ sent' = Append(sent, e)

Elements(s) == {s[i] : i \in 1..Len(s)}

-----------------------------------------------------------------------------
(* WriteEvent.                                                             *)

\* What follows when the channel is full.
FullBranch == [block |-> "blocked", drop_newest |-> "idle",
               drop_oldest |-> "evict", sync_fallback |-> "sync"]

\* The first select.  With drop_newest a full channel drops the event, which
\* is logged, and the call returns.
WriteEvent(p) ==
    /\ prod[p].pc = "idle"
    /\ drawn < MaxEvents
    /\ drawn' = drawn + 1
    /\ \/ /\ Room
          /\ Enqueue(drawn + 1)
          /\ UNCHANGED prod
       \/ /\ ~Room
          /\ prod' = [prod EXCEPT ![p] =
               IF FullBranch[policy] = "idle" THEN Idle
               ELSE [pc |-> FullBranch[policy], ev |-> drawn + 1]]
          /\ UNCHANGED <<events, sent>>
    /\ UNCHANGED <<policy, log, gone, direct, runVars>>

\* block: a waiting send goes through, or the caller's context ends.
BlockedSend(p) ==
    /\ prod[p].pc = "blocked" /\ Room
    /\ Enqueue(prod[p].ev)
    /\ prod' = [prod EXCEPT ![p] = Idle]
    /\ UNCHANGED <<policy, log, drawn, gone, direct, runVars>>

BlockedCancel(p) ==
    /\ prod[p].pc = "blocked"
    /\ prod' = [prod EXCEPT ![p] = Idle]
    /\ UNCHANGED <<policy, events, log, drawn, sent, gone, direct, runVars>>

\* drop_oldest: the oldest event is taken out unless run was faster, and
\* the send is tried once more.
Evict(p) ==
    /\ prod[p].pc = "evict"
    /\ events' = IF events = <<>> THEN <<>> ELSE Tail(events)
    /\ gone' = IF events = <<>> THEN gone ELSE gone \union {Head(events)}
    /\ prod' = [prod EXCEPT ![p].pc = "resend"]
    /\ UNCHANGED <<policy, log, drawn, sent, direct, runVars>>

Resend(p) ==
    /\ prod[p].pc = "resend"
    /\ IF Room THEN Enqueue(prod[p].ev) ELSE UNCHANGED <<events, sent>>
    /\ prod' = [prod EXCEPT ![p] = Idle]
    /\ UNCHANGED <<policy, log, drawn, gone, direct, runVars>>

\* sync_fallback: the handler writes the event itself; an error is returned.
SyncCreate(p) ==
    /\ prod[p].pc = "sync"
    /\ \/ /\ log' = Append(log, prod[p].ev)
          /\ direct' = direct \union {prod[p].ev}
       \/ UNCHANGED <<log, direct>>
    /\ prod' = [prod EXCEPT ![p] = Idle]
    /\ UNCHANGED <<policy, events, drawn, sent, gone, runVars>>

-----------------------------------------------------------------------------
(* run and Close.                                                          *)

\* Mutant: the buffer is not emptied.
MutFlushKeeps(items) == batch' = items /\ buffer' = items

\* flush copies the buffer, empties it and calls CreateBatch.
Flush(items) == batch' = items /\ buffer' = <<>>

Full(items) == Len(items) >= BatchSize

\* A received event; the batch goes out when the buffer is full.
Receive ==
    /\ sink = "select" /\ events # <<>>
    /\ events' = Tail(events)
    /\ LET items == Append(buffer, Head(events))
       IN  IF Full(items)
           THEN Flush(items) /\ sink' = "write"
           ELSE buffer' = items /\ UNCHANGED <<batch, sink>>
    /\ UNCHANGED <<policy, cancelled, log, prod, drawn, sent, gone, direct, atClose>>

FlushTicker ==
    /\ sink = "select" /\ buffer # <<>>
    /\ Flush(buffer)
    /\ sink' = "write"
    /\ UNCHANGED <<policy, events, cancelled, log, prod, drawn, sent, gone, direct, atClose>>

\* CreateBatch commits or fails; a failed batch is logged and given up.
CreateBatch ==
    /\ sink \in {"write", "lastWrite"}
    /\ \/ log' = log \o batch /\ UNCHANGED gone
       \/ gone' = gone \union Elements(batch) /\ UNCHANGED log
    /\ batch' = <<>>
    /\ sink' = IF sink = "write" THEN "select" ELSE "done"
    /\ UNCHANGED <<policy, events, buffer, cancelled, prod, drawn, sent, direct, atClose>>

Close ==
    /\ ~cancelled
    /\ cancelled' = TRUE
    /\ atClose' = Len(sent)
    /\ UNCHANGED <<policy, events, buffer, batch, sink, log, prod, drawn, sent, gone, direct>>

\* The select may take ctx.Done over the other cases as soon as it is ready.
Stop ==
    /\ sink = "select" /\ cancelled
    /\ sink' = "drain"
    /\ UNCHANGED <<policy, events, buffer, batch, cancelled, log, prod, drawn,
                   sent, gone, direct, atClose>>

Drain ==
    /\ sink = "drain" /\ events # <<>>
    /\ events' = Tail(events)
    /\ buffer' = Append(buffer, Head(events))
    /\ UNCHANGED <<policy, batch, sink, cancelled, log, prod, drawn, sent, gone,
                   direct, atClose>>

\* The channel is empty: flush what is left and end.
DrainEnd ==
    /\ sink = "drain" /\ events = <<>>
    /\ Flush(buffer)
    /\ sink' = IF buffer = <<>> THEN "done" ELSE "lastWrite"
    /\ UNCHANGED <<policy, events, cancelled, log, prod, drawn, sent, gone, direct, atClose>>

\* Mutant: the ticker does not flush.
MutNoTicker == Receive \/ CreateBatch \/ Stop \/ Drain \/ DrainEnd

run == Receive \/ FlushTicker \/ CreateBatch \/ Stop \/ Drain \/ DrainEnd

Write(p) ==
    WriteEvent(p) \/ BlockedSend(p) \/ BlockedCancel(p) \/ Evict(p) \/ Resend(p)
        \/ SyncCreate(p)

\* Everything is written, dropped or stranded and nobody is left.
Finished ==
    /\ sink = "done" /\ drawn = MaxEvents
    /\ \A p \in Producers : prod[p].pc = "idle"
    /\ UNCHANGED vars

Next == run \/ Close \/ Finished \/ \E p \in Producers : Write(p)

Spec == Init /\ [][Next]_vars

\* run is scheduled, its ticker fires and the store's calls return.
FairSpec == Spec /\ WF_vars(run)

-----------------------------------------------------------------------------
(* Properties.                                                             *)

Event == 1..MaxEvents

\* Every variable keeps its type and the channel its capacity.
TypeOK ==
    /\ policy \in Policies
    /\ events \in Seq(Event) /\ Len(events) <= Cap
    /\ buffer \in Seq(Event) /\ batch \in Seq(Event) /\ log \in Seq(Event)
    /\ sink \in {"select", "write", "drain", "lastWrite", "done"}
    /\ cancelled \in BOOLEAN
    /\ prod \in [Producers -> [pc: {"idle", "blocked", "evict", "resend", "sync"},
                               ev: 0..MaxEvents]]
    /\ drawn \in 0..MaxEvents
    /\ sent \in Seq(Event) /\ gone \in SUBSET Event /\ direct \in SUBSET Event
    /\ atClose \in Nat

\* f may come after e: they differ, and unless one was written directly e
\* entered the channel first.
Follows(e, f) ==
    /\ e # f
    /\ \/ e \in direct \/ f \in direct
       \/ \E a, b \in 1..Len(sent) : a < b /\ sent[a] = e /\ sent[b] = f

InOrder(s) == \A i, j \in 1..Len(s) : i < j => Follows(s[i], s[j])

\* No event that entered the channel vanishes, is written twice or overtakes
\* another one: what was sent is, in that order, in the store, in the batch
\* being written, in the buffer or in the channel, but for the events of
\* failed batches and those evicted under drop_oldest.
SentAccounted ==
    LET kept == log \o batch \o buffer \o events
    IN  /\ Elements(sent) = (Elements(kept) \ direct) \union gone
        /\ Elements(kept) \intersect gone = {}
        /\ InOrder(kept)

\* Once run has ended, every event that was sent before Close was called is
\* written, or lost in one of the ways above; only events that handlers
\* still in flight sent after Close may be left in the channel.
DrainedAtClose ==
    sink = "done" => \A i \in 1..atClose : sent[i] \in Elements(log) \union gone

\* Every event sent before Close is written or lost at some time, without
\* further traffic: the ticker flushes a partial batch.  (Events are bounded,
\* so each one is dealt with if again and again all of them are.)
EventuallyWritten ==
    []<>(\A i \in 1..(IF cancelled THEN atClose ELSE Len(sent)) :
            sent[i] \in Elements(log) \union gone)

\* A handler blocked on a full channel gets through, or gives up, unless run
\* has ended: run alone makes room again and again.
BlockedProgress ==
    []<>(Room \/ sink = "done" \/ \A p \in Producers : prod[p].pc # "blocked")

-----------------------------------------------------------------------------
(* The inductive invariant behind the safety properties.                   *)

Busy(p) == prod[p].pc # "idle"

\* An event is with its handler, or was sent, or was written directly, or
\* dropped, and in one of these ways only.
EventsApart ==
    /\ \A e \in Elements(sent) \union direct : e <= drawn
    /\ Elements(sent) \intersect direct = {}
    /\ \A i, j \in 1..Len(sent) : sent[i] = sent[j] => i = j
    /\ \A p \in Producers : Busy(p) =>
         /\ prod[p].ev \in 1..drawn /\ prod[p].ev \notin Elements(sent) \union direct
         /\ \A q \in Producers : Busy(q) /\ prod[q].ev = prod[p].ev => q = p

\* Each place holds its events in order, and those further on before those
\* that follow.
AllFollow(X, Y) == \A e \in X, f \in Y : Follows(e, f)
PlacesInOrder ==
    /\ InOrder(log) /\ InOrder(batch) /\ InOrder(buffer) /\ InOrder(events)
    /\ AllFollow(Elements(log), Elements(batch) \union Elements(buffer) \union Elements(events))
    /\ AllFollow(Elements(batch), Elements(buffer) \union Elements(events))
    /\ AllFollow(Elements(buffer), Elements(events))

\* An event that was sent is in one of the places or lost.
PlacesHold ==
    /\ Elements(sent) = (Elements(log) \ direct) \union Elements(batch) \union Elements(buffer)
                            \union Elements(events) \union gone
    /\ gone \intersect (Elements(log) \union Elements(batch) \union Elements(buffer)
                            \union Elements(events)) = {}

\* How far run has come on its way out.
ClosesInOrder ==
    /\ atClose <= Len(sent)
    /\ sink \in {"drain", "lastWrite", "done"} => cancelled
    /\ sink \in {"select", "drain", "done"} => batch = <<>>
    /\ sink \in {"lastWrite", "done"} => \A i \in 1..atClose :
         sent[i] \in Elements(log) \union Elements(batch) \union gone

SinkInv == TypeOK /\ EventsApart /\ PlacesInOrder /\ PlacesHold /\ ClosesInOrder
=============================================================================
