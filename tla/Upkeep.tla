------------------------------ MODULE Upkeep --------------------------------
(***************************************************************************)
(* The two parts of a hub that owe progress: the authentication cache      *)
(* (AuthCache) and, beside it, sharing no state, the asynchronous audit    *)
(* sink (AuditSink).                                                       *)
(***************************************************************************)
EXTENDS AuthCache, Sequences

CONSTANTS Producers, Cap, BatchSize, MaxEvents

VARIABLES policy, events, buffer, batch, sink, cancelled, log, prod, drawn,
          sent, gone, direct, atClose                    \* AuditSink

K == INSTANCE AuditSink

ASSUME SinkAssumption == K!SinkAssumption

sinkVars == <<policy, events, buffer, batch, sink, cancelled, log, prod, drawn, sent,
              gone, direct, atClose>>

\* AuditSink: events keep their order, none is written twice, and none that
\* was sent before Close is forgotten (run, WriteEvent, Close).
SinkKeepsEvents == K!SentAccounted /\ K!DrainedAtClose

\* AuditSink: an event is written without further traffic, and a handler
\* that waits for room gets it (the flush ticker, the block policy).
SinkProgress == K!EventuallyWritten /\ K!BlockedProgress
=============================================================================
