--------------------------- MODULE TelemetryAgent ---------------------------
(***************************************************************************)
(* The telemetry client linked into a protected application                *)
(* (crates/agent-sdk/src/lib.rs).                                          *)
(*                                                                         *)
(* The application records events; recording puts the event in a bounded   *)
(* queue or counts it as dropped, and never waits.  A flush thread moves   *)
(* events from the queue into a batch, posts the batch and waits for the   *)
(* answer or for its timeout; whatever the outcome the batch is cleared.   *)
(* What carries the request and who answers it is in Pipeline.             *)
(***************************************************************************)
EXTENDS Sequences, Naturals

CONSTANTS QueueCapacity, BatchSize

ASSUME AgentAssumption == QueueCapacity \in Nat \ {0} /\ BatchSize \in Nat \ {0}

VARIABLES
  queue,     \* the bounded channel
  batch,     \* the flush thread's batch
  flusher,   \* the flush thread: "collecting", "posting" or "ended"
  dropped,   \* dropped_events
  closed     \* the client was dropped: no more events can be recorded

agentVars == <<queue, batch, flusher, dropped, closed>>

AgentInit ==
  /\ queue = <<>>
  /\ batch = <<>>
  /\ flusher = "collecting"
  /\ dropped = 0
  /\ closed = FALSE

Enqueue_DropsOldest(event) ==
  /\ queue' = IF Len(queue) < QueueCapacity THEN Append(queue, event)
                                            ELSE Append(Tail(queue), event)
  /\ UNCHANGED dropped

\* try_send: a full queue drops the event and counts it.
Enqueue(event) ==
  IF Len(queue) < QueueCapacity
    THEN queue' = Append(queue, event) /\ UNCHANGED dropped
    ELSE dropped' = dropped + 1 /\ UNCHANGED queue

\* record_event_non_blocking
Record(event) ==
  /\ ~closed
  /\ Enqueue(event)
  /\ UNCHANGED <<batch, flusher, closed>>

\* The client goes out of scope.
Close ==
  /\ ~closed
  /\ closed' = TRUE
  /\ UNCHANGED <<queue, batch, flusher, dropped>>

\* recv_timeout for the first event of a batch, try_recv for the others.
Receive ==
  /\ flusher = "collecting"
  /\ queue # <<>> /\ Len(batch) < BatchSize
  /\ batch' = Append(batch, Head(queue))
  /\ queue' = Tail(queue)
  /\ UNCHANGED <<flusher, dropped, closed>>

Post_FullOnly ==
  /\ flusher = "collecting"
  /\ Len(batch) = BatchSize
  /\ flusher' = "posting"
  /\ UNCHANGED <<queue, batch, dropped, closed>>

\* The batch is full or the queue was found empty: it is posted.
Post ==
  /\ flusher = "collecting"
  /\ batch # <<>>
  /\ queue = <<>> \/ Len(batch) = BatchSize
  /\ flusher' = "posting"
  /\ UNCHANGED <<queue, batch, dropped, closed>>

\* What is left of the batch after a post: nothing, answered or not.
Cleared(answered) == <<>>

\* The post returned: with an answer, whatever its status, or with an error.
Posted(answered) ==
  /\ flusher = "posting"
  /\ flusher' = "collecting"
  /\ batch' = Cleared(answered)
  /\ UNCHANGED <<queue, dropped, closed>>

\* The channel is disconnected and, as a channel first hands out what it still
\* holds, empty.  The batch is empty at this point of the loop, so the branch
\* that would send it (lib.rs:166-168) never does.
End ==
  /\ flusher = "collecting"
  /\ closed /\ queue = <<>> /\ batch = <<>>
  /\ flusher' = "ended"
  /\ UNCHANGED <<queue, batch, dropped, closed>>
=============================================================================
