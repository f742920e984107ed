------------------------------ MODULE Pipeline ------------------------------
(***************************************************************************)
(* Telemetry from an application and from the kernel to the event stream   *)
(* and the durable sink.                                                   *)
(*                                                                         *)
(* Composes TelemetryAgent and EventStream with the request that carries a *)
(* batch, its handler (handle_telemetry in                                 *)
(* crates/control-plane/src/api/mod.rs), the sink                          *)
(* (crates/control-plane/src/storage/mod.rs) and the native sensor         *)
(* (crates/sensor-native/src/loader.rs, crates/sensor-native-ebpf,         *)
(* forwarded by crates/control-plane/src/main.rs).                         *)
(*                                                                         *)
(* An agent that gives up waiting closes the connection: the handler may   *)
(* by then be done, may go on, or may be dropped where it awaits.          *)
(***************************************************************************)
EXTENDS TelemetryAgent, EventStream, FiniteSets

CONSTANTS
  Kind,          \* kinds of events: which are valid, which are to be kept
  Malformed,     \* kinds that validate_security_event refuses
  Significant,   \* kinds that should_persist keeps
  KernelRing,    \* events the eBPF ring buffer holds
  SensorQueue,   \* capacity of the native sensor's channel
  MaxRecorded,   \* bound on the events recorded by the application
  MaxKernel      \* bound on the kernel's events

Sensor == 0  \* the task that publishes the native sensor's events

ASSUME PipelineAssumption ==
  /\ MaxRecorded \in Nat /\ MaxKernel \in Nat
  /\ Publisher = 0..MaxRecorded
  /\ Malformed \subseteq Kind /\ Significant \subseteq Kind

VARIABLES
  recorded,   \* history: the events the application recorded, in order
  refused,    \* history: those that a full queue refused
  requests,   \* requests posted so far: [events, step, awaited, overdue]
  lost,       \* history: events lost with a request or a dropped handler
  invalid,    \* history: events that failed validation
  saved,      \* the sink's records
  counters,   \* the metrics events_ingested, events_invalid and events_persisted
  kernel,     \* history: number of kernel events so far
  ring,       \* the eBPF ring buffer
  channel     \* the native sensor's channel

serverVars == <<lost, invalid, saved, counters>>
kernelVars == <<kernel, ring, channel>>
pipelineVars == <<agentVars, streamVars, recorded, refused, requests, serverVars, kernelVars>>

PipelineInit ==
  /\ AgentInit /\ StreamInit
  /\ recorded = <<>> /\ refused = {} /\ requests = <<>>
  /\ lost = {} /\ invalid = {} /\ saved = <<>>
  /\ counters = [ingested |-> 0, invalid |-> 0, persisted |-> 0]
  /\ kernel = 0 /\ ring = <<>> /\ channel = <<>>

-----------------------------------------------------------------------------
\* The application.
RecordEvent(kind) ==
  /\ Len(recorded) < MaxRecorded
  /\ LET event == [from |-> "app", n |-> Len(recorded) + 1, kind |-> kind] IN
       /\ Record(event)
       /\ recorded' = Append(recorded, event)
       /\ refused' = IF dropped' = dropped THEN refused ELSE refused \cup {event}
  /\ UNCHANGED <<streamVars, requests, serverVars, kernelVars>>

CloseAgent == Close /\ UNCHANGED <<streamVars, recorded, refused, requests, serverVars, kernelVars>>
ReceiveEvent == Receive /\ UNCHANGED <<streamVars, recorded, refused, requests, serverVars, kernelVars>>
EndAgent == End /\ UNCHANGED <<streamVars, recorded, refused, requests, serverVars, kernelVars>>

PostBatch_NoWait ==
  /\ flusher = "collecting" /\ batch # <<>>
  /\ queue = <<>> \/ Len(batch) = BatchSize
  /\ batch' = <<>>
  /\ requests' = Append(requests, [events |-> batch, step |-> "travelling",
                                   awaited |-> FALSE, overdue |-> FALSE])
  /\ UNCHANGED <<queue, flusher, dropped, closed, streamVars, recorded, refused,
                 serverVars, kernelVars>>

\* There are never more requests than events: the bound stops nothing.
PostBatch ==
  /\ Post
  /\ Len(requests) < MaxRecorded
  /\ requests' = Append(requests, [events |-> batch, step |-> "travelling",
                                   awaited |-> TRUE, overdue |-> FALSE])
  /\ UNCHANGED <<streamVars, recorded, refused, serverVars, kernelVars>>

\* The answer arrives.
Answered(r) ==
  /\ requests[r].step \in {"saving", "done"} /\ requests[r].awaited
  /\ Posted(TRUE)
  /\ requests' = [requests EXCEPT ![r].awaited = FALSE]
  /\ UNCHANGED <<streamVars, recorded, refused, serverVars, kernelVars>>

\* The control plane cannot be reached, or the answer takes longer than the
\* client's two seconds.
GivesUp(r) ==
  /\ requests[r].awaited
  /\ Posted(FALSE)
  /\ requests' = [requests EXCEPT ![r].awaited = FALSE, ![r].overdue = TRUE]
  /\ UNCHANGED <<streamVars, recorded, refused, serverVars, kernelVars>>

\* A request that nobody waits for any more never reaches the handler.
Lose(r) ==
  /\ requests[r].step = "travelling" /\ ~requests[r].awaited
  /\ requests' = [requests EXCEPT ![r].step = "lost"]
  /\ lost' = lost \cup ToSet(requests[r].events)
  /\ UNCHANGED <<agentVars, streamVars, recorded, refused, invalid, saved, counters, kernelVars>>

-----------------------------------------------------------------------------
\* handle_telemetry.
IsValid(event) == event.kind \notin Malformed
ShouldPersist(event) == event.kind \in Significant

AppEvent == [from : {"app"}, n : 1..MaxRecorded, kind : Kind]
Valid == {event \in AppEvent : IsValid(event)}
Persistent == {event \in AppEvent : ShouldPersist(event)}

\* The events of a sequence that are in a set, in their order.
Only(events, set) ==
  LET only[i \in 0..Len(events)] ==
        IF i = 0 THEN <<>>
        ELSE IF events[i] \in set THEN Append(only[i - 1], events[i]) ELSE only[i - 1]
  IN  only[Len(events)]

ValidEvents(r) == Only(requests[r].events, Valid)

\* The handler leaves out the invalid events; with none left it answers 400,
\* otherwise it publishes them.
Arrive(r) ==
  /\ requests[r].step = "travelling"
  /\ LET valid == ValidEvents(r) IN
       /\ requests' = [requests EXCEPT ![r].step = IF valid = <<>> THEN "done" ELSE "publishing"]
       /\ Started(r, valid)
       /\ counters' = [counters EXCEPT !.invalid = @ + Len(requests[r].events) - Len(valid)]
  /\ invalid' = invalid \cup {e \in ToSet(requests[r].events) : ~IsValid(e)}
  /\ UNCHANGED <<agentVars, published, backlog, pushed, recorded, refused, lost, saved, kernelVars>>

SendEvent(p) ==
  /\ Send(p)
  /\ UNCHANGED <<agentVars, recorded, refused, requests, serverVars, kernelVars>>

PushEvent(p) ==
  /\ Push(p)
  /\ UNCHANGED <<agentVars, recorded, refused, requests, serverVars, kernelVars>>

Finished(r, n) ==
  /\ requests[r].step = "publishing" /\ publishing[r].left = <<>>
  /\ counters' = [counters EXCEPT !.ingested = @ + n]
  /\ UNCHANGED <<agentVars, streamVars, recorded, refused, lost, invalid, saved, kernelVars>>

HandlerDone_UnlessMixed(r) ==
  /\ Finished(r, Len(ValidEvents(r)))
  /\ requests' = [requests EXCEPT ![r].step =
                    IF ValidEvents(r) = requests[r].events THEN "saving" ELSE "done"]

HandlerDone_CountsTheBatch(r) ==
  /\ Finished(r, Len(requests[r].events))
  /\ requests' = [requests EXCEPT ![r].step = "saving"]

\* The batch is published and counted: the handler spawns the save and answers.
HandlerDone(r) ==
  /\ Finished(r, Len(ValidEvents(r)))
  /\ requests' = [requests EXCEPT ![r].step = "saving"]

\* The connection of a client that gave up is closed: the handler is dropped
\* while it waits for the backlog's lock.
HandlerDropped(r) ==
  /\ requests[r].step = "publishing" /\ requests[r].overdue
  /\ publishing[r].sent
  /\ requests' = [requests EXCEPT ![r].step = "dropped"]
  /\ publishing' = [publishing EXCEPT ![r] = Resting]
  /\ lost' = lost \cup ToSet(Tail(publishing[r].left))
  /\ UNCHANGED <<agentVars, published, backlog, pushed, recorded, refused, invalid, saved, counters,
                 kernelVars>>

\* The spawned task: save_batch keeps the significant events.
Save(r) ==
  /\ requests[r].step = "saving"
  /\ requests' = [requests EXCEPT ![r].step = "done"]
  /\ LET kept == Only(ValidEvents(r), Persistent) IN
       /\ saved' = saved \o kept
       /\ counters' = [counters EXCEPT !.persisted = @ + Len(kept)]
  /\ UNCHANGED <<agentVars, streamVars, recorded, refused, lost, invalid, kernelVars>>

-----------------------------------------------------------------------------
\* The native sensor.  A probe that finds the ring buffer full drops its event.
KernelEvent ==
  /\ kernel < MaxKernel
  /\ kernel' = kernel + 1
  /\ ring' = IF Len(ring) < KernelRing
               THEN Append(ring, [from |-> "kernel", n |-> kernel + 1])
               ELSE ring
  /\ UNCHANGED <<agentVars, streamVars, recorded, refused, requests, serverVars, channel>>

\* The polling thread; blocking_send waits for room.
PollRing ==
  /\ ring # <<>> /\ Len(channel) < SensorQueue
  /\ channel' = Append(channel, Head(ring))
  /\ ring' = Tail(ring)
  /\ UNCHANGED <<agentVars, streamVars, recorded, refused, requests, serverVars, kernel>>

\* The forwarding task takes the next event and publishes it.  It saves nothing.
Forward ==
  /\ channel # <<>>
  /\ Started(Sensor, <<Head(channel)>>)
  /\ channel' = Tail(channel)
  /\ UNCHANGED <<agentVars, published, backlog, pushed, recorded, refused, requests, serverVars, kernel, ring>>

-----------------------------------------------------------------------------
Requests == DOMAIN requests

PipelineNext ==
  \/ \E k \in Kind : RecordEvent(k)
  \/ CloseAgent \/ ReceiveEvent \/ EndAgent \/ PostBatch
  \/ \E r \in Requests :
       \/ Answered(r) \/ GivesUp(r) \/ Lose(r)
       \/ Arrive(r) \/ HandlerDone(r) \/ HandlerDropped(r) \/ Save(r)
  \/ \E p \in Publisher : SendEvent(p) \/ PushEvent(p)
  \/ KernelEvent \/ PollRing \/ Forward

\* The flush thread, the handler, the spawned tasks and the forwarding thread
\* and task run; the application and the kernel may record nothing; a request
\* that nobody waits for is lost or arrives.
PipelineFairness ==
  /\ WF_pipelineVars(ReceiveEvent) /\ WF_pipelineVars(PostBatch)
  /\ WF_pipelineVars(\E r \in Requests : Answered(r) \/ GivesUp(r))
  /\ \A r \in 1..MaxRecorded :
       WF_pipelineVars(r \in Requests /\ (Lose(r) \/ Arrive(r) \/ HandlerDone(r) \/ Save(r)))
  /\ \A p \in Publisher : WF_pipelineVars(SendEvent(p) \/ PushEvent(p))
  /\ WF_pipelineVars(PollRing) /\ WF_pipelineVars(Forward)

PipelineSpec == PipelineInit /\ [][PipelineNext]_pipelineVars /\ PipelineFairness

-----------------------------------------------------------------------------
\* What a publisher has still to send.
Unsent(p) == IF publishing[p].sent THEN Tail(publishing[p].left) ELSE publishing[p].left

InHand(r) ==
  CASE requests[r].step = "travelling" -> ToSet(requests[r].events)
    [] requests[r].step = "publishing" -> ToSet(Unsent(r))
    [] OTHER -> {}

\* The places where an event of the application can be.
Places ==
  <<refused, ToSet(queue),
    IF flusher = "collecting" THEN ToSet(batch) ELSE {},
    UNION {InHand(r) : r \in Requests},
    lost, invalid,
    {e \in ToSet(published) : e.from = "app"}>>

\* Every event the application records is in exactly one place, whatever is
\* lost, late or given up on the way: none is unaccounted for, and none is
\* published that is also dropped, lost or still to be sent.
Accounted ==
  \A i \in DOMAIN recorded :
    Cardinality({k \in DOMAIN Places : recorded[i] \in Places[k]}) = 1

\* Events of one source are broadcast in the order in which they were recorded,
\* unless the request of the earlier one was given up while it was handled.
SourceOrder ==
  \A i, j \in DOMAIN published :
    LET later == published[i]
        earlier == published[j]
    IN  i < j /\ later.from = earlier.from /\ earlier.n < later.n =>
          \E r \in Requests : requests[r].overdue /\ earlier \in ToSet(requests[r].events)

\* The sink follows the stream: it holds significant events only, all of them
\* pushed before, and a significant event of the application is in it once its
\* handler and the task it spawned are done, whether or not the client waited
\* (api/mod.rs:494-503, storage/mod.rs:78-93).
SinkFollowsStream ==
  /\ \A i \in DOMAIN saved : ShouldPersist(saved[i]) /\ saved[i] \in ToSet(pushed)
  /\ \A r \in Requests :
       requests[r].step = "done" =>
         \A e \in ToSet(requests[r].events) :
           IsValid(e) /\ ShouldPersist(e) => e \in ToSet(saved)

\* The counters agree with what happened: with the events refused as invalid, those
\* broadcast by the handlers that came to their end, and the sink's records
\* (api/mod.rs:481, 501, 507).
CountersAgree ==
  LET counted == UNION {ToSet(requests[r].events) :
                          r \in {r \in Requests : requests[r].step \in {"saving", "done"}}}
  IN  /\ counters.ingested = Cardinality(counted \cap ToSet(published))
      /\ counters.invalid = Cardinality(invalid)
      /\ counters.persisted = Len(saved)

\* The pipeline implements what TelemetryDelivery promises: from the queue, through
\* batches, requests and handlers that may each be given up, to the stream and the
\* sink, every event has one fate for good and is not held for ever
\* (lib.rs:120-187, api/mod.rs:466-518).
FateOf(n) ==
  IF n \notin DOMAIN recorded THEN "unrecorded"
  ELSE CASE recorded[n] \in refused -> "refused"
         [] recorded[n] \in invalid -> "invalid"
         [] recorded[n] \in lost -> "lost"
         [] recorded[n] \in ToSet(published) -> "broadcast"
         [] OTHER -> "held"

Delivery == INSTANCE TelemetryDelivery WITH
              fate <- [n \in 1..MaxRecorded |-> FateOf(n)],
              stream <- [i \in DOMAIN Only(published, AppEvent) |-> Only(published, AppEvent)[i].n],
              kept <- {saved[i].n : i \in DOMAIN saved}

DeliverySpec == Delivery!Spec
=============================================================================
