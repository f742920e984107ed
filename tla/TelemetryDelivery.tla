------------------------- MODULE TelemetryDelivery -------------------------
(***************************************************************************)
(* What the way of telemetry from an application to the event stream and   *)
(* the durable sink promises, without saying how.                          *)
(*                                                                         *)
(* Every event recorded meets one fate, and meets it for good: the full    *)
(* queue refuses it, the control plane finds it invalid, it is lost on the *)
(* way, or it is broadcast, once.  Only what was broadcast is kept.  None  *)
(* is held for ever.                                                       *)
(***************************************************************************)
EXTENDS Sequences, Naturals

CONSTANT MaxRecorded

VARIABLES
  fate,    \* fate[n]: of the application's n-th event
  stream,  \* the events broadcast, in order
  kept     \* the events in the sink

vars == <<fate, stream, kept>>

Event == 1..MaxRecorded

Held == {n \in Event : fate[n] = "held"}
BroadcastEvents == {n \in Event : fate[n] = "broadcast"}

Init == fate = [n \in Event |-> "unrecorded"] /\ stream = <<>> /\ kept = {}

Record(n) ==
  /\ fate[n] = "unrecorded"
  /\ \A earlier \in 1..(n - 1) : fate[earlier] # "unrecorded"
  /\ \E f \in {"held", "refused"} : fate' = [fate EXCEPT ![n] = f]
  /\ UNCHANGED <<stream, kept>>

\* Events that are given up, in a request or in a handler, are given up together.
GiveUp(events, why) ==
  /\ fate' = [n \in Event |-> IF n \in events THEN why ELSE fate[n]]
  /\ UNCHANGED <<stream, kept>>

Broadcast(n) ==
  /\ fate[n] = "held"
  /\ fate' = [fate EXCEPT ![n] = "broadcast"]
  /\ stream' = Append(stream, n)
  /\ UNCHANGED kept

Keep(events) ==
  /\ kept' = kept \cup events
  /\ UNCHANGED <<fate, stream>>

Next ==
  \/ \E n \in Event : Record(n) \/ Broadcast(n)
  \/ \E events \in SUBSET Held, why \in {"lost", "invalid"} : GiveUp(events, why)
  \/ \E events \in SUBSET (BroadcastEvents \ kept) : Keep(events)

NoneIsHeldForEver == \A n \in Event : fate[n] = "held" ~> fate[n] # "held"

Spec == Init /\ [][Next]_vars /\ NoneIsHeldForEver
=============================================================================
