------------------------- MODULE StreamSubscribers -------------------------
(***************************************************************************)
(* The event stream with its receivers: the detection worker               *)
(* (crates/control-plane/src/main.rs) and a dashboard's WebSocket          *)
(* (handle_socket of crates/control-plane/src/api/mod.rs).                 *)
(*                                                                         *)
(* A tokio broadcast channel keeps its RingSize latest events; a receiver  *)
(* that falls behind gets the error Lagged once and is moved to the oldest *)
(* event still kept.  An event is a number, in the order in which the      *)
(* publishers started.                                                     *)
(***************************************************************************)
EXTENDS EventStream

CONSTANTS
  RingSize,    \* events the broadcast channel keeps
  MaxEvents,   \* bound on the events
  MaxBatch     \* bound on the events of one publish_batch

ASSUME RingAssumption == RingSize \in Nat \ {0} /\ MaxEvents \in Nat /\ MaxBatch \in Nat \ {0}

VARIABLES
  events,      \* history: events whose publisher has started
  detector,    \* the detection worker: [next: place in published, ended]
  evaluated,   \* history: the events the detection worker took, in order
  socket       \* a dashboard: [next, open, deaf: disabled branches of its select!]

vars == <<streamVars, events, detector, evaluated, socket>>

Init ==
  /\ StreamInit
  /\ events = 0
  /\ detector = [next |-> 1, ended |-> FALSE]
  /\ evaluated = <<>>
  /\ socket = [next |-> 1, open |-> TRUE, deaf |-> {}]

\* A handler or the sensor's task starts to publish n events.
Start(p, n) ==
  /\ events + n <= MaxEvents
  /\ Started(p, [i \in 1..n |-> events + i])
  /\ events' = events + n
  /\ UNCHANGED <<published, backlog, pushed, detector, evaluated, socket>>

Publish(p) == (Send(p) \/ Push(p)) /\ UNCHANGED <<events, detector, evaluated, socket>>

-----------------------------------------------------------------------------
\* The broadcast channel, seen by a receiver whose next event is at place i.
Oldest == IF Len(published) > RingSize THEN Len(published) - RingSize + 1 ELSE 1
Waiting(i) == i <= Len(published)
Lagged(i) == i < Oldest

\* The worker takes an event: recv returned it.
Detect ==
  /\ ~detector.ended
  /\ Waiting(detector.next) /\ ~Lagged(detector.next)
  /\ evaluated' = Append(evaluated, published[detector.next])
  /\ detector' = [detector EXCEPT !.next = @ + 1]
  /\ UNCHANGED <<streamVars, events, socket>>

DetectorLags_Skips ==
  /\ ~detector.ended /\ Lagged(detector.next)
  /\ detector' = [detector EXCEPT !.next = Oldest]
  /\ UNCHANGED <<streamVars, events, evaluated, socket>>

\* recv returned Lagged: `while let Ok(event)` is over, and with it the worker.
DetectorLags ==
  /\ ~detector.ended /\ Lagged(detector.next)
  /\ detector' = [next |-> Oldest, ended |-> TRUE]
  /\ UNCHANGED <<streamVars, events, evaluated, socket>>

SocketShows_NothingDeaf ==
  /\ socket.open /\ socket.deaf = {}
  /\ Waiting(socket.next) /\ ~Lagged(socket.next)
  /\ socket' = [socket EXCEPT !.next = @ + 1]
  /\ UNCHANGED <<streamVars, events, detector, evaluated>>

\* The socket's select! completes with an event; the next one listens to both
\* branches again.
SocketShows ==
  /\ socket.open /\ "events" \notin socket.deaf
  /\ Waiting(socket.next) /\ ~Lagged(socket.next)
  /\ socket' = [socket EXCEPT !.next = @ + 1, !.deaf = {}]
  /\ UNCHANGED <<streamVars, events, detector, evaluated>>

\* A branch of the select! whose receiver lags does not match Ok(..): it is
\* disabled until the other one completes, and with both disabled the socket's
\* task breaks.
Disable(branch, next) ==
  socket' = [next |-> next, open |-> socket.deaf = {}, deaf |-> socket.deaf \cup {branch}]

SocketLags ==
  /\ socket.open /\ "events" \notin socket.deaf
  /\ Lagged(socket.next)
  /\ Disable("events", Oldest)
  /\ UNCHANGED <<streamVars, events, detector, evaluated>>

\* An incident is broadcast and shown.
SocketShowsIncident ==
  /\ socket.open /\ "incidents" \notin socket.deaf /\ socket.deaf # {}
  /\ socket' = [socket EXCEPT !.deaf = {}]
  /\ UNCHANGED <<streamVars, events, detector, evaluated>>

\* The socket falls behind the incidents.
SocketMissesIncidents ==
  /\ socket.open /\ "incidents" \notin socket.deaf
  /\ Disable("incidents", socket.next)
  /\ UNCHANGED <<streamVars, events, detector, evaluated>>

\* The client leaves, or the socket cannot be written to.
SocketCloses ==
  /\ socket.open
  /\ socket' = [socket EXCEPT !.open = FALSE]
  /\ UNCHANGED <<streamVars, events, detector, evaluated>>

Next ==
  \/ \E p \in Publisher, n \in 1..MaxBatch : Start(p, n)
  \/ \E p \in Publisher : Publish(p)
  \/ Detect \/ DetectorLags
  \/ SocketShows \/ SocketLags \/ SocketShowsIncident \/ SocketMissesIncidents \/ SocketCloses

\* The runtime runs every task that can go on.  Publishers may never start, a
\* dashboard need not leave, and there need not be incidents.
Fairness ==
  /\ \A p \in Publisher : WF_vars(Publish(p))
  /\ WF_vars(Detect \/ DetectorLags)
  /\ WF_vars(SocketShows \/ SocketLags)

Spec == Init /\ [][Next]_vars /\ Fairness

-----------------------------------------------------------------------------
Branch == {"events", "incidents"}

TypeOK ==
  /\ \A p \in Publisher : publishing[p].sent => publishing[p].left # <<>>
  /\ Len(backlog) <= MaxBacklog
  /\ Len(pushed) <= Len(published) /\ Len(published) <= events /\ events <= MaxEvents
  /\ detector.next \in 1..MaxEvents + 1 /\ detector.ended \in BOOLEAN
  /\ socket.next \in 1..MaxEvents + 1 /\ socket.open \in BOOLEAN /\ socket.deaf \subseteq Branch

\* The worker evaluates the events in the order in which they were broadcast and
\* leaves none out: once it has missed one, it evaluates nothing (main.rs:89).
DetectorHasNoGap == IsPrefix(evaluated, published)

\* A dashboard that listens to events is shown all there are: only a lag behind
\* the events themselves may silence its feed (api/mod.rs:562-579).
FeedCatchesUp ==
  []<>(~socket.open \/ "events" \in socket.deaf \/ socket.next > Len(published))

\* What stream/mod.rs:77 says of a publication: "Broadcast to active real-time
\* subscribers (like WebSockets or Detector)".  The detection worker is one of
\* them for ever: it may miss events, but it keeps coming back to the latest.
DetectorCatchesUp == []<>(~detector.ended /\ ~Waiting(detector.next))
=============================================================================
