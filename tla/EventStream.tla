---------------------------- MODULE EventStream ----------------------------
(***************************************************************************)
(* The in-memory event stream (crates/control-plane/src/stream/mod.rs), as *)
(* its publishers see it: publish sends the event on a tokio broadcast     *)
(* channel, then waits for the write lock and pushes it onto the backlog;  *)
(* publish_batch does so for one event after another.  Its receivers are   *)
(* in StreamSubscribers.                                                   *)
(***************************************************************************)
EXTENDS SequencesExt, Integers

CONSTANTS
  Publisher,    \* the tasks that publish
  MaxBacklog    \* max_backlog

ASSUME StreamAssumption == MaxBacklog \in Nat \ {0}

VARIABLES
  publishing,  \* publisher -> [left: events still to publish, sent: first is sent]
  published,   \* all events broadcast, in order
  backlog,     \* the polling consumers' backlog
  pushed       \* history: all events pushed onto the backlog, in order

streamVars == <<publishing, published, backlog, pushed>>

Resting == [left |-> <<>>, sent |-> FALSE]

StreamInit ==
  /\ publishing = [p \in Publisher |-> Resting]
  /\ published = <<>>
  /\ backlog = <<>>
  /\ pushed = <<>>

Started(p, events) == publishing[p] = Resting /\ publishing' = [publishing EXCEPT ![p].left = events]

\* publish, up to the wait for the lock.
Send(p) ==
  /\ publishing[p].left # <<>> /\ ~publishing[p].sent
  /\ published' = Append(published, Head(publishing[p].left))
  /\ publishing' = [publishing EXCEPT ![p].sent = TRUE]
  /\ UNCHANGED <<backlog, pushed>>

Pushed_FullForgets(event) ==
  IF Len(backlog) > MaxBacklog THEN <<event>> ELSE Append(backlog, event)

\* The backlog after a push: the oldest event makes room.
Pushed(event) ==
  Append(IF Len(backlog) >= MaxBacklog THEN Tail(backlog) ELSE backlog, event)

\* publish, under the lock.
Push(p) ==
  /\ publishing[p].sent
  /\ LET event == Head(publishing[p].left) IN
       /\ backlog' = Pushed(event)
       /\ pushed' = Append(pushed, event)
  /\ publishing' = [publishing EXCEPT ![p] = [left |-> Tail(@.left), sent |-> FALSE]]
  /\ UNCHANGED published

\* get_recent
Recent(limit) ==
  SubSeq(backlog, (IF Len(backlog) > limit THEN Len(backlog) - limit ELSE 0) + 1, Len(backlog))

-----------------------------------------------------------------------------
\* What a dashboard's poll returns is the newest of what was pushed, oldest
\* first, and as many as there are (stream/mod.rs:60-68, 80-84).
BacklogIsNewest ==
  \A limit \in 0..MaxBacklog :
    /\ IsSuffix(Recent(limit), pushed)
    /\ Len(Recent(limit)) = IF Len(pushed) < limit THEN Len(pushed) ELSE limit
=============================================================================
