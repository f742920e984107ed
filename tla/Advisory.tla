------------------------------ MODULE Advisory ------------------------------
(***************************************************************************)
(* Advisory reasoning and its policy gate                                  *)
(* (crates/engine/src/advisory, the handlers of                            *)
(* crates/control-plane/src/api/advisory.rs and, for the bundles, of       *)
(* api/mod.rs).                                                            *)
(*                                                                         *)
(* A request either asks the advisory worker about an incident, in Mode B  *)
(* only, or submits a recommendation itself, in any mode.  The             *)
(* recommendation passes the gate, its command is dispatched and the       *)
(* result is recorded: three steps, each behind a lock of its own.         *)
(* Operators change the mode and the bundles meanwhile, and the request of *)
(* a client that goes away may be dropped where it waits.                  *)
(***************************************************************************)
EXTENDS PolicyEngine, Sequences, Naturals

CONSTANTS
  Task,            \* the requests that can be under way at a time
  Recommendation,  \* [app, action, capability, target, resource, confidence, ttl]
  None,            \* no capability, no resource parameter
  DerivedFrom,     \* action -> the capability it stands for
  Baseline,        \* the bundle of with_default_policies
  Threshold,       \* minimum_confidence, in percent
  MaxRequests      \* bound on the requests made

ASSUME AdvisoryAssumption ==
  /\ Threshold \in 10..100 /\ MaxRequests \in Nat
  /\ "baseline" \in BundleId /\ Baseline \in Bundle
  /\ None \notin Capability \cup Resource
  /\ \A rec \in Recommendation : rec.ttl \in Nat

VARIABLES
  mode,       \* the execution mode, "A" or "B"
  task,       \* task -> [step], and from the gate on [id, rec, barred]
  made,       \* history: requests made so far
  issued,     \* history: the commands dispatched, [id, ttl]
  abandoned,  \* history: requests dropped by their client's absence
  log         \* history: [id, authorized]

vars == <<bundles, mode, task, made, issued, abandoned, log>>

Idle == [step |-> "idle"]

Init ==
  /\ bundles = [id \in {"baseline"} |-> Baseline]
  /\ mode \in {"A", "B"}
  /\ task = [t \in Task |-> Idle]
  /\ made = 0 /\ issued = {} /\ abandoned = {} /\ log = <<>>

\* The capability and the resource a recommendation is judged by.
CapabilityOf(rec) == IF rec.capability = None THEN DerivedFrom[rec.action] ELSE rec.capability
ResourceOf(rec) == IF rec.resource = None THEN rec.target ELSE rec.resource

\* Ruled out under these bundles.
RuledOut(these, rec) ==
  rec.confidence < Threshold \/ DeniedBy(these, rec.app, CapabilityOf(rec), ResourceOf(rec))

-----------------------------------------------------------------------------
SetMode(m) ==
  /\ mode' = m
  /\ UNCHANGED <<bundles, task, made, issued, abandoned, log>>

\* barred is history: the recommendation has been ruled out at every moment
\* since it reached the gate.
SetBundles(new) ==
  /\ bundles' = new
  /\ task' = [t \in Task |->
                IF "barred" \in DOMAIN task[t]
                  THEN [task[t] EXCEPT !.barred = @ /\ RuledOut(new, task[t].rec)]
                  ELSE task[t]]
  /\ UNCHANGED <<mode, made, issued, abandoned, log>>

AddBundle(id, bundle) == SetBundles(BundlesWith(id, bundle))
RemoveBundle(id) == id \in DOMAIN bundles /\ SetBundles(BundlesWithout(id))

\* handle_analyze_incident: in Mode A it is refused, in Mode B it asks the worker.
Analyze(t) ==
  /\ task[t] = Idle /\ made < MaxRequests
  /\ mode = "B"
  /\ made' = made + 1
  /\ task' = [task EXCEPT ![t] = [step |-> "asking", id |-> made + 1]]
  /\ UNCHANGED <<bundles, mode, issued, abandoned, log>>

AtGate(id, rec) ==
  [step |-> "gate", id |-> id, rec |-> rec, barred |-> RuledOut(bundles, rec)]

WorkerAnswers(t, rec) ==
  /\ task[t].step = "asking"
  /\ task' = [task EXCEPT ![t] = AtGate(@.id, rec)]
  /\ UNCHANGED <<bundles, mode, made, issued, abandoned, log>>

\* Unreachable, too late, an error status or no recommendation: the request
\* falls back to the deterministic state.
WorkerFails(t) ==
  /\ task[t].step = "asking"
  /\ task' = [task EXCEPT ![t] = Idle]
  /\ UNCHANGED <<bundles, mode, made, issued, abandoned, log>>

\* handle_submit_recommendation
Submit(t, rec) ==
  /\ task[t] = Idle /\ made < MaxRequests
  /\ made' = made + 1
  /\ task' = [task EXCEPT ![t] = AtGate(made + 1, rec)]
  /\ UNCHANGED <<bundles, mode, issued, abandoned, log>>

\* validate_and_enact, up to the decision.
Gate(t) ==
  /\ task[t].step = "gate"
  /\ LET rec == task[t].rec IN
       \E decision \in IF rec.confidence < Threshold THEN {"deny"}
                       ELSE Evaluate(rec.app, CapabilityOf(rec), ResourceOf(rec)) :
         task' = [task EXCEPT ![t].step = IF decision = "deny" THEN "rejected" ELSE "authorized"]
  /\ UNCHANGED <<bundles, mode, made, issued, abandoned, log>>

\* The suggested time to live, or five minutes.
TimeToLive(rec) == IF rec.ttl > 0 THEN rec.ttl ELSE 300

\* The command of an authorized recommendation is dispatched.
Dispatch(t) ==
  /\ task[t].step = "authorized"
  /\ issued' = issued \cup {[id |-> task[t].id, ttl |-> TimeToLive(task[t].rec)]}
  /\ task' = [task EXCEPT ![t].step = "enacted"]
  /\ UNCHANGED <<bundles, mode, made, abandoned, log>>

Keep_BeforeDispatch(t) ==
  /\ task[t].step \in {"rejected", "authorized"}
  /\ log' = Append(log, [id |-> task[t].id, authorized |-> task[t].step = "authorized"])
  /\ task' = [task EXCEPT ![t] = Idle]
  /\ UNCHANGED <<bundles, mode, made, issued, abandoned>>

\* AdvisoryManager::validate_and_enact: the outcome goes into the history.
Keep(t) ==
  /\ task[t].step \in {"rejected", "enacted"}
  /\ log' = Append(log, [id |-> task[t].id, authorized |-> task[t].step = "enacted"])
  /\ task' = [task EXCEPT ![t] = Idle]
  /\ UNCHANGED <<bundles, mode, made, issued, abandoned>>

\* The client is gone: the handler is dropped where it awaits the worker or a
\* lock.
Abandon(t) ==
  /\ task[t] # Idle
  /\ abandoned' = abandoned \cup {task[t].id}
  /\ task' = [task EXCEPT ![t] = Idle]
  /\ UNCHANGED <<bundles, mode, made, issued, log>>

Next ==
  \/ \E m \in {"A", "B"} : SetMode(m)
  \/ \E id \in BundleId, b \in Bundle : AddBundle(id, b)
  \/ \E id \in BundleId : RemoveBundle(id)
  \/ \E t \in Task :
       \/ Analyze(t) \/ WorkerFails(t) \/ Gate(t) \/ Dispatch(t) \/ Keep(t) \/ Abandon(t)
       \/ \E rec \in Recommendation : WorkerAnswers(t, rec) \/ Submit(t, rec)

Spec == Init /\ [][Next]_vars

-----------------------------------------------------------------------------
TypeOK ==
  /\ DOMAIN bundles \subseteq BundleId /\ \A id \in DOMAIN bundles : bundles[id] \in Bundle
  /\ mode \in {"A", "B"} /\ made \in 0..MaxRequests
  /\ \A c \in issued : c.id \in 1..made /\ c.ttl \in Nat \ {0}
  /\ \A t \in Task : task[t] # Idle => task[t].id \in 1..made

\* A recommendation of too little confidence, or one that some rule denies at every
\* moment since its arrival at the gate, is not authorized and no command is issued
\* for it, whatever operators change in the bundles meanwhile (gate.rs:11-14).  The
\* denial may pass from one bundle to another; a rule that is added after the
\* evaluation comes too late, and the mode is not looked at.
RuledOutIsNotEnacted ==
  \A t \in Task : "barred" \in DOMAIN task[t] /\ task[t].barred =>
    /\ task[t].step \notin {"authorized", "enacted"}
    /\ \A c \in issued : c.id # task[t].id

\* The history tells what was enacted: what it has as authorized was issued,
\* what it has as rejected was not, no request is in it twice, and every command
\* issued is in it, but for the requests under way and those that were dropped
\* between the dispatch and the record (advisory/mod.rs:96-106).
LogTellsWhatWasEnacted ==
  LET enacted == {c.id : c \in issued} IN
    /\ \A i \in DOMAIN log : log[i].authorized <=> log[i].id \in enacted
    /\ \A i, j \in DOMAIN log : log[i].id = log[j].id => i = j
    /\ \A id \in enacted \ abandoned :
         \/ \E i \in DOMAIN log : log[i].id = id
         \/ \E t \in Task : task[t].step = "enacted" /\ task[t].id = id
=============================================================================
