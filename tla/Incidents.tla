----------------------------- MODULE Incidents -----------------------------
(***************************************************************************)
(* The rule engine's worker and its incidents                              *)
(* (crates/engine/src/evaluator.rs, crates/engine/src/incident.rs, the     *)
(* detection worker of crates/control-plane/src/main.rs and the status     *)
(* handler of crates/control-plane/src/api/mod.rs).                        *)
(*                                                                         *)
(* One worker takes events one at a time; analysts change the status of    *)
(* incidents meanwhile.  The worker's steps are separated where it awaits: *)
(* at each rule's call to the hot state, at the addition of entity risk,   *)
(* and at the two locks, under which everything else happens at once.      *)
(* Every incident is kept twice, in active_incidents and in                *)
(* incident_history, and every change is broadcast.                        *)
(***************************************************************************)
EXTENDS DetectionRules, Integers, FiniteSets

CONSTANTS
  Event,        \* events the worker may receive
  Rules,        \* the rules, in order of evaluation
  MaxEvidence,  \* evidence kept per incident (50)
  MaxScore,     \* u32::MAX
  MaxEvents,    \* bound on the events evaluated
  MaxRaised     \* bound on the signals raised

ASSUME IncidentAssumption ==
  /\ MaxEvidence \in Nat \ {0} /\ MaxScore \in Nat /\ MaxEvents \in Nat /\ MaxRaised \in Nat
  /\ Len(Rules) \in Nat /\ DOMAIN Rules = 1..Len(Rules)
  /\ AttackChain.weight <= MaxScore
  \* No default rule weighs less than the first threshold of SeverityFor.
  /\ \A i \in DOMAIN Rules : Rules[i].severity \in Severity /\ Rules[i].weight \in 25..MaxScore

VARIABLES
  worker,     \* what the worker is doing: [step, event, rule]
  events,     \* events taken so far
  raised,     \* history: signals raised so far: [rule, event, target]
  failed,     \* history: signals given up because the hot state failed
  active,     \* active_incidents: target -> incident
  history,    \* incident_history, oldest first; an incident's id is its place
  announced   \* history: the last broadcast of each incident

vars == <<worker, events, raised, failed, active, history, announced>>
book == <<active, history, announced>>

Status == {"open", "investigating", "contained", "resolved", "false_positive"}
Live == {"open", "investigating"}

Idle == [step |-> "idle"]

Init ==
  /\ worker = Idle
  /\ events = 0
  /\ raised = <<>>
  /\ failed = {}
  /\ active = <<>>
  /\ history = <<>>
  /\ announced = <<>>

RuleAt(i) == IF i = 0 THEN AttackChain ELSE Rules[i]

\* The worker after rule i: the next one, or done.
After(e, i) ==
  IF i < Len(Rules) THEN [step |-> "rule", event |-> e, rule |-> i + 1] ELSE Idle

\* The worker after an error at rule i.  An error while the attack-chain signal
\* is ingested is logged and the rules are still evaluated; an error at a rule
\* ends the evaluation of the event.
AfterError(e, i) == IF i = 0 THEN After(e, 0) ELSE Idle

TakeEvent(e) ==
  /\ worker = Idle
  /\ events < MaxEvents
  /\ events' = events + 1
  /\ worker' = [step |-> "rule", event |-> e, rule |-> 0]
  /\ UNCHANGED <<raised, failed, book>>

\* The rule raises no signal.
Quiet ==
  /\ worker.step = "rule"
  /\ LET rule == RuleAt(worker.rule) IN rule.counts \/ ~Concerns(rule, worker.event)
  /\ worker' = After(worker.event, worker.rule)
  /\ UNCHANGED <<events, raised, failed, book>>

\* The hot state fails while the rule records its hit.
HitFails ==
  /\ worker.step = "rule"
  /\ LET rule == RuleAt(worker.rule) IN rule.counts /\ Concerns(rule, worker.event)
  /\ worker' = AfterError(worker.event, worker.rule)
  /\ UNCHANGED <<events, raised, failed, book>>

\* The rule raises a signal.
Fires ==
  /\ worker.step = "rule"
  /\ Concerns(RuleAt(worker.rule), worker.event)
  /\ Len(raised) < MaxRaised
  /\ raised' = Append(raised, [rule   |-> RuleAt(worker.rule), event |-> events,
                               target |-> TargetEntity(worker.event)])
  /\ worker' = [worker EXCEPT !.step = "risk"]
  /\ UNCHANGED <<events, failed, book>>

\* add_entity_risk.
AddRisk ==
  /\ worker.step = "risk"
  /\ worker' = [worker EXCEPT !.step = "record"]
  /\ UNCHANGED <<events, raised, failed, book>>

\* add_entity_risk fails: process_signal returns before it touches an incident.
RiskFails ==
  /\ worker.step = "risk"
  /\ failed' = failed \cup {Len(raised)}
  /\ worker' = AfterError(worker.event, worker.rule)
  /\ UNCHANGED <<events, raised, book>>

\* u32::saturating_add
SaturatingAdd(x, y) == IF x + y > MaxScore THEN MaxScore ELSE x + y

SeverityFor(score, before) ==
  IF score >= 100 THEN "critical"
  ELSE IF score >= 50 THEN "high"
  ELSE IF score >= 25 THEN "medium"
  ELSE before

\* Incident::new
NewIncident(id, n) ==
  LET signal == raised[n] IN
    [id |-> id, target |-> signal.target, severity |-> signal.rule.severity,
     status |-> "open", score |-> signal.rule.weight, signals |-> <<n>>,
     evidence |-> <<signal.event>>]

Bounded_KeepsOldest(evidence, event) ==
  IF Len(evidence) >= MaxEvidence THEN evidence ELSE Append(evidence, event)

\* Evidence grows at the end and gives up its oldest item.
Bounded(evidence, event) ==
  Append(IF Len(evidence) >= MaxEvidence THEN Tail(evidence) ELSE evidence, event)

AddSignal_SeverityOfSignal(incident, n) ==
  [incident EXCEPT !.score = SaturatingAdd(@, raised[n].rule.weight),
                   !.signals = Append(@, n),
                   !.evidence = Bounded(@, raised[n].event),
                   !.severity = raised[n].rule.severity]

\* Incident::add_signal
AddSignal(incident, n) ==
  LET score == SaturatingAdd(incident.score, raised[n].rule.weight) IN
    [incident EXCEPT !.score = score,
                     !.signals = Append(@, n),
                     !.evidence = Bounded(@, raised[n].event),
                     !.severity = SeverityFor(score, @)]

Listed_OpenOnly(target) == target \in DOMAIN active /\ active[target].status = "open"

\* The target's listed incident takes further signals.
Listed(target) == target \in DOMAIN active /\ active[target].status \in Live

\* The incident an add_signal changes, or the new one.
Recorded(target, n) ==
  IF Listed(target) THEN AddSignal(active[target], n) ELSE NewIncident(Len(history) + 1, n)

With(map, key, value) ==
  [k \in DOMAIN map \cup {key} |-> IF k = key THEN value ELSE map[k]]

Put(incident) ==
  /\ history' = [i \in DOMAIN history \cup {incident.id} |->
                   IF i = incident.id THEN incident ELSE history[i]]
  /\ announced' = [i \in DOMAIN announced \cup {incident.id} |->
                     IF i = incident.id THEN incident ELSE announced[i]]

RecordSignal_HistoryLater ==
  /\ worker.step = "record"
  /\ LET n        == Len(raised)
         incident == Recorded(raised[n].target, n) IN
       /\ active' = With(active, raised[n].target, incident)
       /\ IF Listed(raised[n].target)
            THEN UNCHANGED <<history, announced>> ELSE Put(incident)
  /\ worker' = After(worker.event, worker.rule)
  /\ UNCHANGED <<events, raised, failed>>

\* process_signal, under the two locks: the incident is changed in both places
\* and broadcast.
RecordSignal ==
  /\ worker.step = "record"
  /\ LET n        == Len(raised)
         incident == Recorded(raised[n].target, n) IN
       /\ active' = With(active, raised[n].target, incident)
       /\ Put(incident)
  /\ worker' = After(worker.event, worker.rule)
  /\ UNCHANGED <<events, raised, failed>>

\* update_incident_status: from any status to any other.
UpdateStatus(id, status) ==
  /\ id \in DOMAIN history
  /\ Put([history[id] EXCEPT !.status = status])
  /\ active' = [t \in DOMAIN active |->
                  IF active[t].id = id THEN [active[t] EXCEPT !.status = status] ELSE active[t]]
  /\ UNCHANGED <<worker, events, raised, failed>>

Next ==
  \/ \E e \in Event : TakeEvent(e)
  \/ Quiet \/ HitFails \/ Fires \/ AddRisk \/ RiskFails \/ RecordSignal
  \/ \E id \in DOMAIN history, status \in Status : UpdateStatus(id, status)

Spec == Init /\ [][Next]_vars

-----------------------------------------------------------------------------
IsIncident(x) ==
  /\ x.severity \in Severity /\ x.status \in Status /\ x.score \in 0..MaxScore
  /\ Len(x.evidence) \in 1..MaxEvidence
  /\ \A i \in DOMAIN x.signals : x.signals[i] \in DOMAIN raised

TypeOK ==
  /\ worker = Idle \/ (worker.step \in {"rule", "risk", "record"} /\ worker.rule \in 0..Len(Rules))
  /\ failed \subseteq DOMAIN raised
  /\ \A i \in DOMAIN history : IsIncident(history[i]) /\ history[i].id = i
  /\ \A t \in DOMAIN active : IsIncident(active[t]) /\ active[t].target = t

\* The two copies of an incident and its last broadcast never disagree, whatever
\* analysts do between two signals (evaluator.rs:118-131, 186-213).  The time of
\* the last update, which a change of status reads from the clock once for each
\* copy, is not a field here.
CopiesAgree ==
  /\ \A t \in DOMAIN active : active[t] = history[active[t].id]
  /\ announced = history

\* Every signal is evidence exactly once: it is in one incident, of its own
\* target, unless the hot state failed on it or it is still under way.
EachSignalOnce ==
  \A n \in DOMAIN raised :
    IF n \in failed \/ (n = Len(raised) /\ worker # Idle /\ worker.step \in {"risk", "record"})
      THEN \A i \in DOMAIN history : \A j \in DOMAIN history[i].signals : history[i].signals[j] # n
      ELSE \E i \in DOMAIN history :
             /\ history[i].target = raised[n].target
             /\ \A h \in DOMAIN history :
                  Cardinality({j \in DOMAIN history[h].signals : history[h].signals[j] = n})
                    = IF h = i THEN 1 ELSE 0

\* The evidence of an incident is that of its latest signals, in order
\* (incident.rs:75: "Keep recent evidence bounded to last 50 events").
EvidenceIsLatest ==
  \A i \in DOMAIN history :
    LET x == history[i]
        n == Len(x.signals)
        m == Len(x.evidence)
    IN  /\ m = IF n < MaxEvidence THEN n ELSE MaxEvidence
        /\ \A j \in 1..m : x.evidence[j] = raised[x.signals[n - m + j]].event

\* A target gets a second incident only when its latest one is closed
\* (evaluator.rs:118-119, 145).
NewOnlyAfterClosed ==
  [][\A i \in DOMAIN history' \ DOMAIN history :
        \A h \in DOMAIN history :
          /\ history[h].target = history'[i].target
          /\ \A g \in DOMAIN history : history[g].target = history'[i].target => g <= h
          => history[h].status \notin Live]_vars

\* The severity of an incident may fall, though incident.rs:83 has it "escalate",
\* but only with its second signal: from then on it follows the score, which
\* only grows (incident.rs:83-90).
SeverityFallsOnlyOnce ==
  [][\A i \in DOMAIN history :
        Rank(history'[i].severity) < Rank(history[i].severity) =>
          Len(history[i].signals) = 1]_vars
=============================================================================
