-------------------------- MODULE DetectionWindows --------------------------
(***************************************************************************)
(* The rules that count (crates/engine/src/rules/mod.rs) over the          *)
(* in-memory hot state: one worker evaluates one event after another, and  *)
(* the hot state does not fail, so that the evaluation of an event is one  *)
(* step.  Incidents has what happens when it fails, and what a signal      *)
(* does.                                                                   *)
(*                                                                         *)
(* Besides the traits of DetectionRules an event has a time of its own     *)
(* (at), the address it came from and the route it asked for.              *)
(***************************************************************************)
EXTENDS MemoryHotState, DetectionRules

CONSTANTS
  EventKind,          \* events but for their time
  Threshold,          \* rule name -> threshold, count_threshold
  DistinctThreshold,  \* distinct_threshold of the enumeration rule
  MaxEvaluated        \* bound on the events evaluated

VARIABLE evaluated  \* history: [kind, at, now, signals]

windowVars == <<vars, evaluated>>

Rules == {DefaultRules[i] : i \in DOMAIN DefaultRules}
Counting == {rule \in Rules : rule.counts}

\* Events without an address share one.
Source(kind) == IF kind.ip = None THEN "unknown" ELSE kind.ip

\* bf:ip:, enum_404:ip:, unauth:ip:, scrape:ip:
HitKey(rule, kind) == <<rule.name, Source(kind)>>

\* enum_paths:ip:
PathKey(kind) == <<"paths", Source(kind)>>

\* The keys a rule records the event under, of the windows and of the sets.
HitKeys(kind) == {HitKey(rule, kind) : rule \in {r \in Counting : Concerns(r, kind)}}
PathKeys(kind) == IF kind.status = 404 THEN {PathKey(kind)} ELSE {}

\* Every key the rules make of an event is one of the hot state, and every route an item.
ASSUME WindowsAssumption ==
  /\ \A rule \in Counting : Threshold[rule.name] \in Nat \ {0}
  /\ DistinctThreshold \in Nat \ {0} /\ MaxEvaluated \in Nat
  /\ \A kind \in EventKind : /\ PathKey(kind) \in Key /\ kind.route \in Item
                             /\ \A rule \in Counting : HitKey(rule, kind) \in Key

\* record_hit, for each rule the event concerns; the enumeration rule also records the
\* route, under the wall clock.
RecordHits(kind, at) ==
  /\ windows' = [k \in Key |->
                   IF k \in HitKeys(kind)
                     THEN LET n == Drop(windows[k], at - Window) IN
                            Append(SubSeq(windows[k], n + 1, Len(windows[k])), at)
                     ELSE windows[k]]
  /\ hits' = [k \in Key |-> IF k \in HitKeys(kind) THEN Append(hits[k], at) ELSE hits[k]]

RecordPath(kind) ==
  LET Live(k) == {i \in DOMAIN distinct[k] : distinct[k][i] > clock}
      Set(map, item, value) == [i \in DOMAIN map \cup {item} |-> IF i = item THEN value ELSE map[i]]
  IN  /\ distinct' = [k \in Key |->
                        IF k \in PathKeys(kind)
                          THEN Set(Restrict(distinct[k], Live(k)), kind.route, clock + ItemTtl)
                          ELSE distinct[k]]
      /\ seenAt' = [k \in Key |->
                      IF k \in PathKeys(kind) THEN Set(seenAt[k], kind.route, clock) ELSE seenAt[k]]

\* What a rule finds once it has recorded the event.
Fires_AboveThreshold(rule, kind) ==
  /\ Concerns(rule, kind)
  /\ rule.counts =>
       \/ Len(windows'[HitKey(rule, kind)]) > Threshold[rule.name]
       \/ rule = ApiEnumeration /\ Cardinality(DOMAIN distinct'[PathKey(kind)]) > DistinctThreshold

Fires(rule, kind) ==
  /\ Concerns(rule, kind)
  /\ rule.counts =>
       \/ Len(windows'[HitKey(rule, kind)]) >= Threshold[rule.name]
       \/ rule = ApiEnumeration /\ Cardinality(DOMAIN distinct'[PathKey(kind)]) >= DistinctThreshold

\* The risk of the event's target grows by the weight of each signal.
ChargeRisk(target, rules) ==
  LET sum == Sum([i \in DOMAIN DefaultRules |->
                    IF DefaultRules[i] \in rules THEN DefaultRules[i].weight ELSE 0],
                 Len(DefaultRules))
  IN  IF rules = {} THEN UNCHANGED <<risks, added>>
      ELSE /\ risks' = [e \in DOMAIN risks \cup {target} |->
                          IF e = target THEN [score |-> SaturatingAdd(EntityRisk(e), sum),
                                              expiry |-> clock + RiskTtl]
                          ELSE risks[e]]
           /\ added' = [added EXCEPT ![target] = Append(@, [points |-> sum, at |-> clock])]

\* evaluate_event
Evaluate(kind, at) ==
  /\ Len(evaluated) < MaxEvaluated
  /\ \A i \in DOMAIN evaluated : at >= evaluated[i].at - Lateness
  /\ RecordHits(kind, at)
  /\ RecordPath(kind)
  /\ LET signals == {rule \in Rules : Fires(rule, kind)} IN
       /\ ChargeRisk(TargetEntity(kind), signals)
       /\ evaluated' = Append(evaluated, [kind |-> kind, at |-> at, now |-> clock,
                                          signals |-> signals])
  /\ UNCHANGED clock

WindowsInit == Init /\ evaluated = <<>>

WindowsNext ==
  \/ Tick /\ UNCHANGED evaluated
  \/ \E kind \in EventKind, at \in Timestamp : Evaluate(kind, at)

WindowsSpec == WindowsInit /\ [][WindowsNext]_windowVars

-----------------------------------------------------------------------------
\* The events before n, and n itself, that rule counts for the source of n and that
\* are from times lo to hi.
Counted(rule, n, lo, hi) ==
  {i \in 1..n :
     /\ Concerns(rule, evaluated[i].kind) /\ Source(evaluated[i].kind) = Source(evaluated[n].kind)
     /\ evaluated[i].at \in lo..hi}

\* The routes not found that the source of n asked for in the set's TTL.
Routes(n) ==
  {evaluated[i].kind.route :
     i \in {i \in 1..n : /\ evaluated[i].kind.status = 404
                         /\ Source(evaluated[i].kind) = Source(evaluated[n].kind)
                         /\ evaluated[n].now < evaluated[i].now + ItemTtl}}

\* A signal of a counting rule rests on enough evidence of its own rule and source, and
\* none of it is outside the window by more than events may be late; and wherever there
\* is enough within the window shortened by that, there is a signal: bursts of other
\* rules and other addresses neither add to it nor hide it (rules/mod.rs:83-107,
\* :168-203, :259-281, :349-371, evaluator.rs:64-76).
SignalsFollowBursts ==
  \A n \in DOMAIN evaluated : \A rule \in Counting :
    LET at == evaluated[n].at
        fired == rule \in evaluated[n].signals
        scanned == rule = ApiEnumeration /\ Cardinality(Routes(n)) >= DistinctThreshold
    IN  Concerns(rule, evaluated[n].kind) =>
          /\ fired => scanned \/ Cardinality(Counted(rule, n, at - Window - Lateness, at + Lateness))
                                   >= Threshold[rule.name]
          /\ scanned \/ Cardinality(Counted(rule, n, at - Window + Lateness, at)) >= Threshold[rule.name]
               => fired
=============================================================================
