-------------------------- MODULE IncidentsProofs --------------------------
(***************************************************************************)
(* Proofs about Incidents, for every set of events, every list of rules    *)
(* none of which weighs less than the first threshold of severity, every   *)
(* bound on evidence and every interleaving of the worker with analysts    *)
(* and failures of the hot state.                                          *)
(***************************************************************************)
EXTENDS Incidents, SequenceTheorems, FiniteSetTheorems, TLAPS

Target == {TargetEntity(e) : e \in Event}
Rule == {AttackChain} \cup {Rules[i] : i \in DOMAIN Rules}
Signal == [rule : Rule, event : Nat, target : Target]
Incident ==
  [id : Nat \ {0}, target : Target, severity : Severity, status : Status,
   score : 25..MaxScore, signals : Seq(Nat \ {0}), evidence : Seq(Nat)]

Underway == worker.step \in {"risk", "record"}

Shape ==
  /\ worker \in [step : {"idle"}]
             \cup [step : {"rule", "risk", "record"}, event : Event, rule : 0..Len(Rules)]
  /\ events \in Nat
  /\ raised \in Seq(Signal)
  /\ failed \subseteq DOMAIN raised
  /\ Underway => Len(raised) > 0 /\ Len(raised) \notin failed
  /\ history \in Seq(Incident)

\* Ids are places in the history; the listed incident of a target is the copy of
\* the latest one that was ever opened for it.
Copies ==
  /\ \A i \in DOMAIN history : history[i].id = i
  /\ announced = history
  /\ \A t \in DOMAIN active :
       active[t].id \in DOMAIN history /\ active[t] = history[active[t].id] /\ active[t].target = t
  /\ \A i \in DOMAIN history :
       history[i].target \in DOMAIN active /\ i <= active[history[i].target].id

\* Evidence v is that of the latest of signals s.
Latest(s, v) ==
  /\ Len(v) = IF Len(s) < MaxEvidence THEN Len(s) ELSE MaxEvidence
  /\ \A j \in 1..Len(v) : v[j] = raised[s[Len(s) - Len(v) + j]].event

\* An incident has signals that were raised, and from the second on its severity
\* follows its score.
Founded(x) ==
  /\ Len(x.signals) > 0
  /\ \A j \in DOMAIN x.signals : x.signals[j] \in DOMAIN raised
  /\ Latest(x.signals, x.evidence)
  /\ Len(x.signals) > 1 => x.severity = SeverityFor(x.score, x.severity)

AllFounded == \A i \in DOMAIN history : Founded(history[i])

\* Signal n is the j-th of incident i, and of no other in any place.
PlacedAt(n, i, j) ==
  /\ history[i].target = raised[n].target
  /\ \A h \in DOMAIN history : \A k \in DOMAIN history[h].signals :
       (history[h].signals[k] = n) <=> (h = i /\ k = j)

Outstanding(n) == n \in failed \/ (n = Len(raised) /\ Underway)

Placed ==
  \A n \in DOMAIN raised :
    IF Outstanding(n)
      THEN \A h \in DOMAIN history : \A k \in DOMAIN history[h].signals : history[h].signals[k] # n
      ELSE \E i \in DOMAIN history : \E j \in DOMAIN history[i].signals : PlacedAt(n, i, j)

IInv == Shape /\ Copies /\ AllFounded /\ Placed

-----------------------------------------------------------------------------
(* What the helpers return.                                                *)

PutAt(s, i, y) == [j \in DOMAIN s \cup {i} |-> IF j = i THEN y ELSE s[j]]

\* An incident is put in its place or at the end.
LEMMA PutInPlace ==
  ASSUME NEW s \in Seq(Incident), NEW y \in Incident, NEW i \in 1..(Len(s) + 1)
  PROVE  /\ PutAt(s, i, y) \in Seq(Incident)
         /\ DOMAIN PutAt(s, i, y) = DOMAIN s \cup {i}
         /\ PutAt(s, i, y)[i] = y
         /\ \A j \in DOMAIN s : j # i => PutAt(s, i, y)[j] = s[j]
<1> DEFINE t == [j \in DOMAIN s \cup {i} |-> IF j = i THEN y ELSE s[j]]
           n == IF i = Len(s) + 1 THEN i ELSE Len(s)
<1>1. DOMAIN s = 1..Len(s) /\ Len(s) \in Nat /\ \A j \in 1..Len(s) : s[j] \in Incident
  BY LenProperties, ElementOfSeq
<1>2. DOMAIN s \cup {i} = 1..n /\ n \in Nat
  BY <1>1
<1>3. t \in [1..n -> Incident]
  BY <1>1, <1>2
<1>4. \A m \in Nat : [1..m -> Incident] \subseteq Seq(Incident)
  BY SeqDef
<1>5. t \in Seq(Incident)
  <2> HIDE DEF t, n
  <2> QED BY <1>2, <1>3, <1>4
<1> QED BY <1>5 DEF PutAt

LEMMA RulesWeigh == \A r \in Rule : r.weight \in 25..MaxScore /\ r.severity \in Severity
BY IncidentAssumption DEF Rule, AttackChain, Severity

LEMMA IncidentFields ==
  ASSUME NEW a \in Incident
  PROVE  /\ a.id \in Nat \ {0} /\ a.target \in Target /\ a.score \in 25..MaxScore
         /\ a.severity \in Severity /\ a.status \in Status
         /\ a.signals \in Seq(Nat \ {0}) /\ a.evidence \in Seq(Nat)
         /\ Len(a.signals) \in Nat /\ DOMAIN a.signals = 1..Len(a.signals)
         /\ Len(a.evidence) \in Nat
<1>1. /\ a.id \in Nat \ {0} /\ a.target \in Target /\ a.score \in 25..MaxScore
      /\ a.severity \in Severity /\ a.status \in Status
      /\ a.signals \in Seq(Nat \ {0}) /\ a.evidence \in Seq(Nat)
  BY DEF Incident
<1> QED BY <1>1, LenProperties

LEMMA AddIsBounded ==
  ASSUME NEW x \in 25..MaxScore, NEW w \in 25..MaxScore
  PROVE  SaturatingAdd(x, w) \in 25..MaxScore /\ SaturatingAdd(x, w) >= x
BY IncidentAssumption DEF SaturatingAdd

\* From the first threshold on, severity is a function of the score alone, and a
\* monotonic one.
LEMMA SeverityGrows ==
  ASSUME NEW x \in 25..MaxScore, NEW y \in 25..MaxScore, x <= y, NEW a, NEW b
  PROVE  /\ SeverityFor(x, a) \in Severity
         /\ SeverityFor(x, a) = SeverityFor(x, b)
         /\ Rank(SeverityFor(x, a)) \in Nat /\ Rank(SeverityFor(y, b)) \in Nat
         /\ Rank(SeverityFor(x, a)) <= Rank(SeverityFor(y, b))
BY IncidentAssumption DEF SeverityFor, Severity, Rank

LEMMA BoundedEvidence ==
  ASSUME NEW s \in Seq(Nat), NEW v \in Nat
  PROVE  LET b == Bounded(s, v) IN
           /\ b \in Seq(Nat)
           /\ Len(b) = IF Len(s) >= MaxEvidence THEN Len(s) ELSE Len(s) + 1
           /\ b[Len(b)] = v
           /\ \A j \in 1..(Len(b) - 1) :
                b[j] = IF Len(s) >= MaxEvidence THEN s[j + 1] ELSE s[j]
<1>1. CASE Len(s) >= MaxEvidence
  <2>1. s # <<>>
    BY <1>1, IncidentAssumption
  <2>2. /\ Tail(s) \in Seq(Nat) /\ Len(Tail(s)) = Len(s) - 1
        /\ \A j \in 1..Len(Tail(s)) : Tail(s)[j] = s[j + 1]
    BY <2>1, HeadTailProperties
  <2>3. Bounded(s, v) = Append(Tail(s), v)
    BY <1>1 DEF Bounded
  <2> QED BY <1>1, <2>2, <2>3, AppendProperties
<1>2. CASE ~(Len(s) >= MaxEvidence)
  <2>1. Bounded(s, v) = Append(s, v)
    BY <1>2 DEF Bounded
  <2> QED BY <1>2, <2>1, AppendProperties
<1> QED BY <1>1, <1>2
LEMMA LatestGrows ==
  ASSUME NEW s \in Seq(Nat \ {0}), NEW v \in Seq(Nat), Latest(s, v),
         NEW n \in Nat \ {0}, raised[n].event \in Nat
  PROVE  Latest(Append(s, n), Bounded(v, raised[n].event))
<1> DEFINE k == Len(s)
           m == Len(v)
           c == Append(s, n)
           b == Bounded(v, raised[n].event)
<1>1. /\ m = IF k < MaxEvidence THEN k ELSE MaxEvidence
      /\ \A j \in 1..m : v[j] = raised[s[k - m + j]].event
      /\ k \in Nat /\ m \in Nat
  BY LenProperties DEF Latest
<1>2. /\ Len(c) = k + 1 /\ c[k + 1] = n
      /\ \A j \in 1..k : c[j] = s[j]
  BY AppendProperties
<1>3. /\ Len(b) = IF m >= MaxEvidence THEN m ELSE m + 1
      /\ b[Len(b)] = raised[n].event
      /\ \A j \in 1..(Len(b) - 1) : b[j] = IF m >= MaxEvidence THEN v[j + 1] ELSE v[j]
  BY BoundedEvidence
<1> HIDE DEF k, m, c, b
<1>4. Len(b) = IF k + 1 < MaxEvidence THEN k + 1 ELSE MaxEvidence
  BY <1>1, <1>3, IncidentAssumption
<1>5. ASSUME NEW j \in 1..Len(b)
      PROVE  b[j] = raised[c[k + 1 - Len(b) + j]].event
  <2>1. CASE j = Len(b)
    <3>1. k + 1 - Len(b) + j = k + 1
      BY <2>1, <1>1
    <3> QED BY <1>2, <1>3, <2>1, <3>1
  <2>2. CASE j # Len(b) /\ m >= MaxEvidence
    <3>1. m = MaxEvidence /\ Len(b) = m /\ j \in 1..(m - 1) /\ m <= k
      BY <1>1, <1>3, <2>2, IncidentAssumption
    <3>2. /\ j + 1 \in 1..m /\ k - m + (j + 1) \in 1..k
          /\ k + 1 - Len(b) + j = k - m + (j + 1)
      BY <1>1, <3>1, IncidentAssumption
    <3>3. b[j] = v[j + 1]
      BY <1>3, <2>2, <3>1
    <3>4. v[j + 1] = raised[s[k - m + (j + 1)]].event
      BY <1>1, <3>2
    <3> QED BY <1>2, <3>2, <3>3, <3>4
  <2>3. CASE j # Len(b) /\ ~(m >= MaxEvidence)
    <3>1. m = k /\ Len(b) = k + 1 /\ j \in 1..k
      BY <1>1, <1>3, <2>3, IncidentAssumption
    <3>2. k - m + j = j /\ k + 1 - Len(b) + j = j
      BY <1>1, <3>1
    <3>3. b[j] = v[j]
      BY <1>1, <1>3, <2>3, <3>1
    <3>4. v[j] = raised[s[k - m + j]].event
      BY <1>1, <3>1
    <3>5. c[j] = s[j]
      BY <1>2, <3>1
    <3> QED BY <3>2, <3>3, <3>4, <3>5
  <2> QED BY <2>1, <2>2, <2>3
<1>6. Len(b) = IF Len(c) < MaxEvidence THEN Len(c) ELSE MaxEvidence
  BY <1>2, <1>4
<1>7. \A j \in 1..Len(b) : b[j] = raised[c[Len(c) - Len(b) + j]].event
  <2> SUFFICES ASSUME NEW j \in 1..Len(b) PROVE b[j] = raised[c[Len(c) - Len(b) + j]].event
    OBVIOUS
  <2>1. Len(c) = k + 1
    BY <1>2
  <2>2. Len(c) - Len(b) + j = k + 1 - Len(b) + j
    BY <1>1, <1>4, <2>1, IncidentAssumption
  <2> QED BY <1>5, <2>2
<1>8. Latest(c, b)
  BY <1>6, <1>7 DEF Latest
<1> QED BY <1>8 DEF c, b

-----------------------------------------------------------------------------
(* A signal recorded.                                                      *)

\* x is what recording signal n of target t makes of the target's incident.
Continues(n, t, x) ==
  /\ n \in DOMAIN raised
  /\ x \in Incident
  /\ x.id \in 1..(Len(history) + 1)
  /\ x.target = t
  /\ Founded(x)
  /\ x.id \in DOMAIN history =>
       /\ Listed(t)
       /\ history[x.id] = active[t]
       /\ x.signals = Append(active[t].signals, n)
       /\ x.score >= active[t].score
  /\ x.id \notin DOMAIN history => ~Listed(t) /\ x.signals = <<n>>
  /\ Listed(t) => x.id = active[t].id /\ x.id \in DOMAIN history

LEMMA RecordedIsFounded ==
  ASSUME IInv, worker.step = "record"
  PROVE  Continues(Len(raised), raised[Len(raised)].target,
                   Recorded(raised[Len(raised)].target, Len(raised)))
<1>0. PICK n, t, x : n = Len(raised) /\ t = raised[n].target /\ x = Recorded(t, n)
  OBVIOUS
<1> SUFFICES Continues(n, t, x)
  BY <1>0
<1> DEFINE signal == raised[n]
<1>1. /\ n \in DOMAIN raised /\ n \in Nat \ {0}
      /\ signal \in Signal
      /\ signal.rule.weight \in 25..MaxScore /\ signal.rule.severity \in Severity
  <2>1. Len(raised) > 0 /\ raised \in Seq(Signal)
    BY DEF IInv, Shape, Underway
  <2>2. n \in 1..Len(raised) /\ n \in Nat \ {0} /\ DOMAIN raised = 1..Len(raised)
    BY <1>0, <2>1, LenProperties
  <2>3. signal \in Signal
    BY <2>1, <2>2, ElementOfSeq
  <2>4. signal.rule \in Rule
    BY <2>3 DEF Signal
  <2> QED BY <2>2, <2>3, <2>4, RulesWeigh
<1>2. Len(history) \in Nat /\ DOMAIN history = 1..Len(history)
  BY DEF IInv, Shape
<1>3. CASE Listed(t)
  <2> DEFINE a == active[t]
             y == AddSignal(a, n)
  <2>1. /\ a \in Incident /\ a.id \in DOMAIN history /\ history[a.id] = a /\ a.target = t
        /\ Founded(a)
    <3>1. t \in DOMAIN active
      BY <1>3 DEF Listed
    <3> QED BY <3>1 DEF IInv, Copies, Shape, AllFounded
  <2>2. x = y
    BY <1>0, <1>3 DEF Recorded
  <2>3. /\ y.id = a.id /\ y.target = t /\ y.status = a.status
        /\ y.score = SaturatingAdd(a.score, signal.rule.weight)
        /\ y.signals = Append(a.signals, n)
        /\ y.evidence = Bounded(a.evidence, signal.event)
        /\ y.severity = SeverityFor(y.score, a.severity)
    BY <2>1 DEF AddSignal, Incident
  <2>4. /\ y.signals \in Seq(Nat \ {0})
        /\ Len(y.signals) = Len(a.signals) + 1
        /\ Len(a.signals) \in Nat
        /\ y.signals[Len(a.signals) + 1] = n
        /\ \A j \in 1..Len(a.signals) : y.signals[j] = a.signals[j]
    BY <1>1, <2>1, <2>3 DEF Incident
  <2>5. y.score \in 25..MaxScore /\ y.score >= a.score
    <3>1. a.score \in 25..MaxScore /\ signal.rule.weight \in 25..MaxScore
      BY <1>1, <2>1, IncidentFields
    <3> QED BY <2>3, <3>1, AddIsBounded
  <2>6. y.severity \in Severity /\ y.severity = SeverityFor(y.score, y.severity)
    BY <2>3, <2>5, SeverityGrows
  <2>7. y.evidence \in Seq(Nat)
    BY <1>1, <2>1, <2>3, BoundedEvidence DEF Incident, Signal
  <2>8. y \in Incident
    <3>1. y = [a EXCEPT !.score = y.score, !.signals = y.signals, !.evidence = y.evidence,
                        !.severity = y.severity]
      BY <2>1, <2>3 DEF AddSignal, Incident
    <3> HIDE DEF y
    <3> QED BY <2>1, <2>4, <2>5, <2>6, <2>7, <3>1 DEF Incident
  <2>9. Latest(y.signals, y.evidence)
    <3>1. Latest(a.signals, a.evidence)
      BY <2>1 DEF Founded
    <3>2. signal.event \in Nat
      BY <1>1 DEF Signal
    <3> QED BY <1>1, <2>1, <2>3, <3>1, <3>2, IncidentFields, LatestGrows
  <2>10. \A j \in DOMAIN y.signals : y.signals[j] \in DOMAIN raised
    <3>1. \A j \in 1..Len(a.signals) : a.signals[j] \in DOMAIN raised
      BY <2>1, IncidentFields DEF Founded
    <3>2. DOMAIN y.signals = 1..(Len(a.signals) + 1)
      BY <2>4
    <3> SUFFICES ASSUME NEW j \in 1..(Len(a.signals) + 1) PROVE y.signals[j] \in DOMAIN raised
      BY <3>2
    <3>3. CASE j = Len(a.signals) + 1
      BY <1>1, <2>4, <3>3
    <3>4. CASE j \in 1..Len(a.signals)
      BY <2>4, <3>1, <3>4
    <3>5. Len(a.signals) \in Nat
      BY <2>4
    <3> QED BY <3>3, <3>4, <3>5
  <2>11. Founded(y)
    <3>1. Len(y.signals) > 0
      BY <2>4
    <3> HIDE DEF y
    <3> QED BY <2>6, <2>9, <2>10, <3>1 DEF Founded
  <2> HIDE DEF y
  <2> QED BY SMTT(30), <1>1, <1>2, <1>3, <2>1, <2>2, <2>3, <2>5, <2>8, <2>11, IncidentFields DEF Continues
<1>4. CASE ~Listed(t)
  <2> DEFINE y == NewIncident(Len(history) + 1, n)
  <2>1. x = y
    BY <1>0, <1>4 DEF Recorded
  <2>2. /\ y.signals = <<n>> /\ Len(y.signals) = 1 /\ y.signals[1] = n /\ DOMAIN y.signals = {1}
        /\ y.evidence = <<signal.event>> /\ Len(y.evidence) = 1 /\ y.evidence[1] = signal.event
        /\ y.id = Len(history) + 1 /\ y.target = t
    BY <1>0 DEF NewIncident
  <2>3. y \in Incident
    BY <1>1, <1>2 DEF NewIncident, Incident, Signal, Status
  <2>4. Latest(y.signals, y.evidence)
    <3> DEFINE s == y.signals
               v == y.evidence
    <3>1. Len(s) = 1 /\ Len(v) = 1 /\ s[1] = n /\ v[1] = signal.event
      BY <2>2
    <3> HIDE DEF s, v
    <3>2. \A j \in 1..Len(v) : j = 1 /\ Len(s) - Len(v) + j = 1
      BY <3>1
    <3>3. \A j \in 1..Len(v) : v[j] = raised[s[Len(s) - Len(v) + j]].event
      BY <3>1, <3>2
    <3>4. Latest(s, v)
      BY <3>1, <3>3, IncidentAssumption DEF Latest
    <3> QED BY <3>4 DEF s, v
  <2>5. Founded(y)
    <3> HIDE DEF y
    <3>1. Len(y.signals) = 1 /\ DOMAIN y.signals = {1} /\ y.signals[1] = n
      BY <2>2
    <3> QED BY <1>1, <2>4, <3>1 DEF Founded
  <2> HIDE DEF y
  <2> QED BY <1>1, <1>2, <1>4, <2>1, <2>2, <2>3, <2>5 DEF Continues
<1> QED BY <1>3, <1>4
-----------------------------------------------------------------------------
(* The invariant.                                                          *)

LEMMA IncidentInit == Init => IInv
<1> SUFFICES ASSUME Init PROVE IInv
  OBVIOUS
<1> USE DEF Init
<1>1. Shape
  BY DEF Shape, Idle, Underway
<1>2. Copies
  BY DEF Copies
<1>3. AllFounded
  BY DEF AllFounded
<1>4. Placed
  BY DEF Placed
<1> QED BY <1>1, <1>2, <1>3, <1>4 DEF IInv

\* Nothing but the worker's place changes, and it has no signal in hand before or after.
LEMMA WorkerMoves ==
  ASSUME IInv, UNCHANGED <<raised, failed, book>>, events' \in Nat,
         ~Underway, ~Underway',
         worker' \in [step : {"idle"}]
                 \cup [step : {"rule", "risk", "record"}, event : Event, rule : 0..Len(Rules)]
  PROVE  IInv'
<1> USE DEF IInv, book
<1>1. Shape'
  BY DEF Shape
<1>2. Copies'
  BY DEF Copies
<1>3. AllFounded'
  BY DEF AllFounded, Founded, Latest
<1>4. Placed'
  BY DEF Placed, Outstanding, PlacedAt
<1> QED BY <1>1, <1>2, <1>3, <1>4

LEMMA AfterIsTyped ==
  ASSUME NEW e \in Event, NEW i \in 0..Len(Rules)
  PROVE  /\ After(e, i) \in [step : {"idle"}]
               \cup [step : {"rule", "risk", "record"}, event : Event, rule : 0..Len(Rules)]
         /\ After(e, i).step \in {"idle", "rule"}
         /\ AfterError(e, i) \in [step : {"idle"}]
               \cup [step : {"rule", "risk", "record"}, event : Event, rule : 0..Len(Rules)]
         /\ AfterError(e, i).step \in {"idle", "rule"}
BY IncidentAssumption DEF After, AfterError, Idle

LEMMA FiresKeeps == IInv /\ Fires => IInv'
<1> SUFFICES ASSUME IInv, Fires PROVE IInv'
  OBVIOUS
<1> DEFINE r == [rule |-> RuleAt(worker.rule), event |-> events,
                 target |-> TargetEntity(worker.event)]
<1>1. /\ worker \in [step : {"rule", "risk", "record"}, event : Event, rule : 0..Len(Rules)]
      /\ worker' = [worker EXCEPT !.step = "risk"]
      /\ ~Underway /\ Underway'
  BY DEF IInv, Shape, Fires, Underway
<1>2. r \in Signal
  BY <1>1, IncidentAssumption DEF IInv, Shape, Signal, Rule, RuleAt, Target
<1>3. /\ raised' = Append(raised, r) /\ raised' \in Seq(Signal)
      /\ raised \in Seq(Signal) /\ Len(raised) \in Nat /\ Len(raised') = Len(raised) + 1
      /\ DOMAIN raised = 1..Len(raised) /\ DOMAIN raised' = 1..(Len(raised) + 1)
      /\ \A n \in DOMAIN raised : raised'[n] = raised[n]
  <2>1. raised' = Append(raised, r) /\ raised \in Seq(Signal)
    BY DEF Fires, IInv, Shape
  <2> HIDE DEF r
  <2> QED BY <1>2, <2>1, AppendProperties, LenProperties
<1>4. UNCHANGED <<events, failed, book>>
  BY DEF Fires
<1>5. Shape'
  <2>1. worker' \in [step : {"rule", "risk", "record"}, event : Event, rule : 0..Len(Rules)]
    BY <1>1
  <2>2. failed' \subseteq DOMAIN raised' /\ Len(raised') > 0 /\ Len(raised') \notin failed'
    BY <1>3, <1>4 DEF IInv, Shape
  <2> QED BY <1>3, <1>4, <2>1, <2>2 DEF IInv, Shape, book
<1>6. Copies'
  BY <1>4 DEF IInv, Copies, book
<1>7. AllFounded'
  <2> SUFFICES ASSUME NEW i \in DOMAIN history PROVE Founded(history[i])'
    BY <1>4 DEF AllFounded, book
  <2> DEFINE x == history[i]
  <2>1. Founded(x) /\ x \in Incident
    BY DEF IInv, AllFounded, Shape
  <2>2. /\ Len(x.signals) \in Nat /\ DOMAIN x.signals = 1..Len(x.signals)
        /\ Len(x.evidence) \in Nat
    BY <2>1, IncidentFields
  <2> DEFINE s == x.signals
             v == x.evidence
  <2>3. \A j \in DOMAIN s : raised'[s[j]] = raised[s[j]]
    BY <1>3, <2>1 DEF Founded
  <2>4. Latest(s, v)
    BY <2>1 DEF Founded
  <2>5. Latest(s, v)'
    <3> HIDE DEF x
    <3>1. history' = history
      BY <1>4 DEF book
    <3>2. ASSUME NEW j \in 1..Len(v)
          PROVE  v[j] = raised'[s[Len(s) - Len(v) + j]].event
      <4>1. Len(v) <= Len(s)
        BY <2>2, <2>4, IncidentAssumption DEF Latest
      <4>2. /\ Len(s) \in Nat /\ Len(v) \in Nat
            /\ DOMAIN s = 1..Len(s)
        BY <2>2
      <4>3. Len(s) - Len(v) + j \in DOMAIN s
        <5> HIDE DEF s, v
        <5> QED BY <4>1, <4>2
      <4> QED BY <2>3, <2>4, <4>3 DEF Latest
    <3>3. Len(v) = IF Len(s) < MaxEvidence THEN Len(s) ELSE MaxEvidence
      BY <2>4 DEF Latest
    <3>4. x' = x
      BY <3>1 DEF x
    <3> QED BY <3>2, <3>3, <3>4 DEF Latest
  <2>6. history' = history
    BY <1>4 DEF book
  <2> QED BY <1>3, <2>1, <2>5, <2>6 DEF Founded
<1>8. Placed'
  <2>1. history' = history /\ failed' = failed
    BY <1>4 DEF book
  <2>2. \A n \in DOMAIN raised : Outstanding(n)' <=> Outstanding(n)
    <3> SUFFICES ASSUME NEW n \in 1..Len(raised) PROVE Outstanding(n)' <=> Outstanding(n)
      BY <1>3
    <3>1. n # Len(raised')
      BY <1>3
    <3> QED BY <1>1, <2>1, <3>1 DEF Outstanding
  <2>3. \A n : n = Len(raised) + 1 => Outstanding(n)'
    BY <1>1, <1>3 DEF Outstanding
  <2>4. \A h \in DOMAIN history : \A k \in DOMAIN history[h].signals :
          history[h].signals[k] # Len(raised) + 1
    BY <1>3 DEF IInv, AllFounded, Founded
  <2> SUFFICES ASSUME NEW n \in DOMAIN raised'
               PROVE  IF Outstanding(n)'
                        THEN \A h \in DOMAIN history : \A k \in DOMAIN history[h].signals :
                               history[h].signals[k] # n
                        ELSE \E i \in DOMAIN history : \E j \in DOMAIN history[i].signals :
                               PlacedAt(n, i, j)'
    BY <2>1 DEF Placed
  <2>5. CASE n = Len(raised) + 1
    BY <2>3, <2>4, <2>5
  <2>6. CASE n \in DOMAIN raised
    <3>1. \A i \in DOMAIN history : \A j \in DOMAIN history[i].signals :
            PlacedAt(n, i, j)' <=> PlacedAt(n, i, j)
      BY <1>3, <2>1, <2>6 DEF PlacedAt
    <3> QED BY <2>2, <2>6, <3>1 DEF IInv, Placed
  <2> QED BY <1>3, <2>5, <2>6
<1> QED BY <1>5, <1>6, <1>7, <1>8 DEF IInv

LEMMA RiskFailsKeeps == IInv /\ RiskFails => IInv'
<1> SUFFICES ASSUME IInv, RiskFails PROVE IInv'
  OBVIOUS
<1>1. /\ worker \in [step : {"rule", "risk", "record"}, event : Event, rule : 0..Len(Rules)]
      /\ worker' \in [step : {"idle"}]
               \cup [step : {"rule", "risk", "record"}, event : Event, rule : 0..Len(Rules)]
      /\ Underway /\ ~Underway'
      /\ failed' = failed \cup {Len(raised)}
      /\ UNCHANGED <<events, raised, history, active, announced>>
  BY AfterIsTyped DEF IInv, Shape, RiskFails, Underway, book
<1>2. Len(raised) \in DOMAIN raised
  BY <1>1, LenProperties DEF IInv, Shape
<1>3. Shape'
  BY <1>1, <1>2 DEF IInv, Shape
<1>4. Copies'
  BY <1>1 DEF IInv, Copies
<1>5. AllFounded'
  BY <1>1 DEF IInv, AllFounded, Founded, Latest
<1>6. \A n \in DOMAIN raised : Outstanding(n)' <=> Outstanding(n)
  BY <1>1 DEF Outstanding
<1>7. Placed'
  BY <1>1, <1>6 DEF IInv, Placed, PlacedAt
<1> QED BY <1>3, <1>4, <1>5, <1>7 DEF IInv

LEMMA RecordSignalKeeps == IInv /\ RecordSignal => IInv'
<1> SUFFICES ASSUME IInv, RecordSignal PROVE IInv'
  OBVIOUS
<1>0. PICK n, t, x : n = Len(raised) /\ t = raised[n].target /\ x = Recorded(t, n)
  OBVIOUS
<1>1. /\ worker.step = "record"
      /\ worker \in [step : {"rule", "risk", "record"}, event : Event, rule : 0..Len(Rules)]
      /\ worker' \in [step : {"idle"}]
               \cup [step : {"rule", "risk", "record"}, event : Event, rule : 0..Len(Rules)]
      /\ Underway /\ ~Underway'
      /\ active' = With(active, t, x)
      /\ Put(x)
      /\ UNCHANGED <<events, raised, failed>>
  BY <1>0, AfterIsTyped DEF IInv, Shape, RecordSignal, Underway
<1>2. /\ n \in DOMAIN raised
      /\ x \in Incident
      /\ x.id \in 1..(Len(history) + 1)
      /\ x.target = t
      /\ Founded(x)
      /\ x.id \in DOMAIN history =>
           /\ Listed(t)
           /\ history[x.id] = active[t]
           /\ x.signals = Append(active[t].signals, n)
      /\ x.id \notin DOMAIN history => ~Listed(t) /\ x.signals = <<n>>
      /\ Listed(t) => x.id = active[t].id /\ x.id \in DOMAIN history
  <2>1. Continues(n, t, x)
    BY <1>0, <1>1, RecordedIsFounded
  <2> QED BY <2>1 DEF Continues
<1>3. /\ Len(history) \in Nat /\ DOMAIN history = 1..Len(history)
      /\ history \in Seq(Incident) /\ announced = history
      /\ \A i \in DOMAIN history : history[i].id = i /\ history[i] \in Incident
  BY LenProperties, ElementOfSeq DEF IInv, Shape, Copies
<1>4. /\ history' \in Seq(Incident)
      /\ DOMAIN history' = DOMAIN history \cup {x.id}
      /\ history'[x.id] = x
      /\ \A i \in DOMAIN history : i # x.id => history'[i] = history[i]
      /\ announced' = history'
  <2>1. history' = PutAt(history, x.id, x) /\ announced' = PutAt(history, x.id, x)
    BY <1>1, <1>3 DEF Put, PutAt
  <2>2. history \in Seq(Incident) /\ x \in Incident /\ x.id \in 1..(Len(history) + 1)
    BY <1>2, <1>3
  <2>3. history' \in Seq(Incident)
    BY <2>1, <2>2, PutInPlace
  <2>4. DOMAIN history' = DOMAIN history \cup {x.id}
    BY <2>1 DEF PutAt
  <2>5. history'[x.id] = x
    BY <2>1, <2>2, PutInPlace
  <2>6. ASSUME NEW i \in DOMAIN history, i # x.id PROVE history'[i] = history[i]
    BY <2>1, <2>2, <2>6, PutInPlace
  <2> QED BY <2>1, <2>3, <2>4, <2>5, <2>6
<1>5. Shape'
  BY <1>1, <1>4 DEF IInv, Shape
<1>6. Copies'
  <2>1. /\ DOMAIN active' = DOMAIN active \cup {t} /\ active'[t] = x
        /\ \A u \in DOMAIN active : u # t => active'[u] = active[u]
    BY <1>1 DEF With
  <2>2. \A i \in DOMAIN history' : history'[i].id = i
    BY <1>3, <1>4
  <2>3. ASSUME NEW u \in DOMAIN active'
        PROVE  /\ active'[u].id \in DOMAIN history' /\ active'[u] = history'[active'[u].id]
               /\ active'[u].target = u
    <3>1. CASE u = t
      BY <1>2, <1>4, <2>1, <3>1
    <3>2. CASE u # t
      <4>1. /\ active'[u] = active[u] /\ active[u].id \in DOMAIN history
            /\ active[u] = history[active[u].id] /\ active[u].target = u
        BY <2>1, <3>2 DEF IInv, Copies
      <4>2. active[u].id # x.id
        BY <1>2, <3>2, <4>1 DEF IInv, Copies, Listed
      <4> QED BY <1>4, <4>1, <4>2
    <3> QED BY <3>1, <3>2
  <2>4. ASSUME NEW i \in DOMAIN history'
        PROVE  history'[i].target \in DOMAIN active' /\ i <= active'[history'[i].target].id
    <3>1. CASE i = x.id
      BY <1>2, <1>4, <2>1, <3>1
    <3>2. CASE i # x.id
      <4>1. /\ i \in DOMAIN history /\ history'[i] = history[i]
            /\ history[i].target \in DOMAIN active /\ i <= active[history[i].target].id
        BY <1>4, <3>2 DEF IInv, Copies
      <4>2. CASE history[i].target # t
        BY <2>1, <4>1, <4>2
      <4>3. CASE history[i].target = t /\ Listed(t)
        BY <1>2, <2>1, <4>1, <4>3
      <4>4. CASE history[i].target = t /\ ~Listed(t)
        <5>1. x.id = Len(history) + 1
          BY <1>2, <1>3, <4>4
        <5> QED BY <1>3, <2>1, <4>1, <4>4, <5>1
      <4> QED BY <4>2, <4>3, <4>4
    <3> QED BY <3>1, <3>2
  <2> QED BY <1>4, <2>2, <2>3, <2>4 DEF Copies
<1>7. AllFounded'
  <2>1. \A z : Founded(z) => Founded(z)'
    BY <1>1 DEF Founded, Latest
  <2>2. ASSUME NEW i \in DOMAIN history' PROVE Founded(history'[i])
    BY <1>2, <1>4 DEF IInv, AllFounded
  <2>3. \A z : Founded(z)' <=> Founded(z)
    BY <1>1 DEF Founded, Latest
  <2> QED BY <2>2, <2>3 DEF AllFounded
<1>8. Placed'
  <2> DEFINE l == Len(x.signals)
  <2>1. /\ l \in Nat \ {0} /\ DOMAIN x.signals = 1..l /\ x.signals[l] = n
        /\ x.id \in DOMAIN history =>
             /\ DOMAIN history[x.id].signals = 1..(l - 1)
             /\ \A k \in 1..(l - 1) : x.signals[k] = history[x.id].signals[k]
             /\ history[x.id].target = t
        /\ x.id \notin DOMAIN history => l = 1
    <3>1. CASE x.id \in DOMAIN history
      <4> DEFINE s == history[x.id].signals
      <4>1. /\ s \in Seq(Nat \ {0}) /\ Len(s) \in Nat /\ DOMAIN s = 1..Len(s)
            /\ x.signals = Append(s, n) /\ n \in Nat \ {0}
        <5>1. history[x.id] \in Incident /\ x.signals = Append(s, n)
          BY <1>2, <1>3, <3>1
        <5>2. n \in Nat \ {0}
          BY <1>2, LenProperties DEF IInv, Shape
        <5> QED BY <5>1, <5>2, IncidentFields
      <4>2. history[x.id].target = t
        BY <1>2, <3>1 DEF IInv, Copies, Listed
      <4> HIDE DEF s
      <4>3. /\ Len(x.signals) = Len(s) + 1
            /\ x.signals \in Seq(Nat \ {0})
            /\ x.signals[Len(s) + 1] = n
            /\ \A k \in 1..Len(s) : x.signals[k] = s[k]
        BY <4>1, AppendProperties
      <4> QED BY <3>1, <4>1, <4>2, <4>3 DEF s
    <3>2. CASE x.id \notin DOMAIN history
      <4>1. x.signals = <<n>>
        BY <1>2, <3>2
      <4> QED BY <3>2, <4>1
    <3> QED BY <3>1, <3>2
  <2> HIDE DEF l
  <2>2. ASSUME NEW h \in DOMAIN history', NEW k \in DOMAIN history'[h].signals
        PROVE  \/ /\ h \in DOMAIN history /\ k \in DOMAIN history[h].signals
                  /\ history'[h].signals[k] = history[h].signals[k]
               \/ h = x.id /\ k = l /\ history'[h].signals[k] = n
    <3>1. CASE h # x.id
      BY <1>4, <3>1
    <3>2. CASE h = x.id /\ k = l
      BY <1>4, <2>1, <3>2
    <3>3. CASE h = x.id /\ k # l
      <4>1. k \in 1..(l - 1) /\ x.id \in DOMAIN history
        BY <1>4, <2>1, <3>3
      <4> QED BY <1>4, <2>1, <3>3, <4>1
    <3> QED BY <3>1, <3>2, <3>3
  <2>3. ASSUME NEW h \in DOMAIN history
        PROVE  /\ h \in DOMAIN history'
               /\ history'[h].target = history[h].target
               /\ \A k \in DOMAIN history[h].signals :
                    /\ k \in DOMAIN history'[h].signals
                    /\ history'[h].signals[k] = history[h].signals[k]
                    /\ ~(h = x.id /\ k = l)
    <3>1. CASE h # x.id
      BY <1>4, <3>1
    <3>2. CASE h = x.id
      BY <1>2, <1>4, <2>1, <3>2
    <3> QED BY <3>1, <3>2
  <2>4. /\ x.id \in DOMAIN history' /\ l \in DOMAIN history'[x.id].signals
        /\ history'[x.id].signals[l] = n /\ history'[x.id].target = raised[n].target
    BY <1>0, <1>2, <1>4, <2>1
  <2>5. n \notin failed /\ Outstanding(n)
    BY <1>0, <1>1 DEF IInv, Shape, Outstanding
  <2>6. \A m \in DOMAIN raised : Outstanding(m)' <=> Outstanding(m) /\ m # n
    BY <1>0, <1>1, <2>5 DEF Outstanding
  <2>7. \A h \in DOMAIN history : \A k \in DOMAIN history[h].signals : history[h].signals[k] # n
    BY <1>2, <2>5 DEF IInv, Placed
  <2> SUFFICES ASSUME NEW m \in DOMAIN raised
               PROVE  IF Outstanding(m)'
                        THEN \A h \in DOMAIN history' : \A k \in DOMAIN history'[h].signals :
                               history'[h].signals[k] # m
                        ELSE \E i \in DOMAIN history' : \E j \in DOMAIN history'[i].signals :
                               PlacedAt(m, i, j)'
    BY <1>1 DEF Placed
  <2>8. CASE m = n
    <3>1. PlacedAt(m, x.id, l)'
      <4>1. raised' = raised /\ history'[x.id].target = raised[m].target
        BY <1>1, <2>4, <2>8
      <4>2. ASSUME NEW h \in DOMAIN history', NEW k \in DOMAIN history'[h].signals
            PROVE  (history'[h].signals[k] = m) <=> (h = x.id /\ k = l)
        <5> QED BY <2>2, <2>4, <2>7, <2>8
      <4> QED BY <4>1, <4>2 DEF PlacedAt
    <3>2. ~Outstanding(m)'
      BY <2>6, <2>8
    <3>3. x.id \in DOMAIN history' /\ l \in DOMAIN history'[x.id].signals
      BY <2>4
    <3> QED BY <3>1, <3>2, <3>3
  <2>9. CASE m # n /\ Outstanding(m)
    BY <2>2, <2>6, <2>9 DEF IInv, Placed
  <2>10. CASE m # n /\ ~Outstanding(m)
    <3>1. PICK i \in DOMAIN history : \E j \in DOMAIN history[i].signals : PlacedAt(m, i, j)
      BY <2>10 DEF IInv, Placed
    <3>2. PICK j \in DOMAIN history[i].signals : PlacedAt(m, i, j)
      BY <3>1
    <3>3. PlacedAt(m, i, j)'
      BY <1>1, <2>2, <2>3, <2>10, <3>2 DEF PlacedAt
    <3> QED BY <2>3, <2>6, <2>10, <3>3
  <2> QED BY <2>8, <2>9, <2>10
<1> QED BY <1>5, <1>6, <1>7, <1>8 DEF IInv

LEMMA UpdateStatusKeeps ==
  ASSUME IInv, NEW id \in DOMAIN history, NEW status \in Status, UpdateStatus(id, status)
  PROVE  IInv'
<1>0. PICK x : x = [history[id] EXCEPT !.status = status]
  OBVIOUS
<1>1. /\ Len(history) \in Nat /\ DOMAIN history = 1..Len(history)
      /\ history \in Seq(Incident) /\ announced = history
      /\ \A i \in DOMAIN history : history[i].id = i /\ history[i] \in Incident
  BY LenProperties, ElementOfSeq DEF IInv, Shape, Copies
<1>2. /\ x \in Incident /\ x.id = id /\ x.target = history[id].target
      /\ x.signals = history[id].signals /\ x.evidence = history[id].evidence
      /\ x.severity = history[id].severity /\ x.score = history[id].score
  <2>1. history[id] \in Incident /\ history[id].id = id
    BY <1>1
  <2> QED BY <1>0, <2>1 DEF Incident
<1>3. /\ history' = PutAt(history, id, x) /\ announced' = PutAt(history, id, x)
      /\ active' = [t \in DOMAIN active |->
                      IF active[t].id = id THEN [active[t] EXCEPT !.status = status] ELSE active[t]]
      /\ UNCHANGED <<worker, events, raised, failed>>
  BY <1>0, <1>1, <1>2 DEF UpdateStatus, Put, PutAt
<1>4. /\ history' \in Seq(Incident) /\ announced' = history' /\ history'[id] = x
  <2>1. id \in 1..(Len(history) + 1)
    BY <1>1
  <2>2. PutAt(history, id, x) \in Seq(Incident)
    BY <1>1, <1>2, <2>1, PutInPlace
  <2>3. PutAt(history, id, x)[id] = x
    BY DEF PutAt
  <2> QED BY <1>3, <2>2, <2>3
<1>5. DOMAIN history' = DOMAIN history
  BY <1>3 DEF PutAt
<1>6. \A i \in DOMAIN history : i # id => history'[i] = history[i]
  BY <1>3 DEF PutAt
<1>7. \A i \in DOMAIN history :
        /\ history'[i].id = i /\ history'[i].target = history[i].target
        /\ history'[i].signals = history[i].signals /\ history'[i].evidence = history[i].evidence
        /\ history'[i].severity = history[i].severity /\ history'[i].score = history[i].score
  BY <1>1, <1>2, <1>4, <1>6
<1>8. Shape'
  BY <1>3, <1>4 DEF IInv, Shape, Underway
<1>9. Copies'
  <2>1. DOMAIN active' = DOMAIN active
    BY <1>3
  <2>2. ASSUME NEW t \in DOMAIN active
        PROVE  /\ active'[t].id = active[t].id /\ active[t].id \in DOMAIN history
               /\ active'[t] = history'[active[t].id] /\ active'[t].target = t
    <3>1. /\ active[t].id \in DOMAIN history /\ active[t] = history[active[t].id]
          /\ active[t].target = t
      BY DEF IInv, Copies
    <3>2. CASE active[t].id = id
      <4>1. active'[t] = x
        BY <1>0, <1>3, <3>1, <3>2
      <4> QED BY <1>2, <1>4, <3>1, <3>2, <4>1
    <3>3. CASE active[t].id # id
      BY <1>3, <1>6, <3>1, <3>3
    <3> QED BY <3>2, <3>3
  <2>3. \A i \in DOMAIN history :
          history[i].target \in DOMAIN active /\ i <= active[history[i].target].id
    BY DEF IInv, Copies
  <2> QED BY SMTT(30), <1>4, <1>5, <1>7, <2>1, <2>2, <2>3 DEF Copies
<1>10. AllFounded'
  <2> SUFFICES ASSUME NEW i \in DOMAIN history PROVE Founded(history[i])'
    BY <1>5 DEF AllFounded
  <2>1. Founded(history[i])
    BY DEF IInv, AllFounded
  <2>2. ASSUME NEW z, NEW w, Founded(z),
               w.signals = z.signals, w.evidence = z.evidence,
               w.severity = z.severity, w.score = z.score
        PROVE  Founded(w)'
    BY <1>3, <2>2 DEF Founded, Latest
  <2>3. PICK w : w = history'[i]
    OBVIOUS
  <2>4. Founded(w)'
    BY <1>7, <2>1, <2>2, <2>3
  <2> QED BY <2>3, <2>4 DEF Founded, Latest
<1>11. Placed'
  <2>1. \A n : Outstanding(n)' <=> Outstanding(n)
    BY <1>3 DEF Outstanding, Underway
  <2>2. ASSUME NEW n, NEW i \in DOMAIN history, NEW j, PlacedAt(n, i, j) PROVE PlacedAt(n, i, j)'
    BY <1>3, <1>5, <1>7, <2>2 DEF PlacedAt
  <2> QED BY <1>3, <1>5, <1>7, <2>1, <2>2 DEF IInv, Placed
<1> QED BY <1>8, <1>9, <1>10, <1>11 DEF IInv

LEMMA IncidentStep == IInv /\ [Next]_vars => IInv'
<1> SUFFICES ASSUME IInv, [Next]_vars PROVE IInv'
  OBVIOUS
<1>1. ASSUME NEW e \in Event, TakeEvent(e) PROVE IInv'
  <2>1. /\ ~Underway /\ ~Underway' /\ events' \in Nat /\ UNCHANGED <<raised, failed, book>>
        /\ worker' \in [step : {"rule", "risk", "record"}, event : Event, rule : 0..Len(Rules)]
    BY <1>1, IncidentAssumption DEF TakeEvent, Underway, Idle, IInv, Shape
  <2> QED BY <2>1, WorkerMoves
<1>2. CASE Quiet \/ HitFails
  <2>1. /\ ~Underway /\ ~Underway' /\ events' \in Nat /\ UNCHANGED <<raised, failed, book>>
        /\ worker' \in [step : {"idle"}]
                 \cup [step : {"rule", "risk", "record"}, event : Event, rule : 0..Len(Rules)]
    BY <1>2, AfterIsTyped DEF Quiet, HitFails, Underway, IInv, Shape
  <2> QED BY <2>1, WorkerMoves
<1>3. CASE AddRisk
  <2>1. /\ worker \in [step : {"rule", "risk", "record"}, event : Event, rule : 0..Len(Rules)]
        /\ worker' \in [step : {"rule", "risk", "record"}, event : Event, rule : 0..Len(Rules)]
        /\ Underway /\ Underway' /\ UNCHANGED <<events, raised, failed, active, history, announced>>
    BY <1>3 DEF AddRisk, Underway, IInv, Shape, book
  <2>2. Shape'
    BY <2>1 DEF IInv, Shape
  <2>3. Copies' /\ AllFounded'
    <3>1. Copies'
      BY <2>1 DEF IInv, Copies
    <3>2. ASSUME NEW w PROVE Founded(w)' <=> Founded(w)
      BY <2>1 DEF Founded, Latest
    <3> QED BY <2>1, <3>1, <3>2 DEF IInv, AllFounded
  <2>4. Placed'
    BY <2>1 DEF IInv, Placed, PlacedAt, Outstanding
  <2> QED BY <2>2, <2>3, <2>4 DEF IInv
<1>4. CASE UNCHANGED vars
  <2>1. UNCHANGED <<worker, events, raised, failed, active, history, announced>>
    BY <1>4 DEF vars
  <2>2. Shape'
    BY <2>1 DEF IInv, Shape, Underway
  <2>3. Copies' /\ AllFounded'
    <3>1. Copies'
      BY <2>1 DEF IInv, Copies
    <3>2. ASSUME NEW w PROVE Founded(w)' <=> Founded(w)
      BY <2>1 DEF Founded, Latest
    <3> QED BY <2>1, <3>1, <3>2 DEF IInv, AllFounded
  <2>4. Placed'
    BY <2>1 DEF IInv, Placed, PlacedAt, Outstanding, Underway
  <2> QED BY <2>2, <2>3, <2>4 DEF IInv
<1> QED BY <1>1, <1>2, <1>3, <1>4, FiresKeeps, RiskFailsKeeps, RecordSignalKeeps,
           UpdateStatusKeeps DEF Next

LEMMA IncidentInv == Spec => []IInv
BY IncidentInit, IncidentStep, PTL DEF Spec

-----------------------------------------------------------------------------
(* The properties.                                                         *)

\* Every reachable state of the rule engine's worker and of its incidents is well typed.
THEOREM IncidentTypeCorrect == Spec => []TypeOK
<1>1. IInv => TypeOK
  <2> SUFFICES ASSUME IInv PROVE TypeOK
    OBVIOUS
  <2>1. /\ worker = Idle \/ (worker.step \in {"rule", "risk", "record"} /\ worker.rule \in 0..Len(Rules))
        /\ failed \subseteq DOMAIN raised
    BY DEF IInv, Shape, Idle
  <2>2. ASSUME NEW i \in DOMAIN history PROVE IsIncident(history[i]) /\ history[i].id = i
    <3> DEFINE x == history[i]
    <3>1. x \in Incident /\ Founded(x) /\ x.id = i
      BY DEF IInv, Shape, AllFounded, Copies
    <3>2. /\ x.severity \in Severity /\ x.status \in Status /\ x.score \in 25..MaxScore
          /\ Len(x.signals) \in Nat /\ Len(x.evidence) \in Nat
      BY <3>1, IncidentFields
    <3>3. /\ Len(x.signals) > 0
          /\ Len(x.evidence) = IF Len(x.signals) < MaxEvidence THEN Len(x.signals) ELSE MaxEvidence
          /\ \A j \in DOMAIN x.signals : x.signals[j] \in DOMAIN raised
      BY <3>1 DEF Founded, Latest
    <3>4. Len(x.evidence) \in 1..MaxEvidence
      BY <3>2, <3>3, IncidentAssumption
    <3>5. x.score \in 0..MaxScore
      BY <3>2, IncidentAssumption
    <3> QED BY <3>1, <3>2, <3>3, <3>4, <3>5 DEF IsIncident
  <2>3. ASSUME NEW t \in DOMAIN active PROVE IsIncident(active[t]) /\ active[t].target = t
    BY <2>2 DEF IInv, Copies
  <2> QED BY <2>1, <2>2, <2>3 DEF TypeOK
<1> QED BY <1>1, IncidentInv, PTL

\* An incident in active_incidents, in incident_history and in its last broadcast is
\* one and the same, whatever analysts and the worker do between two lockings.
THEOREM CopiesStayEqual == Spec => []CopiesAgree
<1>1. IInv => CopiesAgree
  BY DEF IInv, Copies, CopiesAgree
<1> QED BY <1>1, IncidentInv, PTL

\* Every signal raised is in exactly one place of one incident, of its own target,
\* unless the hot state failed on it.
THEOREM SignalsCountOnce == Spec => []EachSignalOnce
<1>1. IInv => EachSignalOnce
  <2> SUFFICES ASSUME IInv, NEW n \in DOMAIN raised
               PROVE  IF n \in failed \/ (n = Len(raised) /\ worker # Idle /\ worker.step \in {"risk", "record"})
                        THEN \A i \in DOMAIN history : \A j \in DOMAIN history[i].signals :
                               history[i].signals[j] # n
                        ELSE \E i \in DOMAIN history :
                               /\ history[i].target = raised[n].target
                               /\ \A h \in DOMAIN history :
                                    Cardinality({j \in DOMAIN history[h].signals : history[h].signals[j] = n})
                                      = IF h = i THEN 1 ELSE 0
    BY DEF EachSignalOnce
  <2>1. worker.step \in {"risk", "record"} => worker # Idle
    BY DEF Idle
  <2>2. CASE Outstanding(n)
    BY <2>1, <2>2 DEF IInv, Placed, Outstanding, Underway
  <2>3. CASE ~Outstanding(n)
    <3>1. PICK i \in DOMAIN history : \E j \in DOMAIN history[i].signals : PlacedAt(n, i, j)
      BY <2>3 DEF IInv, Placed
    <3>2. PICK k \in DOMAIN history[i].signals : PlacedAt(n, i, k)
      BY <3>1
    <3>3. ASSUME NEW h \in DOMAIN history
          PROVE  Cardinality({j \in DOMAIN history[h].signals : history[h].signals[j] = n})
                   = IF h = i THEN 1 ELSE 0
      <4>1. CASE h = i
        <5>1. {j \in DOMAIN history[h].signals : history[h].signals[j] = n} = {k}
          BY <3>2, <4>1 DEF PlacedAt
        <5> QED BY <4>1, <5>1, FS_Singleton
      <4>2. CASE h # i
        <5>1. {j \in DOMAIN history[h].signals : history[h].signals[j] = n} = {}
          BY <3>2, <4>2 DEF PlacedAt
        <5> QED BY <4>2, <5>1, FS_EmptySet
      <4> QED BY <4>1, <4>2
    <3>4. history[i].target = raised[n].target
      BY <3>2 DEF PlacedAt
    <3> QED BY <2>1, <2>3, <3>3, <3>4 DEF Outstanding, Underway
  <2> QED BY <2>2, <2>3
<1> QED BY <1>1, IncidentInv, PTL

\* An incident's evidence is that of its latest signals, in their order, whatever the
\* limit on evidence is.
THEOREM EvidenceStaysLatest == Spec => []EvidenceIsLatest
<1>1. IInv => EvidenceIsLatest
  BY DEF IInv, AllFounded, Founded, Latest, EvidenceIsLatest
<1> QED BY <1>1, IncidentInv, PTL

LEMMA RecordSignalPuts ==
  IInv /\ RecordSignal =>
    \E n, t, x : Continues(n, t, x) /\ history' = PutAt(history, x.id, x)
<1> SUFFICES ASSUME IInv, RecordSignal
             PROVE  \E n, t, x : Continues(n, t, x) /\ history' = PutAt(history, x.id, x)
  OBVIOUS
<1>0. PICK n, t, x : n = Len(raised) /\ t = raised[n].target /\ x = Recorded(t, n)
  OBVIOUS
<1>1. Continues(n, t, x)
  BY <1>0, RecordedIsFounded DEF RecordSignal
<1>2. Put(x)
  BY <1>0 DEF RecordSignal
<1>3. history' = PutAt(history, x.id, x)
  BY <1>2 DEF Put, PutAt
<1> QED BY <1>1, <1>3

\* The worker's other steps leave the history alone.
LEMMA OtherSteps ==
  ASSUME [Next]_vars, ~RecordSignal, ~\E id \in DOMAIN history, s \in Status : UpdateStatus(id, s)
  PROVE  history' = history
BY DEF Next, vars, book, TakeEvent, Quiet, HitFails, Fires, AddRisk, RiskFails

\* A target gets a second incident only when its latest one is closed.
THEOREM OneLiveIncident == Spec => NewOnlyAfterClosed
<1> DEFINE Opened ==
      \A i \in DOMAIN history' \ DOMAIN history :
        \A h \in DOMAIN history :
          /\ history[h].target = history'[i].target
          /\ \A g \in DOMAIN history : history[g].target = history'[i].target => g <= h
          => history[h].status \notin Live
<1>1. IInv /\ [Next]_vars => Opened
  <2> SUFFICES ASSUME IInv, [Next]_vars,
                      NEW i \in DOMAIN history' \ DOMAIN history, NEW h \in DOMAIN history,
                      history[h].target = history'[i].target,
                      \A g \in DOMAIN history : history[g].target = history'[i].target => g <= h
               PROVE  history[h].status \notin Live
    OBVIOUS
  <2>1. CASE RecordSignal
    <3>1. PICK n, t, x : Continues(n, t, x) /\ history' = PutAt(history, x.id, x)
      BY <2>1, RecordSignalPuts
    <3>2. i = x.id /\ history'[i] = x
      BY <3>1 DEF PutAt
    <3>3. ~Listed(t) /\ x.target = t
      BY <3>1, <3>2 DEF Continues
    <3>4. t \in DOMAIN active /\ h <= active[t].id /\ active[t].id \in DOMAIN history
          /\ active[t] = history[active[t].id] /\ active[t].target = t
      BY <3>2, <3>3 DEF IInv, Copies
    <3>5. active[t].id <= h
      BY <3>2, <3>3, <3>4
    <3>6. DOMAIN history \subseteq Nat
      BY LenProperties DEF IInv, Shape
    <3>7. active[t].id = h
      BY <3>4, <3>5, <3>6
    <3> QED BY <3>3, <3>4, <3>7 DEF Listed
  <2>2. CASE \E id \in DOMAIN history, s \in Status : UpdateStatus(id, s)
    <3>1. PICK id \in DOMAIN history, s \in Status : UpdateStatus(id, s)
      BY <2>2
    <3>2. history[id] \in Incident /\ history[id].id = id
      BY DEF IInv, Shape, Copies
    <3>3. [history[id] EXCEPT !.status = s].id = id
      BY <3>2 DEF Incident
    <3>4. DOMAIN history' = DOMAIN history
      BY <3>1, <3>3 DEF UpdateStatus, Put
    <3> QED BY <3>4
  <2>3. CASE ~RecordSignal /\ ~\E id \in DOMAIN history, s \in Status : UpdateStatus(id, s)
    BY <2>3, OtherSteps
  <2> QED BY <2>1, <2>2, <2>3
<1>2. IInv /\ [Next]_vars => [Opened]_vars
  BY <1>1
<1> QED BY <1>2, IncidentInv, PTL DEF NewOnlyAfterClosed, Spec

\* An incident's severity falls, if at all, with its second signal.
THEOREM SeverityHoldsLater == Spec => SeverityFallsOnlyOnce
<1> DEFINE Falls ==
      \A i \in DOMAIN history :
        Rank(history'[i].severity) < Rank(history[i].severity) => Len(history[i].signals) = 1
<1>1. IInv /\ [Next]_vars => Falls
  <2> SUFFICES ASSUME IInv, [Next]_vars, NEW i \in DOMAIN history,
                      Rank(history'[i].severity) < Rank(history[i].severity)
               PROVE  Len(history[i].signals) = 1
    OBVIOUS
  <2>1. \A r \in Severity : Rank(r) \in Nat
    BY DEF Severity, Rank
  <2>2. history[i] \in Incident /\ history[i].id = i /\ Founded(history[i])
    BY DEF IInv, Shape, Copies, AllFounded
  <2>3. history'[i].severity # history[i].severity
    BY <2>1, <2>2, IncidentFields
  <2>4. CASE RecordSignal
    <3>1. PICK n, t, x : Continues(n, t, x) /\ history' = PutAt(history, x.id, x)
      BY <2>4, RecordSignalPuts
    <3>2. i = x.id /\ history'[i] = x
      BY <2>3, <3>1 DEF PutAt
    <3> DEFINE a == history[i]
    <3>3. /\ x \in Incident /\ Founded(x)
          /\ x.signals = Append(a.signals, n) /\ x.score >= a.score
      BY <3>1, <3>2 DEF Continues
    <3>4. Len(x.signals) = Len(a.signals) + 1 /\ Len(a.signals) \in Nat /\ Len(a.signals) > 0
      BY <2>2, <3>3, IncidentFields DEF Founded
    <3>5. x.severity = SeverityFor(x.score, x.severity)
      BY <3>3, <3>4 DEF Founded
    <3>6. CASE Len(a.signals) > 1
      <4>1. a.severity = SeverityFor(a.score, a.severity)
        BY <2>2, <3>6 DEF Founded
      <4>2. a.score \in 25..MaxScore /\ x.score \in 25..MaxScore /\ a.score <= x.score
        BY <2>2, <3>3, IncidentFields
      <4>3. /\ Rank(SeverityFor(a.score, a.severity)) <= Rank(SeverityFor(x.score, x.severity))
            /\ Rank(SeverityFor(a.score, a.severity)) \in Nat
            /\ Rank(SeverityFor(x.score, x.severity)) \in Nat
        BY <4>2, SeverityGrows
      <4>4. Rank(a.severity) <= Rank(x.severity) /\ Rank(a.severity) \in Nat /\ Rank(x.severity) \in Nat
        BY <3>5, <4>1, <4>3
      <4> QED BY <3>2, <4>4
    <3>7. Len(a.signals) = 1 \/ Len(a.signals) > 1
      <4>1. \A k \in Nat : k > 0 => k = 1 \/ k > 1
        OBVIOUS
      <4> QED BY <3>4, <4>1
    <3> QED BY <3>6, <3>7
  <2>5. CASE \E id \in DOMAIN history, s \in Status : UpdateStatus(id, s)
    <3>1. PICK id \in DOMAIN history, s \in Status : UpdateStatus(id, s)
      BY <2>5
    <3>2. history[id] \in Incident /\ history[id].id = id
      BY DEF IInv, Shape, Copies
    <3>3. PICK x : x = [history[id] EXCEPT !.status = s]
      OBVIOUS
    <3>4. x.id = id /\ x.severity = history[id].severity
      BY <3>2, <3>3 DEF Incident
    <3>5. history' = PutAt(history, id, x)
      BY <3>1, <3>3, <3>4 DEF UpdateStatus, Put, PutAt
    <3>6. history'[i].severity = history[i].severity
      BY <3>4, <3>5 DEF PutAt
    <3> QED BY <2>3, <3>6
  <2>6. CASE ~RecordSignal /\ ~\E id \in DOMAIN history, s \in Status : UpdateStatus(id, s)
    BY <2>3, <2>6, OtherSteps
  <2> QED BY <2>4, <2>5, <2>6
<1>2. IInv /\ [Next]_vars => [Falls]_vars
  BY <1>1
<1> QED BY <1>2, IncidentInv, PTL DEF SeverityFallsOnlyOnce, Spec
=============================================================================
