--------------------------- MODULE AdvisoryProofs ---------------------------
(***************************************************************************)
(* Proofs about Advisory, for every set of bundles and recommendations,    *)
(* every number of requests under way and every sequence of changes of     *)
(* mode and bundles.                                                       *)
(***************************************************************************)
EXTENDS Advisory, SequenceTheorems, TLAPS

Early == [step : {"asking"}, id : Nat]
Judged ==
  [step : {"gate", "rejected", "authorized", "enacted"}, id : Nat,
   rec : Recommendation, barred : BOOLEAN]

Shape ==
  /\ DOMAIN bundles \subseteq BundleId /\ \A id \in DOMAIN bundles : bundles[id] \in Bundle
  /\ mode \in {"A", "B"} /\ made \in 0..MaxRequests
  /\ task \in [Task -> {Idle} \cup Early \cup Judged]
  /\ \A t \in Task : task[t] # Idle => task[t].id \in 1..made
  /\ \A c \in issued : c.id \in 1..made /\ c.ttl \in Nat \ {0}
  /\ log \in Seq([id : 1..MaxRequests, authorized : BOOLEAN])
  /\ \A i \in DOMAIN log : log[i].id \in 1..made

Under(t) == task[t] \in Judged

\* What is noted of a recommendation is true: if it was ruled out all along, it is so
\* now, and then it did not get past the gate.
BarredIsBarred ==
  \A t \in Task : Under(t) =>
    /\ task[t].barred => RuledOut(bundles, task[t].rec)
    /\ task[t].step \in {"authorized", "enacted"} => ~task[t].barred

\* Where a request can be found: under way once, or in the history once.
Enacted == {c.id : c \in issued}
Logged == {log[i].id : i \in DOMAIN log}

Whereabouts ==
  /\ \A t \in Task : task[t] # Idle =>
       /\ task[t].id \notin Logged
       /\ task[t].id \in Enacted <=> task[t].step = "enacted"
       /\ \A u \in Task : task[u] # Idle /\ task[u].id = task[t].id => u = t
  /\ \A i \in DOMAIN log : log[i].authorized <=> log[i].id \in Enacted
  /\ \A i, j \in DOMAIN log : log[i].id = log[j].id => i = j
  /\ \A id \in Enacted \ abandoned :
       \/ id \in Logged
       \/ \E t \in Task : task[t].step = "enacted" /\ task[t].id = id

IInv == Shape /\ BarredIsBarred /\ Whereabouts

LEMMA IdleIsIdle == Idle \notin Early /\ Idle \notin Judged /\ Idle.step = "idle" /\ "barred" \notin DOMAIN Idle
BY DEF Idle, Early, Judged

LEMMA AdvisoryInit == Init => IInv
<1> SUFFICES ASSUME Init PROVE IInv
  OBVIOUS
<1>1. Shape
  BY AdvisoryAssumption DEF Init, Shape
<1>2. BarredIsBarred
  BY IdleIsIdle DEF Init, BarredIsBarred, Under
<1>3. Whereabouts
  BY DEF Init, Whereabouts, Enacted, Logged
<1> QED BY <1>1, <1>2, <1>3 DEF IInv

\* The states of a request, told apart.
LEMMA TaskStates ==
  ASSUME Shape, NEW t \in Task
  PROVE  /\ task[t] = Idle \/ task[t] \in Early \/ task[t] \in Judged
         /\ task[t].step = "asking" => task[t] \in Early
         /\ task[t].step \in {"gate", "rejected", "authorized", "enacted"} <=> task[t] \in Judged
         /\ task[t] \in Early => task[t] # Idle /\ task[t].step = "asking" /\ "barred" \notin DOMAIN task[t]
         /\ task[t] \in Judged => task[t] # Idle /\ "barred" \in DOMAIN task[t]
         /\ task[t].id \in Nat \/ task[t] = Idle
BY DEF Shape, Idle, Early, Judged

LEMMA SetBundlesKeeps ==
  ASSUME IInv, NEW new, DOMAIN new \subseteq BundleId, \A id \in DOMAIN new : new[id] \in Bundle,
         SetBundles(new)
  PROVE  IInv'
<1>1. /\ bundles' = new /\ UNCHANGED <<mode, made, issued, abandoned, log>>
      /\ task' = [t \in Task |->
                   IF "barred" \in DOMAIN task[t]
                     THEN [task[t] EXCEPT !.barred = @ /\ RuledOut(new, task[t].rec)]
                     ELSE task[t]]
  BY DEF SetBundles
<1>2. \A t \in Task :
        /\ ~Under(t) => task'[t] = task[t]
        /\ Under(t) => /\ task'[t] \in Judged
                       /\ task'[t].step = task[t].step /\ task'[t].id = task[t].id
                       /\ task'[t].rec = task[t].rec
                       /\ task'[t].barred = (task[t].barred /\ RuledOut(new, task[t].rec))
  <2> SUFFICES ASSUME NEW t \in Task
               PROVE  /\ ~Under(t) => task'[t] = task[t]
                      /\ Under(t) => /\ task'[t] \in Judged
                                     /\ task'[t].step = task[t].step /\ task'[t].id = task[t].id
                                     /\ task'[t].rec = task[t].rec
                                     /\ task'[t].barred = (task[t].barred /\ RuledOut(new, task[t].rec))
    OBVIOUS
  <2>1. CASE Under(t)
    <3>1. task'[t] = [task[t] EXCEPT !.barred = task[t].barred /\ RuledOut(new, task[t].rec)]
      BY <1>1, <2>1, TaskStates DEF Under, IInv
    <3>2. (task[t].barred /\ RuledOut(new, task[t].rec)) \in BOOLEAN
      OBVIOUS
    <3> QED BY <2>1, <3>1, <3>2 DEF Under, Judged
  <2>2. CASE ~Under(t)
    BY <1>1, <2>2, TaskStates, IdleIsIdle DEF Under, IInv
  <2> QED BY <2>1, <2>2
<1>3. \A t \in Task : Under(t)' <=> Under(t)
  BY <1>2 DEF Under
<1>4. \A t \in Task : /\ task'[t].step = task[t].step
                      /\ task'[t] = Idle <=> task[t] = Idle
                      /\ task[t] # Idle => task'[t].id = task[t].id
  BY <1>2, TaskStates, IdleIsIdle DEF Under, IInv
<1>5. Shape'
  <2>1. \A t \in Task : task'[t] \in {Idle} \cup Early \cup Judged
    BY <1>2 DEF IInv, Shape
  <2>2. task' \in [Task -> {Idle} \cup Early \cup Judged]
    BY <1>1, <2>1
  <2> QED BY <1>1, <1>4, <2>2 DEF IInv, Shape
<1>6. BarredIsBarred'
  BY <1>1, <1>2, <1>3 DEF IInv, BarredIsBarred, Under
<1>7. Whereabouts'
  BY <1>1, <1>4 DEF IInv, Whereabouts, Enacted, Logged
<1> QED BY <1>5, <1>6, <1>7 DEF IInv

\* A new request, or the worker's answer to one.
LEMMA BeginKeeps ==
  ASSUME IInv, NEW t \in Task, NEW x,
         task' = [task EXCEPT ![t] = x],
         UNCHANGED <<bundles, mode, issued, abandoned, log>>,
         \/ /\ task[t] = Idle /\ made < MaxRequests /\ made' = made + 1 /\ x.id = made + 1
         \/ /\ task[t].step = "asking" /\ made' = made /\ x.id = task[t].id,
         \/ x \in Early
         \/ /\ x \in Judged /\ x.step = "gate"
            /\ x.barred => RuledOut(bundles, x.rec)
  PROVE  IInv'
<1>1. /\ x # Idle /\ x.step \notin {"authorized", "enacted"}
  BY IdleIsIdle DEF Early, Judged
<1>2. /\ task'[t] = x /\ \A u \in Task : u # t => task'[u] = task[u]
      /\ task' \in [Task -> {Idle} \cup Early \cup Judged]
  BY DEF IInv, Shape
<1>3. /\ made \in Nat /\ made' \in 0..MaxRequests /\ made <= made' /\ x.id \in 1..made'
  BY AdvisoryAssumption, TaskStates, IdleIsIdle DEF IInv, Shape
<1>4. Shape'
  <2>1. \A u \in Task : task'[u] # Idle => task'[u].id \in 1..made'
    BY <1>2, <1>3 DEF IInv, Shape
  <2>2. \A i \in DOMAIN log : log[i].id \in 1..made'
    BY <1>3 DEF IInv, Shape
  <2>3. \A c \in issued : c.id \in 1..made' /\ c.ttl \in Nat \ {0}
    BY <1>3 DEF IInv, Shape
  <2> QED BY <1>2, <1>3, <2>1, <2>2, <2>3 DEF IInv, Shape
<1>5. BarredIsBarred'
  <2> SUFFICES ASSUME NEW u \in Task, task'[u] \in Judged
               PROVE  /\ task'[u].barred => RuledOut(bundles, task'[u].rec)
                      /\ task'[u].step \in {"authorized", "enacted"} => ~task'[u].barred
    BY DEF BarredIsBarred, Under
  <2>1. CASE u = t
    <3>1. x \notin Early
      BY <1>2, <2>1 DEF Early, Judged
    <3> QED BY <1>1, <1>2, <2>1, <3>1
  <2>2. CASE u # t
    BY <1>2, <2>2 DEF IInv, BarredIsBarred, Under
  <2> QED BY <2>1, <2>2
<1>6. \A u \in Task : u # t /\ task[u] # Idle => task[u].id # x.id
  <2>1. CASE task[t] = Idle
    BY <2>1, <1>3, IdleIsIdle DEF IInv, Shape
  <2>2. CASE task[t].step = "asking"
    BY <2>2, IdleIsIdle DEF IInv, Whereabouts
  <2> QED BY <2>1, <2>2
<1>7. x.id \notin Logged /\ x.id \notin Enacted
  <2>1. CASE task[t] = Idle
    BY <2>1, <1>3, IdleIsIdle DEF IInv, Shape, Logged, Enacted
  <2>2. CASE task[t].step = "asking"
    BY <2>2, IdleIsIdle DEF IInv, Whereabouts
  <2> QED BY <2>1, <2>2
<1>8. Logged' = Logged /\ Enacted' = Enacted
  BY DEF Logged, Enacted
<1>9. task[t].step # "enacted"
  BY IdleIsIdle
<1>10. Whereabouts'
  <2>1. ASSUME NEW u \in Task, task'[u] # Idle
        PROVE  /\ task'[u].id \notin Logged
               /\ task'[u].id \in Enacted <=> task'[u].step = "enacted"
               /\ \A v \in Task : task'[v] # Idle /\ task'[v].id = task'[u].id => v = u
    BY <1>1, <1>2, <1>6, <1>7, <2>1 DEF IInv, Whereabouts
  <2>2. \A id \in Enacted \ abandoned :
          id \in Logged \/ \E u \in Task : task'[u].step = "enacted" /\ task'[u].id = id
    BY <1>2, <1>9 DEF IInv, Whereabouts
  <2> QED BY <1>8, <2>1, <2>2 DEF IInv, Whereabouts
<1> QED BY <1>4, <1>5, <1>10 DEF IInv

\* What the gate decides: what is ruled out is rejected.
LEMMA GateKeeps == ASSUME IInv, NEW t \in Task, Gate(t) PROVE IInv'
<1> DEFINE rec == task[t].rec
<1>1. PICK s \in {"rejected", "authorized"} :
        /\ task' = [task EXCEPT ![t].step = s]
        /\ s = "authorized" => ~RuledOut(bundles, rec)
  <2>1. PICK decision \in IF rec.confidence < Threshold THEN {"deny"}
                           ELSE Evaluate(rec.app, CapabilityOf(rec), ResourceOf(rec)) :
          task' = [task EXCEPT ![t].step = IF decision = "deny" THEN "rejected" ELSE "authorized"]
    BY DEF Gate
  <2>2. RuledOut(bundles, rec) => decision = "deny"
    BY <2>1 DEF RuledOut, Evaluate, Denied
  <2> QED BY <2>1, <2>2
<1>2. /\ task[t] \in Judged /\ task[t].step = "gate"
      /\ UNCHANGED <<bundles, mode, made, issued, abandoned, log>>
  BY TaskStates DEF Gate, IInv
<1>3. /\ task'[t] \in Judged /\ task'[t].step = s /\ task'[t].id = task[t].id
      /\ task'[t].rec = rec /\ task'[t].barred = task[t].barred
      /\ \A u \in Task : u # t => task'[u] = task[u]
      /\ task' \in [Task -> {Idle} \cup Early \cup Judged]
  <2>1. [task[t] EXCEPT !.step = s] \in Judged
    BY <1>2 DEF Judged
  <2>2. task' = [task EXCEPT ![t] = [task[t] EXCEPT !.step = s]]
    BY <1>1
  <2> QED BY <1>2, <2>1, <2>2 DEF IInv, Shape, Judged
<1>4. \A u \in Task : /\ task'[u] = Idle <=> task[u] = Idle
                      /\ task[u] # Idle => task'[u].id = task[u].id
                      /\ task'[u].step = "enacted" <=> task[u].step = "enacted"
  BY <1>2, <1>3, TaskStates, IdleIsIdle DEF IInv
<1>5. Shape'
  BY <1>2, <1>3, <1>4 DEF IInv, Shape
<1>6. BarredIsBarred'
  <2> SUFFICES ASSUME NEW u \in Task, task'[u] \in Judged
               PROVE  /\ task'[u].barred => RuledOut(bundles, task'[u].rec)
                      /\ task'[u].step \in {"authorized", "enacted"} => ~task'[u].barred
    BY <1>2 DEF BarredIsBarred, Under
  <2>1. CASE u = t
    BY <1>1, <1>2, <1>3, <2>1 DEF IInv, BarredIsBarred, Under
  <2>2. CASE u # t
    BY <1>3, <2>2 DEF IInv, BarredIsBarred, Under
  <2> QED BY <2>1, <2>2
<1>7. Whereabouts'
  BY <1>2, <1>4 DEF IInv, Whereabouts, Enacted, Logged
<1> QED BY <1>5, <1>6, <1>7 DEF IInv

LEMMA DispatchKeeps == ASSUME IInv, NEW t \in Task, Dispatch(t) PROVE IInv'
<1> DEFINE c == [id |-> task[t].id, ttl |-> TimeToLive(task[t].rec)]
<1>1. /\ task[t] \in Judged /\ task[t].step = "authorized" /\ issued' = issued \cup {c}
      /\ task[t] # Idle /\ task[t].rec \in Recommendation
      /\ UNCHANGED <<bundles, mode, made, abandoned, log>>
  BY TaskStates DEF Dispatch, IInv, Judged
<1>2. /\ task'[t] \in Judged /\ task'[t].step = "enacted" /\ task'[t].id = task[t].id
      /\ task'[t].rec = task[t].rec /\ task'[t].barred = task[t].barred /\ task'[t] # Idle
      /\ \A u \in Task : u # t => task'[u] = task[u]
      /\ task' \in [Task -> {Idle} \cup Early \cup Judged]
  <2>1. [task[t] EXCEPT !.step = "enacted"] \in Judged
    BY <1>1 DEF Judged
  <2>2. task' = [task EXCEPT ![t] = [task[t] EXCEPT !.step = "enacted"]]
    BY DEF Dispatch
  <2> QED BY <1>1, <2>1, <2>2, IdleIsIdle DEF IInv, Shape, Judged
<1>3. c.id = task[t].id /\ c.ttl \in Nat \ {0}
  BY <1>1, AdvisoryAssumption DEF TimeToLive
<1>4. Enacted' = Enacted \cup {task[t].id}
  BY <1>1, <1>3 DEF Enacted
<1>5. Shape'
  <2>1. \A u \in Task : task'[u] # Idle => task'[u].id \in 1..made
    BY <1>1, <1>2 DEF IInv, Shape
  <2>2. \A d \in issued' : d.id \in 1..made /\ d.ttl \in Nat \ {0}
    BY <1>1, <1>3 DEF IInv, Shape
  <2> QED BY <1>1, <1>2, <2>1, <2>2 DEF IInv, Shape
<1>6. BarredIsBarred'
  <2> SUFFICES ASSUME NEW u \in Task, task'[u] \in Judged
               PROVE  /\ task'[u].barred => RuledOut(bundles, task'[u].rec)
                      /\ task'[u].step \in {"authorized", "enacted"} => ~task'[u].barred
    BY <1>1 DEF BarredIsBarred, Under
  <2>1. CASE u = t
    BY <1>1, <1>2, <2>1 DEF IInv, BarredIsBarred, Under
  <2>2. CASE u # t
    BY <1>2, <2>2 DEF IInv, BarredIsBarred, Under
  <2> QED BY <2>1, <2>2
<1>7. Whereabouts'
  <2>1. Logged' = Logged /\ task[t].id \notin Logged
    BY <1>1 DEF IInv, Whereabouts, Logged
  <2>2. ASSUME NEW u \in Task, task'[u] # Idle
        PROVE  /\ task'[u].id \notin Logged
               /\ task'[u].id \in Enacted' <=> task'[u].step = "enacted"
               /\ \A v \in Task : task'[v] # Idle /\ task'[v].id = task'[u].id => v = u
    BY <1>1, <1>2, <1>4, <2>2 DEF IInv, Whereabouts
  <2>3. \A i \in DOMAIN log : log[i].authorized <=> log[i].id \in Enacted'
    BY <1>4, <2>1 DEF IInv, Whereabouts, Logged
  <2>4. \A id \in Enacted' \ abandoned :
          id \in Logged \/ \E u \in Task : task'[u].step = "enacted" /\ task'[u].id = id
    BY <1>1, <1>2, <1>4 DEF IInv, Whereabouts
  <2> QED BY <1>1, <2>1, <2>2, <2>3, <2>4 DEF IInv, Whereabouts
<1> QED BY <1>5, <1>6, <1>7 DEF IInv

\* A request ends: answered, failed or given up.
LEMMA EndKeepsShape ==
  ASSUME IInv, NEW t \in Task, task' = [task EXCEPT ![t] = Idle], UNCHANGED <<bundles, mode, made, issued>>
  PROVE  /\ task'[t] = Idle /\ \A u \in Task : u # t => task'[u] = task[u]
         /\ task' \in [Task -> {Idle} \cup Early \cup Judged]
         /\ \A u \in Task : task'[u] # Idle => task'[u].id \in 1..made'
         /\ BarredIsBarred'
BY IdleIsIdle DEF IInv, Shape, BarredIsBarred, Under

LEMMA KeepKeeps == ASSUME IInv, NEW t \in Task, Keep(t) PROVE IInv'
<1> DEFINE entry == [id |-> task[t].id, authorized |-> task[t].step = "enacted"]
<1>1. /\ task[t].step \in {"rejected", "enacted"} /\ task[t] # Idle
      /\ log' = Append(log, entry) /\ task' = [task EXCEPT ![t] = Idle]
      /\ UNCHANGED <<bundles, mode, made, issued, abandoned>>
  BY IdleIsIdle DEF Keep
<1>2. task[t].id \in 1..made /\ made \in 0..MaxRequests
  BY <1>1 DEF IInv, Shape
<1>3. entry \in [id : 1..MaxRequests, authorized : BOOLEAN]
  BY <1>2, AdvisoryAssumption
<1>4. /\ log \in Seq([id : 1..MaxRequests, authorized : BOOLEAN])
      /\ log' \in Seq([id : 1..MaxRequests, authorized : BOOLEAN])
      /\ Len(log) \in Nat /\ DOMAIN log = 1..Len(log) /\ DOMAIN log' = 1..(Len(log) + 1)
      /\ log'[Len(log) + 1] = entry
      /\ \A i \in DOMAIN log : log'[i] = log[i]
  <2>1. log \in Seq([id : 1..MaxRequests, authorized : BOOLEAN])
    BY DEF IInv, Shape
  <2> HIDE DEF entry
  <2> QED BY <1>1, <1>3, <2>1, AppendProperties, LenProperties
<1>5. Logged' = Logged \cup {task[t].id}
  <2>1. \A i \in DOMAIN log' : i \in DOMAIN log \/ i = Len(log) + 1
    BY <1>4
  <2>2. \A i \in DOMAIN log : i \in DOMAIN log' /\ log'[i].id = log[i].id
    BY <1>4
  <2>3. Len(log) + 1 \in DOMAIN log' /\ log'[Len(log) + 1].id = task[t].id
    BY <1>4
  <2> QED BY <2>1, <2>2, <2>3 DEF Logged
<1>6. Shape'
  <2>1. ASSUME NEW i \in DOMAIN log' PROVE log'[i].id \in 1..made
    <3>1. CASE i \in DOMAIN log
      BY <1>4, <3>1 DEF IInv, Shape
    <3>2. CASE i = Len(log) + 1
      BY <1>2, <1>4, <3>2
    <3> QED BY <1>4, <3>1, <3>2
  <2> QED BY <1>1, <1>4, <2>1, EndKeepsShape DEF IInv, Shape
<1>7. Enacted' = Enacted
  BY <1>1 DEF Enacted
<1>8. Whereabouts'
  <2>1. ASSUME NEW u \in Task, task'[u] # Idle
        PROVE  /\ task'[u].id \notin Logged'
               /\ task'[u].id \in Enacted <=> task'[u].step = "enacted"
               /\ \A v \in Task : task'[v] # Idle /\ task'[v].id = task'[u].id => v = u
    BY ZenonT(30), <1>1, <1>5, <2>1, EndKeepsShape DEF IInv, Whereabouts
  <2>2. \A i \in DOMAIN log' : log'[i].authorized <=> log'[i].id \in Enacted
    <3>1. entry.authorized <=> entry.id \in Enacted
      BY <1>1 DEF IInv, Whereabouts
    <3> HIDE DEF entry
    <3> QED BY <1>4, <3>1 DEF IInv, Whereabouts
  <2>3. \A i, j \in DOMAIN log' : log'[i].id = log'[j].id => i = j
    <3>1. \A i \in DOMAIN log : log[i].id # entry.id
      BY <1>1 DEF IInv, Whereabouts, Logged
    <3> HIDE DEF entry
    <3> QED BY SMTT(30), <1>4, <3>1 DEF IInv, Whereabouts
  <2>4. \A id \in Enacted \ abandoned :
          id \in Logged' \/ \E u \in Task : task'[u].step = "enacted" /\ task'[u].id = id
    BY <1>1, <1>5, EndKeepsShape DEF IInv, Whereabouts
  <2> QED BY <1>1, <1>7, <2>1, <2>2, <2>3, <2>4 DEF Whereabouts
<1> QED BY <1>1, <1>6, <1>8, EndKeepsShape DEF IInv

LEMMA LeaveKeeps == ASSUME IInv, NEW t \in Task, WorkerFails(t) \/ Abandon(t) PROVE IInv'
<1>1. /\ task[t] # Idle /\ task' = [task EXCEPT ![t] = Idle]
      /\ UNCHANGED <<bundles, mode, made, issued, log>>
      /\ abandoned \subseteq abandoned'
      /\ task[t].step = "enacted" => task[t].id \in abandoned'
  BY IdleIsIdle DEF WorkerFails, Abandon
<1>2. Shape'
  BY <1>1, EndKeepsShape DEF IInv, Shape
<1>3. Logged' = Logged /\ Enacted' = Enacted
  BY <1>1 DEF Logged, Enacted
<1>4. Whereabouts'
  <2>1. ASSUME NEW u \in Task, task'[u] # Idle
        PROVE  /\ task'[u].id \notin Logged
               /\ task'[u].id \in Enacted <=> task'[u].step = "enacted"
               /\ \A v \in Task : task'[v] # Idle /\ task'[v].id = task'[u].id => v = u
    BY <1>1, <2>1, EndKeepsShape DEF IInv, Whereabouts
  <2>2. \A id \in Enacted \ abandoned' :
          id \in Logged \/ \E u \in Task : task'[u].step = "enacted" /\ task'[u].id = id
    BY <1>1, EndKeepsShape DEF IInv, Whereabouts
  <2> QED BY <1>1, <1>3, <2>1, <2>2 DEF IInv, Whereabouts
<1> QED BY <1>1, <1>2, <1>4, EndKeepsShape DEF IInv

LEMMA AdvisoryStep == IInv /\ [Next]_vars => IInv'
<1> SUFFICES ASSUME IInv, [Next]_vars PROVE IInv'
  OBVIOUS
<1>1. CASE (\E m \in {"A", "B"} : SetMode(m)) \/ UNCHANGED vars
  <2>1. UNCHANGED <<bundles, task, made, issued, abandoned, log>> /\ mode' \in {"A", "B"}
    BY <1>1 DEF SetMode, vars, IInv, Shape
  <2> QED BY <2>1 DEF IInv, Shape, BarredIsBarred, Under, Whereabouts, Enacted, Logged
<1>2. ASSUME NEW id \in BundleId, NEW b \in Bundle, AddBundle(id, b) PROVE IInv'
  <2>1. PICK new : new = BundlesWith(id, b)
    OBVIOUS
  <2>2. DOMAIN new \subseteq BundleId /\ \A i \in DOMAIN new : new[i] \in Bundle
    BY <2>1 DEF BundlesWith, IInv, Shape
  <2> QED BY <1>2, <2>1, <2>2, SetBundlesKeeps DEF AddBundle
<1>3. ASSUME NEW id \in BundleId, RemoveBundle(id) PROVE IInv'
  <2>1. PICK new : new = BundlesWithout(id)
    OBVIOUS
  <2>2. DOMAIN new \subseteq BundleId /\ \A i \in DOMAIN new : new[i] \in Bundle
    BY <2>1 DEF BundlesWithout, IInv, Shape
  <2> QED BY <1>3, <2>1, <2>2, SetBundlesKeeps DEF RemoveBundle
<1>4. ASSUME NEW t \in Task, Analyze(t) PROVE IInv'
  <2>1. PICK x : x = [step |-> "asking", id |-> made + 1]
    OBVIOUS
  <2>2. x \in Early /\ x.id = made + 1
    BY <2>1, AdvisoryAssumption DEF Early, IInv, Shape
  <2>3. /\ task[t] = Idle /\ made < MaxRequests /\ made' = made + 1
        /\ task' = [task EXCEPT ![t] = x]
        /\ UNCHANGED <<bundles, mode, issued, abandoned, log>>
    BY <1>4, <2>1 DEF Analyze
  <2> QED BY <2>2, <2>3, BeginKeeps
<1>5. ASSUME NEW t \in Task, NEW rec \in Recommendation, WorkerAnswers(t, rec) PROVE IInv'
  <2>1. PICK x : x = AtGate(task[t].id, rec)
    OBVIOUS
  <2>2. task[t] \in Early /\ task[t].id \in Nat
    BY <1>5, TaskStates DEF WorkerAnswers, IInv, Early
  <2>3. /\ x \in Judged /\ x.step = "gate" /\ x.id = task[t].id
        /\ x.barred => RuledOut(bundles, x.rec)
    <3>1. RuledOut(bundles, rec) \in BOOLEAN
      BY DEF RuledOut, DeniedBy
    <3> QED BY <2>1, <2>2, <3>1 DEF AtGate, Judged
  <2>4. /\ task[t].step = "asking" /\ task' = [task EXCEPT ![t] = x]
        /\ UNCHANGED <<bundles, mode, made, issued, abandoned, log>>
    BY <1>5, <2>1 DEF WorkerAnswers
  <2> QED BY <2>3, <2>4, BeginKeeps
<1>6. ASSUME NEW t \in Task, NEW rec \in Recommendation, Submit(t, rec) PROVE IInv'
  <2>1. PICK x : x = AtGate(made + 1, rec)
    OBVIOUS
  <2>2. /\ x \in Judged /\ x.step = "gate" /\ x.id = made + 1
        /\ x.barred => RuledOut(bundles, x.rec)
    <3>1. RuledOut(bundles, rec) \in BOOLEAN
      BY DEF RuledOut, DeniedBy
    <3>2. made + 1 \in Nat
      BY AdvisoryAssumption DEF IInv, Shape
    <3> QED BY <2>1, <3>1, <3>2 DEF AtGate, Judged
  <2>3. /\ task[t] = Idle /\ made < MaxRequests /\ made' = made + 1
        /\ task' = [task EXCEPT ![t] = x]
        /\ UNCHANGED <<bundles, mode, issued, abandoned, log>>
    BY <1>6, <2>1 DEF Submit
  <2> QED BY <2>2, <2>3, BeginKeeps
<1>7. ASSUME NEW t \in Task, Gate(t) \/ Dispatch(t) \/ Keep(t) \/ WorkerFails(t) \/ Abandon(t)
      PROVE IInv'
  BY <1>7, GateKeeps, DispatchKeeps, KeepKeeps, LeaveKeeps
<1> QED BY <1>1, <1>2, <1>3, <1>4, <1>5, <1>6, <1>7 DEF Next

LEMMA AdvisoryInv == Spec => []IInv
BY AdvisoryInit, AdvisoryStep, PTL DEF Spec

-----------------------------------------------------------------------------
\* Every reachable state of the advisory controller is well typed.
THEOREM AdvisoryTypeCorrect == Spec => []TypeOK
<1>1. IInv => TypeOK
  BY DEF IInv, Shape, TypeOK
<1> QED BY <1>1, AdvisoryInv, PTL

\* What has too little confidence, or is denied at every moment since its arrival at
\* the gate, is not authorized and has no command, however operators change the
\* bundles meanwhile (gate.rs:11-14).
THEOREM RuledOutStaysOut == Spec => []RuledOutIsNotEnacted
<1>1. IInv => RuledOutIsNotEnacted
  <2> SUFFICES ASSUME IInv, NEW t \in Task, "barred" \in DOMAIN task[t], task[t].barred
               PROVE  /\ task[t].step \notin {"authorized", "enacted"}
                      /\ \A c \in issued : c.id # task[t].id
    BY DEF RuledOutIsNotEnacted
  <2>1. Under(t) /\ task[t] # Idle
    BY TaskStates, IdleIsIdle DEF IInv, Under
  <2>2. task[t].step \notin {"authorized", "enacted"}
    BY <2>1 DEF IInv, BarredIsBarred
  <2>3. task[t].id \notin Enacted
    BY <2>1, <2>2 DEF IInv, Whereabouts
  <2> QED BY <2>2, <2>3 DEF Enacted
<1> QED BY <1>1, AdvisoryInv, PTL

\* The history tells what was enacted, for any number of requests, dropped ones included.
THEOREM LogIsTruthful == Spec => []LogTellsWhatWasEnacted
<1>1. IInv => LogTellsWhatWasEnacted
  BY DEF IInv, Whereabouts, Enacted, Logged, LogTellsWhatWasEnacted
<1> QED BY <1>1, AdvisoryInv, PTL
=============================================================================
