---------------------------- MODULE AttackChain ----------------------------
(***************************************************************************)
(* The cross-application attack sequence detector                          *)
(* (crates/correlator/src/sequence.rs).                                    *)
(*                                                                         *)
(* For each canonical id: the stages observed within Window of the latest  *)
(* event, the highest stage ever, and whether the alert has fired, which   *)
(* nothing resets.  Progress is kept under the id an event resolved to;    *)
(* when the identity is merged into another one it stays where it is.      *)
(***************************************************************************)
EXTENDS Sequences, Integers, FiniteSets, CapabilityInference

CONSTANTS
  Window,     \* window_seconds
  MinStages   \* observations that make a chain (3)

ASSUME ChainAssumption ==
  Window \in Nat /\ MinStages \in Nat \ {0} /\ None \notin {401, 403, 404}

VARIABLES
  progress,  \* entity_progress: id -> [stages, highest, fired]
  signals    \* history: the signals, each [id, stages]

chainVars == <<progress, signals>>

ChainInit == progress = <<>> /\ signals = <<>>

Recon == 1
Lateral == 2
HighImpact == 3

NewProgress == [stages |-> <<>>, highest |-> Recon, fired |-> FALSE]

AppsOf(stages) == {stages[i].app : i \in DOMAIN stages}

Failed(event) ==
  event.action # None /\ (~event.action.success \/ event.action.status \in {401, 403, 404})

HighImpactAction(event) ==
  InferCapabilities(event) \cap {"admin.operation", "data.export", "process.execute"} # {}

\* The stage an event stands for, after activity in these applications; 0 is none.
StageOf(event, apps) ==
  IF Failed(event) THEN Recon
  ELSE IF HighImpactAction(event) THEN HighImpact
  ELSE IF event.action # None /\ apps # {} /\ event.app \notin apps THEN Lateral
  ELSE 0

Kept_OpenWindow(stages, now) == SelectSeq(stages, LAMBDA s : s.ts > now - Window)

\* The observations within the window that ends at the event's time.
Kept(stages, now) ==
  LET kept[i \in 0..Len(stages)] ==
        IF i = 0 THEN <<>>
        ELSE IF stages[i].ts >= now - Window THEN Append(kept[i - 1], stages[i]) ELSE kept[i - 1]
  IN  kept[Len(stages)]

IsChain(stages) == Len(stages) >= MinStages /\ Cardinality(AppsOf(stages)) >= 2

\* The progress after an event that resolved to id.
Progressed(id, event) ==
  LET known == IF id \in DOMAIN progress THEN progress[id] ELSE NewProgress
      kept  == Kept(known.stages, event.ts)
      stage == StageOf(event, AppsOf(kept))
  IN  IF stage = 0 THEN [known EXCEPT !.stages = kept]
      ELSE LET stages == Append(kept, [stage |-> stage, app |-> event.app, ts |-> event.ts])
               highest == IF stage > known.highest THEN stage ELSE known.highest
           IN  [stages |-> stages, highest |-> highest,
                fired |-> known.fired \/ (highest = HighImpact /\ IsChain(stages))]

\* evaluate_event
EvaluateChain(id, event) ==
  LET now == Progressed(id, event)
      before == id \in DOMAIN progress /\ progress[id].fired
  IN  /\ progress' = [i \in DOMAIN progress \cup {id} |-> IF i = id THEN now ELSE progress[i]]
      /\ signals' = IF now.fired /\ ~before
                      THEN Append(signals, [id |-> id, stages |-> now.stages]) ELSE signals
=============================================================================
