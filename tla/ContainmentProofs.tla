------------------------- MODULE ContainmentProofs -------------------------
(***************************************************************************)
(* Proofs about the containment of capabilities, from the record outwards: *)
(* ContainmentManager, the record of commands by itself; PolicyRequests,   *)
(* what the record makes of policy decisions; and Containment, what it     *)
(* makes of the agents that enforce it, which are the guards that          *)
(* ContainmentGuardProofs is about.                                        *)
(***************************************************************************)
EXTENDS Containment, PolicyRequests, TLAPS

-----------------------------------------------------------------------------
(* The record: every set of commands and requests, every sweep period.     *)

\* A command is signed once, inserted once, and its clock reading is a real one.
ManagerInv ==
  /\ TypeOK
  /\ clock \in StartTime..MaxTime
  /\ epoch \in 0..MaxEpoch
  /\ DOMAIN pending \cap DOMAIN commands = {}

LEMMA BodyTyped ==
  ASSUME clock \in StartTime..MaxTime, epoch \in 0..MaxEpoch, NEW r \in DispatchRequest
  PROVE  Body(r) \in SignedBody
BY DEF Body, SignedBody

LEMMA ManagerInit == Init => ManagerInv
BY ManagerAssumption DEF Init, ManagerInv, TypeOK, EmptyMap

LEMMA ManagerStepInv == ManagerInv /\ [Next]_managerVars => ManagerInv'
<1> SUFFICES ASSUME ManagerInv, [Next]_managerVars PROVE ManagerInv'
  OBVIOUS
<1> USE DEF ManagerInv, TypeOK
<1>1. CASE Tick
  BY <1>1, ManagerAssumption DEF Tick
<1>2. CASE SweepExpired
  <2>1. /\ DOMAIN commands' = DOMAIN commands
        /\ commands' \in [DOMAIN commands' -> [body : SignedBody, status : Status]]
    BY <1>2 DEF SweepExpired, Status
  <2> QED BY <1>2, <2>1, ManagerAssumption DEF SweepExpired
<1>3. CASE Restart
  BY <1>3, ManagerAssumption DEF Restart, EmptyMap
<1>4. ASSUME NEW c \in Command, NEW r \in DispatchRequest, Sign(c, r) PROVE ManagerInv'
  <2>1. Body(r) \in SignedBody
    BY BodyTyped
  <2>2. /\ DOMAIN pending' = DOMAIN pending \cup {c}
        /\ pending' \in [DOMAIN pending' -> SignedBody]
    BY <1>4, <2>1 DEF Sign, With
  <2> QED BY <1>4, <2>2 DEF Sign
<1>5. ASSUME NEW c \in Command, Insert(c) PROVE ManagerInv'
  <2>1. /\ DOMAIN commands' = DOMAIN commands \cup {c}
        /\ commands' \in [DOMAIN commands' -> [body : SignedBody, status : Status]]
    BY <1>5 DEF Insert, With, Status
  <2>2. /\ DOMAIN pending' = DOMAIN pending \ {c}
        /\ pending' \in [DOMAIN pending' -> SignedBody]
    BY <1>5 DEF Insert, Restrict
  <2> QED BY <1>5, <2>1, <2>2 DEF Insert
<1>6. ASSUME NEW c \in Command, Respond(c) PROVE ManagerInv'
  <2>1. /\ DOMAIN sent' = DOMAIN sent \cup {c}
        /\ sent' \in [DOMAIN sent' -> SignedBody]
    BY <1>6 DEF Respond, With
  <2> QED BY <1>6, <2>1 DEF Respond
<1>7. ASSUME NEW c \in Command, Rollback(c) PROVE ManagerInv'
  BY <1>7 DEF Rollback, Status
<1>8. CASE UNCHANGED managerVars
  BY <1>8 DEF managerVars
<1> QED BY <1>1, <1>2, <1>3, <1>4, <1>5, <1>6, <1>7, <1>8 DEF Next

\* Every reachable state of the containment manager is well typed.
THEOREM ManagerTypeCorrect == Spec => []TypeOK
<1>1. ManagerInv => TypeOK
  BY DEF ManagerInv
<1> QED BY <1>1, ManagerInit, ManagerStepInv, PTL DEF Spec

\* A command that was rolled back or has expired stays so, whatever rollbacks, sweeps
\* and dispatches race with each other, until the process ends.
THEOREM OutcomesAreSettled == Spec => OutcomeSettled
<1> DEFINE Settled ==
      \A c \in DOMAIN commands : commands[c].status # "Active" /\ epoch' = epoch =>
        c \in DOMAIN commands' /\ commands'[c] = commands[c]
<1>1. ManagerInv /\ [Next]_managerVars => [Settled]_managerVars
  <2> SUFFICES ASSUME ManagerInv, Next, NEW d \in DOMAIN commands,
                      commands[d].status # "Active", epoch' = epoch
               PROVE  d \in DOMAIN commands' /\ commands'[d] = commands[d]
    OBVIOUS
  <2>1. CASE Tick
    BY <2>1 DEF Tick
  <2>2. CASE SweepExpired
    BY <2>2 DEF SweepExpired
  <2>3. CASE Restart
    BY <2>3, ManagerAssumption DEF Restart, ManagerInv, TypeOK
  <2>4. ASSUME NEW c \in Command, NEW r \in DispatchRequest, Sign(c, r)
        PROVE  d \in DOMAIN commands' /\ commands'[d] = commands[d]
    BY <2>4 DEF Sign
  <2>5. ASSUME NEW c \in Command, Insert(c)
        PROVE  d \in DOMAIN commands' /\ commands'[d] = commands[d]
    BY <2>5 DEF Insert, With, ManagerInv
  <2>6. ASSUME NEW c \in Command, Respond(c)
        PROVE  d \in DOMAIN commands' /\ commands'[d] = commands[d]
    BY <2>6 DEF Respond
  <2>7. ASSUME NEW c \in Command, Rollback(c)
        PROVE  d \in DOMAIN commands' /\ commands'[d] = commands[d]
    BY <2>7 DEF Rollback, ManagerInv, TypeOK, Status
  <2> QED BY <2>1, <2>2, <2>3, <2>4, <2>5, <2>6, <2>7 DEF Next
<1> QED BY <1>1, ManagerInit, ManagerStepInv, PTL DEF Spec, OutcomeSettled

-----------------------------------------------------------------------------
(* Policy requests: every set of clients, questions and bundles.           *)

\* What a request under way has noted is true of its time: no more commands were in
\* force all along than are now, no fewer at some time, and a deny rule that applied
\* all along applies now.
WitnessTrue ==
  \A p \in Client : asked[p].step \in Waiting =>
    /\ asked[p].throughout \subseteq InForce(commands, clock)
    /\ InForce(commands, clock) \subseteq asked[p].sometime
    /\ asked[p].denied =>
         Policy!Denied(asked[p].q.app, asked[p].q.capability, asked[p].q.resource)

\* An evaluation that got past the first read did not overlook a revocation there.
PastTheCheck ==
  \A p \in Client : asked[p].step = "decide" /\ asked[p].kind = "evaluate" =>
    ~\E c \in asked[p].throughout : Revokes(c, asked[p].q)

RequestInv ==
  /\ ManagerInv
  /\ RequestTypeOK
  /\ WitnessTrue
  /\ PastTheCheck
  /\ RevocationsAreCurrent
  /\ DenyIsNeverMissed

\* The record only grows, and never rewrites the body of a command.
RecordGrows ==
  \A c \in DOMAIN commands : c \in DOMAIN commands' /\ commands'[c].body = commands[c].body

LEMMA StepGrowsRecord == ManagerInv /\ RecordStep => RecordGrows
<1> SUFFICES ASSUME ManagerInv, RecordStep PROVE RecordGrows
  OBVIOUS
<1> USE DEF RecordGrows
<1>1. CASE Tick
  BY <1>1 DEF Tick
<1>2. CASE SweepExpired
  BY <1>2 DEF SweepExpired, ManagerInv, TypeOK
<1>3. ASSUME NEW c \in Command, NEW r \in DispatchRequest, Sign(c, r) PROVE RecordGrows
  BY <1>3 DEF Sign
<1>4. ASSUME NEW c \in Command, Insert(c) PROVE RecordGrows
  BY <1>4 DEF Insert, With, ManagerInv
<1>5. ASSUME NEW c \in Command, Rollback(c) PROVE RecordGrows
  BY <1>5 DEF Rollback, ManagerInv, TypeOK
<1> QED BY <1>1, <1>2, <1>3, <1>4, <1>5 DEF RecordStep

\* While the world moves, what the requests note stays true.
LEMMA WitnessedInv ==
  ASSUME RequestInv, ManagerInv', RecordGrows, Witnessed,
         DOMAIN bundles' \subseteq BundleId, bundles' \in [DOMAIN bundles' -> Bundle]
  PROVE  RequestInv'
<1>1. /\ asked \in [Client -> RequestState] /\ asked' \in [Client -> RequestState]
      /\ \A p \in Client : asked'[p].step = asked[p].step
  <2>1. asked \in [Client -> RequestState]
    BY DEF RequestInv, RequestTypeOK
  <2>2. InForce(commands', clock') \subseteq Command
    BY DEF InForce, ManagerInv, TypeOK
  <2>3. ASSUME NEW p \in Client
        PROVE  asked'[p] \in RequestState /\ asked'[p].step = asked[p].step
    BY ZenonT(30), <2>1, <2>2 DEF Witnessed, RequestState, Waiting
  <2> QED BY <2>1, <2>3 DEF Witnessed
<1>2. ASSUME NEW p \in Client, asked[p].step \in Waiting
      PROVE  /\ asked'[p].kind = asked[p].kind /\ asked'[p].q = asked[p].q
             /\ asked'[p].throughout = asked[p].throughout \cap InForce(commands', clock')
             /\ asked'[p].sometime = asked[p].sometime \cup InForce(commands', clock')
             /\ asked'[p].denied => Policy!DeniedBy(bundles', asked[p].q.app,
                                                    asked[p].q.capability, asked[p].q.resource)
  <2> DEFINE still == asked[p].denied /\ Policy!DeniedBy(bundles', asked[p].q.app,
                                           asked[p].q.capability, asked[p].q.resource)
  <2>1. asked[p] \in [step : Waiting, kind : {"evaluate", "simulate"}, q : Question,
                      throughout : SUBSET Command, sometime : SUBSET Command, denied : BOOLEAN]
    BY <1>1, <1>2 DEF RequestState, Waiting
  <2>2. asked'[p] = [asked[p] EXCEPT !.throughout = @ \cap InForce(commands', clock'),
                                     !.sometime = @ \cup InForce(commands', clock'),
                                     !.denied = still]
    BY <1>2, <2>1 DEF Witnessed
  <2>3. asked'[p].denied = still
    <3> HIDE DEF still
    <3> QED BY <2>1, <2>2
  <2>4. /\ asked'[p].kind = asked[p].kind /\ asked'[p].q = asked[p].q
        /\ asked'[p].throughout = asked[p].throughout \cap InForce(commands', clock')
        /\ asked'[p].sometime = asked[p].sometime \cup InForce(commands', clock')
    <3> HIDE DEF still
    <3> QED BY <2>1, <2>2
  <2> QED BY <2>3, <2>4
<1>3. ASSUME NEW p \in Client, asked[p].step \notin Waiting
      PROVE  asked'[p] = asked[p]
  BY <1>1, <1>3 DEF Witnessed
<1>4. ASSUME NEW p \in Client, asked[p].step # "idle"
      PROVE  /\ asked[p].throughout \subseteq DOMAIN commands
             /\ asked[p].sometime \subseteq DOMAIN commands
  BY <1>4 DEF RequestInv, RequestTypeOK
<1>5. InForce(commands', clock') \subseteq DOMAIN commands'
  BY DEF InForce
<1>6. RequestTypeOK'
  <2>1. ASSUME NEW p \in Client, asked'[p].step # "idle"
        PROVE  asked'[p].throughout \cup asked'[p].sometime \subseteq DOMAIN commands'
    BY <1>1, <1>2, <1>3, <1>4, <1>5, <2>1 DEF RecordGrows
  <2> QED BY <1>1, <2>1 DEF RequestTypeOK
<1>7. WitnessTrue'
  <2> SUFFICES ASSUME NEW p \in Client, asked'[p].step \in Waiting
               PROVE  /\ asked'[p].throughout \subseteq InForce(commands', clock')
                      /\ InForce(commands', clock') \subseteq asked'[p].sometime
                      /\ asked'[p].denied => Policy!Denied(asked[p].q.app, asked[p].q.capability,
                                                           asked[p].q.resource)'
    BY DEF WitnessTrue
  <2> QED BY <1>1, <1>2 DEF Policy!Denied
<1>8. PastTheCheck'
  BY <1>1, <1>2, <1>4 DEF PastTheCheck, RequestInv, Revokes, RecordGrows, Waiting
<1>9. RevocationsAreCurrent'
  BY <1>1, <1>3, <1>4 DEF RevocationsAreCurrent, RequestInv, Revokes, RecordGrows, Waiting
<1>10. DenyIsNeverMissed'
  BY <1>1, <1>3 DEF DenyIsNeverMissed, RequestInv, Waiting
<1> QED BY <1>6, <1>7, <1>8, <1>9, <1>10 DEF RequestInv

LEMMA RequestInitInv == RequestInit => RequestInv
<1> SUFFICES ASSUME RequestInit PROVE RequestInv
  OBVIOUS
<1>1. ManagerInv
  BY ManagerInit DEF RequestInit
<1>2. \A p \in Client : asked[p] = [step |-> "idle"] /\ asked[p].step = "idle"
  BY DEF RequestInit
<1>3. RequestTypeOK
  BY <1>2, RequestAssumption DEF RequestInit, RequestTypeOK, RequestState
<1> QED
  BY <1>1, <1>2, <1>3
  DEF RequestInv, WitnessTrue, PastTheCheck, RevocationsAreCurrent, DenyIsNeverMissed, Waiting

\* A step of one request alone has only that request to answer for.
LEMMA OneRequest ==
  ASSUME RequestInv, NEW p \in Client,
         UNCHANGED <<managerVars, bundles>>,
         asked'[p] \in RequestState,
         asked' = [asked EXCEPT ![p] = asked'[p]],
         asked'[p].step # "idle",
         asked'[p].throughout \cup asked'[p].sometime \subseteq DOMAIN commands,
         asked'[p].step \in Waiting =>
           /\ asked'[p].throughout \subseteq InForce(commands, clock)
           /\ InForce(commands, clock) \subseteq asked'[p].sometime
           /\ asked'[p].denied =>
                Policy!Denied(asked'[p].q.app, asked'[p].q.capability, asked'[p].q.resource),
         asked'[p].step = "decide" /\ asked'[p].kind = "evaluate" =>
           ~\E c \in asked'[p].throughout : Revokes(c, asked'[p].q),
         asked'[p].step = "done" /\ asked'[p].kind = "evaluate" =>
           /\ (\E c \in asked'[p].throughout : Revokes(c, asked'[p].q)) => asked'[p].answer = "revoke"
           /\ asked'[p].answer = "revoke" => \E c \in asked'[p].sometime : Revokes(c, asked'[p].q),
         asked'[p].step = "done" /\ asked'[p].denied => asked'[p].answer # "allow"
  PROVE  RequestInv'
<1>1. /\ UNCHANGED <<clock, epoch, drawn, pending, commands, nextSweep, sent, bundles>>
      /\ asked \in [Client -> RequestState] /\ asked' \in [Client -> RequestState]
      /\ \A r \in Client : r # p => asked'[r] = asked[r]
  BY DEF RequestInv, RequestTypeOK, managerVars
<1>2. ManagerInv'
  BY <1>1 DEF RequestInv, ManagerInv, TypeOK
<1>3. RequestTypeOK'
  BY <1>1 DEF RequestInv, RequestTypeOK
<1>4. WitnessTrue'
  BY <1>1 DEF RequestInv, WitnessTrue, InForce, Policy!Denied, Policy!DeniedBy, Policy!Matches
<1>5. PastTheCheck'
  BY <1>1 DEF RequestInv, PastTheCheck, Revokes
<1>6. RevocationsAreCurrent'
  BY <1>1 DEF RequestInv, RevocationsAreCurrent, Revokes
<1>7. DenyIsNeverMissed'
  BY <1>1 DEF RequestInv, DenyIsNeverMissed
<1> QED BY <1>2, <1>3, <1>4, <1>5, <1>6, <1>7 DEF RequestInv

\* A request that starts notes the world as it is.
LEMMA ArriveInv ==
  ASSUME RequestInv, NEW p \in Client, NEW kind \in {"evaluate", "simulate"}, NEW q \in Question,
         Arrive(p, kind, q)
  PROVE  RequestInv'
<1> DEFINE denied == Policy!Denied(q.app, q.capability, q.resource)
           now == InForce(commands, clock)
           step == IF kind = "evaluate" THEN "check" ELSE "decide"
           new == [step |-> step, kind |-> kind, q |-> q, throughout |-> now, sometime |-> now,
                   denied |-> denied]
<1>1. /\ UNCHANGED <<managerVars, bundles>>
      /\ asked \in [Client -> RequestState]
      /\ asked' = [asked EXCEPT ![p] = new]
  BY DEF Arrive, RequestInv, RequestTypeOK
<1>2. now \subseteq DOMAIN commands /\ now \subseteq Command
  BY DEF InForce, RequestInv, ManagerInv, TypeOK
<1>3. denied \in BOOLEAN
  BY DEF Policy!Denied, Policy!DeniedBy
<1>4. new \in RequestState
  <2> HIDE DEF denied, now
  <2> QED BY <1>2, <1>3 DEF RequestState, Waiting
<1>5. asked'[p] = new
  <2> HIDE DEF new
  <2> QED BY <1>1
<1>6. /\ asked'[p].step = step /\ asked'[p].kind = kind /\ asked'[p].q = q
      /\ asked'[p].throughout = now /\ asked'[p].sometime = now /\ asked'[p].denied = denied
  <2> HIDE DEF denied, now, step
  <2> QED BY <1>5
<1>7. step \in Waiting /\ (step = "decide" => kind = "simulate")
  BY DEF Waiting
<1>8. asked' = [asked EXCEPT ![p] = asked'[p]]
  <2> HIDE DEF new
  <2> QED BY <1>1, <1>5
<1> HIDE DEF denied, now, step, new
<1>9. asked'[p].denied => Policy!Denied(asked'[p].q.app, asked'[p].q.capability, asked'[p].q.resource)
  BY <1>6 DEF denied
<1> QED BY <1>1, <1>2, <1>4, <1>5, <1>6, <1>7, <1>8, <1>9, OneRequest DEF now, Waiting

\* The first read answers, or finds nothing in force that revokes.
LEMMA CheckRevokedInv ==
  ASSUME RequestInv, NEW p \in Client, CheckRevoked(p)
  PROVE  RequestInv'
<1> DEFINE r == asked[p]
<1>1. /\ UNCHANGED <<managerVars, bundles>>
      /\ asked \in [Client -> RequestState]
      /\ r \in [step : Waiting, kind : {"evaluate", "simulate"}, q : Question,
                throughout : SUBSET Command, sometime : SUBSET Command, denied : BOOLEAN]
      /\ r.step = "check"
      /\ r.throughout \cup r.sometime \subseteq DOMAIN commands
      /\ r.throughout \subseteq InForce(commands, clock)
      /\ InForce(commands, clock) \subseteq r.sometime
      /\ r.denied => Policy!Denied(r.q.app, r.q.capability, r.q.resource)
  BY DEF CheckRevoked, RequestInv, RequestTypeOK, RequestState, WitnessTrue, Waiting
<1>2. IsCapabilityRevoked(r.q.entity, r.q.capability)
        <=> \E c \in InForce(commands, clock) : Revokes(c, r.q)
  BY DEF IsCapabilityRevoked, Revokes
<1>3. CASE IsCapabilityRevoked(r.q.entity, r.q.capability)
  <2> DEFINE new == [step |-> "done", kind |-> r.kind, q |-> r.q, answer |-> "revoke",
                     throughout |-> r.throughout, sometime |-> r.sometime, denied |-> r.denied]
  <2>1. asked' = [asked EXCEPT ![p] = new]
    BY <1>3 DEF CheckRevoked, Answered
  <2>2. new \in RequestState
    BY <1>1 DEF RequestState
  <2>3. asked'[p] = new
    BY <1>1, <2>1
  <2>4. /\ asked'[p].step = "done" /\ asked'[p].q = r.q /\ asked'[p].answer = "revoke"
        /\ asked'[p].throughout = r.throughout /\ asked'[p].sometime = r.sometime
    BY <2>3
  <2> HIDE DEF new, r
  <2>5. \E c \in asked'[p].sometime : Revokes(c, asked'[p].q)
    BY <1>1, <1>2, <1>3, <2>4
  <2>6. asked' = [asked EXCEPT ![p] = asked'[p]]
    BY <2>1, <2>3
  <2> QED BY <1>1, <2>2, <2>3, <2>4, <2>5, <2>6, OneRequest DEF Waiting
<1>4. CASE ~IsCapabilityRevoked(r.q.entity, r.q.capability)
  <2> DEFINE new == [r EXCEPT !.step = "decide"]
  <2>1. asked' = [asked EXCEPT ![p] = new]
    BY <1>1, <1>4 DEF CheckRevoked
  <2>2. new \in RequestState
    BY <1>1 DEF RequestState, Waiting
  <2>3. asked'[p] = new
    BY <1>1, <2>1
  <2>4. /\ asked'[p].step = "decide" /\ asked'[p].q = r.q /\ asked'[p].kind = r.kind
        /\ asked'[p].throughout = r.throughout /\ asked'[p].sometime = r.sometime
        /\ asked'[p].denied = r.denied
    BY <1>1, <2>3
  <2> HIDE DEF new, r
  <2>5. ~\E c \in asked'[p].throughout : Revokes(c, asked'[p].q)
    BY <1>1, <1>2, <1>4, <2>4
  <2>6. asked' = [asked EXCEPT ![p] = asked'[p]]
    BY <2>1, <2>3
  <2>7. asked'[p].denied =>
          Policy!Denied(asked'[p].q.app, asked'[p].q.capability, asked'[p].q.resource)
    BY <1>1, <2>4
  <2> QED BY <1>1, <2>2, <2>3, <2>4, <2>5, <2>6, <2>7, OneRequest DEF Waiting
<1> QED BY <1>3, <1>4

\* What evaluate may answer; a deny rule that applies leaves only one answer.
LEMMA EvaluateAnswers ==
  ASSUME NEW a, NEW c, NEW r, NEW answer \in Policy!Evaluate(a, c, r)
  PROVE  /\ answer \in {"allow", "deny"}
         /\ Policy!Denied(a, c, r) => answer = "deny"
BY DEF Policy!Evaluate, Policy!Defaults

LEMMA DecideInv ==
  ASSUME RequestInv, NEW p \in Client, Decide(p)
  PROVE  RequestInv'
<1> DEFINE r == asked[p]
<1>1. /\ UNCHANGED <<managerVars, bundles>>
      /\ asked \in [Client -> RequestState]
      /\ r \in [step : Waiting, kind : {"evaluate", "simulate"}, q : Question,
                throughout : SUBSET Command, sometime : SUBSET Command, denied : BOOLEAN]
      /\ r.step = "decide"
      /\ r.throughout \cup r.sometime \subseteq DOMAIN commands
      /\ r.denied => Policy!Denied(r.q.app, r.q.capability, r.q.resource)
      /\ r.kind = "evaluate" => ~\E c \in r.throughout : Revokes(c, r.q)
  BY DEF Decide, RequestInv, RequestTypeOK, RequestState, WitnessTrue, PastTheCheck, Waiting
<1>2. PICK answer \in Policy!Evaluate(r.q.app, r.q.capability, r.q.resource) : Answered(p, answer)
  BY DEF Decide
<1>3. answer \in {"allow", "deny"} /\ (r.denied => answer = "deny")
  BY <1>1, <1>2, EvaluateAnswers
<1> DEFINE new == [step |-> "done", kind |-> r.kind, q |-> r.q, answer |-> answer,
                   throughout |-> r.throughout, sometime |-> r.sometime, denied |-> r.denied]
<1>4. asked' = [asked EXCEPT ![p] = new]
  BY <1>2 DEF Answered
<1>5. new \in RequestState
  BY <1>1, <1>3 DEF RequestState
<1>6. asked'[p] = new
  BY <1>1, <1>4
<1>7. /\ asked'[p].step = "done" /\ asked'[p].q = r.q /\ asked'[p].answer = answer
      /\ asked'[p].throughout = r.throughout /\ asked'[p].sometime = r.sometime
      /\ asked'[p].kind = r.kind /\ asked'[p].denied = r.denied
  BY <1>6
<1>8. asked' = [asked EXCEPT ![p] = asked'[p]]
  <2> HIDE DEF new
  <2> QED BY <1>4, <1>6
<1> HIDE DEF new, r
<1> QED BY <1>1, <1>3, <1>5, <1>6, <1>7, <1>8, OneRequest DEF Waiting

LEMMA RequestStepInv == RequestInv /\ [RequestNext]_requestVars => RequestInv'
<1> SUFFICES ASSUME RequestInv, [RequestNext]_requestVars PROVE RequestInv'
  OBVIOUS
<1>1. CASE RecordStep
  <2>1. ManagerInv' /\ RecordGrows
    <3>1. Next
      BY <1>1 DEF RecordStep, Next
    <3> QED BY <1>1, <3>1, ManagerStepInv, StepGrowsRecord DEF RequestInv
  <2>2. DOMAIN bundles' \subseteq BundleId /\ bundles' \in [DOMAIN bundles' -> Bundle]
    BY <1>1 DEF RecordStep, RequestInv, RequestTypeOK
  <2> QED BY <1>1, <2>1, <2>2, WitnessedInv DEF RecordStep
<1>2. CASE RestartAll
  <2>1. ManagerInv'
    <3>1. Next
      BY <1>2 DEF RestartAll, Next
    <3> QED BY <3>1, ManagerStepInv DEF RequestInv
  <2>2. \A p \in Client : asked'[p] = [step |-> "idle"] /\ asked'[p].step = "idle"
    BY <1>2 DEF RestartAll
  <2>3. RequestTypeOK'
    BY <1>2, <2>2, RequestAssumption DEF RestartAll, RequestTypeOK, RequestState
  <2> QED
    BY <2>1, <2>2, <2>3
    DEF RequestInv, WitnessTrue, PastTheCheck, RevocationsAreCurrent, DenyIsNeverMissed, Waiting
<1>3. ASSUME NEW id \in BundleId, RemoveBundle(id) \/ \E b \in Bundle : AddBundle(id, b)
      PROVE  RequestInv'
  <2>1. UNCHANGED managerVars /\ Witnessed
    BY <1>3 DEF RemoveBundle, AddBundle
  <2>2. ManagerInv' /\ RecordGrows
    BY <2>1 DEF managerVars, RequestInv, ManagerInv, TypeOK, RecordGrows
  <2>3. DOMAIN bundles' \subseteq BundleId /\ bundles' \in [DOMAIN bundles' -> Bundle]
    BY <1>3 DEF RemoveBundle, AddBundle, Policy!BundlesWith, Policy!BundlesWithout,
                RequestInv, RequestTypeOK
  <2> QED BY <2>1, <2>2, <2>3, WitnessedInv
<1>4. ASSUME NEW p \in Client, NEW kind \in {"evaluate", "simulate"}, NEW q \in Question,
             Arrive(p, kind, q)
      PROVE  RequestInv'
  BY <1>4, ArriveInv
<1>5. ASSUME NEW p \in Client, CheckRevoked(p) PROVE RequestInv'
  BY <1>5, CheckRevokedInv
<1>6. ASSUME NEW p \in Client, Decide(p) PROVE RequestInv'
  BY <1>6, DecideInv
<1>7. CASE UNCHANGED requestVars
  <2>1. UNCHANGED <<clock, epoch, drawn, pending, commands, nextSweep, sent, bundles, asked>>
    BY <1>7 DEF requestVars, managerVars
  <2> QED
    BY <2>1 DEF RequestInv, ManagerInv, TypeOK, RequestTypeOK, WitnessTrue, PastTheCheck,
                RevocationsAreCurrent, DenyIsNeverMissed, InForce, Revokes, Policy!Denied,
                Policy!DeniedBy, Policy!Matches
<1> QED BY <1>1, <1>2, <1>3, <1>4, <1>5, <1>6, <1>7 DEF RequestNext

\* Every reachable state of the requests is well typed.
THEOREM RequestTypeCorrect == RequestSpec => []RequestTypeOK
<1>1. RequestInv => RequestTypeOK
  BY DEF RequestInv
<1> QED BY <1>1, RequestInitInv, RequestStepInv, PTL DEF RequestSpec

\* An evaluation never misses a revocation that held while it ran, and never reports
\* one that did not.
THEOREM RevocationsStayCurrent == RequestSpec => []RevocationsAreCurrent
<1>1. RequestInv => RevocationsAreCurrent
  BY DEF RequestInv
<1> QED BY <1>1, RequestInitInv, RequestStepInv, PTL DEF RequestSpec

\* A deny rule that applied while a request ran is never overridden.
THEOREM DenyWins == RequestSpec => []DenyIsNeverMissed
<1>1. RequestInv => DenyIsNeverMissed
  BY DEF RequestInv
<1> QED BY <1>1, RequestInitInv, RequestStepInv, PTL DEF RequestSpec

-----------------------------------------------------------------------------
(* The record and an agent: every clock offset, any restarts and delays.   *)

\* Every command on record was signed by this start of the process; a command
\* handed out is the recorded one, or of an earlier start.
SignersKnown ==
  /\ \A c \in DOMAIN pending : pending[c].signer = epoch
  /\ \A c \in DOMAIN commands : commands[c].body.signer = epoch
  /\ DOMAIN pending \cap DOMAIN sent = {}
  /\ \A c \in DOMAIN sent :
       \/ c \in DOMAIN commands /\ sent[c] = commands[c].body
       \/ sent[c].signer < epoch /\ c \notin DOMAIN commands

\* What the agent has in hand or enforces was handed out.
HandedOut ==
  /\ DOMAIN call = Thread
  /\ \A t \in Thread : call[t].op \in {"nonce", "expiry", "install"} => call[t].cmd \in DOMAIN sent
  /\ enforcing \subseteq DOMAIN sent

SystemInv == ManagerInv /\ SignersKnown /\ HandedOut

LEMMA SystemInitInv == SystemInit => SystemInv
<1> SUFFICES ASSUME SystemInit PROVE SystemInv
  OBVIOUS
<1>1. ManagerInv
  BY ManagerInit DEF SystemInit
<1>2. SignersKnown
  BY DEF SystemInit, Init, SignersKnown, EmptyMap
<1>3. HandedOut
  BY DEF SystemInit, Guard!Init, HandedOut
<1> QED BY <1>1, <1>2, <1>3 DEF SystemInv

\* A signature names the start of the process that made it.
LEMMA SignerTyped ==
  ASSUME NEW m \in SignedBody
  PROVE  m.signer \in 0..MaxEpoch
BY DEF SignedBody

LEMMA ManagerMoves ==
  ASSUME SystemInv, Next
  PROVE  SignersKnown' /\ DOMAIN sent \subseteq DOMAIN sent'
<1>0. TypeOK /\ epoch \in 0..MaxEpoch /\ DOMAIN pending \cap DOMAIN commands = {}
  BY DEF SystemInv, ManagerInv
<1> USE DEF SystemInv, SignersKnown
<1>1. CASE Tick
  BY <1>1 DEF Tick
<1>2. CASE SweepExpired
  <2>1. DOMAIN commands' = DOMAIN commands
    BY <1>2 DEF SweepExpired
  <2>2. \A c \in DOMAIN commands : commands'[c].body = commands[c].body
    BY <1>0, <1>2 DEF SweepExpired, TypeOK
  <2> QED BY <1>2, <2>1, <2>2 DEF SweepExpired
<1>3. CASE Restart
  <2>1. \A c \in DOMAIN sent : sent[c].signer \in 0..MaxEpoch /\ sent[c].signer <= epoch
    BY <1>0, SignerTyped, ManagerAssumption DEF TypeOK
  <2>2. epoch' = epoch + 1 /\ sent' = sent /\ DOMAIN commands' = {} /\ DOMAIN pending' = {}
    BY <1>3 DEF Restart, EmptyMap
  <2>3. \A c \in DOMAIN sent : sent[c].signer < epoch + 1
    BY <1>0, <2>1
  <2> QED BY <2>2, <2>3
<1>4. ASSUME NEW c \in Command, NEW r \in DispatchRequest, Sign(c, r)
      PROVE  SignersKnown' /\ DOMAIN sent \subseteq DOMAIN sent'
  <2>1. Body(r).signer = epoch
    BY DEF Body
  <2> QED BY <1>0, <1>4, <2>1 DEF Sign, With, TypeOK
<1>5. ASSUME NEW c \in Command, Insert(c)
      PROVE  SignersKnown' /\ DOMAIN sent \subseteq DOMAIN sent'
  <2>1. /\ DOMAIN commands' = DOMAIN commands \cup {c} /\ commands'[c].body = pending[c]
        /\ \A d \in DOMAIN commands : commands'[d] = commands[d]
        /\ DOMAIN pending' = DOMAIN pending \ {c}
        /\ \A d \in DOMAIN pending \ {c} : pending'[d] = pending[d]
        /\ c \in DOMAIN pending /\ sent' = sent /\ epoch' = epoch
    BY <1>0, <1>5 DEF Insert, With, Restrict
  <2> QED BY <1>0, <2>1
<1>6. ASSUME NEW c \in Command, Respond(c)
      PROVE  SignersKnown' /\ DOMAIN sent \subseteq DOMAIN sent'
  <2>1. /\ DOMAIN sent' = DOMAIN sent \cup {c} /\ sent'[c] = commands[c].body
        /\ \A d \in DOMAIN sent \ {c} : sent'[d] = sent[d]
        /\ c \in DOMAIN commands /\ UNCHANGED <<pending, commands, epoch>>
    BY <1>6 DEF Respond, With
  <2> QED BY <1>0, <2>1
<1>7. ASSUME NEW c \in Command, Rollback(c)
      PROVE  SignersKnown' /\ DOMAIN sent \subseteq DOMAIN sent'
  <2>1. /\ DOMAIN commands' = DOMAIN commands
        /\ \A d \in DOMAIN commands : commands'[d].body = commands[d].body
        /\ UNCHANGED <<pending, sent, epoch>>
    BY <1>0, <1>7 DEF Rollback, TypeOK
  <2> QED BY <2>1
<1> QED BY <1>1, <1>2, <1>3, <1>4, <1>5, <1>6, <1>7 DEF Next

LEMMA AgentMoves ==
  ASSUME SystemInv, GuardStep
  PROVE  HandedOut'
<1> USE DEF SystemInv, HandedOut
<1>1. sent' = sent
  BY DEF GuardStep, managerVars
<1>2. CASE Guard!Restart
  BY <1>1, <1>2 DEF Guard!Restart
<1>3. ASSUME NEW t \in Thread, NEW c \in Command, Guard!ApplyBegin(t, c) PROVE HandedOut'
  BY <1>1, <1>3 DEF Guard!ApplyBegin, Guard!history
<1>4. ASSUME NEW t \in Thread, Guard!RecordNonce(t) PROVE HandedOut'
  BY <1>1, <1>4 DEF Guard!RecordNonce
<1>5. ASSUME NEW t \in Thread, Guard!CheckExpiry(t) PROVE HandedOut'
  BY <1>1, <1>5 DEF Guard!CheckExpiry, Guard!history
<1>6. ASSUME NEW t \in Thread, Guard!Install(t) PROVE HandedOut'
  BY <1>1, <1>6 DEF Guard!Install
<1>7. ASSUME NEW t \in Thread, NEW r \in Request, Guard!Ask(t, r) PROVE HandedOut'
  BY <1>1, <1>7 DEF Guard!Ask, Guard!history
<1>8. ASSUME NEW t \in Thread, Guard!ReadClock(t) PROVE HandedOut'
  BY <1>1, <1>8 DEF Guard!ReadClock, Guard!history
<1>9. ASSUME NEW t \in Thread, Guard!LookUp(t) PROVE HandedOut'
  <2>1. Guard!Passed(t).op \in {"allowed", "ask"}
    BY DEF Guard!Passed
  <2> QED BY <1>1, <1>9, <2>1 DEF Guard!LookUp, Guard!history
<1>10. ASSUME NEW target, NEW action, Guard!RollbackAction(target, action) PROVE HandedOut'
  BY <1>1, <1>10 DEF Guard!RollbackAction
<1> QED BY <1>2, <1>3, <1>4, <1>5, <1>6, <1>7, <1>8, <1>9, <1>10 DEF GuardStep

LEMMA SystemStepInv == SystemInv /\ [SystemNext]_systemVars => SystemInv'
<1> SUFFICES ASSUME SystemInv, [SystemNext]_systemVars PROVE SystemInv'
  OBVIOUS
<1>1. CASE ManagerStep
  <2>1. Next /\ UNCHANGED guardVars
    BY <1>1 DEF ManagerStep, Next
  <2>2. ManagerInv'
    BY <2>1, ManagerStepInv DEF SystemInv
  <2>3. SignersKnown' /\ DOMAIN sent \subseteq DOMAIN sent'
    BY <2>1, ManagerMoves
  <2>4. HandedOut'
    BY <2>1, <2>3 DEF guardVars, SystemInv, HandedOut
  <2> QED BY <2>2, <2>3, <2>4 DEF SystemInv
<1>2. CASE SystemTick
  <2>1. Next /\ UNCHANGED <<sent, call, enforcing>>
    BY <1>2 DEF SystemTick, Next, Tick, Guard!Tick, Guard!history
  <2>2. ManagerInv'
    BY <2>1, ManagerStepInv DEF SystemInv
  <2>3. SignersKnown'
    BY <2>1, ManagerMoves
  <2>4. HandedOut'
    BY <2>1 DEF SystemInv, HandedOut
  <2> QED BY <2>2, <2>3, <2>4 DEF SystemInv
<1>3. CASE GuardStep
  <2>1. UNCHANGED managerVars
    BY <1>3 DEF GuardStep
  <2>2. ManagerInv'
    BY <2>1, ManagerStepInv DEF SystemInv
  <2>3. SignersKnown'
    BY <2>1 DEF managerVars, SystemInv, SignersKnown
  <2> QED BY <1>3, <2>2, <2>3, AgentMoves DEF SystemInv
<1>4. CASE UNCHANGED systemVars
  <2>1. UNCHANGED managerVars /\ UNCHANGED guardVars
    BY <1>4 DEF systemVars
  <2>2. ManagerInv'
    BY <2>1, ManagerStepInv DEF SystemInv
  <2>3. SignersKnown' /\ HandedOut'
    BY <2>1 DEF managerVars, guardVars, SystemInv, SignersKnown, HandedOut
  <2> QED BY <2>2, <2>3 DEF SystemInv
<1> QED BY <1>1, <1>2, <1>3, <1>4 DEF SystemNext

LEMMA SystemInvHolds == SystemSpec => []SystemInv
BY SystemInitInv, SystemStepInv, PTL DEF SystemSpec

-----------------------------------------------------------------------------
\* Whatever an agent enforces is on the record, unless the control plane that
\* signed it is gone (engine/src/containment/mod.rs:56-80), for any number of
\* commands, threads and restarts.
THEOREM EnforcementIsOnRecord == SystemSpec => []EnforcedIsOnRecord
<1>1. SystemInv => EnforcedIsOnRecord
  <2> SUFFICES ASSUME SystemInv, NEW c \in enforcing
               PROVE  c \in DOMAIN commands \/ sent[c].signer # epoch
    BY DEF EnforcedIsOnRecord
  <2>1. c \in DOMAIN sent /\ sent[c].signer \in 0..MaxEpoch /\ epoch \in Nat
    BY SignerTyped DEF SystemInv, HandedOut, ManagerInv, TypeOK
  <2> QED BY <2>1, ManagerAssumption DEF SystemInv, SignersKnown
<1> QED BY <1>1, SystemInvHolds, PTL

\* A response hands a command out as the record has it: to the guard it is a
\* new command or one that it may have seen before.
LEMMA ResponseIssues ==
  ASSUME SystemInv, NEW c \in Command, Respond(c), UNCHANGED guardVars
  PROVE  [Guard!Next]_(Guard!vars)
<1>1. /\ c \in DOMAIN commands /\ commands[c].body \in SignedBody
      /\ sent' = [d \in DOMAIN sent \cup {c} |-> IF d = c THEN commands[c].body ELSE sent[d]]
      /\ clock' = clock
  BY DEF SystemInv, ManagerInv, TypeOK, Respond, With
<1>2. CASE c \in DOMAIN sent
  <2>1. sent[c] = commands[c].body
    BY <1>1, <1>2 DEF SystemInv, SignersKnown
  <2>2. sent = [d \in DOMAIN sent |-> sent[d]]
    BY DEF SystemInv, ManagerInv, TypeOK
  <2>3. DOMAIN sent \cup {c} = DOMAIN sent
    BY <1>2
  <2>4. sent' = sent
    BY <1>1, <2>1, <2>2, <2>3
  <2> QED BY <1>1, <2>4 DEF Guard!vars, guardVars
<1>3. CASE c \notin DOMAIN sent
  <2>1. Guard!Issue(c)
    BY <1>1, <1>3 DEF Guard!Issue, Guard!history, guardVars
  <2> QED BY <2>1 DEF Guard!Next
<1> QED BY <1>2, <1>3

LEMMA GuardSimulation == SystemInv /\ [SystemNext]_systemVars => [Guard!Next]_(Guard!vars)
<1> SUFFICES ASSUME SystemInv, [SystemNext]_systemVars PROVE [Guard!Next]_(Guard!vars)
  OBVIOUS
<1>1. CASE ManagerStep
  <2>1. UNCHANGED guardVars
    BY <1>1 DEF ManagerStep
  <2>2. ASSUME NEW c \in Command, Respond(c) PROVE [Guard!Next]_(Guard!vars)
    BY <2>1, <2>2, ResponseIssues
  <2>3. ASSUME ~\E c \in Command : Respond(c) PROVE UNCHANGED <<clock, sent>>
    BY <1>1, <2>3 DEF ManagerStep, SweepExpired, Restart, Sign, Insert, Rollback
  <2>4. ASSUME ~\E c \in Command : Respond(c) PROVE UNCHANGED Guard!vars
    BY <2>1, <2>3, <2>4 DEF Guard!vars, guardVars
  <2> QED BY <2>2, <2>4
<1>2. CASE SystemTick
  BY <1>2 DEF SystemTick, Guard!Next
<1>3. CASE GuardStep
  <2>1. ASSUME NEW c \in DOMAIN commands,
               Guard!RollbackAction(commands[c].body.target, commands[c].body.action)
        PROVE  Guard!Next
    <3>1. commands[c].body \in SignedBody
      BY DEF SystemInv, ManagerInv, TypeOK
    <3> QED BY <2>1, <3>1 DEF Guard!Next
  <2> QED BY <1>3, <2>1 DEF GuardStep, Guard!Next
<1>4. CASE UNCHANGED systemVars
  BY <1>4 DEF systemVars, managerVars, guardVars, Guard!vars
<1> QED BY <1>1, <1>2, <1>3, <1>4 DEF SystemNext

\* The agent of this system is the guard ContainmentGuardProofs is about: the
\* commands it may be shown, the time that passes and the rollbacks it hears of
\* are among those the guard was verified against.
THEOREM SystemImplementsGuard == SystemSpec => GuardSpec
<1>1. SystemInit => Guard!Init
  BY DEF SystemInit
<1> QED BY <1>1, SystemInvHolds, GuardSimulation, PTL DEF SystemSpec, GuardSpec, Guard!Spec

-----------------------------------------------------------------------------
(* What is proved of the guard holds of the agent of this system; the       *)
(* history that GuardRequests keeps of requests is not part of it.          *)

Agent == INSTANCE ContainmentGuardProofs WITH
           clock <- clock + Offset,
           StartTime <- StartTime + Offset,
           MaxTime <- MaxTime + Offset,
           MaxStall <- GuardStall,
           TrustedKey <- 0,
           Message <- SignedBody,
           standing <- [t \in Thread |-> {}]

\* What the guard asks of its constants is so here: an agent is only told what
\* the control plane signs.
LEMMA AgentAssumption == Agent!GuardAssumption
<1>1. ASSUME NEW m \in SignedBody
      PROVE  /\ m.action \in Agent!ActionType /\ m.target \in Agent!Target
             /\ m.capability \in Capability \cup {None}
             /\ m.issued_at \in Int /\ m.expires_at \in Int
  <2>1. PICK r \in DispatchRequest, now \in StartTime..MaxTime, key \in 0..MaxEpoch :
           m = [action |-> r.action, target |-> r.target, capability |-> r.capability,
                issued_at |-> now, expires_at |-> now + r.ttl, signer |-> key]
    BY DEF SignedBody
  <2>2. /\ r.action \in ActionType /\ r.target \in Target
        /\ r.capability \in Capability \cup {None} /\ r.ttl \in Nat
        /\ now \in Int
    BY ManagerAssumption
  <2>3. now + r.ttl \in Int
    BY <2>2
  <2> QED BY <2>1, <2>2, <2>3 DEF Agent!ActionType, ActionType, Agent!Target, Target
<1>2. StartTime + Offset \in Int /\ MaxTime + Offset \in Int
  BY ManagerAssumption, SystemAssumption
<1>3. Agent!SkewWindow + GuardStall <= Retention
  BY SystemAssumption DEF Agent!SkewWindow
<1>4. \A r \in Request : /\ {r.ip, r.session} \subseteq Agent!Target \cup {None}
                         /\ r.capability \in Capability \cup {None}
  BY SystemAssumption DEF Agent!Target, Target
<1> QED BY <1>1, <1>2, <1>3, <1>4, SystemAssumption DEF Agent!GuardAssumption

\* The two instances of the guard, the one of Containment and this one, are one.
LEMMA SameSlotsOf ==
  ASSUME NEW c
  PROVE  Guard!SlotsOf(c) = Agent!SlotsOf(c)
BY DEF Guard!SlotsOf, Agent!SlotsOf, Guard!IpSlot, Agent!IpSlot, Guard!SessionSlot,
   Agent!SessionSlot, Guard!RawSessionSlot, Agent!RawSessionSlot, Guard!CapabilitySlot,
   Agent!CapabilitySlot, Guard!Strip, Agent!Strip

LEMMA SameRollback ==
  ASSUME NEW target, NEW action
  PROVE  Guard!RollbackAction(target, action) <=> Agent!RollbackAction(target, action)
<1>1. Guard!RollbackSlots(target, action) = Agent!RollbackSlots(target, action)
  BY DEF Guard!RollbackSlots, Agent!RollbackSlots, Guard!IpSlot, Agent!IpSlot,
     Guard!SessionSlot, Agent!SessionSlot, Guard!RawSessionSlot, Agent!RawSessionSlot,
     Guard!CapabilitySlot, Agent!CapabilitySlot, Guard!Strip, Agent!Strip
<1> QED BY <1>1, SameSlotsOf
        DEF Guard!RollbackAction, Agent!RollbackAction, Guard!Restrict, Agent!Restrict

LEMMA SameAsk ==
  ASSUME NEW t, NEW r
  PROVE  Guard!Ask(t, r) <=> Agent!Ask(t, r)
<1>1. Guard!RequestSlots(r) = Agent!RequestSlots(r)
  BY DEF Guard!RequestSlots, Agent!RequestSlots, Guard!IpSlot, Agent!IpSlot,
     Guard!SessionSlot, Agent!SessionSlot, Guard!CapabilitySlot, Agent!CapabilitySlot,
     Guard!Strip, Agent!Strip
<1> QED BY <1>1 DEF Guard!Ask, Agent!Ask, Guard!Free, Agent!Free, Guard!history, Agent!history

LEMMA SameInit == Guard!Init <=> Agent!Init
BY DEF Guard!Init, Agent!Init, Guard!EmptyMap, Agent!EmptyMap

LEMMA SameNext == [Guard!Next]_(Guard!vars) <=> [Agent!Next]_(Agent!vars)
<1>1. UNCHANGED Guard!vars <=> UNCHANGED Agent!vars
  BY DEF Guard!vars, Agent!vars
<1>2. Guard!Tick <=> Agent!Tick
  BY DEF Guard!Tick, Agent!Tick, Guard!history, Agent!history
<1>3. Guard!Restart <=> Agent!Restart
  BY DEF Guard!Restart, Agent!Restart, Guard!EmptyMap, Agent!EmptyMap
<1>4. ASSUME NEW c PROVE Guard!Issue(c) <=> Agent!Issue(c)
  BY DEF Guard!Issue, Agent!Issue, Guard!history, Agent!history
<1>5. ASSUME NEW t, NEW c PROVE Guard!ApplyBegin(t, c) <=> Agent!ApplyBegin(t, c)
  BY DEF Guard!ApplyBegin, Agent!ApplyBegin, Guard!Free, Agent!Free,
     Guard!WholeSeconds, Agent!WholeSeconds, Guard!history, Agent!history
<1>6. ASSUME NEW t PROVE Guard!RecordNonce(t) <=> Agent!RecordNonce(t)
  BY DEF Guard!RecordNonce, Agent!RecordNonce, Guard!Retained, Agent!Retained,
     Guard!Restrict, Agent!Restrict
<1>7. ASSUME NEW t PROVE Guard!CheckExpiry(t) <=> Agent!CheckExpiry(t)
  BY DEF Guard!CheckExpiry, Agent!CheckExpiry, Guard!history, Agent!history
<1>8. ASSUME NEW t PROVE Guard!Install(t) <=> Agent!Install(t)
  BY SameSlotsOf DEF Guard!Install, Agent!Install
<1>9. ASSUME NEW t PROVE Guard!ReadClock(t) <=> Agent!ReadClock(t)
  BY DEF Guard!ReadClock, Agent!ReadClock, Guard!history, Agent!history
<1>10. ASSUME NEW t PROVE Guard!LookUp(t) <=> Agent!LookUp(t)
  BY DEF Guard!LookUp, Agent!LookUp, Guard!Passed, Agent!Passed, Guard!Restrict,
     Agent!Restrict, Guard!history, Agent!history
<1>11. Guard!Next <=> Agent!Next
  BY <1>2, <1>3, <1>4, <1>5, <1>6, <1>7, <1>8, <1>9, <1>10, SameAsk, SameRollback
     DEF Guard!Next, Agent!Next
<1> QED BY <1>1, <1>11

\* In the system as a whole, with the control plane restarting, commands handed
\* out late or repeatedly and clocks that differ, an agent applies no command
\* twice, none it was told to roll back, and enforces nothing that was not
\* signed (guard.rs:37-113).
THEOREM AgentIsSafe ==
  SystemSpec => [](Guard!NoReplay /\ Guard!LiftedStaysLifted /\ Guard!EntriesBacked)
<1>1. Agent!Spec => [](Agent!NoReplay /\ Agent!LiftedStaysLifted /\ Agent!EntriesBacked)
  <2>1. Agent!Spec => []Agent!NoReplay
    BY Agent!ReplaySafe, AgentAssumption
  <2>2. Agent!Spec => []Agent!LiftedStaysLifted
    BY Agent!RollbackSticks, AgentAssumption
  <2>3. Agent!Spec => []Agent!EntriesBacked
    BY Agent!EnforcementBacked, AgentAssumption
  <2> QED BY <2>1, <2>2, <2>3, PTL
<1>2. /\ Agent!NoReplay => Guard!NoReplay
      /\ Agent!LiftedStaysLifted => Guard!LiftedStaysLifted
      /\ Agent!EntriesBacked => Guard!EntriesBacked
  BY SameSlotsOf DEF Agent!NoReplay, Guard!NoReplay, Agent!LiftedStaysLifted,
     Guard!LiftedStaysLifted, Agent!EntriesBacked, Guard!EntriesBacked
<1>3. Guard!Spec => Agent!Spec
  BY SameInit, SameNext, PTL DEF Guard!Spec, Agent!Spec
<1>4. SystemSpec => Guard!Spec
  BY SystemImplementsGuard DEF GuardSpec
<1> QED BY <1>1, <1>2, <1>3, <1>4, PTL
=============================================================================
