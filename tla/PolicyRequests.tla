-------------------------- MODULE PolicyRequests --------------------------
(***************************************************************************)
(* The requests for policy decisions (handle_evaluate_policy,              *)
(* handle_simulate_policy and the bundle handlers of                       *)
(* crates/control-plane/src/api/mod.rs) over the policy engine and the     *)
(* containment manager.                                                    *)
(*                                                                         *)
(* An evaluation reads twice: first the record of commands, under its      *)
(* lock, then the bundles, under theirs.  Commands are dispatched, rolled  *)
(* back and swept, and bundles replaced, before, between and after.        *)
(***************************************************************************)
EXTENDS ContainmentManager

CONSTANTS
  Any, Resource, App, BundleId, Bundle,
  Baseline,   \* the bundle of with_default_policies
  Client,     \* requests that can be under way at a time
  Question,   \* [entity, app, capability, resource]
  Contained   \* entity -> the targets whose spelling its own contains

ASSUME RequestAssumption ==
  /\ "baseline" \in BundleId /\ Baseline \in Bundle
  /\ Contained \in [Target -> SUBSET Target]
  /\ \A e \in Target : e \in Contained[e]

VARIABLES bundles, asked

requestVars == <<managerVars, bundles, asked>>

Policy == INSTANCE PolicyEngine

Waiting == {"check", "decide"}

\* The commands in force: swept or not, an expired command is not.
InForce(record, now) ==
  {c \in DOMAIN record : record[c].status = "Active" /\ now < record[c].body.expires_at}

RequestInit ==
  /\ Init
  /\ bundles = [id \in {"baseline"} |-> Baseline]
  /\ asked = [p \in Client |-> [step |-> "idle"]]

IsCapabilityRevoked_UntilSwept(entity, capability) ==
  \E c \in DOMAIN commands :
    /\ commands[c].status = "Active"
    /\ commands[c].body.action = "RevokeCapability" /\ commands[c].body.capability = capability
    /\ commands[c].body.target \in Contained[entity]

\* is_capability_revoked
IsCapabilityRevoked(entity, capability) ==
  \E c \in InForce(commands, clock) :
    /\ commands[c].body.action = "RevokeCapability" /\ commands[c].body.capability = capability
    /\ commands[c].body.target \in Contained[entity]

\* A simulation goes straight to the bundles.
Arrive(p, kind, q) ==
  /\ asked[p].step \notin Waiting
  /\ asked' = [asked EXCEPT ![p] =
                 [step |-> IF kind = "evaluate" THEN "check" ELSE "decide", kind |-> kind, q |-> q,
                  throughout |-> InForce(commands, clock), sometime |-> InForce(commands, clock),
                  denied |-> Policy!Denied(q.app, q.capability, q.resource)]]
  /\ UNCHANGED <<managerVars, bundles>>

Answered(p, answer) ==
  asked' = [asked EXCEPT ![p] = [step |-> "done", kind |-> @.kind, q |-> @.q, answer |-> answer,
                                 throughout |-> @.throughout, sometime |-> @.sometime,
                                 denied |-> @.denied]]

\* The first read.
CheckRevoked(p) ==
  /\ asked[p].step = "check"
  /\ IF IsCapabilityRevoked(asked[p].q.entity, asked[p].q.capability)
       THEN Answered(p, "revoke")
       ELSE asked' = [asked EXCEPT ![p].step = "decide"]
  /\ UNCHANGED <<managerVars, bundles>>

\* The second read.
Decide(p) ==
  /\ asked[p].step = "decide"
  /\ \E answer \in Policy!Evaluate(asked[p].q.app, asked[p].q.capability, asked[p].q.resource) :
       Answered(p, answer)
  /\ UNCHANGED <<managerVars, bundles>>

\* What the requests under way live through: the commands in force all along, those
\* in force at some time, and whether a deny rule applied all along.
Witnessed ==
  asked' = [p \in Client |->
    IF asked[p].step \notin Waiting THEN asked[p]
    ELSE [asked[p] EXCEPT
            !.throughout = @ \cap InForce(commands', clock'),
            !.sometime = @ \cup InForce(commands', clock'),
            !.denied = @ /\ Policy!DeniedBy(bundles', asked[p].q.app, asked[p].q.capability,
                                            asked[p].q.resource)]]

\* Where a signed command goes (Respond) is of no concern here.
RecordStep ==
  /\ \/ Tick \/ SweepExpired
     \/ \E c \in Command : (\E r \in DispatchRequest : Sign(c, r)) \/ Insert(c) \/ Rollback(c)
  /\ UNCHANGED bundles
  /\ Witnessed

AddBundle(id, bundle) ==
  /\ bundles' = Policy!BundlesWith(id, bundle)
  /\ UNCHANGED managerVars
  /\ Witnessed

RemoveBundle(id) ==
  /\ id \in DOMAIN bundles
  /\ bundles' = Policy!BundlesWithout(id)
  /\ UNCHANGED managerVars
  /\ Witnessed

\* A restart forgets bundles and commands, and its clients lose their requests.
RestartAll ==
  /\ Restart
  /\ bundles' = [id \in {"baseline"} |-> Baseline]
  /\ asked' = [p \in Client |-> [step |-> "idle"]]

RequestNext ==
  \/ RecordStep \/ RestartAll
  \/ \E id \in BundleId : RemoveBundle(id) \/ \E b \in Bundle : AddBundle(id, b)
  \/ \E p \in Client :
       \/ \E kind \in {"evaluate", "simulate"}, q \in Question : Arrive(p, kind, q)
       \/ CheckRevoked(p) \/ Decide(p)

RequestSpec == RequestInit /\ [][RequestNext]_requestVars

-----------------------------------------------------------------------------
\* Where a request may be.
RequestState ==
  [step : {"idle"}]
    \cup [step : Waiting, kind : {"evaluate", "simulate"}, q : Question,
          throughout : SUBSET Command, sometime : SUBSET Command, denied : BOOLEAN]
    \cup [step : {"done"}, kind : {"evaluate", "simulate"}, q : Question,
          throughout : SUBSET Command, sometime : SUBSET Command, denied : BOOLEAN,
          answer : {"allow", "deny", "revoke"}]

RequestTypeOK ==
  /\ asked \in [Client -> RequestState]
  /\ \A p \in Client : asked[p].step # "idle" =>
       asked[p].throughout \cup asked[p].sometime \subseteq DOMAIN commands
  /\ DOMAIN bundles \subseteq BundleId /\ bundles \in [DOMAIN bundles -> Bundle]

Revokes(c, q) ==
  /\ commands[c].body.action = "RevokeCapability" /\ commands[c].body.capability = q.capability
  /\ commands[c].body.target \in Contained[q.entity]

\* An evaluation tells of revocations as they were while it ran: one in force all
\* along is never missed, and none is reported that was not in force at some time,
\* however dispatches, rollbacks, expiry and sweeps fall (api/mod.rs:339-371).
RevocationsAreCurrent ==
  \A p \in Client : asked[p].step = "done" /\ asked[p].kind = "evaluate" =>
    /\ (\E c \in asked[p].throughout : Revokes(c, asked[p].q)) => asked[p].answer = "revoke"
    /\ asked[p].answer = "revoke" => \E c \in asked[p].sometime : Revokes(c, asked[p].q)

\* A deny rule installed for as long as a request runs is never overridden, in an
\* evaluation or a simulation, whatever other bundles come and go
\* (policy/mod.rs:147-171: "DENY strictly takes precedence over ALLOW").
DenyIsNeverMissed ==
  \A p \in Client : asked[p].step = "done" /\ asked[p].denied => asked[p].answer # "allow"
=============================================================================
