------------------------- MODULE MCPolicyRequests -------------------------
(***************************************************************************)
(* Requests by two actors, the spelling of one of which                    *)
(* contains the other's (user_1 and user_10), for one capability; two      *)
(* revocations and two bundles beside the baseline.                        *)
(***************************************************************************)
EXTENDS PolicyRequests

CONSTANTS short, long, cap, app, res

MCName == {short, long}
MCCapability == {cap}
MCApp == {app}
MCResource == {res}
MCBundleId == {"baseline", "extra"}

Actor(n) == [prefix |-> "", name |-> n]

Rule == [capability |-> cap, scope |-> {res}]

MCBaseline == [app |-> Any, allow |-> {}, deny |-> {Rule}, default_allow |-> FALSE]
MCBundle ==
  {MCBaseline,
   [app |-> app, allow |-> {Rule}, deny |-> {}, default_allow |-> FALSE]}

MCContained == [e \in Target |-> IF e = Actor(long) THEN {e, Actor(short)} ELSE {e}]

MCDispatchRequest ==
  {[action |-> "RevokeCapability", target |-> Actor(n), capability |-> cap, ttl |-> 1] : n \in MCName}

MCQuestion == {[entity |-> Actor(n), app |-> app, capability |-> cap, resource |-> res] : n \in MCName}
=============================================================================
