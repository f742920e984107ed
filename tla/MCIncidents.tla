---------------------------- MODULE MCIncidents ----------------------------
(***************************************************************************)
(* Three rules of the six (one that counts and is medium, one that counts  *)
(* and is high, one that does not and is critical) and the attack chain;   *)
(* events charged to a user or to an IP.                                   *)
(***************************************************************************)
EXTENDS Incidents

CONSTANTS alice, ip, app

MCRules == <<BruteForce, ApiEnumeration, KernelAnomaly>>

Plain ==
  [user |-> None, ip |-> ip, app |-> app, status |-> None, success |-> TRUE,
   auth_endpoint |-> FALSE, data_query |-> FALSE, admin_route |-> FALSE, admin |-> FALSE,
   kernel |-> FALSE, shell |-> FALSE, severity |-> "low", chain |-> FALSE]

MCEvent ==
  {[Plain EXCEPT !.status = 401, !.success = FALSE, !.chain = TRUE],
   [Plain EXCEPT !.status = 404, !.kernel = TRUE, !.shell = TRUE],
   [Plain EXCEPT !.user = alice, !.status = 404]}
=============================================================================
