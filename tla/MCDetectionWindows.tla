------------------------ MODULE MCDetectionWindows ------------------------
(***************************************************************************)
(* A failed login, which concerns two rules, two routes not found, and a   *)
(* forbidden request from another address.                                 *)
(***************************************************************************)
EXTENDS DetectionWindows

Plain ==
  [success |-> FALSE, status |-> 401, auth_endpoint |-> FALSE, data_query |-> FALSE,
   kernel |-> FALSE, shell |-> FALSE, severity |-> "low", admin_route |-> FALSE, admin |-> FALSE,
   user |-> None, ip |-> None, app |-> "app", route |-> "/x"]

At(ip) == [Plain EXCEPT !.ip = ip]

MCEventKind ==
  {At("1"), [At("2") EXCEPT !.status = 403],
   [At("1") EXCEPT !.status = 404], [At("1") EXCEPT !.status = 404, !.route = "/y"]}

MCKey == ({rule.name : rule \in Counting} \cup {"paths"}) \X {"1", "2", "unknown"}
MCEntity == {<<"ip", "1">>, <<"ip", "2">>, <<"user", "u1">>, <<"user", "u2">>}
MCThreshold ==
  [r \in {"brute_force", "api_enumeration", "unauthorized_burst", "data_scraping"} |->
     IF r \in {"api_enumeration", "unauthorized_burst"} THEN 3 ELSE 2]
=============================================================================
