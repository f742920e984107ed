--------------------------- MODULE MCContainment ---------------------------
(***************************************************************************)
(* One control plane that may restart once and one agent with one thread   *)
(* and a clock that is a tick behind.  Two commands on one IP, one of them *)
(* with a TTL shorter than a dispatch may wait for the lock.               *)
(***************************************************************************)
EXTENDS Containment, TLC

CONSTANTS a, cap

MCName == {a}
MCCapability == {cap}

Ip(prefix) == [prefix |-> prefix, name |-> a]

MCDispatchRequest ==
  {[action |-> "BlockNetwork", target |-> Ip("ip:"), capability |-> None, ttl |-> 0],
   [action |-> "BlockNetwork", target |-> Ip(""), capability |-> None, ttl |-> 2]}

MCRequest == {[ip |-> Ip(""), session |-> None, capability |-> None]}

MCOffset == -1
=============================================================================
