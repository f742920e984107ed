------------------------ MODULE MCContainmentGuard ------------------------
(***************************************************************************)
(* A small agent: two threads, two commands, and messages chosen so that   *)
(* two of them meet on one slot in different spellings, one is shorter     *)
(* than the other, one is born near the end of the skew window and one is  *)
(* signed by a key the guard does not trust.                               *)
(***************************************************************************)
EXTENDS GuardRequests, TLC

CONSTANTS a, cap, k1, k2

MCName == {a}
MCCapability == {cap}

Tgt(prefix) == [prefix |-> prefix, name |-> a]

Msg(action, prefix, capability, issued, expires, signer) ==
  [action |-> action, target |-> Tgt(prefix), capability |-> capability,
   issued_at |-> issued, expires_at |-> expires, signer |-> signer]

MCMessage ==
  {Msg("BlockNetwork", "ip:", None, 1, 5, k1),
   Msg("BlockNetwork", "", None, 1, 3, k1),
   Msg("RevokeCapability", "", cap, 2, 4, k1),
   Msg("BlockNetwork", "ip:", None, 1, 5, k2)}

MCRequest ==
  {[ip |-> Tgt("ip:"), session |-> Tgt(""), capability |-> cap]}

===========================================================================
