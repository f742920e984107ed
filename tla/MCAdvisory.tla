----------------------------- MODULE MCAdvisory -----------------------------
(***************************************************************************)
(* One application, two capabilities, two resources, two bundles at a time *)
(* out of four: the baseline, which denies one connection; one that allows *)
(* all connections; one that allows by default; an empty one for an        *)
(* application of another name.                                            *)
(***************************************************************************)
EXTENDS Advisory

CONSTANTS app, other, inner, meta

MCBaseline ==
  [app |-> Any, allow |-> {[capability |-> "connect", scope |-> {inner}]},
   deny |-> {[capability |-> "connect", scope |-> {meta}]}, default_allow |-> FALSE]

MCBundle ==
  {MCBaseline,
   [app |-> app, allow |-> {[capability |-> Any, scope |-> {inner, meta}]}, deny |-> {},
    default_allow |-> FALSE],
   [app |-> app, allow |-> {}, deny |-> {}, default_allow |-> TRUE],
   [app |-> other, allow |-> {}, deny |-> {}, default_allow |-> TRUE]}

MCDerivedFrom == [block |-> "connect", revoke |-> "revoke"]

Block(resource, confidence) ==
  [app |-> app, action |-> "block", capability |-> None, target |-> inner,
   resource |-> resource, confidence |-> confidence, ttl |-> 60]

MCRecommendation ==
  {Block(meta, 90), Block(None, 50),
   [Block(None, 70) EXCEPT !.action = "revoke", !.ttl = 0]}
=============================================================================
