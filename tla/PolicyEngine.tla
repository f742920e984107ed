---------------------------- MODULE PolicyEngine ----------------------------
(***************************************************************************)
(* The capability policy engine (crates/engine/src/policy/mod.rs, the      *)
(* rules of crates/common/src/policy.rs).                                  *)
(*                                                                         *)
(* Bundles of allow and deny rules are kept in a hash map by id, whose     *)
(* order of iteration is unspecified; a decision is made under the map's   *)
(* read lock.  A rule's scope pattern stands here for the resources it     *)
(* matches.                                                                *)
(***************************************************************************)
EXTENDS Naturals, FiniteSets

CONSTANTS
  Any,          \* the wildcard "*"
  Capability, Resource, App,
  BundleId,
  Bundle        \* bundles that operators may install

ASSUME PolicyAssumption ==
  \A b \in Bundle :
    /\ b.app \in App \cup {Any} /\ b.default_allow \in BOOLEAN
    /\ \A r \in b.allow \cup b.deny :
         r.capability \in Capability \cup {Any} /\ r.scope \subseteq Resource

VARIABLE bundles  \* policy id -> bundle

\* add_bundle: adds the bundle or replaces the one of the same id.
BundlesWith(id, bundle) == [i \in DOMAIN bundles \cup {id} |-> IF i = id THEN bundle ELSE bundles[i]]

\* remove_bundle
BundlesWithout(id) == [i \in DOMAIN bundles \ {id} |-> bundles[i]]

\* PolicyRule::matches
Matches(rule, capability, resource) ==
  rule.capability \in {Any, capability} /\ resource \in rule.scope

Applicable(app) == {id \in DOMAIN bundles : bundles[id].app \in {Any, app}}

\* A deny rule of these bundles matches.
DeniedBy(these, app, capability, resource) ==
  \E id \in DOMAIN these :
    /\ these[id].app \in {Any, app}
    /\ \E r \in these[id].deny : Matches(r, capability, resource)

Denied(app, capability, resource) == DeniedBy(bundles, app, capability, resource)

Allowed(app, capability, resource) ==
  \E id \in Applicable(app) : \E r \in bundles[id].allow : Matches(r, capability, resource)

\* The fallback: default_allow of the bundle that the map happens to yield first.
Defaults(app) ==
  {IF bundles[id].default_allow THEN "allow" ELSE "deny" : id \in Applicable(app)}

Evaluate_AllowFirst(app, capability, resource) ==
  IF Allowed(app, capability, resource) THEN {"allow"}
  ELSE IF Denied(app, capability, resource) \/ Applicable(app) = {} THEN {"deny"}
  ELSE Defaults(app)

\* evaluate: the decisions it may come to.
Evaluate(app, capability, resource) ==
  IF Applicable(app) = {} \/ Denied(app, capability, resource) THEN {"deny"}
  ELSE IF Allowed(app, capability, resource) THEN {"allow"}
  ELSE Defaults(app)
=============================================================================
