-------------------------- MODULE DetectionRules --------------------------
(***************************************************************************)
(* The default detection rules (crates/engine/src/rules/mod.rs) and the    *)
(* target a signal is charged to (crates/engine/src/evaluator.rs).         *)
(*                                                                         *)
(* An event is a record of the traits the rules read: status is the HTTP   *)
(* status or None, kernel says that a kernel or runtime sensor reported    *)
(* it, shell that a suspicious binary is named in it.                      *)
(***************************************************************************)
EXTENDS Naturals, Sequences

CONSTANT None

Severity == {"low", "medium", "high", "critical"}

Rank(severity) ==
  CASE severity = "low" -> 1 [] severity = "medium" -> 2
    [] severity = "high" -> 3 [] severity = "critical" -> 4

\* default_severity and base_risk_weight; "counts" marks the rules that record
\* a hit in the hot state and fire from a threshold on.
BruteForce ==
  [name |-> "brute_force", severity |-> "high", weight |-> 35, counts |-> TRUE]
ApiEnumeration ==
  [name |-> "api_enumeration", severity |-> "medium", weight |-> 25, counts |-> TRUE]
UnauthorizedBurst ==
  [name |-> "unauthorized_burst", severity |-> "high", weight |-> 30, counts |-> TRUE]
DataScraping ==
  [name |-> "data_scraping", severity |-> "high", weight |-> 30, counts |-> TRUE]
KernelAnomaly ==
  [name |-> "kernel_anomaly", severity |-> "critical", weight |-> 50, counts |-> FALSE]
PrivilegeCreep ==
  [name |-> "privilege_creep", severity |-> "high", weight |-> 35, counts |-> FALSE]

\* The correlator's attack-chain signal, which the worker ingests before it
\* evaluates the rules.
AttackChain ==
  [name |-> "attack_chain", severity |-> "critical", weight |-> 75, counts |-> FALSE]

\* with_default_rules: the order of evaluation.
DefaultRules ==
  <<BruteForce, ApiEnumeration, UnauthorizedBurst, DataScraping, KernelAnomaly, PrivilegeCreep>>

\* Names that end in one of the kernel rule's suspicious binaries: zsh and dash
\* end in sh, rsync in nc.
SuspiciousBinary ==
  {"sh", "bash", "zsh", "dash", "nc", "ncat", "netcat", "curl", "wget", "socat", "sudo", "rsync"}

\* The condition a rule puts on the event itself.  A counting rule may fire on
\* an event that meets it, depending on the hits recorded before; any other
\* rule does fire.
Concerns(rule, e) ==
  CASE rule.name = "brute_force"        -> ~e.success /\ (e.status = 401 \/ e.auth_endpoint)
    [] rule.name = "api_enumeration"    -> e.status = 404
    [] rule.name = "unauthorized_burst" -> e.status \in {401, 403}
    [] rule.name = "data_scraping"      -> e.data_query
    [] rule.name = "kernel_anomaly"     -> e.kernel /\ (e.shell \/ e.severity = "critical")
    [] rule.name = "privilege_creep"    -> /\ e.admin_route /\ ~e.admin
                                           /\ e.status \in {401, 403, 200, None}
    [] rule.name = "attack_chain"       -> e.chain

\* process_signal: the user if there is one, else the IP, else the application.
TargetEntity(e) ==
  IF e.user # None THEN <<"user", e.user>>
  ELSE IF e.ip # None THEN <<"ip", e.ip>>
  ELSE <<"app", e.app>>
=============================================================================
