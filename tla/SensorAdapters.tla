--------------------------- MODULE SensorAdapters ---------------------------
(***************************************************************************)
(* What the adapters of the external sensors make of a report:             *)
(* crates/sensors/src/tetragon.rs, falco.rs and hubble.rs.                 *)
(*                                                                         *)
(* A report is a record of its sensor, its body and the fields the         *)
(* adapter reads, None where it lacks one.  Names of pods, containers and  *)
(* services are sequences of the segments between dashes.  A binary is the *)
(* last part of its name, in small letters, dir the directory that is      *)
(* given with it, as in /bin/sh, or None.  Words are those that something  *)
(* looks for in the kernel function or the Falco rule, args those in the   *)
(* arguments or the command line.  An event has the fields the correlator  *)
(* reads, and those of the kernel rule and the filter.                     *)
(***************************************************************************)
EXTENDS CapabilityInference, Sequences, FiniteSetsExt

CONSTANTS
  HashLike,  \* segments of 4 to 10 letters and digits, with a digit
  AliasKey,  \* keys <<kind, form, value>> in their alphabetical order
  AppId      \* name -> application

Rules == INSTANCE DetectionRules

\* The bodies that parse: the other reports are refused.
Accepted(r) ==
  <<r.sensor, r.body>> \in
    {<<"tetragon", "exec">>, <<"tetragon", "kprobe">>, <<"falco", "alert">>, <<"hubble", "flow">>}

FirstOf(names, default) ==
  IF \A i \in DOMAIN names : names[i] = None THEN default
  ELSE names[Min({i \in DOMAIN names : names[i] # None})]

\* strip_k8s_suffix
StripK8sSuffix(name) ==
  SubSeq(name, 1, Max({1} \cup {i \in DOMAIN name : name[i] \notin HashLike}))

Names(words) == words \cap Rules!SuspiciousBinary # {}

\* The fields of every event: the aliases are those keys of AliasKey that it
\* names; a key with the value None, or a blank one, names nobody.
Basic(r, name, keys, weight) ==
  [app |-> AppId[name], aliases |-> {a \in DOMAIN AliasKey : AliasKey[a] \in keys},
   user |-> \E key \in keys : key[1] = "user" /\ key[3] # None, ip |-> None,
   sensor |-> r.sensor, type |-> r.words, process |-> TRUE, resource |-> None,
   action |-> [endpoint |-> r.args, get |-> FALSE, status |-> None, success |-> TRUE],
   kernel |-> TRUE, shell |-> Names({r.binary} \cup (IF r.args = None THEN {} ELSE r.args)),
   severity |-> weight.severity, significant |-> weight.significant, ts |-> r.ts]

\* The shells that classify_binary knows: without a directory, sh and bash only.
KnownShell(dir, binary) == binary \in {"sh", "bash"} \/ (dir # None /\ binary = "zsh")

\* classify_binary: bare names other than sh, bash and nc are harmless to it.
ClassifyBinary(dir, binary, inContainer) ==
  CASE KnownShell(dir, binary) ->
         [severity |-> IF inContainer THEN "critical" ELSE "medium", significant |-> inContainer]
    [] binary = "nc" \/ (dir # None /\ binary \in {"ncat", "socat"}) ->
         [severity |-> "critical", significant |-> TRUE]
    [] dir # None /\ binary \in {"curl", "wget", "python"} ->
         [severity |-> "high", significant |-> inContainer]
    [] OTHER -> [severity |-> "low", significant |-> FALSE]

ContainerKey(r) == <<"container", "containerd", r.container>>

\* TetragonAdapter::parse_event, process_exec: the pod's name without suffixes,
\* the container's id with the runtime's prefix, the user's number.
TetragonExec(r) ==
  LET service == IF r.pod = None THEN None ELSE StripK8sSuffix(r.pod)
      event == Basic(r, FirstOf(<<service, r.cname>>, <<"container", "workload">>),
                      {ContainerKey(r), <<"user", "uid", r.uid>>},
                      ClassifyBinary(r.dir, r.binary, r.container # None))
  IN  [event EXCEPT !.type = @ \cup {"exec"}]

\* TetragonAdapter::parse_event, process_kprobe: the container's name, no user.
TetragonKprobe(r) ==
  Basic(r, FirstOf(<<r.cname>>, <<"container", "workload">>), {ContainerKey(r)},
         [severity |-> "medium", significant |-> TRUE])

\* map_priority; a missing priority is a notice.
MapPriority(priority) ==
  CASE priority \in {"emergency", "alert", "critical"} -> "critical"
    [] priority \in {"error", "warning"} -> "high"
    [] priority \in {"notice", None} -> "medium"
    [] OTHER -> "low"

\* FalcoAdapter::parse_event: the container's name or the pod's as it is, a short
\* container id, the user's name, the remote end of the connection; every alert
\* counts as failed.
FalcoAlert(r) ==
  LET severity == MapPriority(r.priority)
      event == Basic(r, FirstOf(<<r.cname, r.pod>>, <<"falco", "monitored", "workload">>),
                      {<<"container", "short", r.container>>, <<"ip", "", r.remote>>,
                       <<"user", "name", r.user>>},
                      [severity |-> severity, significant |-> severity # "low"])
  IN  [event EXCEPT !.ip = r.remote, !.process = r.binary # None, !.action.success = FALSE]

\* HubbleAdapter::parse_event: the source's label, workload or pod; the process
\* name is a label of protocol and direction; a drop has failed.
HubbleFlow(r) ==
  LET event == Basic(r, FirstOf(<<r.label, r.workload, r.pod>>, <<"hubble", "monitored", "service">>),
                      {<<"ip", "", r.source>>},
                      [severity |-> IF r.dropped THEN "high" ELSE "low", significant |-> r.dropped])
  IN  [event EXCEPT !.ip = r.source, !.kernel = FALSE, !.action.success = ~r.dropped]

\* The event of an accepted report.
EventOf(r) ==
  CASE r.body = "exec" -> TetragonExec(r) [] r.body = "kprobe" -> TetragonKprobe(r)
    [] r.body = "alert" -> FalcoAlert(r) [] r.body = "flow" -> HubbleFlow(r)

\* PersistenceFilter::should_persist, on types that begin with kernel, runtime or network.
ShouldPersist(event) ==
  event.significant \/ event.severity \in {"medium", "high", "critical"}
=============================================================================
