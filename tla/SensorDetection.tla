-------------------------- MODULE SensorDetection --------------------------
(***************************************************************************)
(* What the detection worker finds on the stream: the accepted reports of  *)
(* the external sensors as the adapters render them (SensorAdapters),      *)
(* between the events of applications.  The correlator (Correlator)        *)
(* processes them in the order of the stream, the kernel rule              *)
(* (DetectionRules) judges them.  Beside what the sensors say, a report    *)
(* has the service its process belongs to: what the adapters are to find   *)
(* out.                                                                    *)
(***************************************************************************)
EXTENDS Correlator, SensorAdapters

CONSTANTS
  Report,    \* reports the sensors send, [sensor, body, service, ...]
  Telemetry  \* events of applications

ASSUME SensorAssumption ==
  /\ Event = Telemetry \cup {EventOf(r) : r \in {x \in Report : Accepted(x)}}
  /\ \A a \in DOMAIN AliasKey :
       KindOf[a] = CASE AliasKey[a][1] = "container" -> "workload"
                     [] AliasKey[a][1] = "ip" -> "host"
                     [] AliasKey[a][1] = "session" -> "session"
                     [] AliasKey[a][1] = "user" -> "user"

VARIABLE reports  \* history: what each event of log was made of

sensorVars == <<vars, reports>>

SensorInit == Init /\ reports = <<>>

Detect(r) ==
  /\ Accepted(r)
  /\ ProcessEvent(EventOf(r))
  /\ reports' = Append(reports, r)

Observe(event) ==
  /\ ProcessEvent(event)
  /\ reports' = Append(reports, [sensor |-> "agent", body |-> "telemetry"])

SensorNext ==
  \/ \E r \in Report : Detect(r)
  \/ \E event \in Telemetry : Observe(event)

SensorSpec == SensorInit /\ [][SensorNext]_sensorVars

-----------------------------------------------------------------------------
\* The entity that a processed event belongs to by now.
EntityOf(i) ==
  LET aliases == log[i].event.aliases IN
    IF aliases = {} THEN log[i].id ELSE canonical[CHOOSE a \in aliases : TRUE]

Alarmed(event) == Rules!Concerns(Rules!KernelAnomaly, event)

\* The report of a shell that starts in a container, and that classify_binary knows.
StartsKnownShell(r) == r.body = "exec" /\ r.container # None /\ KnownShell(r.dir, r.binary)

\* A shell that Tetragon's adapter knows, started in a container, leaves its trace
\* in the rules, the store, the identity and the chain: the kernel rule fires, the
\* event is kept, the entity it belongs to by now, through all merges, is known to
\* be active in its application and to execute processes, and the chain of the id
\* it resolved to has reached its highest stage (tetragon.rs:283-299,
\* identity.rs:169-197, sequence.rs:92-107).  Of the others, dash by any name and
\* zsh without a directory, an event of low severity is made, which is not kept.
KnownShellsLeaveATrace ==
  \A i \in DOMAIN reports :
    StartsKnownShell(reports[i]) =>
      /\ Alarmed(log[i].event) /\ ShouldPersist(log[i].event)
      /\ log[i].event.app \in entities[EntityOf(i)].apps
      /\ "process.execute" \in entities[EntityOf(i)].capabilities
      /\ progress[log[i].id].highest = HighImpact
=============================================================================
