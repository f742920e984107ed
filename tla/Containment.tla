---------------------------- MODULE Containment ----------------------------
(***************************************************************************)
(* Containment end to end: the control plane's ContainmentManager and the  *)
(* ContainmentGuard of one agent.                                          *)
(*                                                                         *)
(* Nothing in the repository carries commands from the one to the other:   *)
(* whoever receives a response may present its signed command to the       *)
(* guard, late, repeatedly or never, and may tell the guard of a rollback. *)
(* The agent's clock differs from the control plane's by Offset, and the   *)
(* agent keeps the public key it was configured with when the control      *)
(* plane restarts with another.                                            *)
(***************************************************************************)
EXTENDS ContainmentManager

CONSTANTS Offset, Request, Thread, TicksPerSecond, MaxSkew, Retention, GuardStall

\* The agent's clock counts as the control plane's does, and it remembers nonces
\* for as long as they can be presented (what GuardAssumption asks of it).
ASSUME SystemAssumption ==
  /\ Offset \in Int
  /\ TicksPerSecond \in Nat \ {0}
  /\ MaxSkew \in Nat /\ Retention \in Nat /\ GuardStall \in Nat
  /\ (MaxSkew + 1) * TicksPerSecond + GuardStall <= Retention
  /\ None \notin Capability
  /\ \A r \in Request :
       /\ {r.ip, r.session} \subseteq Target \cup {None}
       /\ r.capability \in Capability \cup {None}

VARIABLES seen, table, call, accepted, enforcing, lifted

guardVars == <<seen, table, call, accepted, enforcing, lifted>>
systemVars == <<managerVars, guardVars>>

Guard == INSTANCE ContainmentGuard WITH
           clock <- clock + Offset,
           StartTime <- StartTime + Offset,
           MaxTime <- MaxTime + Offset,
           MaxStall <- GuardStall,
           TrustedKey <- 0,
           Message <- SignedBody

SystemInit == Init /\ Guard!Init

\* The control plane moves; the agent sees nothing of it.
ManagerStep ==
  /\ \/ SweepExpired \/ Restart
     \/ \E c \in Command :
          \/ \E r \in DispatchRequest : Sign(c, r)
          \/ Insert(c) \/ Respond(c) \/ Rollback(c)
  /\ UNCHANGED guardVars

\* Time passes for both.
SystemTick == Tick /\ Guard!Tick

\* The agent moves.  Rollbacks it is told of are rollbacks the record shows.
GuardStep ==
  /\ UNCHANGED managerVars
  /\ \/ Guard!Restart
     \/ \E t \in Thread :
          \/ \E c \in Command : Guard!ApplyBegin(t, c)
          \/ Guard!RecordNonce(t) \/ Guard!CheckExpiry(t) \/ Guard!Install(t)
          \/ \E r \in Request : Guard!Ask(t, r)
          \/ Guard!ReadClock(t) \/ Guard!LookUp(t)
     \/ \E c \in DOMAIN commands :
          /\ commands[c].status = "RolledBack"
          /\ Guard!RollbackAction(commands[c].body.target, commands[c].body.action)

SystemNext == ManagerStep \/ SystemTick \/ GuardStep

\* The sweeper's interval fires, time passes, a dispatch gets its lock and a
\* thread that read the clock gets to its nonce check.
Fairness ==
  /\ WF_systemVars(SystemTick)
  /\ WF_systemVars(SweepExpired /\ UNCHANGED guardVars)
  /\ \A c \in Command : WF_systemVars(Insert(c) /\ UNCHANGED guardVars)
  /\ \A t \in Thread : WF_systemVars(UNCHANGED managerVars /\ Guard!RecordNonce(t))

SystemSpec == SystemInit /\ [][SystemNext]_systemVars /\ Fairness

-----------------------------------------------------------------------------
\* Enforcement is auditable (README.md: "so enforcement actions are auditable"):
\* whatever an agent enforces is on the control plane's record, unless the
\* control plane that signed it is gone.
EnforcedIsOnRecord ==
  \A c \in enforcing : c \in DOMAIN commands \/ sent[c].signer # epoch

\* The control plane is an environment the guard was verified for: every
\* behaviour of the system is a behaviour of ContainmentGuard.
GuardSpec == Guard!Spec
=============================================================================
