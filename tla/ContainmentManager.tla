------------------------ MODULE ContainmentManager ------------------------
(***************************************************************************)
(* The control plane's record of containment commands: ContainmentManager  *)
(* (crates/engine/src/containment/mod.rs), the HTTP handlers in front of   *)
(* it (crates/control-plane/src/api/mod.rs) and the background sweeper     *)
(* (crates/control-plane/src/main.rs).                                     *)
(*                                                                         *)
(* The record lives in memory behind one RwLock, so insertion, rollback    *)
(* and a sweep are atomic, but dispatch builds and signs its command       *)
(* before it takes the lock.  The signing key is drawn afresh each time    *)
(* the process starts; a key is named by the number of that start.         *)
(***************************************************************************)
EXTENDS Integers, Functions, EnforcementSlots

CONSTANTS
  Command,        \* names of commands (command_id and nonce: both embed a UUID)
  DispatchRequest,\* what POST /containment/dispatch may ask for
  SweepPeriod,    \* the sweeper's interval (5 s), in ticks
  SweepLag,       \* how late the runtime may run the sweeper, in ticks
  DispatchStall,  \* how long dispatch may wait for the write lock, in ticks
  StartTime,      \* first reading of the clock
  MaxTime,        \* bound on the clock
  LastDispatch,   \* bound: no dispatch begins later than this
  MaxEpoch        \* bound on the number of starts

ASSUME ManagerAssumption ==
  /\ SweepPeriod \in Nat \ {0} /\ SweepLag \in Nat /\ DispatchStall \in Nat
  /\ StartTime \in Int /\ MaxTime \in Int /\ StartTime <= MaxTime
  /\ LastDispatch \in Int /\ MaxEpoch \in Nat
  /\ \A r \in DispatchRequest :
       /\ r.action \in ActionType /\ r.target \in Target
       /\ r.capability \in Capability \cup {None} /\ r.ttl \in Nat

VARIABLES
  clock,      \* the control plane's wall clock
  epoch,      \* which start of the process this is: the name of its key pair
  drawn,      \* UUIDs drawn so far
  pending,    \* commands signed by a dispatch that has not got the lock yet
  commands,   \* the record: command -> [body, status]
  nextSweep,  \* deadline of the sweeper's interval
  sent        \* signed commands handed out in a response: they may go anywhere

managerVars == <<clock, epoch, drawn, pending, commands, nextSweep, sent>>

With(map, key, value) ==
  [k \in DOMAIN map \cup {key} |-> IF k = key THEN value ELSE map[k]]

Init ==
  /\ clock = StartTime
  /\ epoch = 0
  /\ drawn = {}
  /\ pending = EmptyMap
  /\ commands = EmptyMap
  /\ nextSweep = StartTime
  /\ sent = EmptyMap

\* SignedContainmentCommand::new and sign.
Body(r) ==
  [action |-> r.action, target |-> r.target, capability |-> r.capability,
   issued_at |-> clock, expires_at |-> clock + r.ttl, signer |-> epoch]

\* dispatch, up to the write lock.
Sign(c, r) ==
  /\ c \notin drawn
  /\ clock <= LastDispatch
  /\ drawn' = drawn \cup {c}
  /\ pending' = With(pending, c, Body(r))
  /\ UNCHANGED <<clock, epoch, commands, nextSweep, sent>>

\* dispatch, from the write lock on.
Insert(c) ==
  /\ c \in DOMAIN pending
  /\ commands' = With(commands, c, [body |-> pending[c], status |-> "Active"])
  /\ pending' = Restrict(pending, DOMAIN pending \ {c})
  /\ UNCHANGED <<clock, epoch, drawn, nextSweep, sent>>

Respond_BeforeInsert(c) ==
  /\ c \in DOMAIN pending \cup DOMAIN commands
  /\ sent' = With(sent, c, IF c \in DOMAIN pending THEN pending[c] ELSE commands[c].body)
  /\ UNCHANGED <<clock, epoch, drawn, pending, commands, nextSweep>>

Respond_Resigned(c) ==
  /\ c \in DOMAIN commands
  /\ sent' = With(sent, c, [commands[c].body EXCEPT !.issued_at = clock])
  /\ UNCHANGED <<clock, epoch, drawn, pending, commands, nextSweep>>

\* A response carries the command out of the control plane: the answer to the
\* dispatch, or to any later listing or rollback.
Respond(c) ==
  /\ c \in DOMAIN commands
  /\ sent' = With(sent, c, commands[c].body)
  /\ UNCHANGED <<clock, epoch, drawn, pending, commands, nextSweep>>

\* rollback: unknown, rolled-back and expired commands are errors.
Rollback(c) ==
  /\ c \in DOMAIN commands
  /\ commands[c].status \notin {"RolledBack", "Expired"}
  /\ commands' = [commands EXCEPT ![c].status = "RolledBack"]
  /\ UNCHANGED <<clock, epoch, drawn, pending, nextSweep, sent>>

SweepExpired_AnyStatus ==
  /\ clock >= nextSweep
  /\ nextSweep' = nextSweep + SweepPeriod
  /\ commands' = [c \in DOMAIN commands |->
                    IF clock >= commands[c].body.expires_at
                      THEN [commands[c] EXCEPT !.status = "Expired"] ELSE commands[c]]
  /\ UNCHANGED <<clock, epoch, drawn, pending, sent>>

SweepExpired_OneShot ==
  /\ clock >= nextSweep
  /\ nextSweep' = MaxTime + 1
  /\ commands' = [c \in DOMAIN commands |->
                    IF commands[c].status = "Active" /\ clock >= commands[c].body.expires_at
                      THEN [commands[c] EXCEPT !.status = "Expired"] ELSE commands[c]]
  /\ UNCHANGED <<clock, epoch, drawn, pending, sent>>

\* One round of the sweeper.  A late round does not move the deadlines after it
\* (tokio's interval bursts to catch up).
SweepExpired ==
  /\ clock >= nextSweep
  /\ nextSweep' = nextSweep + SweepPeriod
  /\ commands' = [c \in DOMAIN commands |->
                    IF commands[c].status = "Active" /\ clock >= commands[c].body.expires_at
                      THEN [commands[c] EXCEPT !.status = "Expired"] ELSE commands[c]]
  /\ UNCHANGED <<clock, epoch, drawn, pending, sent>>

\* The process restarts: the record is lost and a new key pair is drawn.
Restart ==
  /\ epoch < MaxEpoch
  /\ epoch' = epoch + 1
  /\ pending' = EmptyMap
  /\ commands' = EmptyMap
  /\ nextSweep' = clock
  /\ UNCHANGED <<clock, drawn, sent>>

\* Time does not run away from the sweeper or from a waiting dispatch.
Tick ==
  /\ clock < MaxTime
  /\ clock < nextSweep + SweepLag
  /\ \A c \in DOMAIN pending : clock < pending[c].issued_at + DispatchStall
  /\ clock' = clock + 1
  /\ UNCHANGED <<epoch, drawn, pending, commands, nextSweep, sent>>

Next ==
  \/ Tick \/ SweepExpired \/ Restart
  \/ \E c \in Command :
       \/ \E r \in DispatchRequest : Sign(c, r)
       \/ Insert(c) \/ Respond(c) \/ Rollback(c)

Spec == Init /\ [][Next]_managerVars

-----------------------------------------------------------------------------
Status == {"Active", "Expired", "RolledBack"}

\* What the control plane ever signs.
SignedBody ==
  {[action |-> r.action, target |-> r.target, capability |-> r.capability,
    issued_at |-> now, expires_at |-> now + r.ttl, signer |-> key] :
     r \in DispatchRequest, now \in StartTime..MaxTime, key \in 0..MaxEpoch}

TypeOK ==
  /\ clock \in Int /\ epoch \in Nat /\ nextSweep \in Int
  /\ drawn \subseteq Command
  /\ DOMAIN pending \subseteq drawn /\ pending \in [DOMAIN pending -> SignedBody]
  /\ DOMAIN commands \subseteq drawn
  /\ commands \in [DOMAIN commands -> [body : SignedBody, status : Status]]
  /\ DOMAIN sent \subseteq drawn /\ sent \in [DOMAIN sent -> SignedBody]

\* How a command ended is settled once: a rollback racing the sweeper, or a
\* second rollback, never rewrites it (mod.rs:96-103, 122).  The record of a
\* command goes away only with the process.
OutcomeSettled ==
  [][\A c \in DOMAIN commands : commands[c].status # "Active" /\ epoch' = epoch =>
        c \in DOMAIN commands' /\ commands'[c] = commands[c]]_managerVars

\* Every active command eventually ends, with nobody calling anything
\* (mod.rs:115: the sweeper enforces TTLs).
EveryCommandEnds ==
  \A c \in Command :
    (c \in DOMAIN commands /\ commands[c].status = "Active")
      ~> ~(c \in DOMAIN commands /\ commands[c].status = "Active")
=============================================================================
