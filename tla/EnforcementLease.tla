------------------------- MODULE EnforcementLease -------------------------
(***************************************************************************)
(* What an agent's guard promises, without saying how.                     *)
(*                                                                         *)
(* Enforcement of a restriction is a lease on a slot, granted by a signed  *)
(* command.  A command is fresh, then claimed, then spent, and never goes  *)
(* back while the agent runs: it grants its slots at most once, and a      *)
(* lease that was released or has lapsed is never revived by a copy of the *)
(* command that granted it.  A lease disappears only when it is released,  *)
(* when its time is over, or with the agent process itself.                *)
(***************************************************************************)
EXTENDS Integers, Functions, EnforcementSlots

CONSTANTS
  Command,      \* names of signed commands (their nonces)
  Message,      \* what a signed command may say
  StartTime,    \* first reading of the agent's clock
  MaxTime       \* bound on the agent's clock

VARIABLES
  clock,        \* the agent's wall clock
  sent,         \* sent[c]: the signed content of command c, once it exists
  phase,        \* phase[c]: "fresh", "claimed" or "spent"
  lease         \* lease[s]: when the restriction on slot s ends

vars == <<clock, sent, phase, lease>>

Init ==
  /\ clock = StartTime
  /\ sent = EmptyMap
  /\ phase = [c \in Command |-> "fresh"]
  /\ lease = EmptyMap

Issue(c) ==
  /\ c \notin DOMAIN sent
  /\ \E m \in Message : sent' = [d \in DOMAIN sent \cup {c} |->
                                   IF d = c THEN m ELSE sent[d]]
  /\ UNCHANGED <<clock, phase, lease>>

Advance ==
  /\ clock < MaxTime
  /\ clock' = clock + 1
  /\ UNCHANGED <<sent, phase, lease>>

Claim(c) ==
  /\ c \in DOMAIN sent
  /\ phase[c] = "fresh"
  /\ phase' = [phase EXCEPT ![c] = "claimed"]
  /\ UNCHANGED <<clock, sent, lease>>

Grant(c) ==
  /\ phase[c] = "claimed"
  /\ phase' = [phase EXCEPT ![c] = "spent"]
  /\ lease' = [s \in DOMAIN lease \cup SlotsOf(sent[c]) |->
                 IF s \in SlotsOf(sent[c]) THEN sent[c].expires_at ELSE lease[s]]
  /\ UNCHANGED <<clock, sent>>

\* A claimed command whose time is already over grants nothing.
Discard(c) ==
  /\ phase[c] = "claimed"
  /\ clock >= sent[c].expires_at
  /\ phase' = [phase EXCEPT ![c] = "spent"]
  /\ UNCHANGED <<clock, sent, lease>>

Release(target, action) ==
  /\ lease' = Restrict(lease, DOMAIN lease \ RollbackSlots(target, action))
  /\ UNCHANGED <<clock, sent, phase>>

Lapse(s) ==
  /\ s \in DOMAIN lease
  /\ lease[s] <= clock
  /\ lease' = Restrict(lease, DOMAIN lease \ {s})
  /\ UNCHANGED <<clock, sent, phase>>

\* The agent process restarts: it keeps nothing on disk.
Forget ==
  /\ phase' = [c \in Command |-> "fresh"]
  /\ lease' = EmptyMap
  /\ UNCHANGED <<clock, sent>>

Next ==
  \/ Advance
  \/ Forget
  \/ \E c \in Command : Issue(c) \/ Claim(c) \/ Grant(c) \/ Discard(c)
  \/ \E m \in Message : Release(m.target, m.action)
  \/ \E s \in DOMAIN lease : Lapse(s)

Spec == Init /\ [][Next]_vars
=============================================================================
