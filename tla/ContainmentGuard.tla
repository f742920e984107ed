------------------------- MODULE ContainmentGuard -------------------------
(***************************************************************************)
(* The in-process enforcement guard of an agent: ContainmentGuard          *)
(* (crates/agent-sdk/src/guard.rs) with its NonceTracker                   *)
(* (crates/common/src/crypto.rs).                                          *)
(*                                                                         *)
(* Any thread of the protected application may call apply_command,         *)
(* rollback_action or is_request_allowed at any time.  Each map is behind  *)
(* a mutex of its own and the wall clock is read outside the critical      *)
(* sections, so a call is several steps: a thread may be suspended between *)
(* reading the clock and entering the critical section that uses it.       *)
(*                                                                         *)
(* Signed commands may reach the guard late, in any order, any number of   *)
(* times, or never: a thread may present any command that exists, as often *)
(* as it likes.  Signatures are ideal: what verifies was signed by the     *)
(* named key.                                                              *)
(***************************************************************************)
EXTENDS Integers, Sequences, Functions, EnforcementSlots

CONSTANTS
  Command,          \* names of signed commands (their nonces: a nonce embeds a UUID)
  Message,          \* what a signed command may say
  Request,          \* requests the application asks about
  Thread,           \* threads of the protected application
  TrustedKey,       \* trusted_public_key_hex
  TicksPerSecond,   \* clock ticks in a second
  MaxSkew,          \* max_skew_seconds (60)
  Retention,        \* retention, in ticks (15 minutes)
  MaxStall,         \* longest suspension of a thread about to check a nonce, in ticks
  StartTime,        \* first reading of the clock
  MaxTime           \* bound on the clock

\* A command is accepted while it is younger or older than this, in ticks: the
\* difference is truncated to whole seconds before it is compared with MaxSkew.
SkewWindow == (MaxSkew + 1) * TicksPerSecond

ASSUME GuardAssumption ==
  /\ TicksPerSecond \in Nat \ {0}
  /\ MaxSkew \in Nat /\ Retention \in Nat /\ MaxStall \in Nat
  /\ SkewWindow + MaxStall <= Retention
  /\ StartTime \in Int /\ MaxTime \in Int
  /\ None \notin Capability
  /\ \A m \in Message :
       /\ m.action \in ActionType /\ m.target \in Target
       /\ m.capability \in Capability \cup {None}
       /\ m.issued_at \in Int /\ m.expires_at \in Int
  /\ \A r \in Request :
       /\ {r.ip, r.session} \subseteq Target \cup {None}
       /\ r.capability \in Capability \cup {None}

VARIABLES
  clock,        \* the agent's wall clock
  sent,         \* sent[c]: the signed content of command c, once it exists
  seen,         \* seen_nonces: nonce -> timestamp of its command
  table,        \* the three enforcement maps: slot -> expires_at
  call,         \* call[t]: what thread t is in the middle of
  accepted,     \* history: how often a nonce check has accepted c since the agent started
  enforcing,    \* history: commands applied and not rolled back since
  lifted        \* history: commands applied and then rolled back

history == <<accepted, enforcing, lifted>>
vars == <<clock, sent, seen, table, call, accepted, enforcing, lifted>>

Free(t) == call[t].op \in {"idle", "allowed", "denied"}

\* (now - command_timestamp).num_seconds().abs(): truncation towards zero.
WholeSeconds(d) == IF d >= 0 THEN d \div TicksPerSecond ELSE (-d) \div TicksPerSecond

Init ==
  /\ clock = StartTime
  /\ sent = EmptyMap
  /\ seen = EmptyMap
  /\ table = EmptyMap
  /\ call = [t \in Thread |-> [op |-> "idle"]]
  /\ accepted = [c \in Command |-> 0]
  /\ enforcing = {}
  /\ lifted = {}

-----------------------------------------------------------------------------
(* The environment: the control plane signs commands, time passes.         *)

Issue(c) ==
  /\ c \notin DOMAIN sent
  /\ \E m \in Message : sent' = [d \in DOMAIN sent \cup {c} |->
                                   IF d = c THEN m ELSE sent[d]]
  /\ UNCHANGED <<clock, seen, table, call, history>>

\* Time does not run away from a thread that has read the clock and is about
\* to check a nonce.
Tick ==
  /\ clock < MaxTime
  /\ \A t \in Thread : call[t].op = "nonce" => clock - call[t].now < MaxStall
  /\ clock' = clock + 1
  /\ UNCHANGED <<sent, seen, table, call, history>>

\* The agent process restarts with empty maps.
Restart ==
  /\ seen' = EmptyMap
  /\ table' = EmptyMap
  /\ call' = [t \in Thread |-> [op |-> "idle"]]
  /\ accepted' = [c \in Command |-> 0]
  /\ enforcing' = {}
  /\ lifted' = {}
  /\ UNCHANGED <<clock, sent>>

-----------------------------------------------------------------------------
(* apply_command                                                           *)

\* The signer is the trusted key and the signature verifies; check_and_record
\* reads the clock and compares it with the command's timestamp, before it
\* takes the lock.  A command that fails any of this is an Err, no state moves.
ApplyBegin(t, c) ==
  /\ Free(t)
  /\ c \in DOMAIN sent
  /\ sent[c].signer = TrustedKey
  /\ WholeSeconds(clock - sent[c].issued_at) <= MaxSkew
  /\ call' = [call EXCEPT ![t] = [op |-> "nonce", cmd |-> c, now |-> clock]]
  /\ UNCHANGED <<clock, sent, seen, table, history>>

Retained_SkewOnly(now) == {c \in DOMAIN seen : seen[c] > now - MaxSkew * TicksPerSecond}

\* The nonces that survive the eviction made with the clock reading now.
Retained(now) == {c \in DOMAIN seen : seen[c] > now - Retention}

RecordNonce_NoDuplicateCheck(t) ==
  /\ call[t].op = "nonce"
  /\ LET c == call[t].cmd IN
       /\ seen' = [d \in Retained(call[t].now) \cup {c} |->
                     IF d = c THEN sent[c].issued_at ELSE seen[d]]
       /\ accepted' = [accepted EXCEPT ![c] = @ + 1]
       /\ call' = [call EXCEPT ![t] = [op |-> "expiry", cmd |-> c]]
  /\ UNCHANGED <<clock, sent, table, enforcing, lifted>>

\* The critical section of check_and_record: evict, then reject a known nonce
\* (NonceReplayed) or record it.
RecordNonce(t) ==
  /\ call[t].op = "nonce"
  /\ LET c    == call[t].cmd
         kept == Retained(call[t].now) IN
       \/ /\ c \in kept
          /\ seen' = Restrict(seen, kept)
          /\ call' = [call EXCEPT ![t] = [op |-> "idle"]]
          /\ UNCHANGED accepted
       \/ /\ c \notin kept
          /\ seen' = [d \in kept \cup {c} |-> IF d = c THEN sent[c].issued_at ELSE seen[d]]
          /\ accepted' = [accepted EXCEPT ![c] = @ + 1]
          /\ call' = [call EXCEPT ![t] = [op |-> "expiry", cmd |-> c]]
  /\ UNCHANGED <<clock, sent, table, enforcing, lifted>>

\* is_expired reads the clock again: Ok(false) when the time is over.
CheckExpiry(t) ==
  /\ call[t].op = "expiry"
  /\ LET c == call[t].cmd IN
       call' = [call EXCEPT ![t] = IF clock >= sent[c].expires_at
                                     THEN [op |-> "idle"]
                                     ELSE [op |-> "install", cmd |-> c]]
  /\ UNCHANGED <<clock, sent, seen, table, history>>

\* The table insert: it overwrites what the slot held.  Ok(true).
Install(t) ==
  /\ call[t].op = "install"
  /\ LET c == call[t].cmd IN
       /\ table' = [s \in DOMAIN table \cup SlotsOf(sent[c]) |->
                      IF s \in SlotsOf(sent[c]) THEN sent[c].expires_at ELSE table[s]]
       /\ enforcing' = enforcing \cup {c}
  /\ call' = [call EXCEPT ![t] = [op |-> "idle"]]
  /\ UNCHANGED <<clock, sent, seen, accepted, lifted>>

-----------------------------------------------------------------------------
(* rollback_action: removes whatever the target's slots hold.              *)

RollbackAction_RawTarget(target, action) ==
  LET gone == {s \in RollbackSlots(target, action) : s[2] = target}
      mine == {c \in enforcing : SlotsOf(sent[c]) \cap RollbackSlots(target, action) # {}}
  IN  /\ table' = Restrict(table, DOMAIN table \ gone)
      /\ enforcing' = enforcing \ mine
      /\ lifted' = lifted \cup mine
      /\ UNCHANGED <<clock, sent, seen, call, accepted>>

RollbackAction(target, action) ==
  LET gone == RollbackSlots(target, action)
      mine == {c \in enforcing : SlotsOf(sent[c]) \cap gone # {}}
  IN  /\ table' = Restrict(table, DOMAIN table \ gone)
      /\ enforcing' = enforcing \ mine
      /\ lifted' = lifted \cup mine
      /\ UNCHANGED <<clock, sent, seen, call, accepted>>

-----------------------------------------------------------------------------
(* is_request_allowed: one lookup after another, each of which reads the   *)
(* clock and then takes the lock of its map.                               *)

Ask(t, r) ==
  /\ Free(t)
  /\ call' = [call EXCEPT ![t] = IF RequestSlots(r) = <<>>
                                   THEN [op |-> "allowed"]
                                   ELSE [op |-> "ask", todo |-> RequestSlots(r)]]
  /\ UNCHANGED <<clock, sent, seen, table, history>>

ReadClock(t) ==
  /\ call[t].op = "ask"
  /\ call' = [call EXCEPT ![t] = [op |-> "lookup", todo |-> call[t].todo, now |-> clock]]
  /\ UNCHANGED <<clock, sent, seen, table, history>>

Passed_OffByOne(t) == [op |-> "ask", todo |-> Tail(call[t].todo)]

\* What is left to do once the first lookup has found nothing in force.
Passed(t) ==
  IF Len(call[t].todo) = 1
    THEN [op |-> "allowed"]
    ELSE [op |-> "ask", todo |-> Tail(call[t].todo)]

LookUp_EvictEarly(t) ==
  /\ call[t].op = "lookup"
  /\ LET s == Head(call[t].todo) IN
       \/ /\ s \in DOMAIN table /\ call[t].now < table[s] - 1
          /\ call' = [call EXCEPT ![t] = [op |-> "denied"]]
          /\ UNCHANGED table
       \/ /\ s \in DOMAIN table => call[t].now >= table[s] - 1
          /\ table' = Restrict(table, DOMAIN table \ {s})
          /\ call' = [call EXCEPT ![t] = Passed(t)]
  /\ UNCHANGED <<clock, sent, seen, history>>

\* The critical section of is_ip_blocked, is_session_revoked and
\* is_capability_revoked: a live entry denies, a lapsed one is evicted.
LookUp(t) ==
  /\ call[t].op = "lookup"
  /\ LET s == Head(call[t].todo) IN
       \/ /\ s \in DOMAIN table /\ call[t].now < table[s]
          /\ call' = [call EXCEPT ![t] = [op |-> "denied"]]
          /\ UNCHANGED table
       \/ /\ s \in DOMAIN table => call[t].now >= table[s]
          /\ table' = Restrict(table, DOMAIN table \ {s})
          /\ call' = [call EXCEPT ![t] = Passed(t)]
  /\ UNCHANGED <<clock, sent, seen, history>>

Next ==
  \/ Tick
  \/ Restart
  \/ \E c \in Command : Issue(c)
  \/ \E t \in Thread :
       \/ \E c \in Command : ApplyBegin(t, c)
       \/ RecordNonce(t) \/ CheckExpiry(t) \/ Install(t)
       \/ \E r \in Request : Ask(t, r)
       \/ ReadClock(t) \/ LookUp(t)
  \/ \E m \in Message : RollbackAction(m.target, m.action)

Spec == Init /\ [][Next]_vars

-----------------------------------------------------------------------------
(* What a thread may be in the middle of.  A request under way always has a *)
(* lookup left to do.                                                       *)
CallState ==
  [op : {"idle", "allowed", "denied"}]
    \cup [op : {"nonce"}, cmd : Command, now : Int]
    \cup [op : {"expiry", "install"}, cmd : Command]
    \cup [op : {"ask"}, todo : Seq(Slot) \ {<<>>}]
    \cup [op : {"lookup"}, todo : Seq(Slot) \ {<<>>}, now : Int]

\* Every variable has its type; commands in progress, recorded, enforced or
\* lifted are commands that were signed.
TypeOK ==
  /\ clock \in Int
  /\ DOMAIN sent \subseteq Command /\ sent \in [DOMAIN sent -> Message]
  /\ DOMAIN seen \subseteq DOMAIN sent /\ seen \in [DOMAIN seen -> Int]
  /\ DOMAIN table \subseteq Slot /\ table \in [DOMAIN table -> Int]
  /\ call \in [Thread -> CallState]
  /\ \A t \in Thread : call[t].op \in {"nonce", "expiry", "install"} =>
                           call[t].cmd \in DOMAIN sent
  /\ accepted \in [Command -> Nat]
  /\ enforcing \subseteq DOMAIN sent /\ lifted \subseteq DOMAIN sent

\* Replay protection (crypto.rs:126): however late and however often copies of
\* a command arrive, and whatever the interleaving of the threads that check
\* them, one run of an agent accepts a nonce at most once, although the nonces
\* it has seen are evicted.
NoReplay == \A c \in Command : accepted[c] <= 1

\* An operator's rollback sticks (guard.rs:91): once a command was applied and
\* rolled back, no late copy of it is ever applied again by this run of the
\* agent.
LiftedStaysLifted == lifted \cap enforcing = {}

\* Enforcement is never wider than what was signed: whatever a table holds ends
\* exactly when some command says that was applied and not rolled back since
\* (guard.rs:56-79, 92-113).
EntriesBacked ==
  \A s \in DOMAIN table :
    \E c \in enforcing : s \in SlotsOf(sent[c]) /\ table[s] = sent[c].expires_at

\* A command takes effect for the first time only near its own timestamp: the
\* skew window plus the time a thread may be suspended.  It bounds late
\* delivery across restarts too, when the nonces are forgotten (crypto.rs:132).
ClaimsOnlyInWindow ==
  [][\A c \in Command : accepted'[c] > accepted[c] =>
        /\ clock - sent[c].issued_at < SkewWindow + MaxStall
        /\ sent[c].issued_at - clock < SkewWindow]_vars

\* Thread t carries command c from the nonce check to the tables.
Carries(t, c) == call[t].op \in {"expiry", "install"} /\ call[t].cmd = c

\* The abstract phase of a command.
PhaseOf(c) ==
  IF accepted[c] = 0 THEN "fresh"
  ELSE IF \E t \in Thread : Carries(t, c) THEN "claimed" ELSE "spent"

Lease == INSTANCE EnforcementLease WITH
           phase <- [c \in Command |-> PhaseOf(c)], lease <- table

\* The guard implements the leases: no interleaving of its threads grants a
\* command twice, revives a lease or drops one that is neither rolled back nor
\* over.
LeaseSpec == Lease!Spec
=============================================================================
