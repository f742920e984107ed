---------------------- MODULE ContainmentGuardProofs ----------------------
(***************************************************************************)
(* Proofs about ContainmentGuard and GuardRequests, for every set of       *)
(* threads, commands, messages and requests and every skew, retention and  *)
(* stall that satisfy GuardAssumption.                                     *)
(***************************************************************************)
EXTENDS GuardRequests, SequenceTheorems, TLAPS

\* Truncating the age of a command to whole seconds widens the accepted window
\* by just under one second on either side.
LEMMA WindowOfSkew ==
  ASSUME NEW d \in Int, WholeSeconds(d) <= MaxSkew
  PROVE  -SkewWindow < d /\ d < SkewWindow
<1> DEFINE T == TicksPerSecond
<1>1. T \in Nat \ {0} /\ MaxSkew \in Nat
  BY GuardAssumption
<1>2. ASSUME NEW e \in Nat, e \div T <= MaxSkew
      PROVE  e < (MaxSkew + 1) * T
  <2> DEFINE q == e \div T
  <2>1. q \in Nat /\ e < (q + 1) * T
    BY <1>1, <1>2
  <2>2. (q + 1) * T <= (MaxSkew + 1) * T
    BY <1>1, <1>2, <2>1
  <2> QED BY <1>1, <1>2, <2>1, <2>2
<1>3. CASE d >= 0
  BY <1>1, <1>2, <1>3 DEF WholeSeconds, SkewWindow
<1>4. CASE d < 0
  BY <1>1, <1>2, <1>4 DEF WholeSeconds, SkewWindow
<1> QED BY <1>3, <1>4

-----------------------------------------------------------------------------
(* Type correctness.                                                       *)

\* The slots a signed command writes are keys of the tables.
LEMMA SlotsTyped ==
  ASSUME NEW m \in Message
  PROVE  SlotsOf(m) \subseteq Slot
<1>1. /\ m.action \in ActionType /\ m.target \in Target
      /\ m.capability \in Capability \cup {None}
  BY GuardAssumption
<1>2. \A p \in {"", "ip:", "session:"} : Strip(m.target, p) \in Target
  BY <1>1 DEF Strip, Target
<1>3. /\ IpSlot(m.target) \in Slot
      /\ SessionSlot(m.target) \in Slot
      /\ RawSessionSlot(m.target) \in Slot
  BY <1>1, <1>2 DEF Slot, IpSlot, SessionSlot, RawSessionSlot
<1>4. {CapabilitySlot(m.target, c) : c \in {m.capability} \ {None}} \subseteq Slot
  BY <1>1 DEF Slot, CapabilitySlot
<1> QED
  BY <1>1, <1>3, <1>4 DEF SlotsOf, ActionType

\* A request looks up keys of the tables.
LEMMA RequestTyped ==
  ASSUME NEW r \in Request
  PROVE  RequestSlots(r) \in Seq(Slot)
<1>1. /\ r.ip \in Target \cup {None} /\ r.session \in Target \cup {None}
      /\ r.capability \in Capability \cup {None}
  BY GuardAssumption
<1>2. r.ip # None => <<IpSlot(r.ip)>> \in Seq(Slot)
  <2> SUFFICES ASSUME r.ip # None PROVE IpSlot(r.ip) \in Slot
    OBVIOUS
  <2>1. Strip(r.ip, "ip:") \in Target
    BY <1>1 DEF Strip, Target
  <2> QED BY <2>1 DEF IpSlot, Slot
<1>3. r.session # None => <<SessionSlot(r.session)>> \in Seq(Slot)
  <2> SUFFICES ASSUME r.session # None PROVE SessionSlot(r.session) \in Slot
    OBVIOUS
  <2>1. Strip(r.session, "session:") \in Target
    BY <1>1 DEF Strip, Target
  <2> QED BY <2>1 DEF SessionSlot, Slot
<1>4. r.session # None /\ r.capability # None =>
        <<CapabilitySlot(r.session, r.capability)>> \in Seq(Slot)
  <2> SUFFICES ASSUME r.session # None, r.capability # None
               PROVE  CapabilitySlot(r.session, r.capability) \in Slot
    OBVIOUS
  <2> QED BY <1>1 DEF CapabilitySlot, Slot
<1> QED
  BY <1>2, <1>3, <1>4 DEF RequestSlots

LEMMA TypeInit == Init => TypeOK
BY GuardAssumption DEF Init, TypeOK, EmptyMap, CallState

LEMMA TypeStep == TypeOK /\ [Next]_vars => TypeOK'
<1> SUFFICES ASSUME TypeOK, [Next]_vars PROVE TypeOK'
  OBVIOUS
<1> USE DEF TypeOK, history
<1>1. CASE Tick
  BY <1>1 DEF Tick
<1>2. CASE Restart
  BY <1>2 DEF Restart, EmptyMap, CallState
<1>3. ASSUME NEW c \in Command, Issue(c) PROVE TypeOK'
  BY <1>3 DEF Issue
<1>4. ASSUME NEW t \in Thread, NEW c \in Command, ApplyBegin(t, c) PROVE TypeOK'
  <2>1. [op |-> "nonce", cmd |-> c, now |-> clock] \in CallState
    BY DEF CallState
  <2> QED BY <1>4, <2>1 DEF ApplyBegin
<1>5. ASSUME NEW t \in Thread, RecordNonce(t) PROVE TypeOK'
  <2> DEFINE c == call[t].cmd
             kept == Retained(call[t].now)
  <2>1. c \in DOMAIN sent /\ c \in Command /\ sent[c] \in Message /\ sent[c].issued_at \in Int
    BY <1>5, GuardAssumption DEF RecordNonce
  <2>2. /\ [op |-> "idle"] \in CallState
        /\ [op |-> "expiry", cmd |-> c] \in CallState
    BY <2>1 DEF CallState
  <2>3. kept \subseteq DOMAIN seen
    BY DEF Retained
  <2>4. CASE c \in kept
    BY <1>5, <2>1, <2>2, <2>3, <2>4 DEF RecordNonce, Restrict
  <2>5. CASE c \notin kept
    <3>1. seen' = [d \in kept \cup {c} |-> IF d = c THEN sent[c].issued_at ELSE seen[d]]
      BY <1>5, <2>5 DEF RecordNonce
    <3>2. DOMAIN seen' \subseteq DOMAIN sent /\ seen' \in [DOMAIN seen' -> Int]
      BY <2>1, <2>3, <3>1
    <3>3. accepted' \in [Command -> Nat]
      BY <1>5, <2>1, <2>5 DEF RecordNonce
    <3>4. call' \in [Thread -> CallState]
      BY <1>5, <2>2, <2>5 DEF RecordNonce
    <3>5. \A u \in Thread : call'[u].op \in {"nonce", "expiry", "install"} =>
                              call'[u].cmd \in DOMAIN sent
      BY <1>5, <2>1, <2>5 DEF RecordNonce
    <3> QED BY <1>5, <3>2, <3>3, <3>4, <3>5 DEF RecordNonce
  <2> QED BY <2>4, <2>5
<1>6. ASSUME NEW t \in Thread, CheckExpiry(t) PROVE TypeOK'
  <2>1. call[t].cmd \in DOMAIN sent /\ call[t].cmd \in Command
    BY <1>6 DEF CheckExpiry
  <2>2. /\ [op |-> "idle"] \in CallState
        /\ [op |-> "install", cmd |-> call[t].cmd] \in CallState
    BY <2>1 DEF CallState
  <2> QED BY <1>6, <2>1, <2>2 DEF CheckExpiry
<1>7. ASSUME NEW t \in Thread, Install(t) PROVE TypeOK'
  <2> DEFINE c == call[t].cmd
  <2>1. c \in DOMAIN sent /\ sent[c] \in Message /\ sent[c].expires_at \in Int
    BY <1>7, GuardAssumption DEF Install
  <2>2. [op |-> "idle"] \in CallState
    BY DEF CallState
  <2>3. DOMAIN table' \subseteq Slot /\ table' \in [DOMAIN table' -> Int]
    BY <1>7, <2>1, SlotsTyped DEF Install
  <2> QED BY <1>7, <2>1, <2>2, <2>3 DEF Install
<1>8. ASSUME NEW t \in Thread, NEW r \in Request, Ask(t, r) PROVE TypeOK'
  <2>1. /\ [op |-> "allowed"] \in CallState
        /\ RequestSlots(r) # <<>> => [op |-> "ask", todo |-> RequestSlots(r)] \in CallState
    BY RequestTyped DEF CallState
  <2> QED BY <1>8, <2>1 DEF Ask
<1>9. ASSUME NEW t \in Thread, ReadClock(t) PROVE TypeOK'
  <2>1. call[t].todo \in Seq(Slot) \ {<<>>}
    BY <1>9 DEF ReadClock, CallState
  <2>2. [op |-> "lookup", todo |-> call[t].todo, now |-> clock] \in CallState
    BY <2>1 DEF CallState
  <2> QED BY <1>9, <2>2 DEF ReadClock
<1>10. ASSUME NEW t \in Thread, LookUp(t) PROVE TypeOK'
  <2>1. call[t].todo \in Seq(Slot) \ {<<>>}
    BY <1>10 DEF LookUp, CallState
  <2>2. Passed(t) \in CallState
    <3>1. CASE Len(call[t].todo) = 1
      BY <3>1 DEF Passed, CallState
    <3>2. CASE Len(call[t].todo) # 1
      <4> DEFINE todo == call[t].todo
      <4>1. todo \in Seq(Slot) /\ todo # <<>>
        BY <2>1
      <4>2. Len(todo) \in Nat \ {0}
        BY <4>1, EmptySeq
      <4>3. Tail(todo) \in Seq(Slot) /\ Len(Tail(todo)) = Len(todo) - 1
        BY <4>1, HeadTailProperties
      <4>4. Tail(todo) # <<>>
        <5> SUFFICES ASSUME Tail(todo) = <<>> PROVE FALSE
          OBVIOUS
        <5>1. Len(Tail(todo)) = 0
          BY EmptySeq
        <5> HIDE DEF todo
        <5> QED BY <3>2, <4>2, <4>3, <5>1 DEF todo
      <4> QED BY <3>2, <4>3, <4>4 DEF Passed, CallState
    <3> QED BY <3>1, <3>2
  <2>3. [op |-> "denied"] \in CallState
    BY DEF CallState
  <2>4. Passed(t).op \in {"allowed", "ask"}
    BY DEF Passed
  <2> QED BY <1>10, <2>2, <2>3, <2>4 DEF LookUp, Restrict
<1>11. ASSUME NEW m \in Message, RollbackAction(m.target, m.action) PROVE TypeOK'
  BY <1>11 DEF RollbackAction, Restrict
<1>12. CASE UNCHANGED vars
  BY <1>12 DEF vars
<1> QED
  BY <1>1, <1>2, <1>3, <1>4, <1>5, <1>6, <1>7, <1>8, <1>9, <1>10, <1>11, <1>12 DEF Next

\* Every reachable state of the guard is well typed.
THEOREM TypeCorrect == Spec => []TypeOK
BY TypeInit, TypeStep, PTL DEF Spec

-----------------------------------------------------------------------------
(* The inductive invariant.                                                *)

\* A recorded nonce carries its command's timestamp, and was accepted once.
SeenExact ==
  \A c \in DOMAIN seen : seen[c] = sent[c].issued_at /\ accepted[c] = 1

\* An accepted nonce is evicted only when it is older than the retention: the
\* eviction used a clock reading that is not ahead of the clock.
ForgottenIsOld ==
  \A c \in Command : accepted[c] > 0 /\ c \notin DOMAIN seen =>
    /\ c \in DOMAIN sent
    /\ sent[c].issued_at + Retention <= clock

\* The reading a thread takes into the nonce check is recent and within skew.
ReadingFresh ==
  \A t \in Thread : call[t].op = "nonce" =>
    /\ call[t].now <= clock /\ clock <= call[t].now + MaxStall
    /\ WholeSeconds(call[t].now - sent[call[t].cmd].issued_at) <= MaxSkew

\* At most one thread carries a command from the nonce check to the tables, and
\* that command has not reached them before.
CarriedOnce ==
  /\ \A t \in Thread, c \in Command : Carries(t, c) =>
       accepted[c] > 0 /\ c \notin enforcing /\ c \notin lifted
  /\ \A t, u \in Thread, c \in Command : Carries(t, c) /\ Carries(u, c) => t = u

AppliedWasAccepted == \A c \in enforcing \cup lifted : accepted[c] > 0

IInv ==
  /\ TypeOK
  /\ NoReplay
  /\ SeenExact
  /\ ForgottenIsOld
  /\ ReadingFresh
  /\ CarriedOnce
  /\ AppliedWasAccepted
  /\ LiftedStaysLifted
  /\ EntriesBacked

LEMMA IInvInit == Init => IInv
BY TypeInit DEF Init, IInv, NoReplay, SeenExact, ForgottenIsOld, ReadingFresh, CarriedOnce,
   Carries, AppliedWasAccepted, LiftedStaysLifted, EntriesBacked, EmptyMap

\* The heart of the replay argument: a thread that finds no nonce recorded for
\* its command is the first to claim it.  Had the command been accepted before,
\* its nonce would have been evicted no earlier than the retention allows, and
\* by then the thread's reading would be outside the skew window.
LEMMA FirstClaim ==
  ASSUME IInv, NEW t \in Thread, call[t].op = "nonce",
         call[t].cmd \notin Retained(call[t].now)
  PROVE  accepted[call[t].cmd] = 0
<1> DEFINE c == call[t].cmd
           r == call[t].now
           ts == sent[c].issued_at
<1>1. /\ c \in Command /\ c \in DOMAIN sent /\ r \in Int /\ ts \in Int /\ clock \in Int
      /\ accepted[c] \in Nat
  BY GuardAssumption DEF IInv, TypeOK, CallState
<1>2. r <= clock /\ clock <= r + MaxStall /\ WholeSeconds(r - ts) <= MaxSkew
  BY DEF IInv, ReadingFresh
<1>3. r - ts < SkewWindow
  BY <1>1, <1>2, WindowOfSkew
<1>4. /\ SkewWindow \in Int /\ MaxStall \in Nat /\ Retention \in Nat
      /\ SkewWindow + MaxStall <= Retention
  BY GuardAssumption DEF SkewWindow
<1>5. c \notin DOMAIN seen
  <2> SUFFICES ASSUME c \in DOMAIN seen PROVE FALSE
    OBVIOUS
  <2>1. seen[c] = ts
    BY DEF IInv, SeenExact
  <2>2. ~(ts > r - Retention)
    BY <2>1 DEF Retained
  <2> QED BY <1>1, <1>3, <1>4, <2>2
<1>6. accepted[c] > 0 => ts + Retention <= clock
  BY <1>1, <1>5 DEF IInv, ForgottenIsOld
<1> QED BY <1>1, <1>2, <1>3, <1>4, <1>6

\* The critical section of the nonce check preserves the invariant.
LEMMA IInvRecordNonce ==
  ASSUME IInv, NEW t \in Thread, RecordNonce(t), TypeOK'
  PROVE  IInv'
<1> DEFINE c == call[t].cmd
           kept == Retained(call[t].now)
<1>1. /\ call[t].op = "nonce" /\ call \in [Thread -> CallState]
      /\ c \in Command /\ c \in DOMAIN sent /\ call[t].now \in Int /\ clock \in Int
      /\ call[t].now <= clock /\ Retention \in Nat /\ accepted \in [Command -> Nat]
      /\ kept \subseteq DOMAIN seen /\ DOMAIN seen \subseteq DOMAIN sent
      /\ DOMAIN sent \subseteq Command
  BY GuardAssumption DEF IInv, TypeOK, CallState, ReadingFresh, RecordNonce, Retained
<1>2. \A d \in DOMAIN seen \ kept : sent[d].issued_at + Retention <= clock
  <2> SUFFICES ASSUME NEW d \in DOMAIN seen, d \notin kept
               PROVE  sent[d].issued_at + Retention <= clock
    OBVIOUS
  <2>1. seen[d] = sent[d].issued_at /\ seen[d] \in Int
    BY DEF IInv, SeenExact, TypeOK
  <2>2. ~(seen[d] > call[t].now - Retention)
    BY DEF Retained
  <2> QED BY <1>1, <2>1, <2>2
<1>3. CASE c \in kept
  <2>1. /\ seen' = Restrict(seen, kept)
        /\ call' = [call EXCEPT ![t] = [op |-> "idle"]]
        /\ UNCHANGED <<accepted, clock, sent, table, enforcing, lifted>>
    BY <1>3 DEF RecordNonce
  <2>2. NoReplay' /\ SeenExact'
    BY <2>1, <1>1 DEF IInv, NoReplay, SeenExact, Restrict
  <2>3. ForgottenIsOld'
    BY <2>1, <1>1, <1>2 DEF IInv, ForgottenIsOld, Restrict
  <2>4. ReadingFresh'
    BY <2>1, <1>1 DEF IInv, ReadingFresh
  <2>5. CarriedOnce'
    BY <2>1, <1>1 DEF IInv, CarriedOnce, Carries
  <2>6. AppliedWasAccepted' /\ LiftedStaysLifted' /\ EntriesBacked'
    BY <2>1 DEF IInv, AppliedWasAccepted, LiftedStaysLifted, EntriesBacked
  <2> QED BY <2>2, <2>3, <2>4, <2>5, <2>6 DEF IInv
<1>4. CASE c \notin kept
  <2>1. /\ seen' = [d \in kept \cup {c} |-> IF d = c THEN sent[c].issued_at ELSE seen[d]]
        /\ accepted' = [accepted EXCEPT ![c] = @ + 1]
        /\ call' = [call EXCEPT ![t] = [op |-> "expiry", cmd |-> c]]
        /\ UNCHANGED <<clock, sent, table, enforcing, lifted>>
    BY <1>4 DEF RecordNonce
  <2>2. accepted[c] = 0
    BY <1>1, <1>4, FirstClaim
  <2>3. accepted'[c] = 1 /\ \A d \in Command : d # c => accepted'[d] = accepted[d]
    BY <1>1, <2>1, <2>2
  <2>4. NoReplay'
    BY <1>1, <2>1, <2>3 DEF IInv, NoReplay
  <2>5. SeenExact'
    BY <1>1, <2>1, <2>3 DEF IInv, SeenExact
  <2>6. ForgottenIsOld'
    BY <1>1, <1>2, <2>1, <2>3 DEF IInv, ForgottenIsOld
  <2>7. ReadingFresh'
    BY <1>1, <2>1 DEF IInv, ReadingFresh
  <2>8. c \notin enforcing /\ c \notin lifted
    BY <2>2 DEF IInv, AppliedWasAccepted
  <2>9. \A u \in Thread : ~Carries(u, c)
    BY <1>1, <2>2 DEF IInv, CarriedOnce
  <2>10. \A u \in Thread, d \in Command : Carries(u, d)' <=> Carries(u, d) \/ (u = t /\ d = c)
    BY <1>1, <2>1 DEF Carries
  <2>11. CarriedOnce'
    BY <1>1, <2>1, <2>3, <2>8, <2>9, <2>10 DEF IInv, CarriedOnce
  <2>12. AppliedWasAccepted'
    BY <1>1, <2>1, <2>3, <2>8 DEF IInv, AppliedWasAccepted, TypeOK
  <2>13. LiftedStaysLifted' /\ EntriesBacked'
    BY <2>1 DEF IInv, LiftedStaysLifted, EntriesBacked
  <2> QED BY <2>4, <2>5, <2>6, <2>7, <2>11, <2>12, <2>13 DEF IInv
<1> QED BY <1>3, <1>4

\* The table insert preserves the invariant.
LEMMA IInvInstall ==
  ASSUME IInv, NEW t \in Thread, Install(t), TypeOK'
  PROVE  IInv'
<1> DEFINE c == call[t].cmd
<1>1. /\ call[t].op = "install" /\ call \in [Thread -> CallState]
      /\ c \in Command /\ c \in DOMAIN sent
      /\ table' = [s \in DOMAIN table \cup SlotsOf(sent[c]) |->
                     IF s \in SlotsOf(sent[c]) THEN sent[c].expires_at ELSE table[s]]
      /\ enforcing' = enforcing \cup {c}
      /\ call' = [call EXCEPT ![t] = [op |-> "idle"]]
      /\ UNCHANGED <<clock, sent, seen, accepted, lifted>>
  BY DEF IInv, TypeOK, CallState, Install
<1>2. Carries(t, c) /\ accepted[c] > 0 /\ c \notin lifted
  BY <1>1 DEF IInv, CarriedOnce, Carries
<1>3. NoReplay' /\ SeenExact' /\ ForgottenIsOld'
  BY <1>1 DEF IInv, NoReplay, SeenExact, ForgottenIsOld
<1>4. ReadingFresh'
  BY <1>1 DEF IInv, ReadingFresh
<1>5. \A u \in Thread, d \in Command : Carries(u, d)' <=> Carries(u, d) /\ u # t
  BY <1>1 DEF Carries
<1>6. CarriedOnce'
  BY <1>1, <1>2, <1>5 DEF IInv, CarriedOnce
<1>7. AppliedWasAccepted' /\ LiftedStaysLifted'
  BY <1>1, <1>2 DEF IInv, AppliedWasAccepted, LiftedStaysLifted
<1>8. EntriesBacked'
  BY <1>1 DEF IInv, EntriesBacked
<1> QED BY <1>3, <1>4, <1>6, <1>7, <1>8 DEF IInv

\* A command writes at most one slot.
LEMMA OneSlot ==
  ASSUME NEW m \in Message, NEW s \in SlotsOf(m), NEW s2 \in SlotsOf(m)
  PROVE  s = s2
BY GuardAssumption DEF SlotsOf, ActionType

\* A rollback removes a slot together with every command that could back it.
LEMMA IInvRollback ==
  ASSUME IInv, NEW m \in Message, RollbackAction(m.target, m.action), TypeOK'
  PROVE  IInv'
<1> DEFINE gone == RollbackSlots(m.target, m.action)
           mine == {c \in enforcing : SlotsOf(sent[c]) \cap gone # {}}
<1>1. /\ table' = Restrict(table, DOMAIN table \ gone)
      /\ enforcing' = enforcing \ mine
      /\ lifted' = lifted \cup mine
      /\ UNCHANGED <<clock, sent, seen, call, accepted>>
  BY DEF RollbackAction
<1>2. NoReplay' /\ SeenExact' /\ ForgottenIsOld' /\ ReadingFresh'
  BY <1>1 DEF IInv, NoReplay, SeenExact, ForgottenIsOld, ReadingFresh
<1>3. CarriedOnce'
  BY <1>1 DEF IInv, CarriedOnce, Carries
<1>4. AppliedWasAccepted' /\ LiftedStaysLifted'
  BY <1>1 DEF IInv, AppliedWasAccepted, LiftedStaysLifted
<1>5. EntriesBacked'
  <2> SUFFICES ASSUME NEW s \in DOMAIN table, s \notin gone
               PROVE  \E c \in enforcing \ mine :
                        s \in SlotsOf(sent[c]) /\ table[s] = sent[c].expires_at
    BY <1>1 DEF EntriesBacked, Restrict
  <2>1. PICK c \in enforcing : s \in SlotsOf(sent[c]) /\ table[s] = sent[c].expires_at
    BY DEF IInv, EntriesBacked
  <2>2. sent[c] \in Message
    BY DEF IInv, TypeOK
  <2>3. c \notin mine
    BY <2>1, <2>2, OneSlot
  <2> QED BY <2>1, <2>3
<1> QED BY <1>2, <1>3, <1>4, <1>5 DEF IInv

\* Every step preserves the invariant.
LEMMA IInvStep == IInv /\ [Next]_vars => IInv'
<1> SUFFICES ASSUME IInv, [Next]_vars PROVE IInv'
  OBVIOUS
<1>0. TypeOK' /\ TypeOK
  BY TypeStep DEF IInv
<1>1. CASE Tick
  <2>1. /\ clock \in Int /\ clock' = clock + 1
        /\ \A t \in Thread : call[t].op = "nonce" =>
             call[t].now \in Int /\ clock - call[t].now < MaxStall
        /\ UNCHANGED <<sent, seen, table, call, accepted, enforcing, lifted>>
    BY <1>0, <1>1 DEF Tick, history, TypeOK, CallState
  <2>2. ForgottenIsOld'
    <3> SUFFICES ASSUME NEW c \in Command, accepted[c] > 0, c \notin DOMAIN seen
                 PROVE  c \in DOMAIN sent /\ sent[c].issued_at + Retention <= clock + 1
      BY <2>1 DEF ForgottenIsOld
    <3>1. c \in DOMAIN sent /\ sent[c].issued_at + Retention <= clock
      BY DEF IInv, ForgottenIsOld
    <3>2. sent[c].issued_at \in Int /\ Retention \in Nat
      BY <1>0, <3>1, GuardAssumption DEF TypeOK
    <3> QED BY <2>1, <3>1, <3>2
  <2>3. ReadingFresh'
    BY <2>1, GuardAssumption DEF IInv, ReadingFresh
  <2> QED
    BY <1>0, <2>1, <2>2, <2>3 DEF IInv, NoReplay, SeenExact, CarriedOnce, Carries,
       AppliedWasAccepted, LiftedStaysLifted, EntriesBacked
<1>2. CASE Restart
  BY <1>0, <1>2 DEF Restart, IInv, NoReplay, SeenExact, ForgottenIsOld, ReadingFresh,
     CarriedOnce, Carries, AppliedWasAccepted, LiftedStaysLifted, EntriesBacked, EmptyMap
<1>3. ASSUME NEW c \in Command, Issue(c) PROVE IInv'
  <2>1. /\ c \notin DOMAIN sent
        /\ \A d \in DOMAIN sent : d \in DOMAIN sent' /\ sent'[d] = sent[d]
        /\ UNCHANGED <<clock, seen, table, call, accepted, enforcing, lifted>>
    BY <1>3 DEF Issue, history
  <2>2. SeenExact' /\ NoReplay'
    BY <1>0, <2>1 DEF IInv, SeenExact, NoReplay, TypeOK
  <2>3. ForgottenIsOld'
    BY <1>0, <2>1 DEF IInv, ForgottenIsOld, TypeOK
  <2>4. ReadingFresh'
    BY <1>0, <2>1 DEF IInv, ReadingFresh, TypeOK
  <2>5. CarriedOnce' /\ AppliedWasAccepted' /\ LiftedStaysLifted'
    BY <2>1 DEF IInv, CarriedOnce, Carries, AppliedWasAccepted, LiftedStaysLifted
  <2>6. EntriesBacked'
    BY <1>0, <2>1 DEF IInv, EntriesBacked, TypeOK
  <2> QED BY <1>0, <2>2, <2>3, <2>4, <2>5, <2>6 DEF IInv
<1>4. ASSUME NEW t \in Thread, NEW c \in Command, ApplyBegin(t, c) PROVE IInv'
  <2>1. /\ call' = [call EXCEPT ![t] = [op |-> "nonce", cmd |-> c, now |-> clock]]
        /\ WholeSeconds(clock - sent[c].issued_at) <= MaxSkew
        /\ call \in [Thread -> CallState] /\ Free(t) /\ clock \in Int
        /\ UNCHANGED <<clock, sent, seen, table, accepted, enforcing, lifted>>
    BY <1>0, <1>4 DEF ApplyBegin, history, TypeOK
  <2>2. ReadingFresh'
    BY <2>1, GuardAssumption DEF IInv, ReadingFresh
  <2>3. CarriedOnce'
    BY <2>1 DEF IInv, CarriedOnce, Carries
  <2> QED
    BY <1>0, <2>1, <2>2, <2>3 DEF IInv, NoReplay, SeenExact, ForgottenIsOld,
       AppliedWasAccepted, LiftedStaysLifted, EntriesBacked
<1>5. ASSUME NEW t \in Thread, RecordNonce(t) PROVE IInv'
  BY <1>0, <1>5, IInvRecordNonce
<1>6. ASSUME NEW t \in Thread, CheckExpiry(t) PROVE IInv'
  <2>1. /\ call[t].op = "expiry" /\ call \in [Thread -> CallState]
        /\ \/ call' = [call EXCEPT ![t] = [op |-> "idle"]]
           \/ call' = [call EXCEPT ![t] = [op |-> "install", cmd |-> call[t].cmd]]
        /\ UNCHANGED <<clock, sent, seen, table, accepted, enforcing, lifted>>
    BY <1>0, <1>6 DEF CheckExpiry, history, TypeOK
  <2>2. ReadingFresh'
    BY <2>1 DEF IInv, ReadingFresh
  <2>3. \A u \in Thread, d \in Command : Carries(u, d)' => Carries(u, d)
    BY <2>1 DEF Carries
  <2>4. CarriedOnce'
    BY <2>1, <2>3 DEF IInv, CarriedOnce
  <2> QED
    BY <1>0, <2>1, <2>2, <2>4 DEF IInv, NoReplay, SeenExact, ForgottenIsOld,
       AppliedWasAccepted, LiftedStaysLifted, EntriesBacked
<1>7. ASSUME NEW t \in Thread, Install(t) PROVE IInv'
  BY <1>0, <1>7, IInvInstall
<1>8. ASSUME NEW t \in Thread,
             (\E r \in Request : Ask(t, r)) \/ ReadClock(t) \/ LookUp(t)
      PROVE  IInv'
  <2>0. call \in [Thread -> CallState]
    BY <1>0 DEF TypeOK
  <2>1. /\ call' \in [Thread -> CallState]
        /\ call'[t].op \notin {"nonce", "expiry", "install"}
        /\ \A u \in Thread \ {t} : call'[u] = call[u]
    <3>0. call' \in [Thread -> CallState]
      BY <1>0 DEF TypeOK
    <3>1. ASSUME NEW r \in Request, Ask(t, r)
          PROVE  /\ call'[t].op \notin {"nonce", "expiry", "install"}
                 /\ \A u \in Thread \ {t} : call'[u] = call[u]
      BY <2>0, <3>1 DEF Ask
    <3>2. CASE ReadClock(t)
      BY <2>0, <3>0, <3>2 DEF ReadClock
    <3>3. CASE LookUp(t)
      <4>1. Passed(t).op \in {"allowed", "ask"}
        BY DEF Passed
      <4> QED BY <2>0, <3>0, <3>3, <4>1 DEF LookUp
    <3> QED BY <1>8, <3>0, <3>1, <3>2, <3>3
  <2>2. /\ call[t].op \notin {"nonce", "expiry", "install"}
        /\ call \in [Thread -> CallState]
        /\ UNCHANGED <<clock, sent, seen, accepted, enforcing, lifted>>
    BY <1>0, <1>8 DEF Ask, ReadClock, LookUp, Free, history, TypeOK
  <2>3. /\ DOMAIN table' \subseteq DOMAIN table
        /\ \A s \in DOMAIN table' : table'[s] = table[s]
    BY <1>8 DEF Ask, ReadClock, LookUp, Restrict
  <2>4. ReadingFresh'
    BY <2>1, <2>2 DEF IInv, ReadingFresh
  <2>5. CarriedOnce'
    BY <2>1, <2>2 DEF IInv, CarriedOnce, Carries
  <2>6. EntriesBacked'
    BY <2>2, <2>3 DEF IInv, EntriesBacked
  <2> QED
    BY <1>0, <2>2, <2>4, <2>5, <2>6 DEF IInv, NoReplay, SeenExact, ForgottenIsOld,
       AppliedWasAccepted, LiftedStaysLifted
<1>9. ASSUME NEW m \in Message, RollbackAction(m.target, m.action) PROVE IInv'
  BY <1>0, <1>9, IInvRollback
<1>10. CASE UNCHANGED vars
  BY <1>0, <1>10 DEF vars, IInv, NoReplay, SeenExact, ForgottenIsOld, ReadingFresh,
     CarriedOnce, Carries, AppliedWasAccepted, LiftedStaysLifted, EntriesBacked
<1> QED
  BY <1>1, <1>2, <1>3, <1>4, <1>5, <1>6, <1>7, <1>8, <1>9, <1>10 DEF Next

LEMMA InvariantHolds == Spec => []IInv
BY IInvInit, IInvStep, PTL DEF Spec

-----------------------------------------------------------------------------
(* What the invariant gives.                                               *)

\* Replay protection: no run of an agent accepts a nonce twice
\* (NonceTracker::check_and_record, crypto.rs:127-150).
THEOREM ReplaySafe == Spec => []NoReplay
BY InvariantHolds, PTL DEF IInv

\* A rollback is final for this run of the agent: no copy of a rolled-back
\* command is applied again (guard.rs:32-113).
THEOREM RollbackSticks == Spec => []LiftedStaysLifted
BY InvariantHolds, PTL DEF IInv

\* The tables never enforce more, or longer, than a command says that was
\* applied and not rolled back (guard.rs:56-113).
THEOREM EnforcementBacked == Spec => []EntriesBacked
BY InvariantHolds, PTL DEF IInv

\* A command is accepted only near its own timestamp, across restarts too
\* (crypto.rs:132-136).
THEOREM ClaimWindow == Spec => ClaimsOnlyInWindow
<1>1. IInv /\ [Next]_vars =>
        [\A c \in Command : accepted'[c] > accepted[c] =>
           /\ clock - sent[c].issued_at < SkewWindow + MaxStall
           /\ sent[c].issued_at - clock < SkewWindow]_vars
  <2> SUFFICES ASSUME IInv, [Next]_vars, NEW c \in Command, accepted'[c] > accepted[c]
               PROVE  /\ clock - sent[c].issued_at < SkewWindow + MaxStall
                      /\ sent[c].issued_at - clock < SkewWindow
    OBVIOUS
  <2>0. TypeOK
    BY DEF IInv
  <2>1. accepted # accepted' /\ accepted \in [Command -> Nat]
    BY <2>0 DEF TypeOK
  <2>2. ~Restart
    BY <2>0 DEF Restart, TypeOK
  <2>3. PICK t \in Thread : RecordNonce(t)
    BY <2>1, <2>2 DEF Next, Tick, Issue, ApplyBegin, CheckExpiry, Install, Ask, ReadClock,
       LookUp, RollbackAction, vars, history
  <2>4. call[t].cmd = c
    BY <2>0, <2>3 DEF RecordNonce, TypeOK, CallState
  <2>5. /\ call[t].op = "nonce" /\ c \in DOMAIN sent /\ call[t].now \in Int /\ clock \in Int
        /\ sent[c].issued_at \in Int
    BY <2>0, <2>3, <2>4, GuardAssumption DEF RecordNonce, TypeOK, CallState
  <2>6. /\ call[t].now <= clock /\ clock <= call[t].now + MaxStall
        /\ WholeSeconds(call[t].now - sent[c].issued_at) <= MaxSkew
    BY <2>4, <2>5 DEF IInv, ReadingFresh
  <2>7. /\ -SkewWindow < call[t].now - sent[c].issued_at
        /\ call[t].now - sent[c].issued_at < SkewWindow
    BY <2>5, <2>6, WindowOfSkew
  <2>8. SkewWindow \in Int /\ MaxStall \in Nat
    BY GuardAssumption DEF SkewWindow
  <2> QED BY <2>5, <2>6, <2>7, <2>8
<1> QED BY <1>1, InvariantHolds, PTL DEF Spec, ClaimsOnlyInWindow

-----------------------------------------------------------------------------
(* Requests: what a lookup goes past, and what has been in force since a   *)
(* request was made.                                                       *)

\* A lookup uses a clock reading that is not ahead of the clock.
ReadingPast == \A t \in Thread : call[t].op = "lookup" => call[t].now <= clock

LEMMA ReadingPastInit == Init => ReadingPast
BY DEF Init, ReadingPast

LEMMA ReadingPastStep == TypeOK /\ TypeOK' /\ ReadingPast /\ [Next]_vars => ReadingPast'
<1> SUFFICES ASSUME TypeOK, TypeOK', ReadingPast, [Next]_vars,
                    NEW u \in Thread, call'[u].op = "lookup"
             PROVE  call'[u].now <= clock'
  BY DEF ReadingPast
<1>1. /\ clock \in Int /\ call \in [Thread -> CallState] /\ call' \in [Thread -> CallState]
      /\ call[u].op = "lookup" => call[u].now \in Int /\ call[u].now <= clock
  BY DEF TypeOK, ReadingPast, CallState
<1>2. clock' \in Int /\ clock <= clock'
  <2>1. clock' = clock + 1 \/ clock' = clock
    BY DEF Next, Tick, Restart, Issue, ApplyBegin, RecordNonce, CheckExpiry, Install,
       Ask, ReadClock, LookUp, RollbackAction, vars
  <2> QED BY <1>1, <2>1
<1>3. CASE call'[u] = call[u]
  BY <1>1, <1>2, <1>3
<1>4. CASE call'[u] # call[u]
  <2>1. ~Restart
    BY DEF Restart
  <2>2. PICK t \in Thread :
          \/ \E c \in Command : ApplyBegin(t, c)
          \/ RecordNonce(t) \/ CheckExpiry(t) \/ Install(t)
          \/ \E r \in Request : Ask(t, r)
          \/ ReadClock(t) \/ LookUp(t)
    BY <1>4, <2>1 DEF Next, Tick, Issue, RollbackAction, vars, history
  <2>3. u = t
    BY <1>1, <1>4, <2>2 DEF ApplyBegin, RecordNonce, CheckExpiry, Install, Ask, ReadClock, LookUp
  <2>4. ReadClock(t)
    <3>1. ASSUME NEW c \in Command, ApplyBegin(t, c) PROVE FALSE
      BY <1>1, <2>3, <3>1 DEF ApplyBegin
    <3>2. ASSUME RecordNonce(t) \/ CheckExpiry(t) \/ Install(t) PROVE FALSE
      BY <1>1, <2>3, <3>2 DEF RecordNonce, CheckExpiry, Install
    <3>3. ASSUME NEW r \in Request, Ask(t, r) PROVE FALSE
      BY <1>1, <2>3, <3>3 DEF Ask
    <3>4. ASSUME LookUp(t) PROVE FALSE
      <4>1. Passed(t).op \in {"allowed", "ask"}
        BY DEF Passed
      <4> QED BY <1>1, <2>3, <3>4, <4>1 DEF LookUp
    <3> QED BY <2>2, <3>1, <3>2, <3>3, <3>4
  <2> QED BY <1>1, <2>3, <2>4 DEF ReadClock
<1> QED BY <1>3, <1>4

LEMMA ReadingPastHolds == Spec => []ReadingPast
BY ReadingPastInit, ReadingPastStep, TypeCorrect, PTL DEF Spec

LEMMA RequestSpecRefines == RequestSpec => Spec
<1>1. RequestInit => Init
  BY DEF RequestInit
<1>2. [Next /\ Watch]_requestVars => [Next]_vars
  BY DEF requestVars
<1> QED BY <1>1, <1>2, PTL DEF RequestSpec, Spec

\* A request under way ends or moves on by its own lookup only, and the entry
\* that lookup goes past, if there is one, is over: the clock it is compared
\* with was read before the lock was taken, and time only grows.
LEMMA LookUpPasses ==
  ASSUME TypeOK, ReadingPast, [Next]_vars, NEW t \in Thread, Asking(t),
         call'[t].op = "allowed" \/ (Asking(t)' /\ call'[t].todo # call[t].todo)
  PROVE  /\ call[t].op = "lookup" /\ call'[t] = Passed(t)
         /\ call[t].todo \in Seq(Slot) \ {<<>>}
         /\ Head(call[t].todo) \notin InForce
<1>1. /\ call \in [Thread -> CallState] /\ clock \in Int
      /\ call[t].todo \in Seq(Slot) \ {<<>>}
      /\ call[t].op = "lookup" => call[t].now \in Int /\ call[t].now <= clock
      /\ \A s \in DOMAIN table : table[s] \in Int
  BY DEF TypeOK, CallState, ReadingPast, Asking
<1>2. call'[t] # call[t]
  BY DEF Asking
<1>3. ~Restart
  BY DEF Restart, Asking
<1>4. PICK u \in Thread :
        \/ \E c \in Command : ApplyBegin(u, c)
        \/ RecordNonce(u) \/ CheckExpiry(u) \/ Install(u)
        \/ \E r \in Request : Ask(u, r)
        \/ ReadClock(u) \/ LookUp(u)
  BY <1>2, <1>3 DEF Next, Tick, Issue, RollbackAction, vars, history
<1>5. u = t
  BY <1>1, <1>2, <1>4 DEF ApplyBegin, RecordNonce, CheckExpiry, Install, Ask, ReadClock, LookUp
<1>6. ~ReadClock(t)
  BY <1>1 DEF ReadClock, Asking
<1>7. LookUp(t)
  BY <1>4, <1>5, <1>6 DEF ApplyBegin, RecordNonce, CheckExpiry, Install, Ask, Free, Asking
<1>8. call[t].op = "lookup" /\ call'[t].op # "denied"
  BY <1>7 DEF LookUp, Asking
<1>9. /\ call'[t] = Passed(t)
      /\ Head(call[t].todo) \in DOMAIN table => call[t].now >= table[Head(call[t].todo)]
  BY <1>1, <1>7, <1>8 DEF LookUp
<1> QED BY <1>1, <1>8, <1>9 DEF InForce

\* What has stood in the way of a request since it was made stands there still,
\* and the request has yet to look it up.
StandingInv ==
  \A t \in Thread :
    /\ standing[t] \subseteq InForce
    /\ standing[t] # {} => Asking(t) /\ standing[t] \subseteq Range(call[t].todo)

LEMMA StandingInit == RequestInit => StandingInv
BY DEF RequestInit, StandingInv

LEMMA StandingStep ==
  TypeOK /\ ReadingPast /\ StandingInv /\ [Next /\ Watch]_requestVars => StandingInv'
<1> SUFFICES ASSUME TypeOK, ReadingPast, StandingInv, [Next /\ Watch]_requestVars
             PROVE  StandingInv'
  OBVIOUS
<1>1. CASE UNCHANGED requestVars
  BY <1>1 DEF requestVars, vars, history, StandingInv, InForce, Asking, Range
<1>2. CASE Next /\ Watch
  <2> SUFFICES ASSUME NEW t \in Thread
               PROVE  /\ standing'[t] \subseteq InForce'
                      /\ standing'[t] # {} =>
                           Asking(t)' /\ standing'[t] \subseteq Range(call'[t].todo)
    BY DEF StandingInv
  <2>1. CASE ~Asking(t)'
    <3>1. standing'[t] = {}
      BY <1>2, <2>1 DEF Watch
    <3> QED BY <3>1
  <2>2. CASE Asking(t)' /\ ~Asking(t)
    <3>1. standing'[t] = Range(call'[t].todo) \cap InForce'
      BY <1>2, <2>2 DEF Watch
    <3> QED BY <2>2, <3>1
  <2>3. CASE Asking(t)' /\ Asking(t)
    <3>1. standing'[t] = standing[t] \cap InForce'
      BY <1>2, <2>3 DEF Watch
    <3>2. standing[t] \subseteq InForce /\ standing[t] \subseteq Range(call[t].todo)
      BY DEF StandingInv
    <3>3. CASE call'[t].todo = call[t].todo
      BY <2>3, <3>1, <3>2, <3>3
    <3>4. CASE call'[t].todo # call[t].todo
      <4>1. /\ call'[t] = Passed(t) /\ call[t].todo \in Seq(Slot) \ {<<>>}
            /\ Head(call[t].todo) \notin InForce
        BY <1>2, <2>3, <3>4, LookUpPasses
      <4>2. call'[t].todo = Tail(call[t].todo)
        BY <2>3, <4>1 DEF Passed, Asking
      <4>3. ASSUME NEW s \in Range(call[t].todo), s # Head(call[t].todo)
            PROVE  s \in Range(Tail(call[t].todo))
        <5>1. PICK i \in 1..Len(call[t].todo) : s = call[t].todo[i]
          BY <4>1 DEF Range
        <5>2. i # 1
          BY <4>1, <4>3, <5>1
        <5>3. /\ i - 1 \in 1..Len(Tail(call[t].todo))
              /\ Tail(call[t].todo)[i - 1] = s
          BY <4>1, <5>1, <5>2
        <5>4. DOMAIN Tail(call[t].todo) = 1..Len(Tail(call[t].todo))
          BY <4>1
        <5> QED BY <5>3, <5>4 DEF Range
      <4> QED BY <2>3, <3>1, <3>2, <4>1, <4>2, <4>3
    <3> QED BY <3>3, <3>4
  <2> QED BY <2>1, <2>2, <2>3
<1> QED BY <1>1, <1>2

\* No request is answered over a restriction that was in force all along
\* (guard.rs:115-185): whatever other threads install, roll back and evict between
\* its lookups, what stands in its way from the question on is met by one of them.
THEOREM NothingLivePasses == RequestSpec => NothingLivePassed
<1>1. TypeOK /\ ReadingPast /\ StandingInv /\ [Next /\ Watch]_requestVars =>
        [\A t \in Thread : Asking(t) /\ call'[t].op = "allowed" => standing[t] = {}]_requestVars
  <2> SUFFICES ASSUME TypeOK, ReadingPast, StandingInv, [Next]_vars, NEW t \in Thread,
                      Asking(t), call'[t].op = "allowed"
               PROVE  standing[t] = {}
    BY DEF requestVars
  <2>1. /\ call'[t] = Passed(t) /\ call[t].todo \in Seq(Slot) \ {<<>>}
        /\ Head(call[t].todo) \notin InForce
    BY LookUpPasses
  <2>2. Len(call[t].todo) = 1
    BY <2>1 DEF Passed
  <2>3. Range(call[t].todo) = {Head(call[t].todo)}
    BY <2>1, <2>2 DEF Range
  <2> QED BY <2>1, <2>3 DEF StandingInv
<1>2. RequestSpec => [](TypeOK /\ ReadingPast)
  BY RequestSpecRefines, TypeCorrect, ReadingPastHolds, PTL
<1>3. RequestSpec => []StandingInv
  BY <1>2, StandingInit, StandingStep, PTL DEF RequestSpec
<1> QED BY <1>1, <1>2, <1>3, PTL DEF RequestSpec, NothingLivePassed

-----------------------------------------------------------------------------
(* The guard implements the leases of EnforcementLease, for every value of *)
(* the constants: initial states map to initial states and every step of   *)
(* every thread maps to one step of the abstract specification or to none. *)
(* One lemma per kind of step; steps that leave acceptance and the carried *)
(* commands alone leave every phase alone.                                 *)

\* The two specifications name the same slots.
LEMMA SameSlots ==
  /\ \A m \in Message : Lease!SlotsOf(m) = SlotsOf(m)
  /\ \A m \in Message : Lease!RollbackSlots(m.target, m.action) = RollbackSlots(m.target, m.action)
  /\ Lease!EmptyMap = EmptyMap
BY DEF Lease!SlotsOf, SlotsOf, Lease!RollbackSlots, RollbackSlots, Lease!EmptyMap, EmptyMap,
   Lease!IpSlot, IpSlot, Lease!SessionSlot, SessionSlot, Lease!RawSessionSlot, RawSessionSlot,
   Lease!CapabilitySlot, CapabilitySlot, Lease!Strip, Strip

Phases == [c \in Command |-> PhaseOf(c)]

LEMMA PhasesKept ==
  ASSUME accepted' = accepted,
         \A t \in Thread, c \in Command : Carries(t, c)' <=> Carries(t, c)
  PROVE  Phases' = Phases
<1>1. \A c \in Command : PhaseOf(c)' = PhaseOf(c)
  BY DEF PhaseOf
<1> QED BY <1>1 DEF Phases

\* A command that is carried is claimed.
LEMMA CarriedIsClaimed ==
  ASSUME IInv, NEW t \in Thread, NEW c \in Command, Carries(t, c)
  PROVE  PhaseOf(c) = "claimed"
<1>1. accepted[c] > 0 /\ accepted[c] \in Nat
  BY DEF IInv, CarriedOnce, TypeOK
<1> QED BY <1>1 DEF PhaseOf

\* When a thread puts down the command it carries, the command is spent: no
\* other thread carries a copy.
LEMMA PutDown ==
  ASSUME IInv, NEW t \in Thread, NEW c \in Command, Carries(t, c),
         accepted' = accepted,
         \A u \in Thread, d \in Command : Carries(u, d)' <=> Carries(u, d) /\ u # t
  PROVE  Phases' = [Phases EXCEPT ![c] = "spent"]
<1>1. accepted[c] > 0 /\ accepted[c] \in Nat
  BY DEF IInv, CarriedOnce, TypeOK
<1>2. \A u \in Thread : ~Carries(u, c)'
  BY DEF IInv, CarriedOnce
<1>3. PhaseOf(c)' = "spent"
  BY <1>1, <1>2 DEF PhaseOf
<1>4. \A d \in Command : d # c => ~Carries(t, d)
  BY DEF Carries
<1>5. \A d \in Command : d # c => PhaseOf(d)' = PhaseOf(d)
  BY <1>4 DEF PhaseOf
<1> QED BY <1>3, <1>5 DEF Phases

LEMMA LeaseInit == Init => Lease!Init
BY SameSlots DEF Init, Lease!Init, PhaseOf

LEMMA LeaseStep ==
  ASSUME IInv, IInv', ReadingPast, [Next]_vars
  PROVE  [Lease!Next]_(Lease!vars)
<1>0. /\ TypeOK /\ TypeOK'
      /\ call \in [Thread -> CallState] /\ call' \in [Thread -> CallState]
      /\ accepted \in [Command -> Nat] /\ table \in [DOMAIN table -> Int]
      /\ DOMAIN sent \subseteq Command
      /\ \A c \in DOMAIN sent : sent[c] \in Message
  BY DEF IInv, TypeOK
<1>S. ASSUME UNCHANGED <<clock, sent, table>>, Phases' = Phases
      PROVE  [Lease!Next]_(Lease!vars)
  BY <1>S DEF Lease!vars, Phases
<1>1. CASE Tick
  <2>1. Phases' = Phases
    BY <1>1, PhasesKept DEF Tick, history, Carries
  <2> QED BY <1>1, <2>1 DEF Tick, history, Lease!Next, Lease!Advance, Phases
<1>2. CASE Restart
  <2>1. \A c \in Command : PhaseOf(c)' = "fresh"
    BY <1>2 DEF Restart, PhaseOf
  <2>2. Lease!Forget
    BY <1>2, <2>1, SameSlots DEF Restart, Lease!Forget
  <2> QED BY <2>2 DEF Lease!Next
<1>3. ASSUME NEW c \in Command, Issue(c) PROVE [Lease!Next]_(Lease!vars)
  <2>1. Phases' = Phases
    BY <1>3, PhasesKept DEF Issue, history, Carries
  <2>2. Lease!Issue(c)
    BY <1>3, <2>1 DEF Issue, history, Lease!Issue, Phases
  <2> QED BY <2>2 DEF Lease!Next
<1>4. ASSUME NEW t \in Thread, NEW c \in Command, ApplyBegin(t, c)
      PROVE  [Lease!Next]_(Lease!vars)
  <2>1. \A u \in Thread, d \in Command : Carries(u, d)' <=> Carries(u, d)
    BY <1>0, <1>4 DEF ApplyBegin, Free, Carries
  <2> QED BY <1>4, <1>S, <2>1, PhasesKept DEF ApplyBegin, history
<1>5. ASSUME NEW t \in Thread, RecordNonce(t) PROVE [Lease!Next]_(Lease!vars)
  <2>0. PICK c \in DOMAIN sent : c = call[t].cmd /\ c \in Command /\ call[t].op = "nonce"
    BY <1>0, <1>5 DEF RecordNonce, TypeOK, CallState
  <2>1. CASE c \in Retained(call[t].now)
    <3>1. \A u \in Thread, d \in Command : Carries(u, d)' <=> Carries(u, d)
      BY <1>0, <1>5, <2>0, <2>1 DEF RecordNonce, Carries
    <3> QED BY <1>5, <1>S, <2>0, <2>1, <3>1, PhasesKept DEF RecordNonce
  <2>2. CASE c \notin Retained(call[t].now)
    <3>1. accepted[c] = 0
      BY <2>0, <2>2, FirstClaim
    <3>2. accepted' = [accepted EXCEPT ![c] = 1]
      BY <1>0, <1>5, <2>0, <2>2, <3>1 DEF RecordNonce
    <3>3. \A u \in Thread, d \in Command : Carries(u, d)' <=> Carries(u, d) \/ (u = t /\ d = c)
      BY <1>0, <1>5, <2>0, <2>2 DEF RecordNonce, Carries
    <3>4. PhaseOf(c) = "fresh" /\ PhaseOf(c)' = "claimed"
      BY <1>0, <2>0, <3>1, <3>2, <3>3 DEF PhaseOf
    <3>5. \A d \in Command : d # c => PhaseOf(d)' = PhaseOf(d)
      BY <1>0, <3>2, <3>3 DEF PhaseOf
    <3>6. Phases' = [Phases EXCEPT ![c] = "claimed"]
      BY <2>0, <3>4, <3>5 DEF Phases
    <3>7. Lease!Claim(c)
      BY <1>5, <2>0, <3>4, <3>6 DEF RecordNonce, Lease!Claim, Phases
    <3> QED BY <2>0, <3>7 DEF Lease!Next
  <2> QED BY <2>1, <2>2
<1>6. ASSUME NEW t \in Thread, CheckExpiry(t) PROVE [Lease!Next]_(Lease!vars)
  <2> DEFINE c == call[t].cmd
  <2>0. Carries(t, c) /\ c \in Command
    BY <1>0, <1>6 DEF CheckExpiry, Carries, TypeOK
  <2>1. CASE clock >= sent[c].expires_at
    <3>1. \A u \in Thread, d \in Command : Carries(u, d)' <=> Carries(u, d) /\ u # t
      BY <1>0, <1>6, <2>1 DEF CheckExpiry, Carries
    <3>2. Phases' = [Phases EXCEPT ![c] = "spent"]
      BY <1>6, <2>0, <3>1, PutDown DEF CheckExpiry, history
    <3>3. Lease!Discard(c)
      BY <1>6, <2>0, <2>1, <3>2, CarriedIsClaimed DEF CheckExpiry, history, Lease!Discard, Phases
    <3> QED BY <2>0, <3>3 DEF Lease!Next
  <2>2. CASE ~(clock >= sent[c].expires_at)
    <3>1. \A u \in Thread, d \in Command : Carries(u, d)' <=> Carries(u, d)
      BY <1>0, <1>6, <2>2 DEF CheckExpiry, Carries
    <3> QED BY <1>6, <1>S, <3>1, PhasesKept DEF CheckExpiry, history
  <2> QED BY <2>1, <2>2
<1>7. ASSUME NEW t \in Thread, Install(t) PROVE [Lease!Next]_(Lease!vars)
  <2> DEFINE c == call[t].cmd
  <2>0. Carries(t, c) /\ c \in Command /\ sent[c] \in Message
    BY <1>0, <1>7 DEF Install, Carries, TypeOK
  <2>1. \A u \in Thread, d \in Command : Carries(u, d)' <=> Carries(u, d) /\ u # t
    BY <1>0, <1>7 DEF Install, Carries
  <2>2. Phases' = [Phases EXCEPT ![c] = "spent"]
    BY <1>7, <2>0, <2>1, PutDown DEF Install
  <2>3. Lease!Grant(c)
    BY <1>7, <2>0, <2>2, CarriedIsClaimed, SameSlots DEF Install, Lease!Grant, Phases
  <2> QED BY <2>0, <2>3 DEF Lease!Next
<1>8. ASSUME NEW t \in Thread, (\E r \in Request : Ask(t, r)) \/ ReadClock(t)
      PROVE  [Lease!Next]_(Lease!vars)
  <2>1. call[t].op \notin {"expiry", "install"}
    BY <1>8 DEF Ask, ReadClock, Free
  <2>2. call'[t].op \notin {"expiry", "install"}
    <3>1. ASSUME NEW r \in Request, Ask(t, r) PROVE call'[t].op \notin {"expiry", "install"}
      BY <1>0, <3>1 DEF Ask
    <3> QED BY <1>0, <1>8, <3>1 DEF ReadClock
  <2>3. \A u \in Thread \ {t} : call'[u] = call[u]
    BY <1>0, <1>8 DEF Ask, ReadClock
  <2>4. \A u \in Thread, d \in Command : Carries(u, d)' <=> Carries(u, d)
    BY <2>1, <2>2, <2>3 DEF Carries
  <2> QED BY <1>8, <1>S, <2>4, PhasesKept DEF Ask, ReadClock, history
<1>9. ASSUME NEW t \in Thread, LookUp(t) PROVE [Lease!Next]_(Lease!vars)
  <2> DEFINE s == Head(call[t].todo)
  <2>1. \A u \in Thread, d \in Command : Carries(u, d)' <=> Carries(u, d)
    <3>1. Passed(t).op \in {"allowed", "ask"}
      BY DEF Passed
    <3> QED BY <1>0, <1>9, <3>1 DEF LookUp, Carries
  <2>2. Phases' = Phases
    BY <1>9, <2>1, PhasesKept DEF LookUp, history
  <2>3. call[t].now \in Int /\ clock \in Int /\ call[t].now <= clock
    BY <1>0, <1>9 DEF LookUp, TypeOK, CallState, ReadingPast
  <2>4. CASE s \in DOMAIN table /\ call[t].now >= table[s]
    <3>1. Lease!Lapse(s)
      BY <1>0, <1>9, <2>2, <2>3, <2>4
         DEF LookUp, history, Lease!Lapse, Phases, Restrict, Lease!Restrict
    <3> QED BY <2>4, <3>1 DEF Lease!Next
  <2>5. CASE ~(s \in DOMAIN table /\ call[t].now >= table[s])
    <3>1. table' = table
      BY <1>0, <1>9, <2>3, <2>5 DEF LookUp, Restrict
    <3> QED BY <1>9, <1>S, <2>2, <3>1 DEF LookUp
  <2> QED BY <2>4, <2>5
<1>10. ASSUME NEW m \in Message, RollbackAction(m.target, m.action)
       PROVE  [Lease!Next]_(Lease!vars)
  <2>1. Phases' = Phases
    BY <1>10, PhasesKept DEF RollbackAction, Carries
  <2>2. Lease!Release(m.target, m.action)
    BY <1>10, <2>1, SameSlots
       DEF RollbackAction, Lease!Release, Phases, Restrict, Lease!Restrict
  <2> QED BY <2>2 DEF Lease!Next
<1>11. CASE UNCHANGED vars
  BY <1>11, <1>S, PhasesKept DEF vars, Carries
<1> QED
  BY <1>1, <1>2, <1>3, <1>4, <1>5, <1>6, <1>7, <1>8, <1>9, <1>10, <1>11 DEF Next

\* The guard implements the leases: whatever its threads do, a command grants
\* its restriction at most once, and a restriction goes away only by rollback,
\* when its time is over, or with the process.
THEOREM GuardImplementsLease == Spec => LeaseSpec
BY InvariantHolds, ReadingPastHolds, LeaseInit, LeaseStep, PTL DEF Spec, LeaseSpec, Lease!Spec
=============================================================================
