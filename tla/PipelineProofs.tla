--------------------------- MODULE PipelineProofs ---------------------------
(***************************************************************************)
(* Proofs about Pipeline, for every queue, batch, ring, channel and        *)
(* backlog, all kinds of events, and any number of events and requests;    *)
(* and, at the end, about the receivers of its stream.                     *)
(***************************************************************************)
EXTENDS Pipeline, StreamSubscribers, SequenceTheorems, FiniteSetTheorems, FunctionTheorems,
        NaturalsInduction, WellFoundedInduction, TLAPS

-----------------------------------------------------------------------------
(* Sequences, seen as the sets of their elements.                          *)

LEMMA LeastExists ==
  ASSUME NEW T, T \subseteq Nat, T # {}
  PROVE  \E m \in T : \A n \in T : m <= n
<1>1. PICK m \in T : \A n \in T : ~(<<n, m>> \in OpToRel(<, Nat))
  BY NatLessThanWellFounded, WFMin
<1>2. \A n \in T : n \in Nat /\ m \in Nat /\ ~(n < m)
  BY <1>1 DEF OpToRel
<1>3. \A n \in T : m <= n
  BY <1>2
<1> QED BY <1>3

LEMMA SetOfEmpty == ToSet(<<>>) = {}
BY EmptySeq DEF ToSet

LEMMA ElementsOf ==
  ASSUME NEW S, NEW s \in Seq(S)
  PROVE  /\ Len(s) \in Nat /\ DOMAIN s = 1..Len(s)
         /\ ToSet(s) \subseteq S
         /\ \A x : x \in ToSet(s) <=> \E i \in 1..Len(s) : s[i] = x
         /\ ToSet(s) = {} <=> s = <<>>
<1>1. Len(s) \in Nat /\ DOMAIN s = 1..Len(s) /\ \A i \in 1..Len(s) : s[i] \in S
  BY LenProperties, ElementOfSeq
<1>2. s = <<>> <=> Len(s) = 0
  BY EmptySeq
<1>3. \A x : x \in ToSet(s) <=> \E i \in 1..Len(s) : s[i] = x
  BY <1>1 DEF ToSet
<1>4. ToSet(s) \subseteq S
  BY <1>1, <1>3
<1>5. ToSet(s) = {} <=> s = <<>>
  <2>1. CASE Len(s) = 0
    <3>1. \A i \in 1..Len(s) : FALSE
      BY <2>1
    <3> QED BY <1>2, <1>3, <2>1, <3>1
  <2>2. CASE Len(s) # 0
    <3>1. 1 \in 1..Len(s)
      BY <1>1, <2>2
    <3> QED BY <1>2, <1>3, <2>2, <3>1
  <2> QED BY <2>1, <2>2
<1> QED BY <1>1, <1>3, <1>4, <1>5

LEMMA AppendAdds ==
  ASSUME NEW S, NEW s \in Seq(S), NEW e \in S
  PROVE  /\ Append(s, e) \in Seq(S) /\ Len(Append(s, e)) = Len(s) + 1
         /\ ToSet(Append(s, e)) = ToSet(s) \cup {e}
         /\ Append(s, e) # <<>>
<1>1. /\ Append(s, e) \in Seq(S) /\ Len(Append(s, e)) = Len(s) + 1
      /\ \A i \in 1..Len(s) : Append(s, e)[i] = s[i]
      /\ Append(s, e)[Len(s) + 1] = e
  BY AppendProperties
<1>2. \A x : x \in ToSet(Append(s, e)) <=> x \in ToSet(s) \cup {e}
  <2>1. \A x : x \in ToSet(s) <=> \E i \in 1..Len(s) : s[i] = x
    BY ElementsOf
  <2>2. \A x : x \in ToSet(Append(s, e)) <=> \E i \in 1..(Len(s) + 1) : Append(s, e)[i] = x
    BY <1>1, ElementsOf
  <2>3. Len(s) \in Nat
    BY ElementsOf
  <2> QED BY <1>1, <2>1, <2>2, <2>3
<1> QED BY <1>1, <1>2, AppendProperties

\* Events in the order of their numbers.
InOrder(s) == \A i, j \in 1..Len(s) : i < j => s[i].n < s[j].n

\* All events of A come before those of B.
Before(A, B) == \A a \in A, b \in B : a.n < b.n

LEMMA HeadLeaves ==
  ASSUME NEW S, NEW s \in Seq(S), s # <<>>
  PROVE  /\ Head(s) \in S /\ Tail(s) \in Seq(S) /\ Len(Tail(s)) = Len(s) - 1
         /\ ToSet(s) = ToSet(Tail(s)) \cup {Head(s)}
         /\ InOrder(s) => InOrder(Tail(s)) /\ Before({Head(s)}, ToSet(Tail(s)))
<1>1. /\ Len(s) \in Nat \ {0} /\ Head(s) = s[1] /\ Head(s) \in S
      /\ Tail(s) \in Seq(S) /\ Len(Tail(s)) = Len(s) - 1
      /\ \A i \in 1..Len(Tail(s)) : Tail(s)[i] = s[i + 1]
  BY ElementsOf, EmptySeq, HeadTailProperties
<1>2. \A i \in 2..Len(s) : s[i] = Tail(s)[i - 1] /\ i - 1 \in 1..Len(Tail(s))
  BY <1>1
<1>3. \A x : x \in ToSet(s) <=> x \in ToSet(Tail(s)) \cup {Head(s)}
  <2>1. \A x : x \in ToSet(s) <=> \E i \in 1..Len(s) : s[i] = x
    BY ElementsOf
  <2>2. \A x : x \in ToSet(Tail(s)) <=> \E i \in 1..Len(Tail(s)) : Tail(s)[i] = x
    BY <1>1, ElementsOf
  <2>3. \A i \in 1..Len(Tail(s)) : i + 1 \in 1..Len(s)
    BY <1>1
  <2>4. \A i \in 1..Len(s) : i = 1 \/ i \in 2..Len(s)
    BY <1>1
  <2>5. 1 \in 1..Len(s)
    BY <1>1
  <2> QED BY <1>1, <1>2, <2>1, <2>2, <2>3, <2>4, <2>5
<1>4. ASSUME InOrder(s) PROVE InOrder(Tail(s)) /\ Before({Head(s)}, ToSet(Tail(s)))
  <2>1. InOrder(Tail(s))
    <3> SUFFICES ASSUME NEW i \in 1..Len(Tail(s)), NEW j \in 1..Len(Tail(s)), i < j
                 PROVE  Tail(s)[i].n < Tail(s)[j].n
      BY DEF InOrder
    <3>1. i + 1 \in 1..Len(s) /\ j + 1 \in 1..Len(s) /\ i + 1 < j + 1
      BY <1>1
    <3> QED BY <1>1, <1>4, <3>1 DEF InOrder
  <2>2. Before({Head(s)}, ToSet(Tail(s)))
    <3> SUFFICES ASSUME NEW i \in 1..Len(Tail(s)) PROVE Head(s).n < Tail(s)[i].n
      BY <1>1, ElementsOf DEF Before
    <3>1. 1 \in 1..Len(s) /\ i + 1 \in 1..Len(s) /\ 1 < i + 1 /\ Tail(s)[i] = s[i + 1]
      BY <1>1
    <3> QED BY <1>1, <1>4, <3>1 DEF InOrder
  <2> QED BY <2>1, <2>2
<1> QED BY <1>1, <1>3, <1>4

LEMMA OrderGrows ==
  ASSUME NEW S, NEW s \in Seq(S), NEW e \in S, InOrder(s), Before(ToSet(s), {e})
  PROVE  InOrder(Append(s, e))
<1>1. /\ Len(s) \in Nat /\ Len(Append(s, e)) = Len(s) + 1
      /\ \A i \in 1..Len(s) : Append(s, e)[i] = s[i]
      /\ Append(s, e)[Len(s) + 1] = e
  BY AppendProperties, ElementsOf
<1>2. \A i \in 1..Len(s) : s[i].n < e.n
  BY ElementsOf DEF Before
<1> SUFFICES ASSUME NEW i \in 1..(Len(s) + 1), NEW j \in 1..(Len(s) + 1), i < j
             PROVE  Append(s, e)[i].n < Append(s, e)[j].n
  BY <1>1 DEF InOrder
<1>3. i \in 1..Len(s)
  BY <1>1
<1>4. CASE j \in 1..Len(s)
  BY <1>1, <1>3, <1>4 DEF InOrder
<1>5. CASE j = Len(s) + 1
  BY <1>1, <1>2, <1>3, <1>5
<1> QED BY <1>1, <1>4, <1>5

-----------------------------------------------------------------------------
(* Only: the recursion is well-founded, and what it computes.              *)

\* f is what Only computes, up to the m-th event.
Computes(f, s, T, m) ==
  f = [i \in 0..m |-> IF i = 0 THEN <<>>
                      ELSE IF s[i] \in T THEN Append(f[i - 1], s[i]) ELSE f[i - 1]]

LEMMA Computable ==
  ASSUME NEW S, NEW s \in Seq(S), NEW T
  PROVE  \E f : Computes(f, s, T, Len(s))
<1> DEFINE Without == {m \in 0..Len(s) : ~\E f : Computes(f, s, T, m)}
<1>1. SUFFICES ASSUME Without # {} PROVE FALSE
  BY ElementsOf
<1>2. PICK m \in Without : \A n \in Without : m <= n
  <2>1. Without \subseteq Nat
    BY ElementsOf
  <2> HIDE DEF Without
  <2> QED BY <1>1, <2>1, LeastExists
<1>3. m \in Nat /\ m <= Len(s) /\ Len(s) \in Nat
  BY ElementsOf
<1>4. m # 0
  <2>1. Computes([i \in 0..0 |-> <<>>], s, T, 0)
    BY DEF Computes
  <2> QED BY <2>1
<1>5. PICK f : Computes(f, s, T, m - 1)
  <2>1. m - 1 \in 0..Len(s) /\ ~(m <= m - 1)
    BY <1>3, <1>4
  <2> QED BY <1>2, <2>1
<1> DEFINE g == [i \in 0..m |-> IF i = m THEN (IF s[m] \in T THEN Append(f[m - 1], s[m]) ELSE f[m - 1])
                                         ELSE f[i]]
<1>6. Computes(g, s, T, m)
  <2>1. \A i \in 0..(m - 1) : f[i] = IF i = 0 THEN <<>>
                                     ELSE IF s[i] \in T THEN Append(f[i - 1], s[i]) ELSE f[i - 1]
    BY <1>5, Zenon DEF Computes
  <2>2. \A i \in 0..(m - 1) : g[i] = f[i]
    BY <1>3, <1>4
  <2>3. \A i \in 1..m : i - 1 \in 0..(m - 1)
    BY <1>3
  <2>4. ASSUME NEW i \in 0..m
        PROVE  g[i] = IF i = 0 THEN <<>>
                      ELSE IF s[i] \in T THEN Append(g[i - 1], s[i]) ELSE g[i - 1]
    <3>1. CASE i = m
      BY <1>3, <1>4, <2>2, <2>3, <3>1
    <3>2. CASE i # m
      <4>1. i \in 0..(m - 1) /\ (i # 0 => i - 1 \in 0..(m - 1))
        BY <1>3, <3>2
      <4>2. g[i] = f[i] /\ (i # 0 => g[i - 1] = f[i - 1])
        BY <2>2, <4>1
      <4> QED BY <2>1, <4>1, <4>2
    <3> QED BY <3>1, <3>2
  <2>5. g = [i \in 0..m |-> g[i]]
    OBVIOUS
  <2> HIDE DEF g
  <2> QED BY <2>4, <2>5, Zenon DEF Computes
<1> QED BY <1>6

LEMMA OnlyComputes ==
  ASSUME NEW S, NEW s \in Seq(S), NEW T
  PROVE  \E f : Computes(f, s, T, Len(s)) /\ Only(s, T) = f[Len(s)]
<1> DEFINE f == CHOOSE f : f = [i \in 0..Len(s) |->
                                  IF i = 0 THEN <<>>
                                  ELSE IF s[i] \in T THEN Append(f[i - 1], s[i]) ELSE f[i - 1]]
<1>1. Only(s, T) = f[Len(s)]
  BY DEF Only
<1>2. Computes(f, s, T, Len(s))
  <2>1. \E h : h = [i \in 0..Len(s) |-> IF i = 0 THEN <<>>
                                        ELSE IF s[i] \in T THEN Append(h[i - 1], s[i]) ELSE h[i - 1]]
    BY ZenonT(30), Computable DEF Computes
  <2> QED BY <2>1, Zenon DEF Computes
<1> QED BY <1>1, <1>2

LEMMA ComputesStep ==
  ASSUME NEW f, NEW s, NEW T, NEW m \in Nat, Computes(f, s, T, m)
  PROVE  /\ f[0] = <<>>
         /\ \A i \in 1..m : f[i] = IF s[i] \in T THEN Append(f[i - 1], s[i]) ELSE f[i - 1]
<1>1. \A i \in 0..m : f[i] = IF i = 0 THEN <<>>
                             ELSE IF s[i] \in T THEN Append(f[i - 1], s[i]) ELSE f[i - 1]
  BY Zenon DEF Computes
<1> QED BY <1>1

\* The first i elements.
Begin(s, i) == {s[j] : j \in 1..i}

LEMMA OnlySelects ==
  ASSUME NEW S, NEW s \in Seq(S), NEW T
  PROVE  /\ Only(s, T) \in Seq(S)
         /\ ToSet(Only(s, T)) = ToSet(s) \cap T
         /\ InOrder(s) => InOrder(Only(s, T))
<1>1. PICK f : Computes(f, s, T, Len(s)) /\ Only(s, T) = f[Len(s)]
  BY OnlyComputes
<1>2. Len(s) \in Nat /\ \A i \in 1..Len(s) : s[i] \in S
  BY LenProperties, ElementOfSeq
<1>3. /\ f[0] = <<>>
      /\ \A i \in 1..Len(s) : f[i] = IF s[i] \in T THEN Append(f[i - 1], s[i]) ELSE f[i - 1]
  BY <1>1, <1>2, ComputesStep
<1> DEFINE Right(i) == /\ f[i] \in Seq(S)
                       /\ ToSet(f[i]) = Begin(s, i) \cap T
                       /\ InOrder(s) => InOrder(f[i])
           Wrong == {i \in 0..Len(s) : ~Right(i)}
<1>4. Wrong = {}
  <2>1. SUFFICES ASSUME Wrong # {} PROVE FALSE
    OBVIOUS
  <2>2. Wrong \subseteq Nat
    BY <1>2
  <2>3. PICK i \in Wrong : \A j \in Wrong : i <= j
    <3> HIDE DEF Wrong
    <3> QED BY <2>1, <2>2, LeastExists
  <2>4. i # 0
    <3>1. Begin(s, 0) = {}
      BY DEF Begin
    <3>2. <<>> \in Seq(S) /\ ToSet(<<>>) = {} /\ InOrder(<<>>)
      BY EmptySeq, SetOfEmpty DEF InOrder
    <3> QED BY <1>3, <3>1, <3>2
  <2>5. i \in 1..Len(s) /\ i - 1 \in 0..Len(s) /\ ~(i <= i - 1)
    BY <1>2, <2>2, <2>4
  <2>6. Right(i - 1)
    BY <2>3, <2>5
  <2>7. Begin(s, i) = Begin(s, i - 1) \cup {s[i]}
    BY <2>5 DEF Begin
  <2>8. CASE s[i] \in T
    <3>1. f[i] = Append(f[i - 1], s[i])
      BY <1>3, <2>5, <2>8
    <3>2. f[i] \in Seq(S) /\ ToSet(f[i]) = ToSet(f[i - 1]) \cup {s[i]}
      BY <1>2, <2>5, <2>6, <3>1, AppendAdds
    <3>3. ToSet(f[i]) = Begin(s, i) \cap T
      BY <2>6, <2>7, <2>8, <3>2
    <3>4. ASSUME InOrder(s) PROVE InOrder(f[i])
      <4>1. Before(ToSet(f[i - 1]), {s[i]})
        <5>1. \A j \in 1..(i - 1) : s[j].n < s[i].n
          BY <1>2, <2>5, <3>4 DEF InOrder
        <5> QED BY <2>6, <5>1 DEF Before, Begin
      <4> QED BY <1>2, <2>5, <2>6, <3>1, <3>4, <4>1, OrderGrows
    <3> QED BY <2>3, <3>2, <3>3, <3>4
  <2>9. CASE s[i] \notin T
    <3>1. f[i] = f[i - 1]
      BY <1>3, <2>5, <2>9
    <3>2. ToSet(f[i]) = Begin(s, i) \cap T
      BY <2>6, <2>7, <2>9, <3>1
    <3> QED BY <2>3, <2>6, <3>1, <3>2
  <2> QED BY <2>8, <2>9
<1>5. Right(Len(s))
  BY <1>2, <1>4
<1>6. Begin(s, Len(s)) = ToSet(s)
  BY <1>2, LenProperties DEF Begin, ToSet
<1> QED BY <1>1, <1>5, <1>6

LEMMA OnlyAppends ==
  ASSUME NEW S, NEW s \in Seq(S), NEW e \in S, NEW T
  PROVE  Only(Append(s, e), T) = IF e \in T THEN Append(Only(s, T), e) ELSE Only(s, T)
<1> DEFINE t == Append(s, e)
<1>1. PICK f : Computes(f, s, T, Len(s)) /\ Only(s, T) = f[Len(s)]
  BY OnlyComputes
<1>2. /\ t \in Seq(S) /\ Len(s) \in Nat /\ Len(t) = Len(s) + 1 /\ t[Len(s) + 1] = e
      /\ \A i \in 1..Len(s) : t[i] = s[i]
  BY AppendProperties, LenProperties
<1> HIDE DEF t
<1>3. PICK g : Computes(g, t, T, Len(t)) /\ Only(t, T) = g[Len(t)]
  BY <1>2, OnlyComputes
<1>4. /\ f[0] = <<>>
      /\ \A i \in 1..Len(s) : f[i] = IF s[i] \in T THEN Append(f[i - 1], s[i]) ELSE f[i - 1]
  BY <1>1, <1>2, ComputesStep
<1>5. /\ g[0] = <<>>
      /\ \A i \in 1..(Len(s) + 1) : g[i] = IF t[i] \in T THEN Append(g[i - 1], t[i]) ELSE g[i - 1]
  BY <1>2, <1>3, ComputesStep
<1> DEFINE Apart == {i \in 0..Len(s) : f[i] # g[i]}
<1>6. Apart = {}
  <2>1. SUFFICES ASSUME Apart # {} PROVE FALSE
    OBVIOUS
  <2>2. Apart \subseteq Nat
    BY <1>2
  <2>3. PICK i \in Apart : \A j \in Apart : i <= j
    <3> HIDE DEF Apart
    <3> QED BY <2>1, <2>2, LeastExists
  <2>4. i \in 1..Len(s) /\ i - 1 \in 0..Len(s) /\ ~(i <= i - 1)
    BY <1>2, <1>4, <1>5, <2>2
  <2>5. f[i - 1] = g[i - 1]
    BY <2>3, <2>4
  <2>6. i \in 1..(Len(s) + 1) /\ t[i] = s[i]
    BY <1>2, <2>4
  <2>7. f[i] = g[i]
    BY <1>4, <1>5, <2>4, <2>5, <2>6
  <2> QED BY <2>3, <2>7
<1>7. f[Len(s)] = g[Len(s)]
  BY <1>2, <1>6
<1>8. Len(s) + 1 \in 1..(Len(s) + 1) /\ (Len(s) + 1) - 1 = Len(s)
  BY <1>2
<1>9. g[Len(s) + 1] = IF e \in T THEN Append(g[Len(s)], e) ELSE g[Len(s)]
  BY <1>2, <1>5, <1>8
<1> QED BY <1>1, <1>2, <1>3, <1>7, <1>9 DEF t

\* As many events as their order is long.
LEMMA OrderedCount ==
  ASSUME NEW S, NEW s \in Seq(S), InOrder(s), \A e \in S : e.n \in Int
  PROVE  IsFiniteSet(ToSet(s)) /\ Cardinality(ToSet(s)) = Len(s)
<1>1. /\ Len(s) \in Nat /\ s \in [1..Len(s) -> S]
      /\ \A i \in 1..Len(s) : s[i] \in S
      /\ \A x : x \in ToSet(s) <=> \E i \in 1..Len(s) : s[i] = x
  BY ElementsOf, LenProperties, ElementOfSeq
<1>2. \A i, j \in 1..Len(s) : s[i] = s[j] => i = j
  BY <1>1 DEF InOrder
<1>3. s \in [1..Len(s) -> ToSet(s)]
  BY <1>1
<1>4. s \in Bijection(1..Len(s), ToSet(s))
  BY <1>1, <1>2, <1>3, Fun_IsBij
<1>5. ExistsBijection(1..Len(s), ToSet(s))
  BY <1>4 DEF ExistsBijection
<1> QED BY <1>1, <1>5, FS_CountingElements, FS_NatBijection

-----------------------------------------------------------------------------
(* The inductive invariant.                                                *)

Step == {"travelling", "lost", "publishing", "dropped", "saving", "done"}
KernelEvents == [from : {"kernel"}, n : 1..MaxKernel]
AnyEvent == AppEvent \cup KernelEvents

Recorded == ToSet(recorded)
Queued == ToSet(queue)
Collected == IF flusher = "collecting" THEN ToSet(batch) ELSE {}
Ev(r) == ToSet(requests[r].events)
PostedEvents == UNION {Ev(r) : r \in Requests}
Published == ToSet(published)
ToPush(p) == ToSet(publishing[p].left)
ToSend(p) == ToSet(Unsent(p))
FromKernel == {e \in Published : e.from = "kernel"}

Typed ==
  /\ recorded \in Seq(AppEvent) /\ Len(recorded) <= MaxRecorded
  /\ \A i \in 1..Len(recorded) : recorded[i].n = i
  /\ queue \in Seq(AppEvent) /\ batch \in Seq(AppEvent) /\ dropped \in Nat
  /\ requests \in Seq([events : Seq(AppEvent), step : Step, awaited : BOOLEAN, overdue : BOOLEAN])
  /\ Len(requests) <= MaxRecorded
  /\ publishing \in [Publisher -> [left : Seq(AnyEvent), sent : BOOLEAN]]
  /\ \A p \in Publisher : publishing[p].sent => publishing[p].left # <<>>
  /\ published \in Seq(AnyEvent) /\ pushed \in Seq(AnyEvent) /\ saved \in Seq(AppEvent)
  /\ {refused, lost, invalid} \subseteq SUBSET AppEvent
  /\ counters \in [ingested : Nat, invalid : Nat, persisted : Nat]
  /\ kernel \in 0..MaxKernel /\ ring \in Seq(KernelEvents) /\ channel \in Seq(KernelEvents)

\* Every event recorded is refused, or in the queue, or in the batch that is
\* being collected, or in a request; and all along this way in order.
Underway ==
  /\ InOrder(queue) /\ (flusher = "collecting" => InOrder(batch))
  /\ \A r \in Requests : InOrder(requests[r].events)
  /\ Before(Collected, Queued) /\ Before(PostedEvents, Collected \cup Queued)
  /\ \A q, r \in Requests : q < r => Before(Ev(q), Ev(r))
  /\ refused \cap (Queued \cup Collected \cup PostedEvents) = {}
  /\ Recorded = refused \cup Queued \cup Collected \cup PostedEvents

\* What happened to event e of request r, by the request's step.
Handled(r, e) ==
  LET step == requests[r].step IN
    /\ e \in invalid <=> ~IsValid(e) /\ step \notin {"travelling", "lost"}
    /\ e \in lost <=> step = "lost" \/ (step = "dropped" /\ IsValid(e) /\ e \notin Published)
    /\ e \in Published => IsValid(e) /\ step \notin {"travelling", "lost"}
    /\ IsValid(e) /\ step \in {"publishing", "saving", "done"} =>
         /\ e \in Published <=> e \notin ToSend(r)
         /\ e \in ToSet(pushed) <=> e \notin ToPush(r)

\* Only requests lose, refuse and publish events; a handler publishes what is
\* left of the valid events of its request, in order.
Handlers ==
  /\ \A r \in Requests : \A e \in Ev(r) : Handled(r, e)
  /\ lost \cup invalid \cup (Published \cap AppEvent) \subseteq PostedEvents
  /\ \A p \in Publisher \ {Sensor} :
       IF p \in Requests /\ requests[p].step = "publishing"
         THEN /\ ToPush(p) \subseteq Ev(p) \cap Valid /\ InOrder(publishing[p].left)
              /\ Before(Published \cap Ev(p), ToSend(p))
         ELSE publishing[p] = Resting

\* At most the latest request is waited for; one that is not has been answered
\* or given up.
Waits ==
  \A r \in Requests :
    IF requests[r].awaited THEN r = Len(requests) /\ flusher = "posting" /\ ~requests[r].overdue
    ELSE requests[r].overdue \/ requests[r].step \in {"saving", "done"}

\* The kernel's events keep their order from place to place.
KernelOrder ==
  /\ ToPush(Sensor) \subseteq KernelEvents /\ InOrder(publishing[Sensor].left)
  /\ ToPush(Sensor) \ ToSend(Sensor) \subseteq FromKernel
  /\ InOrder(channel) /\ InOrder(ring)
  /\ Before(FromKernel, ToSend(Sensor))
  /\ Before(FromKernel \cup ToPush(Sensor), ToSet(channel))
  /\ Before(FromKernel \cup ToPush(Sensor) \cup ToSet(channel), ToSet(ring))
  /\ \A e \in FromKernel \cup ToPush(Sensor) \cup ToSet(channel) \cup ToSet(ring) : e.n <= kernel

\* What is pushed was broadcast before; and the sink has the significant events
\* of the requests that are done.
Sunk ==
  /\ ToSet(pushed) \subseteq Published
  /\ ToSet(saved) \subseteq Persistent \cap Valid \cap ToSet(pushed) \cap PostedEvents
  /\ \A r \in Requests : \A e \in Ev(r) :
       e \in ToSet(saved) <=> requests[r].step = "done" /\ IsValid(e) /\ ShouldPersist(e)

IInv == Typed /\ Underway /\ Handlers /\ Waits /\ KernelOrder /\ SourceOrder /\ Sunk /\ CountersAgree

LEMMA EventsTyped ==
  /\ \A e \in AppEvent : e.from = "app" /\ e.n \in 1..MaxRecorded /\ e.n \in Int /\ e.kind \in Kind
  /\ \A e \in KernelEvents : e.from = "kernel" /\ e.n \in 1..MaxKernel /\ e.n \in Int
  /\ \A e \in AnyEvent : e.n \in Int /\ e.from \in {"app", "kernel"}
  /\ \A e \in AnyEvent : (e \in AppEvent <=> e.from = "app") /\ (e \in KernelEvents <=> e.from = "kernel")
  /\ AppEvent \subseteq AnyEvent /\ KernelEvents \subseteq AnyEvent
<1>1. MaxRecorded \in Nat /\ MaxKernel \in Nat
  BY PipelineAssumption DEF PipelineAssumption
<1> QED BY <1>1 DEF AppEvent, KernelEvents, AnyEvent

\* What Typed says of each place.
LEMMA PlacesTyped ==
  ASSUME Typed
  PROVE  /\ MaxRecorded \in Nat /\ Publisher = 0..MaxRecorded /\ Sensor \in Publisher
         /\ Len(requests) \in Nat /\ Requests = 1..Len(requests) /\ Requests \subseteq Publisher \ {Sensor}
         /\ \A r \in Requests :
              /\ requests[r].events \in Seq(AppEvent) /\ Ev(r) \subseteq AppEvent
              /\ requests[r].step \in Step
              /\ requests[r].awaited \in BOOLEAN /\ requests[r].overdue \in BOOLEAN
         /\ PostedEvents \subseteq AppEvent
         /\ Recorded \subseteq AppEvent /\ Queued \subseteq AppEvent /\ Collected \subseteq AppEvent
         /\ Published \subseteq AnyEvent
         /\ FromKernel \subseteq KernelEvents /\ FromKernel = Published \cap KernelEvents
         /\ ToSet(pushed) \subseteq AnyEvent /\ ToSet(saved) \subseteq AppEvent
         /\ ToSet(ring) \subseteq KernelEvents /\ ToSet(channel) \subseteq KernelEvents
<1>1. MaxRecorded \in Nat /\ Publisher = 0..MaxRecorded /\ Sensor \in Publisher
  BY PipelineAssumption DEF PipelineAssumption, Sensor
<1>2. Len(requests) \in Nat /\ Requests = 1..Len(requests)
  BY ElementsOf DEF Typed, Requests
<1>3. Requests \subseteq Publisher \ {Sensor}
  <2> SUFFICES ASSUME NEW r \in 1..Len(requests) PROVE r \in 0..MaxRecorded /\ r # 0
    BY <1>1, <1>2 DEF Sensor
  <2>1. Len(requests) <= MaxRecorded
    BY DEF Typed
  <2> QED BY <1>1, <1>2, <2>1
<1>4. \A r \in Requests :
        requests[r] \in [events : Seq(AppEvent), step : Step, awaited : BOOLEAN, overdue : BOOLEAN]
  BY <1>2, ElementOfSeq DEF Typed
<1>5. \A r \in Requests :
        /\ requests[r].events \in Seq(AppEvent)
        /\ requests[r].step \in Step
        /\ requests[r].awaited \in BOOLEAN /\ requests[r].overdue \in BOOLEAN
  BY <1>4
<1>6. \A r \in Requests : Ev(r) \subseteq AppEvent
  BY <1>5, ElementsOf DEF Ev
<1>7. Recorded \subseteq AppEvent /\ Queued \subseteq AppEvent /\ Collected \subseteq AppEvent
  <2>1. ToSet(recorded) \subseteq AppEvent
    BY ElementsOf DEF Typed
  <2>2. ToSet(queue) \subseteq AppEvent
    BY ElementsOf DEF Typed
  <2>3. ToSet(batch) \subseteq AppEvent
    BY ElementsOf DEF Typed
  <2> QED BY <2>1, <2>2, <2>3 DEF Recorded, Queued, Collected
<1>8. Published \subseteq AnyEvent /\ ToSet(pushed) \subseteq AnyEvent
  <2>1. ToSet(published) \subseteq AnyEvent
    BY ElementsOf DEF Typed
  <2>2. ToSet(pushed) \subseteq AnyEvent
    BY ElementsOf DEF Typed
  <2> QED BY <2>1, <2>2 DEF Published
<1>9. FromKernel \subseteq KernelEvents /\ FromKernel = Published \cap KernelEvents
  BY <1>8, EventsTyped DEF FromKernel
<1>10. ToSet(saved) \subseteq AppEvent
  BY ElementsOf DEF Typed
<1>11. ToSet(ring) \subseteq KernelEvents
  BY ElementsOf DEF Typed
<1>12. ToSet(channel) \subseteq KernelEvents
  BY ElementsOf DEF Typed
<1>13. PostedEvents \subseteq AppEvent
  BY <1>6 DEF PostedEvents
<1> QED BY <1>1, <1>2, <1>3, <1>5, <1>6, <1>7, <1>8, <1>9, <1>10, <1>11, <1>12, <1>13

LEMMA PublishersTyped ==
  ASSUME Typed, NEW p \in Publisher
  PROVE  /\ publishing[p] \in [left : Seq(AnyEvent), sent : BOOLEAN]
         /\ publishing[p].left \in Seq(AnyEvent) /\ publishing[p].sent \in BOOLEAN
         /\ Unsent(p) \in Seq(AnyEvent)
         /\ ToPush(p) \subseteq AnyEvent /\ ToSend(p) \subseteq ToPush(p)
         /\ publishing[p].left = <<>> => ToPush(p) = {} /\ ToSend(p) = {}
         /\ ~publishing[p].sent => ToSend(p) = ToPush(p)
<1>1. /\ publishing[p] \in [left : Seq(AnyEvent), sent : BOOLEAN]
      /\ publishing[p].sent => publishing[p].left # <<>>
  BY DEF Typed
<1>2. publishing[p].left \in Seq(AnyEvent) /\ publishing[p].sent \in BOOLEAN
  BY <1>1
<1>3. ToPush(p) \subseteq AnyEvent /\ (publishing[p].left = <<>> => ToPush(p) = {})
  BY <1>2, ElementsOf DEF ToPush
<1>4. CASE publishing[p].sent
  <2>1. /\ Tail(publishing[p].left) \in Seq(AnyEvent)
        /\ ToSet(Tail(publishing[p].left)) \subseteq ToSet(publishing[p].left)
    BY <1>1, <1>2, <1>4, HeadLeaves
  <2> QED BY <1>1, <1>2, <1>3, <1>4, <2>1 DEF Unsent, ToSend, ToPush
<1>5. CASE ~publishing[p].sent
  BY <1>1, <1>2, <1>3, <1>5 DEF Unsent, ToSend, ToPush
<1> QED BY <1>1, <1>2, <1>3, <1>4, <1>5

LEMMA PipelineInitInv == PipelineInit => IInv
<1> SUFFICES ASSUME PipelineInit PROVE IInv
  OBVIOUS
<1> USE DEF PipelineInit, AgentInit, StreamInit
<1>1. MaxRecorded \in Nat /\ MaxKernel \in Nat /\ Publisher = 0..MaxRecorded /\ Sensor \in Publisher
  BY PipelineAssumption DEF PipelineAssumption, Sensor
<1>2. /\ Recorded = {} /\ Queued = {} /\ Collected = {} /\ Published = {}
      /\ ToSet(pushed) = {} /\ ToSet(saved) = {} /\ ToSet(channel) = {} /\ ToSet(ring) = {}
  BY SetOfEmpty DEF Recorded, Queued, Collected, Published
<1>3. Requests = {} /\ PostedEvents = {} /\ FromKernel = {}
  BY <1>2, EmptySeq DEF Requests, PostedEvents, FromKernel
<1>4. \A p \in Publisher : publishing[p] = Resting /\ ToPush(p) = {} /\ ToSend(p) = {}
  BY SetOfEmpty DEF Resting, ToPush, ToSend, Unsent
<1>5. InOrder(<<>>)
  BY EmptySeq DEF InOrder
<1>6. Typed
  BY <1>1, EmptySeq DEF Typed, Resting
<1>7. Underway
  BY <1>2, <1>3, <1>5 DEF Underway, Before
<1>8. Handlers
  BY <1>2, <1>3, <1>4 DEF Handlers
<1>9. Waits
  BY <1>3 DEF Waits
<1>10. KernelOrder
  BY <1>1, <1>2, <1>3, <1>4, <1>5 DEF KernelOrder, Before, Resting
<1>11. SourceOrder
  BY EmptySeq DEF SourceOrder
<1>12. Sunk
  BY <1>2, <1>3 DEF Sunk
<1>13. CountersAgree
  <2>1. \A X : X = UNION {ToSet(requests[r].events) : r \in {x \in Requests : requests[x].step \in {"saving", "done"}}}
          => X = {}
    BY <1>3
  <2> QED BY <1>3, <2>1, FS_EmptySet, EmptySeq DEF CountersAgree
<1> QED BY <1>6, <1>7, <1>8, <1>9, <1>10, <1>11, <1>12, <1>13 DEF IInv

-----------------------------------------------------------------------------
(* The agent's steps.                                                      *)

\* What a step keeps that leaves the stream, the requests and the server alone.
LEMMA ServerRests ==
  ASSUME IInv, UNCHANGED <<streamVars, requests, serverVars, kernelVars>>
  PROVE  /\ Handlers' /\ KernelOrder' /\ SourceOrder' /\ Sunk' /\ CountersAgree'
         /\ PostedEvents' = PostedEvents /\ Requests' = Requests
         /\ \A r : Ev(r)' = Ev(r)
<1> USE DEF streamVars, serverVars, kernelVars
<1>1. /\ PostedEvents' = PostedEvents /\ Requests' = Requests /\ \A r : Ev(r)' = Ev(r)
      /\ Published' = Published /\ FromKernel' = FromKernel
      /\ \A p : ToPush(p)' = ToPush(p) /\ ToSend(p)' = ToSend(p)
  BY DEF PostedEvents, Requests, Ev, Published, FromKernel, ToPush, ToSend, Unsent
<1>2. \A r, e : Handled(r, e)' = Handled(r, e)
  BY <1>1 DEF Handled, IsValid
<1>3. Handlers'
  BY <1>1, <1>2 DEF IInv, Handlers
<1>4. KernelOrder'
  BY <1>1 DEF IInv, KernelOrder, Before
<1>5. SourceOrder'
  BY <1>1 DEF IInv, SourceOrder
<1>6. Sunk'
  BY <1>1 DEF IInv, Sunk, IsValid, ShouldPersist
<1>7. CountersAgree'
  BY <1>1 DEF IInv, CountersAgree
<1> QED BY <1>1, <1>3, <1>4, <1>5, <1>6, <1>7

LEMMA RecordKeeps ==
  ASSUME IInv, NEW k \in Kind, RecordEvent(k)
  PROVE  IInv'
<1> DEFINE event == [from |-> "app", n |-> Len(recorded) + 1, kind |-> k]
<1>1. /\ Len(recorded) < MaxRecorded /\ Enqueue(event)
      /\ recorded' = Append(recorded, event)
      /\ refused' = IF dropped' = dropped THEN refused ELSE refused \cup {event}
      /\ UNCHANGED <<streamVars, requests, serverVars, kernelVars, batch, flusher>>
  BY DEF RecordEvent, Record
<1>2. Typed /\ Underway /\ Waits
  BY DEF IInv
<1>3. event \in AppEvent
  <2>1. Len(recorded) \in Nat /\ MaxRecorded \in Nat
    BY <1>2, PlacesTyped, ElementsOf DEF Typed
  <2>2. Len(recorded) + 1 \in 1..MaxRecorded
    BY <1>1, <2>1
  <2> QED BY <2>2 DEF AppEvent
<1> HIDE DEF event
<1>4. event.n = Len(recorded) + 1
  BY DEF event
<1>5. /\ recorded' \in Seq(AppEvent) /\ Len(recorded') = Len(recorded) + 1
      /\ Recorded' = Recorded \cup {event}
      /\ \A i \in 1..Len(recorded') : recorded'[i].n = i
  <2>1. /\ recorded' \in Seq(AppEvent) /\ Len(recorded') = Len(recorded) + 1 /\ Len(recorded) \in Nat
        /\ \A i \in 1..Len(recorded) : recorded'[i] = recorded[i]
        /\ recorded'[Len(recorded) + 1] = event
    BY <1>1, <1>2, <1>3, AppendProperties, ElementsOf DEF Typed
  <2>2. \A i \in 1..(Len(recorded) + 1) : i \in 1..Len(recorded) \/ i = Len(recorded) + 1
    BY <2>1
  <2>3. \A i \in 1..Len(recorded) : recorded[i].n = i
    BY <1>2 DEF Typed
  <2>4. Recorded' = Recorded \cup {event}
    BY <1>1, <1>2, <1>3, AppendAdds DEF Typed, Recorded
  <2> QED BY <1>4, <2>1, <2>2, <2>3, <2>4
<1>6. Before(Recorded, {event}) /\ event \notin Recorded
  <2>1. \A e \in Recorded : \E i \in 1..Len(recorded) : e = recorded[i] /\ e.n = i
    <3>1. \A x : x \in ToSet(recorded) <=> \E i \in 1..Len(recorded) : recorded[i] = x
      BY <1>2, ElementsOf DEF Typed
    <3> QED BY <1>2, <3>1 DEF Typed, Recorded
  <2>2. Len(recorded) \in Nat
    BY <1>2, ElementsOf DEF Typed
  <2>3. \A i \in 1..Len(recorded) : i < Len(recorded) + 1
    BY <2>2
  <2>4. \A e \in Recorded : e.n < event.n /\ e.n \in Int
    BY <1>4, <2>1, <2>3
  <2> QED BY <1>4, <2>4, <2>2 DEF Before
<1>7. \/ /\ queue' = Append(queue, event) /\ refused' = refused /\ dropped' \in Nat
      \/ /\ queue' = queue /\ refused' = refused \cup {event} /\ dropped' \in Nat
  <2>1. dropped \in Nat /\ dropped + 1 # dropped
    BY <1>2 DEF Typed
  <2> QED BY <1>1, <2>1 DEF Enqueue
<1>8. /\ Handlers' /\ KernelOrder' /\ SourceOrder' /\ Sunk' /\ CountersAgree'
      /\ PostedEvents' = PostedEvents /\ Requests' = Requests /\ \A r : Ev(r)' = Ev(r)
      /\ Collected' = Collected
  BY <1>1, ServerRests DEF Collected
<1>9. queue' \in Seq(AppEvent) /\ InOrder(queue') /\ refused' \subseteq AppEvent
      /\ \/ Queued' = Queued \cup {event} /\ refused' = refused
         \/ Queued' = Queued /\ refused' = refused \cup {event}
  <2>1. Queued \subseteq Recorded
    BY <1>2 DEF Underway
  <2>2. Before(Queued, {event})
    BY <1>6, <2>1 DEF Before
  <2>3. queue \in Seq(AppEvent) /\ InOrder(queue) /\ refused \subseteq AppEvent
    BY <1>2 DEF Typed, Underway
  <2>4. CASE queue' = Append(queue, event) /\ refused' = refused
    BY <1>3, <2>2, <2>3, <2>4, AppendAdds, OrderGrows DEF Queued
  <2>5. CASE queue' = queue /\ refused' = refused \cup {event}
    BY <1>3, <2>3, <2>5 DEF Queued
  <2> QED BY <1>7, <2>4, <2>5
<1>10. Typed'
  <2>1. Len(recorded') <= MaxRecorded
    BY <1>1, <1>2, <1>5, PlacesTyped, ElementsOf DEF Typed
  <2> QED BY <1>1, <1>2, <1>5, <1>7, <1>9, <2>1 DEF Typed, streamVars, serverVars, kernelVars
<1>11. Underway'
  <2>1. Recorded = refused \cup Queued \cup Collected \cup PostedEvents
    BY <1>2 DEF Underway
  <2>2. Before(Collected, Queued') /\ Before(PostedEvents, Collected \cup Queued')
    BY <1>2, <1>6, <1>9, <2>1 DEF Underway, Before
  <2>3. /\ refused' \cap (Queued' \cup Collected \cup PostedEvents) = {}
        /\ Recorded' = refused' \cup Queued' \cup Collected \cup PostedEvents
    BY <1>2, <1>5, <1>6, <1>9, <2>1 DEF Underway
  <2>4. \A r \in Requests : InOrder(requests[r].events)
    BY <1>2 DEF Underway
  <2>5. \A q, r \in Requests : q < r => Before(Ev(q), Ev(r))
    BY <1>2 DEF Underway
  <2>6. flusher = "collecting" => InOrder(batch)
    BY <1>2 DEF Underway
  <2> QED BY <1>1, <1>8, <1>9, <2>2, <2>3, <2>4, <2>5, <2>6 DEF Underway, Before
<1>12. Waits'
  BY <1>1, <1>2, <1>8 DEF Waits
<1> QED BY <1>8, <1>10, <1>11, <1>12 DEF IInv

LEMMA CloseKeeps ==
  ASSUME IInv, CloseAgent \/ EndAgent
  PROVE  IInv'
<1>1. /\ UNCHANGED <<streamVars, recorded, refused, requests, serverVars, kernelVars, queue, batch, dropped>>
      /\ flusher' = flusher \/ (flusher = "collecting" /\ flusher' = "ended" /\ batch = <<>>)
  BY DEF CloseAgent, EndAgent, Close, End
<1>2. /\ Handlers' /\ KernelOrder' /\ SourceOrder' /\ Sunk' /\ CountersAgree'
      /\ PostedEvents' = PostedEvents /\ Requests' = Requests /\ \A r : Ev(r)' = Ev(r)
  BY <1>1, ServerRests
<1>3. Collected' = Collected /\ Queued' = Queued /\ Recorded' = Recorded
  BY <1>1, SetOfEmpty DEF Collected, Queued, Recorded
<1>4. Typed'
  BY <1>1 DEF IInv, Typed, streamVars, serverVars, kernelVars
<1>5. Underway'
  BY <1>1, <1>2, <1>3 DEF IInv, Underway, Before
<1>6. Waits'
  BY <1>1, <1>2 DEF IInv, Waits
<1> QED BY <1>2, <1>4, <1>5, <1>6 DEF IInv

LEMMA ReceiveKeeps ==
  ASSUME IInv, ReceiveEvent
  PROVE  IInv'
<1>1. /\ UNCHANGED <<streamVars, recorded, refused, requests, serverVars, kernelVars, flusher, dropped>>
      /\ flusher = "collecting" /\ queue # <<>>
      /\ batch' = Append(batch, Head(queue)) /\ queue' = Tail(queue)
  BY DEF ReceiveEvent, Receive
<1>2. /\ Handlers' /\ KernelOrder' /\ SourceOrder' /\ Sunk' /\ CountersAgree'
      /\ PostedEvents' = PostedEvents /\ Requests' = Requests /\ \A r : Ev(r)' = Ev(r)
  BY <1>1, ServerRests
<1>3. /\ queue \in Seq(AppEvent) /\ batch \in Seq(AppEvent) /\ Collected = ToSet(batch)
      /\ InOrder(queue) /\ InOrder(batch)
  BY <1>1 DEF IInv, Typed, Underway, Collected
<1>4. /\ Head(queue) \in AppEvent /\ queue' \in Seq(AppEvent)
      /\ Queued = Queued' \cup {Head(queue)}
      /\ InOrder(queue') /\ Before({Head(queue)}, Queued')
  BY <1>1, <1>3, HeadLeaves DEF Queued
<1>5. Before(Collected, Queued)
  BY DEF IInv, Underway
<1>6. /\ batch' \in Seq(AppEvent) /\ InOrder(batch')
      /\ Collected' = Collected \cup {Head(queue)}
  <2>1. Before(ToSet(batch), {Head(queue)})
    BY <1>3, <1>4, <1>5 DEF Before
  <2> QED BY <1>1, <1>3, <1>4, <2>1, AppendAdds, OrderGrows DEF Collected
<1>7. Typed'
  BY <1>1, <1>4, <1>6 DEF IInv, Typed, streamVars, serverVars, kernelVars
<1>8. Underway'
  <2>1. Recorded' = Recorded
    BY <1>1 DEF Recorded
  <2>2. Collected' \cup Queued' = Collected \cup Queued
    BY <1>4, <1>6
  <2>3. Before(Collected', Queued')
    BY <1>4, <1>5, <1>6 DEF Before
  <2>4. Before(PostedEvents, Collected \cup Queued)
    BY DEF IInv, Underway
  <2>5. /\ refused \cap (Queued \cup Collected \cup PostedEvents) = {}
        /\ Recorded = refused \cup Queued \cup Collected \cup PostedEvents
    BY DEF IInv, Underway
  <2>6. /\ refused' \cap (Queued' \cup Collected' \cup PostedEvents') = {}
        /\ Recorded' = refused' \cup Queued' \cup Collected' \cup PostedEvents'
    BY <1>1, <1>2, <2>1, <2>2, <2>5
  <2>7. \A r \in Requests : InOrder(requests[r].events)
    BY DEF IInv, Underway
  <2>8. \A q, r \in Requests : q < r => Before(Ev(q), Ev(r))
    BY DEF IInv, Underway
  <2>9. InOrder(queue)' /\ InOrder(batch)' /\ Before(Collected, Queued)' /\ Before(PostedEvents, Collected \cup Queued)'
    BY <1>2, <1>4, <1>6, <2>2, <2>3, <2>4 DEF InOrder, Before
  <2> QED BY <1>1, <1>2, <2>6, <2>7, <2>8, <2>9 DEF Underway, InOrder, Before
<1>9. Waits'
  BY <1>1, <1>2 DEF IInv, Waits
<1> QED BY <1>2, <1>7, <1>8, <1>9 DEF IInv

LEMMA PostKeeps ==
  ASSUME IInv, PostBatch
  PROVE  IInv'
<1> DEFINE new == [events |-> batch, step |-> "travelling", awaited |-> TRUE, overdue |-> FALSE]
<1>1. /\ UNCHANGED <<streamVars, recorded, refused, serverVars, kernelVars, queue, batch, dropped>>
      /\ flusher = "collecting" /\ flusher' = "posting"
      /\ Len(requests) < MaxRecorded /\ requests' = Append(requests, new)
  BY DEF PostBatch, Post
<1>2. Typed /\ Underway /\ Handlers /\ Waits /\ KernelOrder /\ SourceOrder /\ Sunk /\ CountersAgree
  BY DEF IInv
<1>3. /\ Len(requests) \in Nat /\ Requests = 1..Len(requests) /\ MaxRecorded \in Nat
      /\ \A r \in Requests : Ev(r) \subseteq AppEvent /\ requests[r].awaited \in BOOLEAN
      /\ Requests \subseteq Publisher \ {Sensor} /\ Publisher = 0..MaxRecorded
      /\ Recorded \subseteq AppEvent /\ Collected \subseteq AppEvent /\ Queued \subseteq AppEvent
  BY <1>2, PlacesTyped
<1>4. batch \in Seq(AppEvent) /\ Collected = ToSet(batch) /\ InOrder(batch)
  BY <1>1, <1>2 DEF Typed, Underway, Collected
<1> PICK k \in Nat : k = Len(requests) + 1
  BY <1>3
<1>5. /\ requests' \in Seq([events : Seq(AppEvent), step : Step, awaited : BOOLEAN, overdue : BOOLEAN])
      /\ Len(requests') = k /\ Requests' = Requests \cup {k} /\ k \notin Requests
      /\ \A r \in Requests : requests'[r] = requests[r] /\ r < k
      /\ requests'[k] = new
  <2>1. new \in [events : Seq(AppEvent), step : Step, awaited : BOOLEAN, overdue : BOOLEAN]
    BY <1>4 DEF Step
  <2>2. /\ requests' \in Seq([events : Seq(AppEvent), step : Step, awaited : BOOLEAN, overdue : BOOLEAN])
        /\ Len(requests') = k
        /\ \A r \in 1..Len(requests) : requests'[r] = requests[r]
        /\ requests'[k] = new
    <3> HIDE DEF new
    <3> QED BY <1>1, <1>2, <2>1, AppendProperties DEF Typed
  <2>3. Requests' = 1..k
    BY <2>2, ElementsOf DEF Requests
  <2> QED BY <1>3, <2>2, <2>3
<1>6. \A r \in Requests : Ev(r)' = Ev(r)
  BY <1>5 DEF Ev
<1>7. /\ Ev(k)' = Collected /\ requests'[k].step = "travelling" /\ requests'[k].events = batch
      /\ requests'[k].awaited /\ ~requests'[k].overdue
  BY <1>4, <1>5 DEF Ev
<1> HIDE DEF new
<1>8. PostedEvents' = PostedEvents \cup Collected
  BY <1>5, <1>6, <1>7 DEF PostedEvents
<1>9. /\ Published' = Published /\ FromKernel' = FromKernel /\ Queued' = Queued /\ Recorded' = Recorded
      /\ \A p : ToPush(p)' = ToPush(p) /\ ToSend(p)' = ToSend(p)
      /\ Collected' = {}
  BY <1>1 DEF streamVars, Published, FromKernel, Queued, Recorded, ToPush, ToSend, Unsent, Collected
<1>10. \A r \in Requests : \A e \in Collected : e \notin Ev(r)
  <2>1. Before(PostedEvents, Collected)
    BY <1>2 DEF Underway, Before
  <2>2. \A e \in Collected : e.n \in Int
    BY <1>3, EventsTyped
  <2> QED BY <2>1, <2>2 DEF Before, PostedEvents
<1>11. \A e \in Collected : e \notin lost /\ e \notin invalid /\ e \notin Published
  <2>1. lost \cup invalid \cup (Published \cap AppEvent) \subseteq PostedEvents
    BY <1>2 DEF Handlers
  <2> QED BY <1>3, <1>10, <2>1 DEF PostedEvents
<1>12. Typed'
  <2>1. Len(requests') <= MaxRecorded
    BY <1>1, <1>3, <1>5
  <2> QED BY <1>1, <1>2, <1>5, <2>1 DEF Typed, streamVars, serverVars, kernelVars
<1>13. Underway'
  <2>1. \A r \in Requests' : InOrder(requests'[r].events)
    BY <1>2, <1>4, <1>5, <1>7 DEF Underway
  <2>2. \A q, r \in Requests' : q < r => Before(Ev(q)', Ev(r)')
    <3> SUFFICES ASSUME NEW q \in Requests', NEW r \in Requests', q < r PROVE Before(Ev(q)', Ev(r)')
      OBVIOUS
    <3>1. q \in Requests
      BY <1>3, <1>5
    <3>2. CASE r \in Requests
      BY <1>2, <1>6, <3>1, <3>2 DEF Underway
    <3>3. CASE r = k
      <4>1. Before(PostedEvents, Collected) /\ Ev(q) \subseteq PostedEvents
        BY <1>2, <3>1 DEF Underway, Before, PostedEvents
      <4> QED BY <1>6, <1>7, <3>1, <3>3, <4>1 DEF Before
    <3> QED BY <1>5, <3>2, <3>3
  <2>3. Before(PostedEvents', Collected' \cup Queued')
    BY <1>2, <1>8, <1>9 DEF Underway, Before
  <2>4. /\ refused' \cap (Queued' \cup Collected' \cup PostedEvents') = {}
        /\ Recorded' = refused' \cup Queued' \cup Collected' \cup PostedEvents'
    <3>1. /\ refused \cap (Queued \cup Collected \cup PostedEvents) = {}
          /\ Recorded = refused \cup Queued \cup Collected \cup PostedEvents
      BY <1>2 DEF Underway
    <3> QED BY <1>1, <1>8, <1>9, <3>1
  <2>5. Before(Collected', Queued')
    BY <1>9 DEF Before
  <2>6. InOrder(queue')
    BY <1>1, <1>2 DEF Underway
  <2> QED BY <1>1, <2>1, <2>2, <2>3, <2>4, <2>5, <2>6 DEF Underway, Before, InOrder
<1>14. Handlers'
  <2>1. \A r \in Requests' : \A e \in Ev(r)' : Handled(r, e)'
    <3>1. \A r \in Requests : \A e \in Ev(r) : Handled(r, e)'
      BY <1>1, <1>2, <1>5, <1>9 DEF Handlers, Handled, streamVars, serverVars, IsValid
    <3>2. \A e \in Collected : Handled(k, e)'
      BY <1>1, <1>2, <1>7, <1>9, <1>11 DEF Handled, Sunk, serverVars, streamVars
    <3> QED BY <1>5, <1>6, <1>7, <3>1, <3>2
  <2>2. publishing'[k] = Resting
    <3>1. k \in Publisher \ {Sensor}
      BY <1>1, <1>3 DEF Sensor
    <3> QED BY <1>1, <1>2, <1>5, <3>1 DEF Handlers, streamVars
  <2>3. ASSUME NEW p \in Publisher \ {Sensor}
        PROVE  IF p \in Requests' /\ requests'[p].step = "publishing"
                 THEN /\ ToPush(p)' \subseteq Ev(p)' \cap Valid /\ InOrder(publishing'[p].left)
                      /\ Before(Published' \cap Ev(p)', ToSend(p)')
                 ELSE publishing'[p] = Resting
    <3>1. CASE p \in Requests
      BY <1>1, <1>2, <1>5, <1>6, <1>9, <3>1 DEF Handlers, streamVars
    <3>2. CASE p \notin Requests
      <4>1. publishing[p] = Resting
        BY <1>2, <3>2 DEF Handlers
      <4> QED BY <1>1, <1>5, <1>7, <3>2, <4>1 DEF streamVars
    <3> QED BY <3>1, <3>2
  <2>4. lost' \cup invalid' \cup (Published' \cap AppEvent) \subseteq PostedEvents'
    BY <1>1, <1>2, <1>8, <1>9 DEF Handlers, serverVars
  <2> QED BY <2>1, <2>3, <2>4 DEF Handlers, InOrder, Before
<1>15. Waits'
  <2>1. \A r \in Requests : ~requests[r].awaited
    BY <1>1, <1>2 DEF Waits
  <2> QED BY <1>1, <1>2, <1>3, <1>5, <1>7, <2>1 DEF Waits
<1>16. KernelOrder'
  BY <1>1, <1>2, <1>9 DEF KernelOrder, Before, kernelVars, streamVars
<1>17. SourceOrder'
  <2>1. \A i, j \in DOMAIN published :
          i < j /\ published[i].from = published[j].from /\ published[j].n < published[i].n =>
            \E r \in Requests : requests[r].overdue /\ published[j] \in ToSet(requests[r].events)
    BY <1>2 DEF SourceOrder
  <2>2. \A i, j \in DOMAIN published :
          i < j /\ published[i].from = published[j].from /\ published[j].n < published[i].n =>
            \E r \in Requests' : requests'[r].overdue /\ published[j] \in ToSet(requests'[r].events)
    BY <1>5, <2>1
  <2> QED BY <1>1, <2>2 DEF SourceOrder, streamVars
<1>18. Sunk'
  <2>1. \A e \in Collected : e \notin ToSet(saved)
    <3>1. ToSet(saved) \subseteq PostedEvents
      BY <1>2 DEF Sunk
    <3> QED BY <1>10, <3>1 DEF PostedEvents
  <2>2. saved' = saved /\ pushed' = pushed /\ Published' = Published
    BY <1>1, <1>9 DEF streamVars, serverVars
  <2>3. /\ ToSet(saved) \subseteq Persistent \cap Valid \cap ToSet(pushed) \cap PostedEvents'
        /\ ToSet(pushed) \subseteq Published
    BY <1>2, <1>8 DEF Sunk
  <2>4. \A r \in Requests' : \A e \in Ev(r)' :
          e \in ToSet(saved) <=> requests'[r].step = "done" /\ IsValid(e) /\ ShouldPersist(e)
    <3>1. \A r \in Requests : \A e \in Ev(r) :
            e \in ToSet(saved) <=> requests[r].step = "done" /\ IsValid(e) /\ ShouldPersist(e)
      BY <1>2 DEF Sunk
    <3> QED BY <1>5, <1>6, <1>7, <2>1, <3>1
  <2> QED BY <2>2, <2>3, <2>4 DEF Sunk, IsValid, ShouldPersist
<1>19. CountersAgree'
  <2>1. {r \in Requests' : requests'[r].step \in {"saving", "done"}}
          = {r \in Requests : requests[r].step \in {"saving", "done"}}
    BY <1>5, <1>7
  <2>2. \A r \in Requests : ToSet(requests'[r].events) = ToSet(requests[r].events)
    BY <1>5
  <2>3. UNION {ToSet(requests'[r].events) : r \in {r \in Requests' : requests'[r].step \in {"saving", "done"}}}
          = UNION {ToSet(requests[r].events) : r \in {r \in Requests : requests[r].step \in {"saving", "done"}}}
    BY <2>1, <2>2
  <2> QED BY <1>1, <1>2, <2>3 DEF CountersAgree, streamVars, serverVars
<1> QED BY <1>12, <1>13, <1>14, <1>15, <1>16, <1>17, <1>18, <1>19 DEF IInv

-----------------------------------------------------------------------------
(* The server's steps.                                                     *)

Request == [events : Seq(AppEvent), step : Step, awaited : BOOLEAN, overdue : BOOLEAN]

\* A request moves on and keeps its events.
LEMMA RequestMoves ==
  ASSUME Typed, NEW r \in Requests, NEW moved \in Request, moved.events = requests[r].events,
         requests' = [requests EXCEPT ![r] = moved]
  PROVE  /\ requests' \in Seq(Request) /\ Len(requests') = Len(requests) /\ Requests' = Requests
         /\ requests'[r] = moved
         /\ \A x \in Requests : x # r => requests'[x] = requests[x]
         /\ \A x \in Requests : requests'[x].events = requests[x].events
         /\ \A x \in Requests : Ev(x)' = Ev(x)
         /\ PostedEvents' = PostedEvents
<1>1. requests \in Seq(Request) /\ Requests = 1..Len(requests) /\ Len(requests) \in Nat
  BY PlacesTyped DEF Typed, Request
<1>2. /\ requests' \in Seq(Request) /\ Len(requests') = Len(requests)
      /\ \A i \in 1..Len(requests) : requests'[i] = IF i = r THEN moved ELSE requests[i]
  BY <1>1, ExceptSeq
<1>3. Requests' = Requests
  BY <1>1, <1>2, ElementsOf DEF Requests
<1>4. \A x \in Requests : requests'[x].events = requests[x].events
  BY <1>1, <1>2
<1>5. \A x \in Requests : Ev(x)' = Ev(x)
  BY <1>4 DEF Ev
<1> QED BY <1>1, <1>2, <1>3, <1>4, <1>5 DEF PostedEvents

LEMMA RequestTyped ==
  ASSUME Typed, NEW r \in Requests
  PROVE  requests[r] \in Request
BY PlacesTyped, ElementOfSeq DEF Typed, Request

\* What the server does leaves alone what is underway.
LEMMA UnderwayKept ==
  ASSUME Underway, UNCHANGED <<queue, recorded, refused>>, Collected' = Collected,
         flusher' = "collecting" => InOrder(batch'), Requests' = Requests,
         \A x \in Requests : requests'[x].events = requests[x].events
  PROVE  Underway'
<1>1. Queued' = Queued /\ Recorded' = Recorded
  BY DEF Queued, Recorded
<1>2. \A x \in Requests : Ev(x)' = Ev(x)
  BY DEF Ev
<1>3. PostedEvents' = PostedEvents
  BY <1>2 DEF PostedEvents
<1>4. \A q, r \in Requests : q < r => Before(Ev(q)', Ev(r)')
  BY <1>2 DEF Underway
<1>5. /\ InOrder(queue) /\ \A r \in Requests : InOrder(requests[r].events)
      /\ Before(Collected, Queued) /\ Before(PostedEvents, Collected \cup Queued)
      /\ refused \cap (Queued \cup Collected \cup PostedEvents) = {}
      /\ Recorded = refused \cup Queued \cup Collected \cup PostedEvents
  BY DEF Underway
<1> QED BY <1>1, <1>3, <1>4, <1>5 DEF Underway, InOrder, Before

LEMMA KernelKept ==
  ASSUME KernelOrder, UNCHANGED kernelVars, FromKernel' = FromKernel,
         publishing'[Sensor] = publishing[Sensor]
  PROVE  KernelOrder'
<1>1. ToPush(Sensor)' = ToPush(Sensor) /\ ToSend(Sensor)' = ToSend(Sensor)
  BY DEF ToPush, ToSend, Unsent
<1> QED BY <1>1 DEF KernelOrder, Before, InOrder, kernelVars

LEMMA SinkKept ==
  ASSUME Sunk, UNCHANGED <<saved, pushed, published>>, Requests' = Requests,
         \A x \in Requests : Ev(x)' = Ev(x), PostedEvents' = PostedEvents,
         \A x \in Requests :
           \/ requests'[x].step = "done" <=> requests[x].step = "done"
           \/ \A e \in Ev(x) : e \notin ToSet(saved) /\ ~IsValid(e)
  PROVE  Sunk'
<1>1. Published' = Published
  BY DEF Published
<1>2. \A x \in Requests : \A e \in Ev(x) :
        e \in ToSet(saved) <=> requests'[x].step = "done" /\ IsValid(e) /\ ShouldPersist(e)
  BY DEF Sunk
<1> QED BY <1>1, <1>2 DEF Sunk, IsValid, ShouldPersist

\* With nothing published, the order of sources is kept by requests that keep
\* their events and stay overdue.
LEMMA SourceOrderKept ==
  ASSUME SourceOrder, UNCHANGED published, Requests' = Requests,
         \A x \in Requests : requests'[x].events = requests[x].events /\ (requests[x].overdue => requests'[x].overdue)
  PROVE  SourceOrder'
BY DEF SourceOrder

\* No two requests have an event in common, and events have one number.
LEMMA Disjoint ==
  ASSUME Typed, Underway
  PROVE  /\ \A q, r \in Requests : \A e : e \in Ev(q) /\ e \in Ev(r) => q = r
         /\ IsFiniteSet(Recorded) /\ IsFiniteSet(PostedEvents)
<1>1. \A q, r \in Requests : \A e : e \in Ev(q) /\ e \in Ev(r) => ~(q < r)
  <2> SUFFICES ASSUME NEW q \in Requests, NEW r \in Requests, NEW e, e \in Ev(q), e \in Ev(r), q < r
               PROVE  FALSE
    OBVIOUS
  <2>1. Before(Ev(q), Ev(r)) /\ e \in AppEvent
    BY PlacesTyped DEF Underway
  <2>2. e.n < e.n /\ e.n \in Int
    BY <2>1, EventsTyped DEF Before
  <2> QED BY <2>2
<1>2. Requests \subseteq Int
  BY PlacesTyped
<1>3. IsFiniteSet(Recorded)
  <2>1. InOrder(recorded)
    BY DEF Typed, InOrder
  <2> QED BY <2>1, EventsTyped, OrderedCount DEF Typed, Recorded
<1>4. PostedEvents \subseteq Recorded
  BY DEF Underway
<1> QED BY <1>1, <1>2, <1>3, <1>4, FS_Subset

CountedRequests == {r \in Requests : requests[r].step \in {"saving", "done"}}
CountedEvents == UNION {Ev(r) : r \in CountedRequests}

LEMMA CountersMean ==
  /\ CountersAgree <=> /\ counters.ingested = Cardinality(CountedEvents \cap Published)
                       /\ counters.invalid = Cardinality(invalid)
                       /\ counters.persisted = Len(saved)
  /\ CountersAgree' <=> /\ counters'.ingested = Cardinality(CountedEvents' \cap Published')
                        /\ counters'.invalid = Cardinality(invalid')
                        /\ counters'.persisted = Len(saved')
BY DEF CountersAgree, CountedEvents, CountedRequests, Ev, Published

\* What is under way at publisher p, in a state in which its request is handled.
Handling(p) ==
  IF requests[p].step = "publishing"
    THEN /\ ToPush(p) \subseteq Ev(p) \cap Valid /\ InOrder(publishing[p].left)
         /\ Before(Published \cap Ev(p), ToSend(p))
    ELSE publishing[p] = Resting

\* A step at the requests R keeps Handlers if it is right for these requests and
\* touches nothing of the others.
LEMMA HandlersKept ==
  ASSUME Typed, Underway, Handlers, NEW R \in SUBSET Requests, Requests' = Requests,
         \A x \in Requests : Ev(x)' = Ev(x), PostedEvents' = PostedEvents,
         \A x \in Requests \ R : requests'[x] = requests[x],
         \A p \in Publisher \ {Sensor} : p \notin R => publishing'[p] = publishing[p],
         \A e \in AppEvent : e \notin UNION {Ev(x) : x \in R} =>
           /\ e \in invalid' <=> e \in invalid
           /\ e \in lost' <=> e \in lost
           /\ e \in Published' <=> e \in Published
           /\ e \in ToSet(pushed') <=> e \in ToSet(pushed),
         lost' \cup invalid' \cup (Published' \cap AppEvent) \subseteq PostedEvents,
         \A r \in R : Handling(r)' /\ \A e \in Ev(r) : Handled(r, e)'
  PROVE  Handlers'
<1>1. Requests \subseteq Publisher \ {Sensor} /\ \A x \in Requests : Ev(x) \subseteq AppEvent
  BY PlacesTyped
<1>2. \A x \in Requests \ R : \A e \in Ev(x) : e \notin UNION {Ev(y) : y \in R}
  BY Disjoint
<1>3. \A p \in Publisher \ {Sensor} : p \notin R => ToPush(p)' = ToPush(p) /\ ToSend(p)' = ToSend(p)
  BY DEF ToPush, ToSend, Unsent
<1>4. ASSUME NEW x \in Requests \ R, NEW e \in Ev(x) PROVE Handled(x, e)'
  <2>1. Handled(x, e)
    BY DEF Handlers
  <2>2. /\ e \in invalid' <=> e \in invalid
        /\ e \in lost' <=> e \in lost
        /\ e \in Published' <=> e \in Published
        /\ e \in ToSet(pushed') <=> e \in ToSet(pushed)
    BY <1>1, <1>2
  <2>3. ToPush(x)' = ToPush(x) /\ ToSend(x)' = ToSend(x) /\ requests'[x] = requests[x]
    BY <1>1, <1>3
  <2> QED BY <2>1, <2>2, <2>3 DEF Handled, IsValid
<1>5. ASSUME NEW x \in Requests \ R PROVE Handling(x)'
  <2>1. Handling(x)
    BY <1>1 DEF Handlers, Handling
  <2>2. Published' \cap Ev(x) = Published \cap Ev(x)
    BY <1>1, <1>2
  <2>3. /\ ToPush(x)' = ToPush(x) /\ ToSend(x)' = ToSend(x) /\ requests'[x] = requests[x]
        /\ publishing'[x] = publishing[x] /\ Ev(x)' = Ev(x)
    BY <1>1, <1>3
  <2> QED BY <2>1, <2>2, <2>3 DEF Handling, Before, InOrder
<1>6. \A r \in Requests' : \A e \in Ev(r)' : Handled(r, e)'
  BY <1>4
<1>7. \A p \in Requests' : Handling(p)'
  BY <1>5
<1>8. ASSUME NEW p \in Publisher \ {Sensor}
      PROVE  IF p \in Requests' /\ requests'[p].step = "publishing"
               THEN /\ ToPush(p)' \subseteq Ev(p)' \cap Valid /\ InOrder(publishing'[p].left)
                    /\ Before(Published' \cap Ev(p)', ToSend(p)')
               ELSE publishing'[p] = Resting
  <2>1. CASE p \in Requests
    BY <1>7, <2>1 DEF Handling, InOrder, Before
  <2>2. CASE p \notin Requests
    BY <2>2 DEF Handlers
  <2> QED BY <2>1, <2>2
<1> QED BY <1>6, <1>8 DEF Handlers, InOrder, Before

LEMMA HandlersKeptAt ==
  ASSUME Typed, Underway, Handlers, NEW r \in Requests, Requests' = Requests,
         \A x \in Requests : Ev(x)' = Ev(x), PostedEvents' = PostedEvents,
         \A x \in Requests \ {r} : requests'[x] = requests[x],
         \A p \in Publisher \ {Sensor} : p # r => publishing'[p] = publishing[p],
         \A e \in AppEvent : e \notin Ev(r) =>
           /\ e \in invalid' <=> e \in invalid
           /\ e \in lost' <=> e \in lost
           /\ e \in Published' <=> e \in Published
           /\ e \in ToSet(pushed') <=> e \in ToSet(pushed),
         lost' \cup invalid' \cup (Published' \cap AppEvent) \subseteq PostedEvents,
         Handling(r)', \A e \in Ev(r) : Handled(r, e)'
  PROVE  Handlers'
<1> DEFINE R == {r}
<1>1. UNION {Ev(x) : x \in R} = Ev(r)
  OBVIOUS
<1>2. /\ R \in SUBSET Requests
      /\ \A x \in Requests \ R : requests'[x] = requests[x]
      /\ \A p \in Publisher \ {Sensor} : p \notin R => publishing'[p] = publishing[p]
      /\ \A x \in R : Handling(x)' /\ \A e \in Ev(x) : Handled(x, e)'
  OBVIOUS
<1> HIDE DEF R
<1> QED BY <1>1, <1>2, HandlersKept

\* A request that is no longer waited for was answered or is overdue.
LEMMA WaitsKept ==
  ASSUME Typed, Waits, NEW r \in Requests, Requests' = Requests, Len(requests') = Len(requests),
         \A x \in Requests \ {r} : requests'[x] = requests[x],
         IF requests'[r].awaited
           THEN requests[r].awaited /\ flusher' = flusher /\ requests'[r].overdue = requests[r].overdue
           ELSE /\ flusher' = flusher \/ requests[r].awaited
                /\ requests'[r].overdue \/ requests'[r].step \in {"saving", "done"}
  PROVE  Waits'
<1>1. \A x \in Requests : requests[x].awaited => x = Len(requests) /\ flusher = "posting" /\ ~requests[x].overdue
  BY DEF Waits
<1>2. \A x \in Requests : ~requests[x].awaited => requests[x].overdue \/ requests[x].step \in {"saving", "done"}
  BY DEF Waits
<1> SUFFICES ASSUME NEW x \in Requests
             PROVE  IF requests'[x].awaited
                      THEN x = Len(requests) /\ flusher' = "posting" /\ ~requests'[x].overdue
                      ELSE requests'[x].overdue \/ requests'[x].step \in {"saving", "done"}
  BY DEF Waits
<1>3. CASE x = r
  BY <1>1, <1>3
<1>4. CASE x # r
  BY <1>1, <1>2, <1>4
<1> QED BY <1>3, <1>4

LEMMA AnswerKeeps ==
  ASSUME IInv, NEW r \in Requests, Answered(r) \/ GivesUp(r)
  PROVE  IInv'
<1> DEFINE moved == [requests[r] EXCEPT !.awaited = FALSE, !.overdue = requests'[r].overdue]
<1>1. Typed /\ Underway /\ Handlers /\ Waits /\ KernelOrder /\ SourceOrder /\ Sunk /\ CountersAgree
  BY DEF IInv
<1>2. /\ UNCHANGED <<streamVars, recorded, refused, serverVars, kernelVars, queue, dropped>>
      /\ flusher = "posting" /\ flusher' = "collecting" /\ batch' = <<>>
  BY DEF Answered, GivesUp, Posted, Cleared
<1>3. requests[r] \in Request /\ r \in 1..Len(requests)
  BY <1>1, RequestTyped, PlacesTyped
<1>4. PICK late \in BOOLEAN :
        /\ requests' = [requests EXCEPT ![r] = [requests[r] EXCEPT !.awaited = FALSE, !.overdue = late]]
        /\ requests[r].overdue => late
        /\ late \/ requests[r].step \in {"saving", "done"}
        /\ requests[r].awaited
  <2>1. CASE Answered(r)
    <3>1. requests' = [requests EXCEPT ![r] = [requests[r] EXCEPT !.awaited = FALSE]]
      BY <2>1 DEF Answered
    <3>2. [requests[r] EXCEPT !.awaited = FALSE]
            = [requests[r] EXCEPT !.awaited = FALSE, !.overdue = requests[r].overdue]
      BY <1>3 DEF Request
    <3> QED BY <1>3, <2>1, <3>1, <3>2 DEF Answered, Request
  <2>2. CASE GivesUp(r)
    BY <2>2 DEF GivesUp
  <2> QED BY <2>1, <2>2
<1>5. /\ requests' \in Seq(Request) /\ Len(requests') = Len(requests) /\ Requests' = Requests
      /\ requests'[r].step = requests[r].step /\ ~requests'[r].awaited /\ requests'[r].overdue = late
      /\ \A x \in Requests \ {r} : requests'[x] = requests[x]
      /\ \A x \in Requests : requests'[x].events = requests[x].events
      /\ \A x \in Requests : Ev(x)' = Ev(x)
      /\ PostedEvents' = PostedEvents
  <2>1. [requests[r] EXCEPT !.awaited = FALSE, !.overdue = late] \in Request
    BY <1>3 DEF Request
  <2>2. /\ [requests[r] EXCEPT !.awaited = FALSE, !.overdue = late].events = requests[r].events
        /\ [requests[r] EXCEPT !.awaited = FALSE, !.overdue = late].step = requests[r].step
        /\ [requests[r] EXCEPT !.awaited = FALSE, !.overdue = late].awaited = FALSE
        /\ [requests[r] EXCEPT !.awaited = FALSE, !.overdue = late].overdue = late
    BY <1>3 DEF Request
  <2> QED BY <1>1, <1>4, <2>1, <2>2, RequestMoves
<1>6. \A x \in Requests : requests'[x].step = requests[x].step
  BY <1>5
<1>7. Typed'
  BY <1>1, <1>2, <1>5, EmptySeq DEF Typed, streamVars, serverVars, kernelVars, Request
<1>8. Underway'
  <2>1. Collected' = {} /\ Collected = {} /\ InOrder(<<>>)
    BY <1>2, SetOfEmpty, EmptySeq DEF Collected, InOrder
  <2> QED BY <1>1, <1>2, <1>5, <2>1, UnderwayKept
<1>9. Handlers'
  <2>1. /\ Published' = Published /\ UNCHANGED <<invalid, lost, pushed, publishing>>
        /\ \A p : ToPush(p)' = ToPush(p) /\ ToSend(p)' = ToSend(p)
    BY <1>2 DEF Published, streamVars, serverVars, ToPush, ToSend, Unsent
  <2>2. \A e \in Ev(r) : Handled(r, e)'
    BY <1>1, <1>5, <2>1 DEF Handlers, Handled, IsValid
  <2>3. Handling(r)'
    <3>1. Handling(r)
      BY <1>1, PlacesTyped DEF Handlers, Handling
    <3> QED BY <1>5, <2>1, <3>1 DEF Handling, InOrder, Before
  <2>4. lost' \cup invalid' \cup (Published' \cap AppEvent) \subseteq PostedEvents
    BY <1>1, <2>1 DEF Handlers
  <2> QED BY <1>1, <1>5, <2>1, <2>2, <2>3, <2>4, HandlersKeptAt
<1>10. Waits'
  BY <1>1, <1>2, <1>4, <1>5, WaitsKept
<1>11. KernelOrder'
  BY <1>1, <1>2, KernelKept DEF streamVars, FromKernel, Published
<1>12. SourceOrder'
  BY <1>1, <1>2, <1>4, <1>5, SourceOrderKept DEF streamVars
<1>13. Sunk'
  BY <1>1, <1>2, <1>5, <1>6, SinkKept DEF serverVars, streamVars
<1>14. CountersAgree'
  <2>1. CountedEvents' = CountedEvents /\ Published' = Published
    BY <1>2, <1>5, <1>6 DEF CountedEvents, CountedRequests, Published, streamVars
  <2> QED BY <1>1, <1>2, <2>1, CountersMean DEF serverVars
<1> QED BY <1>7, <1>8, <1>9, <1>10, <1>11, <1>12, <1>13, <1>14 DEF IInv

LEMMA LoseKeeps ==
  ASSUME IInv, NEW r \in Requests, Lose(r)
  PROVE  IInv'
<1> DEFINE moved == [requests[r] EXCEPT !.step = "lost"]
<1>1. Typed /\ Underway /\ Handlers /\ Waits /\ KernelOrder /\ SourceOrder /\ Sunk /\ CountersAgree
  BY DEF IInv
<1>2. /\ UNCHANGED <<agentVars, streamVars, recorded, refused, invalid, saved, counters, kernelVars>>
      /\ requests[r].step = "travelling" /\ ~requests[r].awaited
      /\ requests' = [requests EXCEPT ![r] = moved] /\ lost' = lost \cup Ev(r)
  BY DEF Lose, Ev
<1>3. requests[r] \in Request /\ r \in 1..Len(requests) /\ Ev(r) \subseteq AppEvent
  BY <1>1, RequestTyped, PlacesTyped
<1>4. /\ requests' \in Seq(Request) /\ Len(requests') = Len(requests) /\ Requests' = Requests
      /\ requests'[r].step = "lost" /\ ~requests'[r].awaited /\ requests'[r].overdue = requests[r].overdue
      /\ \A x \in Requests \ {r} : requests'[x] = requests[x]
      /\ \A x \in Requests : requests'[x].events = requests[x].events
      /\ \A x \in Requests : Ev(x)' = Ev(x)
      /\ PostedEvents' = PostedEvents
  <2>1. /\ moved \in Request /\ moved.events = requests[r].events /\ moved.step = "lost"
        /\ ~moved.awaited /\ moved.overdue = requests[r].overdue
    BY <1>2, <1>3 DEF Request, Step
  <2> HIDE DEF moved
  <2> QED BY <1>1, <1>2, <2>1, RequestMoves
<1> HIDE DEF moved
<1>5. Typed'
  BY <1>1, <1>2, <1>3, <1>4 DEF Typed, agentVars, streamVars, serverVars, kernelVars, Request
<1>6. Underway'
  BY <1>1, <1>2, <1>4, UnderwayKept DEF agentVars, Collected, Underway
<1>7. /\ Published' = Published /\ UNCHANGED <<invalid, pushed, publishing>>
      /\ \A p : ToPush(p)' = ToPush(p) /\ ToSend(p)' = ToSend(p)
  BY <1>2 DEF Published, streamVars, ToPush, ToSend, Unsent
<1>8. Handlers'
  <2>1. \A e \in Ev(r) : Handled(r, e)'
    BY <1>1, <1>2, <1>4, <1>7 DEF Handlers, Handled, IsValid
  <2>2. Handling(r)'
    BY <1>1, <1>2, <1>4, <1>7, PlacesTyped DEF Handlers, Handling
  <2>3. lost' \cup invalid' \cup (Published' \cap AppEvent) \subseteq PostedEvents
    BY <1>1, <1>2, <1>7 DEF Handlers, PostedEvents
  <2> QED BY <1>1, <1>2, <1>4, <1>7, <2>1, <2>2, <2>3, HandlersKeptAt
<1>9. Waits'
  BY <1>1, <1>2, <1>4, WaitsKept DEF Waits, agentVars
<1>10. KernelOrder'
  BY <1>1, <1>2, KernelKept DEF streamVars, FromKernel, Published
<1>11. SourceOrder'
  BY <1>1, <1>2, <1>4, SourceOrderKept DEF streamVars
<1>12. Sunk'
  BY <1>1, <1>2, <1>4, SinkKept DEF streamVars
<1>13. CountersAgree'
  <2>1. CountedRequests' = CountedRequests
    BY <1>2, <1>4 DEF CountedRequests
  <2>2. CountedEvents' = CountedEvents /\ Published' = Published
    BY <1>4, <1>7, <2>1 DEF CountedEvents, CountedRequests
  <2> QED BY <1>1, <1>2, <2>2, CountersMean
<1> QED BY <1>5, <1>6, <1>8, <1>9, <1>10, <1>11, <1>12, <1>13 DEF IInv

\* The valid events of a request, counted.
LEMMA ValidOfRequest ==
  ASSUME Typed, Underway, NEW r \in Requests
  PROVE  /\ ValidEvents(r) \in Seq(AppEvent) /\ InOrder(ValidEvents(r))
         /\ ToSet(ValidEvents(r)) = Ev(r) \cap Valid
         /\ \A e \in Ev(r) : e \in Valid <=> IsValid(e)
         /\ IsFiniteSet(Ev(r)) /\ Cardinality(Ev(r)) = Len(requests[r].events)
         /\ Len(ValidEvents(r)) = Cardinality(Ev(r) \cap Valid)
         /\ Len(requests[r].events) \in Nat /\ Len(ValidEvents(r)) \in 0..Len(requests[r].events)
<1>1. requests[r].events \in Seq(AppEvent) /\ InOrder(requests[r].events) /\ Ev(r) \subseteq AppEvent
  BY PlacesTyped DEF Underway
<1>2. /\ ValidEvents(r) \in Seq(AppEvent) /\ InOrder(ValidEvents(r))
      /\ ToSet(ValidEvents(r)) = Ev(r) \cap Valid
  BY <1>1, OnlySelects DEF ValidEvents, Ev
<1>3. IsFiniteSet(Ev(r)) /\ Cardinality(Ev(r)) = Len(requests[r].events)
  BY <1>1, OrderedCount, EventsTyped DEF Ev
<1>4. Cardinality(Ev(r) \cap Valid) = Len(ValidEvents(r))
  BY <1>2, OrderedCount, EventsTyped
<1>5. Cardinality(Ev(r) \cap Valid) <= Cardinality(Ev(r))
  BY <1>3, FS_Subset
<1>6. Len(requests[r].events) \in Nat /\ Len(ValidEvents(r)) \in Nat
  BY <1>1, <1>2, ElementsOf
<1>7. Len(ValidEvents(r)) \in 0..Len(requests[r].events)
  BY <1>3, <1>4, <1>5, <1>6
<1> QED BY <1>1, <1>2, <1>3, <1>4, <1>6, <1>7 DEF Valid

\* A publisher that has nothing to publish starts on some events.
LEMMA Starts ==
  ASSUME Typed, NEW p \in Publisher, NEW s \in Seq(AnyEvent), Started(p, s)
  PROVE  /\ publishing' \in [Publisher -> [left : Seq(AnyEvent), sent : BOOLEAN]]
         /\ publishing'[p].left = s /\ (s = <<>> => publishing'[p] = Resting)
         /\ \A x \in Publisher \ {p} : publishing'[x] = publishing[x]
         /\ \A x \in Publisher : publishing'[x].sent => publishing'[x].left # <<>>
         /\ ToPush(p)' = ToSet(s) /\ ToSend(p)' = ToSet(s)
<1>1. /\ publishing \in [Publisher -> [left : Seq(AnyEvent), sent : BOOLEAN]]
      /\ \A x \in Publisher : publishing[x].sent => publishing[x].left # <<>>
      /\ publishing[p] = Resting /\ publishing' = [publishing EXCEPT ![p].left = s]
  BY DEF Typed, Started
<1>2. publishing[p] \in [left : Seq(AnyEvent), sent : BOOLEAN] /\ publishing[p].sent = FALSE
  BY <1>1 DEF Resting
<1>3. publishing' = [publishing EXCEPT ![p] = [publishing[p] EXCEPT !.left = s]]
  BY <1>1
<1>4. /\ [publishing[p] EXCEPT !.left = s] \in [left : Seq(AnyEvent), sent : BOOLEAN]
      /\ [publishing[p] EXCEPT !.left = s].left = s
      /\ [publishing[p] EXCEPT !.left = s].sent = FALSE
  BY <1>2
<1>5. /\ publishing' \in [Publisher -> [left : Seq(AnyEvent), sent : BOOLEAN]]
      /\ publishing'[p].left = s /\ publishing'[p].sent = FALSE
      /\ \A x \in Publisher \ {p} : publishing'[x] = publishing[x]
  BY <1>1, <1>3, <1>4
<1>6. s = <<>> => publishing'[p] = Resting
  BY <1>5 DEF Resting
<1> QED BY <1>1, <1>5, <1>6 DEF ToPush, ToSend, Unsent

LEMMA ArriveKeeps ==
  ASSUME IInv, NEW r \in Requests, Arrive(r)
  PROVE  IInv'
<1> DEFINE valid == ValidEvents(r)
           next == IF valid = <<>> THEN "done" ELSE "publishing"
           moved == [requests[r] EXCEPT !.step = next]
           refusing == {e \in Ev(r) : ~IsValid(e)}
<1>1. Typed /\ Underway /\ Handlers /\ Waits /\ KernelOrder /\ SourceOrder /\ Sunk /\ CountersAgree
  BY DEF IInv
<1>2. /\ UNCHANGED <<agentVars, published, backlog, pushed, recorded, refused, lost, saved, kernelVars>>
      /\ requests[r].step = "travelling" /\ requests' = [requests EXCEPT ![r] = moved]
      /\ publishing[r] = Resting /\ publishing' = [publishing EXCEPT ![r].left = valid]
      /\ invalid' = invalid \cup refusing
      /\ counters' = [counters EXCEPT !.invalid = @ + Len(requests[r].events) - Len(valid)]
  BY DEF Arrive, Started, Ev
<1>3. /\ requests[r] \in Request /\ r \in 1..Len(requests) /\ Ev(r) \subseteq AppEvent
      /\ r \in Publisher \ {Sensor} /\ Sensor \in Publisher
  BY <1>1, RequestTyped, PlacesTyped
<1>4. /\ valid \in Seq(AppEvent) /\ InOrder(valid) /\ ToSet(valid) = Ev(r) \cap Valid
      /\ \A e \in Ev(r) : e \in Valid <=> IsValid(e)
      /\ IsFiniteSet(Ev(r)) /\ Cardinality(Ev(r)) = Len(requests[r].events)
      /\ Len(valid) = Cardinality(Ev(r) \cap Valid)
      /\ Len(requests[r].events) \in Nat /\ Len(valid) \in 0..Len(requests[r].events)
  BY <1>1, ValidOfRequest
<1> HIDE DEF valid
<1>5. /\ requests' \in Seq(Request) /\ Len(requests') = Len(requests) /\ Requests' = Requests
      /\ requests'[r].step = next /\ requests'[r].awaited = requests[r].awaited
      /\ requests'[r].overdue = requests[r].overdue
      /\ \A x \in Requests \ {r} : requests'[x] = requests[x]
      /\ \A x \in Requests : requests'[x].events = requests[x].events
      /\ \A x \in Requests : Ev(x)' = Ev(x)
      /\ PostedEvents' = PostedEvents
  <2>1. next \in Step
    BY DEF Step
  <2> HIDE DEF next
  <2>2. /\ moved \in Request /\ moved.events = requests[r].events /\ moved.step = next
        /\ moved.awaited = requests[r].awaited /\ moved.overdue = requests[r].overdue
    BY <1>2, <1>3, <2>1 DEF Request
  <2> HIDE DEF moved
  <2> QED BY <1>1, <1>2, <2>2, RequestMoves
<1>6. next \in {"done", "publishing"} /\ (next = "done" <=> valid = <<>>) /\ (valid = <<>> <=> Ev(r) \cap Valid = {})
  BY <1>4, ElementsOf
<1> HIDE DEF next, moved
<1>7. \A e \in Ev(r) : e \notin Published /\ e \notin invalid /\ e \notin lost
  BY <1>1, <1>2 DEF Handlers, Handled
<1>8. /\ publishing' \in [Publisher -> [left : Seq(AnyEvent), sent : BOOLEAN]]
      /\ publishing'[r].left = valid /\ (valid = <<>> => publishing'[r] = Resting)
      /\ \A p \in Publisher \ {r} : publishing'[p] = publishing[p]
      /\ \A p \in Publisher : publishing'[p].sent => publishing'[p].left # <<>>
      /\ ToPush(r)' = Ev(r) \cap Valid /\ ToSend(r)' = Ev(r) \cap Valid
  <2>1. valid \in Seq(AnyEvent)
    BY <1>4, EventsTyped, SeqMonotonic
  <2>2. Started(r, valid)
    BY <1>2 DEF Started
  <2> QED BY <1>1, <1>3, <1>4, <2>1, <2>2, Starts
<1>9. /\ counters' \in [ingested : Nat, invalid : Nat, persisted : Nat]
      /\ counters'.invalid = counters.invalid + Len(requests[r].events) - Len(valid)
      /\ counters'.ingested = counters.ingested /\ counters'.persisted = counters.persisted
  <2>1. counters \in [ingested : Nat, invalid : Nat, persisted : Nat]
    BY <1>1 DEF Typed
  <2>2. counters.invalid + Len(requests[r].events) - Len(valid) \in Nat
    <3>1. \A i, a \in Nat : \A b \in 0..a : i + a - b \in Nat
      OBVIOUS
    <3>2. counters.invalid \in Nat
      BY <2>1
    <3>3. Len(requests[r].events) \in Nat /\ Len(valid) \in 0..Len(requests[r].events)
      BY <1>4
    <3> QED BY <3>1, <3>2, <3>3
  <2> QED BY <1>2, <2>1, <2>2
<1>10. Typed'
  <2>1. invalid' \subseteq AppEvent
    BY <1>1, <1>2, <1>3 DEF Typed
  <2> QED BY <1>1, <1>2, <1>5, <1>8, <1>9, <2>1 DEF Typed, agentVars, kernelVars, Request
<1>11. Underway'
  BY <1>1, <1>2, <1>5, UnderwayKept DEF agentVars, Collected, Underway
<1>12. Handlers'
  <2>1. Published' = Published
    BY <1>2 DEF Published
  <2>2. ASSUME NEW e \in Ev(r) PROVE Handled(r, e)'
    <3>1. e \notin Published' /\ e \notin lost' /\ (e \in invalid' <=> ~IsValid(e)) /\ (IsValid(e) <=> e \in Valid)
      BY <1>2, <1>4, <1>7, <2>1
    <3>2. IsValid(e) => requests'[r].step = "publishing" /\ e \in ToPush(r)' /\ e \in ToSend(r)'
      BY <1>5, <1>6, <1>8, <3>1
    <3>3. e \notin ToSet(pushed)
      BY <1>1, <1>7 DEF Sunk
    <3> QED BY <1>2, <1>5, <1>6, <3>1, <3>2, <3>3 DEF Handled, IsValid
  <2>3. Handling(r)'
    <3>1. CASE next = "done"
      BY <1>5, <1>6, <1>8, <3>1 DEF Handling
    <3>2. CASE next = "publishing"
      <4>1. Published' \cap Ev(r) = {}
        BY <1>7, <2>1
      <4>2. publishing'[r].left = valid
        BY <1>8
      <4>3. Before(Published \cap Ev(r), ToSend(r))'
        BY <1>3, <1>5, <4>1 DEF Before
      <4>4. InOrder(publishing[r].left)'
        BY <1>4, <4>2 DEF InOrder
      <4> QED BY <1>3, <1>5, <1>8, <3>2, <4>3, <4>4 DEF Handling
    <3> QED BY <1>6, <3>1, <3>2
  <2>4. lost' \cup invalid' \cup (Published' \cap AppEvent) \subseteq PostedEvents
    BY <1>1, <1>2, <2>1 DEF Handlers, PostedEvents
  <2> QED BY <1>1, <1>2, <1>5, <1>8, <2>1, <2>2, <2>3, <2>4, HandlersKeptAt
<1>13. Waits'
  BY <1>1, <1>2, <1>5, WaitsKept DEF Waits, agentVars
<1>14. KernelOrder'
  BY <1>1, <1>2, <1>3, <1>8, KernelKept DEF FromKernel, Published
<1>15. SourceOrder'
  BY <1>1, <1>2, <1>5, SourceOrderKept
<1>16. Sunk'
  <2>1. \A e \in Ev(r) : e \notin ToSet(saved) /\ (requests'[r].step = "done" => ~IsValid(e))
    BY <1>1, <1>2, <1>4, <1>5, <1>6 DEF Sunk
  <2>2. \A e \in Ev(r) : requests'[r].step = "done" => e \notin ToSet(saved) /\ ~IsValid(e)
    BY <2>1
  <2> QED BY <1>1, <1>2, <1>5, <2>1, <2>2, SinkKept
<1>17. CountersAgree'
  <2>1. CountedEvents' \cap Published' = CountedEvents \cap Published
    <3>1. CountedRequests \subseteq CountedRequests' /\ CountedRequests' \subseteq CountedRequests \cup {r}
      BY <1>2, <1>5 DEF CountedRequests
    <3>2. CountedEvents \subseteq CountedEvents' /\ CountedEvents' \subseteq CountedEvents \cup Ev(r)
      BY <1>5, <3>1 DEF CountedEvents, CountedRequests
    <3> QED BY <1>2, <1>7, <3>2 DEF Published
  <2>2. Cardinality(invalid') = counters'.invalid
    <3>1. IsFiniteSet(invalid) /\ IsFiniteSet(refusing)
      <4>1. invalid \in SUBSET PostedEvents /\ refusing \in SUBSET Ev(r)
        BY <1>1 DEF Handlers
      <4> QED BY <1>1, <1>4, <4>1, FS_Subset, Disjoint
    <3>2. invalid \cap refusing = {}
      BY <1>7
    <3>3. refusing = Ev(r) \ (Ev(r) \cap Valid) /\ Ev(r) \cap (Ev(r) \cap Valid) = Ev(r) \cap Valid
      BY <1>4
    <3> HIDE DEF refusing
    <3>4. Cardinality(invalid \cup refusing) = Cardinality(invalid) + Cardinality(refusing)
      <4>1. Cardinality(invalid \cup refusing)
              = Cardinality(invalid) + Cardinality(refusing) - Cardinality(invalid \cap refusing)
        BY <3>1, FS_Union
      <4>2. Cardinality({}) = 0 /\ Cardinality(invalid) \in Nat /\ Cardinality(refusing) \in Nat
        BY <3>1, FS_EmptySet, FS_CardinalityType
      <4>3. Cardinality(invalid \cap refusing) = 0
        BY <3>2, <4>2
      <4> QED BY <4>1, <4>2, <4>3
    <3>5. Cardinality(refusing) = Len(requests[r].events) - Len(valid)
      <4>1. Cardinality(Ev(r) \ (Ev(r) \cap Valid))
              = Cardinality(Ev(r)) - Cardinality(Ev(r) \cap (Ev(r) \cap Valid))
        BY <1>4, FS_Difference
      <4> QED BY <1>4, <3>3, <4>1
    <3>6. counters.invalid = Cardinality(invalid) /\ counters.invalid \in Nat
      BY <1>1, CountersMean DEF Typed
    <3> QED BY <1>2, <1>4, <1>9, <3>4, <3>5, <3>6
  <2>3. saved' = saved
    BY <1>2
  <2> QED BY <1>1, <1>9, <2>1, <2>2, <2>3, CountersMean
<1> QED BY <1>10, <1>11, <1>12, <1>13, <1>14, <1>15, <1>16, <1>17 DEF IInv

-----------------------------------------------------------------------------
(* Publishing.                                                             *)

\* A publisher sends the first of its events, e.
LEMMA Sends ==
  ASSUME Typed, NEW p \in Publisher, InOrder(publishing[p].left), Send(p)
  PROVE  \E e \in AnyEvent :
           /\ publishing' \in [Publisher -> [left : Seq(AnyEvent), sent : BOOLEAN]]
           /\ \A x \in Publisher : publishing'[x].sent => publishing'[x].left # <<>>
           /\ \A x \in Publisher \ {p} : publishing'[x] = publishing[x]
           /\ publishing'[p].left = publishing[p].left /\ ToPush(p)' = ToPush(p)
           /\ e \in ToPush(p) /\ ToSend(p) = ToSend(p)' \cup {e}
           /\ e \notin ToSend(p)' /\ Before({e}, ToSend(p)')
           /\ published' = Append(published, e) /\ published' \in Seq(AnyEvent)
           /\ Published' = Published \cup {e}
<1> DEFINE e == Head(publishing[p].left)
<1>1. /\ publishing \in [Publisher -> [left : Seq(AnyEvent), sent : BOOLEAN]]
      /\ \A x \in Publisher : publishing[x].sent => publishing[x].left # <<>>
      /\ publishing[p].left # <<>> /\ publishing[p].sent = FALSE
      /\ published' = Append(published, e) /\ published \in Seq(AnyEvent)
      /\ publishing' = [publishing EXCEPT ![p] = [publishing[p] EXCEPT !.sent = TRUE]]
  <2>1. publishing[p].sent \in BOOLEAN
    BY PublishersTyped
  <2> QED BY <2>1 DEF Typed, Send
<1>2. /\ publishing[p].left \in Seq(AnyEvent)
      /\ [publishing[p] EXCEPT !.sent = TRUE] \in [left : Seq(AnyEvent), sent : BOOLEAN]
      /\ [publishing[p] EXCEPT !.sent = TRUE].left = publishing[p].left
      /\ [publishing[p] EXCEPT !.sent = TRUE].sent = TRUE
  BY <1>1
<1>3. /\ publishing' \in [Publisher -> [left : Seq(AnyEvent), sent : BOOLEAN]]
      /\ \A x \in Publisher \ {p} : publishing'[x] = publishing[x]
      /\ publishing'[p].left = publishing[p].left /\ publishing'[p].sent = TRUE
  BY <1>1, <1>2
<1>4. /\ e \in AnyEvent
      /\ ToPush(p) = ToSet(Tail(publishing[p].left)) \cup {e}
      /\ Before({e}, ToSet(Tail(publishing[p].left)))
      /\ ToSet(Tail(publishing[p].left)) \subseteq AnyEvent
  <2>1. Tail(publishing[p].left) \in Seq(AnyEvent)
    BY <1>1, <1>2, HeadLeaves
  <2> QED BY ZenonT(30), <1>1, <1>2, <2>1, HeadLeaves, ElementsOf DEF ToPush
<1> HIDE DEF e
<1>5. e \notin ToSet(Tail(publishing[p].left))
  <2>1. e.n \in Int
    BY <1>4, EventsTyped
  <2> QED BY <1>4, <2>1 DEF Before
<1>6. /\ ToPush(p)' = ToPush(p) /\ ToSend(p) = ToPush(p)
      /\ ToSend(p)' = ToSet(Tail(publishing[p].left))
  BY <1>1, <1>3 DEF ToPush, ToSend, Unsent
<1>7. published' \in Seq(AnyEvent) /\ Published' = Published \cup {e}
  BY <1>1, <1>4, AppendAdds DEF Published
<1> QED BY <1>1, <1>3, <1>4, <1>5, <1>6, <1>7

\* A publisher pushes the event e that it has sent.
LEMMA Pushes ==
  ASSUME Typed, NEW p \in Publisher, InOrder(publishing[p].left), Push(p)
  PROVE  \E e \in AnyEvent :
           /\ publishing' \in [Publisher -> [left : Seq(AnyEvent), sent : BOOLEAN]]
           /\ \A x \in Publisher : publishing'[x].sent => publishing'[x].left # <<>>
           /\ \A x \in Publisher \ {p} : publishing'[x] = publishing[x]
           /\ InOrder(publishing'[p].left)
           /\ ToPush(p) = ToPush(p)' \cup {e} /\ e \notin ToPush(p)'
           /\ ToSend(p)' = ToSend(p) /\ ToPush(p)' = ToSend(p)
           /\ pushed' \in Seq(AnyEvent) /\ ToSet(pushed') = ToSet(pushed) \cup {e}
<1> DEFINE e == Head(publishing[p].left)
           rest == Tail(publishing[p].left)
<1>1. /\ publishing \in [Publisher -> [left : Seq(AnyEvent), sent : BOOLEAN]]
      /\ \A x \in Publisher : publishing[x].sent => publishing[x].left # <<>>
      /\ publishing[p].sent
      /\ pushed' = Append(pushed, e) /\ pushed \in Seq(AnyEvent)
      /\ publishing' = [publishing EXCEPT ![p] = [left |-> rest, sent |-> FALSE]]
  BY DEF Typed, Push
<1>2. publishing[p].left \in Seq(AnyEvent) /\ publishing[p].left # <<>>
  BY <1>1
<1>3. /\ e \in AnyEvent /\ rest \in Seq(AnyEvent) /\ InOrder(rest)
      /\ ToPush(p) = ToSet(rest) \cup {e} /\ Before({e}, ToSet(rest))
      /\ ToSet(rest) \subseteq AnyEvent
  <2>1. rest \in Seq(AnyEvent)
    BY <1>2, HeadLeaves
  <2> QED BY <1>2, <2>1, HeadLeaves, ElementsOf DEF ToPush
<1>4. ToSend(p) = ToSet(rest)
  BY <1>1 DEF ToSend, Unsent
<1> HIDE DEF e, rest
<1>5. /\ publishing' \in [Publisher -> [left : Seq(AnyEvent), sent : BOOLEAN]]
      /\ \A x \in Publisher \ {p} : publishing'[x] = publishing[x]
      /\ publishing'[p].left = rest /\ publishing'[p].sent = FALSE
  <2>1. [left |-> rest, sent |-> FALSE] \in [left : Seq(AnyEvent), sent : BOOLEAN]
    BY <1>3
  <2> QED BY <1>1, <2>1
<1>6. e \notin ToSet(rest)
  <2>1. e.n \in Int
    BY <1>3, EventsTyped
  <2> QED BY <1>3, <2>1 DEF Before
<1>7. ToPush(p)' = ToSet(rest) /\ ToSend(p)' = ToSet(rest) /\ InOrder(publishing'[p].left)
  BY <1>3, <1>5 DEF ToPush, ToSend, Unsent, InOrder
<1>8. pushed' \in Seq(AnyEvent) /\ ToSet(pushed') = ToSet(pushed) \cup {e}
  BY <1>1, <1>3, AppendAdds
<1> QED BY <1>1, <1>3, <1>4, <1>5, <1>6, <1>7, <1>8

\* An event that is broadcast keeps the order of its source, if one of that
\* source that was broadcast before is later only when the client gave up.
LEMMA SourceOrderGrows ==
  ASSUME Typed, SourceOrder, NEW e \in AnyEvent, published' = Append(published, e), UNCHANGED requests,
         \A later \in Published : later.from = e.from /\ e.n < later.n =>
           \E r \in Requests : requests[r].overdue /\ e \in Ev(r)
  PROVE  SourceOrder'
<1>1. /\ Len(published) \in Nat /\ DOMAIN published = 1..Len(published)
      /\ DOMAIN published' = 1..(Len(published) + 1) /\ published'[Len(published) + 1] = e
      /\ \A i \in 1..Len(published) : published'[i] = published[i] /\ published[i] \in Published
  <2>1. published \in Seq(AnyEvent)
    BY DEF Typed
  <2>2. published' \in Seq(AnyEvent) /\ Len(published') = Len(published) + 1
    BY <2>1, AppendProperties
  <2>3. DOMAIN published' = 1..Len(published')
    BY <2>2, ElementsOf
  <2> QED BY <2>1, <2>2, <2>3, AppendProperties, ElementsOf DEF Published
<1> SUFFICES ASSUME NEW i \in 1..(Len(published) + 1), NEW j \in 1..(Len(published) + 1), i < j,
                    published'[i].from = published'[j].from, published'[j].n < published'[i].n
             PROVE  \E r \in Requests : requests[r].overdue /\ published'[j] \in ToSet(requests[r].events)
  BY <1>1 DEF SourceOrder, Requests
<1>2. i \in 1..Len(published)
  BY <1>1
<1>3. CASE j \in 1..Len(published)
  BY <1>1, <1>2, <1>3 DEF SourceOrder
<1>4. CASE j = Len(published) + 1
  BY <1>1, <1>2, <1>4 DEF Ev
<1> QED BY <1>1, <1>3, <1>4

\* Only the sensor's task and the handlers of requests publish.
LEMMA WhoPublishes ==
  ASSUME Typed, Handlers, KernelOrder, NEW p \in Publisher, publishing[p].left # <<>>
  PROVE  /\ InOrder(publishing[p].left)
         /\ p = Sensor \/ (p \in Requests /\ requests[p].step = "publishing")
<1>1. CASE p = Sensor
  BY <1>1 DEF KernelOrder
<1>2. CASE p # Sensor
  <2>1. publishing[p] # Resting
    BY DEF Resting
  <2> QED BY <1>2, <2>1 DEF Handlers
<1> QED BY <1>1, <1>2

LEMMA SendKeeps ==
  ASSUME IInv, NEW p \in Publisher, SendEvent(p)
  PROVE  IInv'
<1>1. Typed /\ Underway /\ Handlers /\ Waits /\ KernelOrder /\ SourceOrder /\ Sunk /\ CountersAgree
  BY DEF IInv
<1>2. /\ UNCHANGED <<agentVars, recorded, refused, requests, serverVars, kernelVars, backlog, pushed>>
      /\ Send(p) /\ publishing[p].left # <<>>
  BY DEF SendEvent, Send
<1>3. InOrder(publishing[p].left) /\ (p = Sensor \/ (p \in Requests /\ requests[p].step = "publishing"))
  BY <1>1, <1>2, WhoPublishes
<1>4. PICK e \in AnyEvent :
        /\ publishing' \in [Publisher -> [left : Seq(AnyEvent), sent : BOOLEAN]]
        /\ \A x \in Publisher : publishing'[x].sent => publishing'[x].left # <<>>
        /\ \A x \in Publisher \ {p} : publishing'[x] = publishing[x]
        /\ publishing'[p].left = publishing[p].left /\ ToPush(p)' = ToPush(p)
        /\ e \in ToPush(p) /\ ToSend(p) = ToSend(p)' \cup {e}
        /\ e \notin ToSend(p)' /\ Before({e}, ToSend(p)')
        /\ published' = Append(published, e) /\ published' \in Seq(AnyEvent)
        /\ Published' = Published \cup {e}
  BY <1>1, <1>2, <1>3, Sends
<1>5. /\ Requests' = Requests /\ PostedEvents' = PostedEvents /\ \A r : Ev(r)' = Ev(r)
      /\ CountedEvents' = CountedEvents /\ Collected' = Collected
  BY <1>2 DEF Requests, PostedEvents, Ev, CountedEvents, CountedRequests, Collected, agentVars
<1>6. /\ PostedEvents \subseteq AppEvent /\ Sensor \in Publisher /\ CountedEvents \subseteq AppEvent
      /\ Requests \subseteq Publisher \ {Sensor}
  BY <1>1, PlacesTyped DEF CountedEvents, CountedRequests
<1>7. Typed'
  BY <1>1, <1>2, <1>4 DEF Typed, agentVars, serverVars, kernelVars
<1>8. Underway'
  BY <1>1, <1>2, <1>5, UnderwayKept DEF agentVars, Underway
<1>9. Waits'
  BY <1>1, <1>2, <1>5 DEF Waits, agentVars
<1>10. Sunk'
  BY <1>1, <1>2, <1>4, <1>5 DEF Sunk, IsValid, ShouldPersist, serverVars
<1>11. CASE p \in Requests /\ requests[p].step = "publishing"
  <2>1. /\ Handling(p) /\ e \in Ev(p) \cap Valid /\ e \in AppEvent /\ IsValid(e) /\ e.from = "app"
        /\ e \notin KernelEvents /\ p # Sensor
    <3>1. Handling(p) /\ p # Sensor
      BY <1>1, <1>6, <1>11 DEF Handlers, Handling
    <3> QED BY <1>4, <1>11, <3>1, EventsTyped DEF Handling, Valid
  <2>2. \A r \in Requests : e \in Ev(r) => r = p
    BY <1>1, <1>11, <2>1, Disjoint
  <2>3. Handlers'
    <3>1. Handling(p)'
      <4>1. Before(Published' \cap Ev(p), ToSend(p)')
        BY <1>4, <1>11, <2>1 DEF Handling, Before
      <4>2. InOrder(publishing[p].left)'
        BY <1>3, <1>4 DEF InOrder
      <4>3. requests'[p].step = "publishing" /\ ToPush(p)' \subseteq Ev(p) \cap Valid
        BY <1>2, <1>4, <1>11, <2>1 DEF Handling
      <4> QED BY <1>5, <4>1, <4>2, <4>3 DEF Handling, Before
    <3>2. ASSUME NEW x \in Ev(p) PROVE Handled(p, x)'
      <4>1. Handled(p, x)
        BY <1>1, <1>11 DEF Handlers
      <4>2. UNCHANGED <<invalid, lost, pushed, requests>>
        BY <1>2 DEF serverVars
      <4>3. CASE x = e
        BY <1>4, <1>11, <2>1, <4>1, <4>2, <4>3 DEF Handled, IsValid
      <4>4. CASE x # e
        BY <1>4, <1>11, <4>1, <4>2, <4>4 DEF Handled, IsValid
      <4> QED BY <4>3, <4>4
    <3>3. lost' \cup invalid' \cup (Published' \cap AppEvent) \subseteq PostedEvents
      BY <1>1, <1>2, <1>4, <1>11, <2>1 DEF Handlers, serverVars, PostedEvents
    <3> QED BY <1>1, <1>2, <1>4, <1>5, <1>11, <2>1, <3>1, <3>2, <3>3, HandlersKeptAt DEF serverVars
  <2>4. KernelOrder'
    <3>1. FromKernel' = FromKernel
      BY <1>4, <2>1 DEF FromKernel
    <3> QED BY <1>1, <1>2, <1>4, <1>6, <2>1, <3>1, KernelKept
  <2>5. SourceOrder'
    <3>1. ASSUME NEW later \in Published, later.from = e.from, e.n < later.n
          PROVE  requests[p].overdue /\ e \in Ev(p)
      <4>1. later \in AppEvent /\ later.n \in Int /\ e.n \in Int
        BY <1>1, <2>1, <3>1, PlacesTyped, EventsTyped
      <4>2. PICK q \in Requests : later \in Ev(q)
        BY <1>1, <4>1 DEF Handlers, PostedEvents
      <4>3. q # p
        <5>1. ASSUME q = p PROVE FALSE
          <6>1. Before(Published \cap Ev(p), ToSend(p)) /\ e \in ToSend(p)
            BY <1>4, <1>11, <2>1 DEF Handling
          <6>2. later.n < e.n
            BY <4>2, <5>1, <6>1 DEF Before
          <6> QED BY <3>1, <4>1, <6>2
        <5> QED BY <5>1
      <4>4. ~(q < p)
        <5>1. ASSUME q < p PROVE FALSE
          <6>1. Before(Ev(q), Ev(p))
            BY <1>1, <1>11, <5>1 DEF Underway
          <6>2. later.n < e.n
            BY <2>1, <4>2, <6>1 DEF Before
          <6> QED BY <3>1, <4>1, <6>2
        <5> QED BY <5>1
      <4>5. p # Len(requests)
        BY <1>1, <1>11, <4>3, <4>4, PlacesTyped
      <4> QED BY <1>1, <1>11, <2>1, <4>5 DEF Waits
    <3> QED BY <1>1, <1>2, <1>4, <1>11, <3>1, SourceOrderGrows
  <2>6. CountersAgree'
    <3>1. e \notin CountedEvents
      BY <1>11, <2>2 DEF CountedEvents, CountedRequests
    <3>2. CountedEvents' \cap Published' = CountedEvents \cap Published
      BY <1>4, <1>5, <3>1
    <3> QED BY <1>1, <1>2, <3>2, CountersMean DEF serverVars
  <2> QED BY <1>7, <1>8, <1>9, <1>10, <2>3, <2>4, <2>5, <2>6 DEF IInv
<1>12. CASE p = Sensor
  <2>1. e \in KernelEvents /\ e \notin AppEvent /\ e.from = "kernel" /\ e.n \in Int
    BY <1>1, <1>4, <1>12, EventsTyped DEF KernelOrder
  <2>2. Handlers'
    <3>1. \A x \in AppEvent : x \in Published' <=> x \in Published
      BY <1>4, <2>1
    <3>2. lost' \cup invalid' \cup (Published' \cap AppEvent) \subseteq PostedEvents
      BY <1>1, <1>2, <1>4, <2>1 DEF Handlers, serverVars
    <3>3. {} \in SUBSET Requests
      OBVIOUS
    <3> QED BY <1>1, <1>2, <1>4, <1>5, <1>12, <3>1, <3>2, <3>3, HandlersKept DEF serverVars
  <2>3. FromKernel' = FromKernel \cup {e}
    BY <1>4, <2>1 DEF FromKernel
  <2>4. KernelOrder'
    <3>1. Before(FromKernel \cup {e}, ToSend(Sensor)')
      BY <1>1, <1>4, <1>12 DEF KernelOrder, Before
    <3>2. FromKernel' \cup ToPush(Sensor)' = FromKernel \cup ToPush(Sensor)
      BY <1>4, <1>12, <2>3
    <3>3. ToPush(Sensor)' \ ToSend(Sensor)' \subseteq FromKernel'
      BY <1>1, <1>4, <1>12, <2>3 DEF KernelOrder
    <3>4. ToPush(Sensor)' = ToPush(Sensor) /\ publishing'[Sensor].left = publishing[Sensor].left
      BY <1>4, <1>12
    <3>5. UNCHANGED <<kernel, ring, channel>>
      BY <1>2 DEF kernelVars
    <3> QED BY <1>1, <2>3, <3>1, <3>2, <3>3, <3>4, <3>5 DEF KernelOrder, Before, InOrder
  <2>5. SourceOrder'
    <3>1. ASSUME NEW later \in Published, later.from = e.from, e.n < later.n
          PROVE  FALSE
      <4>1. later \in FromKernel /\ later.n \in Int
        BY <1>1, <2>1, <3>1, PlacesTyped, EventsTyped DEF FromKernel
      <4>2. later.n < e.n
        BY <1>1, <1>4, <1>12, <4>1 DEF KernelOrder, Before
      <4> QED BY <2>1, <3>1, <4>1, <4>2
    <3> QED BY <1>1, <1>2, <1>4, <3>1, SourceOrderGrows
  <2>6. CountersAgree'
    <3>1. CountedEvents' \cap Published' = CountedEvents \cap Published
      BY <1>4, <1>5, <1>6, <2>1
    <3> QED BY <1>1, <1>2, <3>1, CountersMean DEF serverVars
  <2> QED BY <1>7, <1>8, <1>9, <1>10, <2>2, <2>4, <2>5, <2>6 DEF IInv
<1> QED BY <1>3, <1>11, <1>12

LEMMA PushKeeps ==
  ASSUME IInv, NEW p \in Publisher, PushEvent(p)
  PROVE  IInv'
<1>1. Typed /\ Underway /\ Handlers /\ Waits /\ KernelOrder /\ SourceOrder /\ Sunk /\ CountersAgree
  BY DEF IInv
<1>2. /\ UNCHANGED <<agentVars, recorded, refused, requests, serverVars, kernelVars, published>>
      /\ Push(p) /\ publishing[p].left # <<>>
  BY <1>1 DEF PushEvent, Push, Typed
<1>3. InOrder(publishing[p].left) /\ (p = Sensor \/ (p \in Requests /\ requests[p].step = "publishing"))
  BY <1>1, <1>2, WhoPublishes
<1>4. PICK e \in AnyEvent :
        /\ publishing' \in [Publisher -> [left : Seq(AnyEvent), sent : BOOLEAN]]
        /\ \A x \in Publisher : publishing'[x].sent => publishing'[x].left # <<>>
        /\ \A x \in Publisher \ {p} : publishing'[x] = publishing[x]
        /\ InOrder(publishing'[p].left)
        /\ ToPush(p) = ToPush(p)' \cup {e} /\ e \notin ToPush(p)'
        /\ ToSend(p)' = ToSend(p) /\ ToPush(p)' = ToSend(p)
        /\ pushed' \in Seq(AnyEvent) /\ ToSet(pushed') = ToSet(pushed) \cup {e}
  BY <1>1, <1>2, <1>3, Pushes
<1>5. /\ Requests' = Requests /\ PostedEvents' = PostedEvents /\ \A r : Ev(r)' = Ev(r)
      /\ CountedEvents' = CountedEvents /\ Collected' = Collected
      /\ Published' = Published /\ FromKernel' = FromKernel
  BY <1>2 DEF Requests, PostedEvents, Ev, CountedEvents, CountedRequests, Collected, agentVars, Published,
              FromKernel
<1>6. Sensor \in Publisher /\ Requests \subseteq Publisher \ {Sensor}
  BY <1>1, PlacesTyped
<1>7. Typed'
  BY <1>1, <1>2, <1>4 DEF Typed, agentVars, serverVars, kernelVars
<1>8. Underway'
  BY <1>1, <1>2, <1>5, UnderwayKept DEF agentVars, Underway
<1>9. Waits'
  BY <1>1, <1>2, <1>5 DEF Waits, agentVars
<1>10. SourceOrder'
  BY <1>1, <1>2, <1>5, SourceOrderKept
<1>11. CountersAgree'
  BY <1>1, <1>2, <1>5, CountersMean DEF serverVars
<1>12. ASSUME e \in Published PROVE Sunk'
  <2>1. /\ ToSet(pushed') \subseteq Published
        /\ ToSet(saved) \subseteq Persistent \cap Valid \cap ToSet(pushed') \cap PostedEvents
        /\ \A r \in Requests : \A x \in Ev(r) :
             x \in ToSet(saved) <=> requests[r].step = "done" /\ IsValid(x) /\ ShouldPersist(x)
    BY <1>1, <1>4, <1>12 DEF Sunk
  <2> QED BY <1>2, <1>5, <2>1 DEF Sunk, IsValid, ShouldPersist, serverVars
<1>13. lost' \cup invalid' \cup (Published' \cap AppEvent) \subseteq PostedEvents
  BY <1>1, <1>2, <1>5 DEF Handlers, serverVars
<1>14. CASE p \in Requests /\ requests[p].step = "publishing"
  <2>1. /\ Handling(p) /\ e \in Ev(p) \cap Valid /\ IsValid(e) /\ p # Sensor
        /\ e \notin ToSend(p) /\ e \in Published
    <3>1. Handling(p) /\ p # Sensor
      BY <1>1, <1>6, <1>14 DEF Handlers, Handling
    <3>2. e \in Ev(p) \cap Valid /\ e \notin ToSend(p)
      BY <1>4, <1>14, <3>1 DEF Handling
    <3>3. IsValid(e) /\ Handled(p, e)
      BY <1>1, <1>14, <3>2 DEF Handlers, Valid
    <3> QED BY <1>14, <3>1, <3>2, <3>3 DEF Handled
  <2>2. Handlers'
    <3>1. Handling(p)'
      <4>1. /\ requests[p].step = "publishing" /\ ToPush(p)' \subseteq Ev(p) \cap Valid
            /\ Before(Published \cap Ev(p), ToSend(p)')
        BY <1>4, <1>14, <2>1 DEF Handling
      <4> QED BY <1>2, <1>4, <1>5, <4>1 DEF Handling, InOrder, Before
    <3>2. ASSUME NEW x \in Ev(p) PROVE Handled(p, x)'
      <4>1. Handled(p, x)
        BY <1>1, <1>14 DEF Handlers
      <4>2. UNCHANGED <<invalid, lost, requests>>
        BY <1>2 DEF serverVars
      <4>3. CASE x = e
        BY <1>4, <1>5, <1>14, <2>1, <4>1, <4>2, <4>3 DEF Handled, IsValid
      <4>4. CASE x # e
        BY <1>4, <1>5, <1>14, <4>1, <4>2, <4>4 DEF Handled, IsValid
      <4> QED BY <4>3, <4>4
    <3> QED BY <1>1, <1>2, <1>4, <1>5, <1>13, <1>14, <2>1, <3>1, <3>2, HandlersKeptAt DEF serverVars
  <2>3. KernelOrder'
    BY <1>1, <1>2, <1>4, <1>5, <1>6, <2>1, KernelKept
  <2> QED BY <1>7, <1>8, <1>9, <1>10, <1>11, <1>12, <2>1, <2>2, <2>3 DEF IInv
<1>15. CASE p = Sensor
  <2>1. e \in KernelEvents /\ e \notin AppEvent /\ e \in Published
    BY <1>1, <1>4, <1>15, EventsTyped DEF KernelOrder, FromKernel
  <2>2. Handlers'
    <3>1. \A x \in AppEvent : x \in ToSet(pushed') <=> x \in ToSet(pushed)
      BY <1>4, <2>1
    <3>2. {} \in SUBSET Requests
      OBVIOUS
    <3> QED BY <1>1, <1>2, <1>4, <1>5, <1>13, <1>15, <3>1, <3>2, HandlersKept DEF serverVars
  <2>3. KernelOrder'
    <3>1. /\ ToPush(Sensor)' \subseteq ToPush(Sensor) /\ ToSend(Sensor)' = ToSend(Sensor)
          /\ ToPush(Sensor)' \ ToSend(Sensor)' = {} /\ InOrder(publishing'[Sensor].left)
      BY <1>4, <1>15
    <3>2. UNCHANGED <<kernel, ring, channel>>
      BY <1>2 DEF kernelVars
    <3> QED BY <1>1, <1>5, <3>1, <3>2 DEF KernelOrder, Before, InOrder
  <2> QED BY <1>7, <1>8, <1>9, <1>10, <1>11, <1>12, <2>1, <2>2, <2>3 DEF IInv
<1> QED BY <1>3, <1>14, <1>15

-----------------------------------------------------------------------------
(* The end of a handler, and the save.                                     *)

LEMMA DoneKeeps ==
  ASSUME IInv, NEW r \in Requests, HandlerDone(r)
  PROVE  IInv'
<1> DEFINE moved == [requests[r] EXCEPT !.step = "saving"]
           n == Len(ValidEvents(r))
<1>1. Typed /\ Underway /\ Handlers /\ Waits /\ KernelOrder /\ SourceOrder /\ Sunk /\ CountersAgree
  BY DEF IInv
<1>2. /\ UNCHANGED <<agentVars, streamVars, recorded, refused, lost, invalid, saved, kernelVars>>
      /\ requests[r].step = "publishing" /\ publishing[r].left = <<>>
      /\ requests' = [requests EXCEPT ![r] = moved]
      /\ counters' = [counters EXCEPT !.ingested = @ + n]
  BY DEF HandlerDone, Finished
<1>3. /\ requests[r] \in Request /\ r \in 1..Len(requests) /\ Ev(r) \subseteq AppEvent
      /\ r \in Publisher \ {Sensor}
  BY <1>1, RequestTyped, PlacesTyped
<1>4. /\ n \in Nat /\ n = Cardinality(Ev(r) \cap Valid) /\ IsFiniteSet(Ev(r))
      /\ \A e \in Ev(r) : e \in Valid <=> IsValid(e)
  <2>1. Len(requests[r].events) \in Nat /\ n \in 0..Len(requests[r].events)
    BY <1>1, ValidOfRequest
  <2>2. /\ n = Cardinality(Ev(r) \cap Valid) /\ IsFiniteSet(Ev(r))
        /\ \A e \in Ev(r) : e \in Valid <=> IsValid(e)
    BY <1>1, ValidOfRequest
  <2> HIDE DEF n
  <2>3. n \in Nat
    BY <2>1
  <2> QED BY <2>2, <2>3
<1> HIDE DEF n
<1>5. /\ requests' \in Seq(Request) /\ Len(requests') = Len(requests) /\ Requests' = Requests
      /\ requests'[r].step = "saving" /\ requests'[r].awaited = requests[r].awaited
      /\ requests'[r].overdue = requests[r].overdue
      /\ \A x \in Requests \ {r} : requests'[x] = requests[x]
      /\ \A x \in Requests : requests'[x].events = requests[x].events
      /\ \A x \in Requests : Ev(x)' = Ev(x)
      /\ PostedEvents' = PostedEvents
  <2>1. /\ moved \in Request /\ moved.events = requests[r].events /\ moved.step = "saving"
        /\ moved.awaited = requests[r].awaited /\ moved.overdue = requests[r].overdue
    BY <1>2, <1>3 DEF Request, Step
  <2> HIDE DEF moved
  <2> QED BY <1>1, <1>2, <2>1, RequestMoves
<1> HIDE DEF moved
<1>6. /\ Published' = Published /\ UNCHANGED <<invalid, pushed, publishing, published, lost>>
      /\ \A p : ToPush(p)' = ToPush(p) /\ ToSend(p)' = ToSend(p)
  BY <1>2 DEF Published, streamVars, ToPush, ToSend, Unsent
<1>7. ToPush(r) = {} /\ ToSend(r) = {} /\ publishing[r] = Resting
  <2>1. publishing[r] \in [left : Seq(AnyEvent), sent : BOOLEAN] /\ publishing[r].sent = FALSE
    BY <1>1, <1>2, <1>3 DEF Typed
  <2> QED BY <1>1, <1>2, <1>3, <2>1, PublishersTyped DEF Resting
<1>8. /\ counters' \in [ingested : Nat, invalid : Nat, persisted : Nat]
      /\ counters'.ingested = counters.ingested + n
      /\ counters'.invalid = counters.invalid /\ counters'.persisted = counters.persisted
  <2>1. counters \in [ingested : Nat, invalid : Nat, persisted : Nat] /\ counters.ingested + n \in Nat
    BY <1>1, <1>4 DEF Typed
  <2> QED BY <1>2, <2>1
<1>9. Typed'
  BY <1>1, <1>2, <1>5, <1>8 DEF Typed, agentVars, streamVars, kernelVars, Request
<1>10. Underway'
  BY <1>1, <1>2, <1>5, UnderwayKept DEF agentVars, Collected, Underway
<1>11. Handlers'
  <2>1. \A e \in Ev(r) : Handled(r, e)'
    BY <1>1, <1>2, <1>5, <1>6, <1>7 DEF Handlers, Handled, IsValid
  <2>2. Handling(r)'
    BY <1>5, <1>6, <1>7 DEF Handling
  <2>3. lost' \cup invalid' \cup (Published' \cap AppEvent) \subseteq PostedEvents
    BY <1>1, <1>2, <1>6 DEF Handlers
  <2> QED BY <1>1, <1>2, <1>5, <1>6, <2>1, <2>2, <2>3, HandlersKeptAt
<1>12. Waits'
  BY <1>1, <1>2, <1>5, WaitsKept DEF Waits, agentVars
<1>13. KernelOrder'
  BY <1>1, <1>2, KernelKept DEF streamVars, FromKernel, Published
<1>14. SourceOrder'
  BY <1>1, <1>2, <1>5, SourceOrderKept DEF streamVars
<1>15. Sunk'
  <2>1. requests[r].step # "done" /\ requests'[r].step # "done"
    BY <1>2, <1>5
  <2> QED BY <1>1, <1>2, <1>5, <2>1, SinkKept DEF streamVars
<1>16. CountersAgree'
  <2>1. CountedRequests' = CountedRequests \cup {r} /\ r \notin CountedRequests
    BY <1>2, <1>5 DEF CountedRequests
  <2>2. CountedEvents' = CountedEvents \cup Ev(r)
    BY <1>5, <2>1 DEF CountedEvents, CountedRequests
  <2>3. \A e \in CountedEvents : e \notin Ev(r)
    BY <1>1, <2>1, Disjoint DEF CountedEvents, CountedRequests
  <2>4. \A e \in Ev(r) : e \in Published <=> e \in Valid
    BY <1>1, <1>2, <1>4, <1>7 DEF Handlers, Handled
  <2> DEFINE before == CountedEvents \cap Published
             new == Ev(r) \cap Valid
  <2>5. CountedEvents' \cap Published' = before \cup new /\ before \cap new = {}
    BY <1>6, <2>2, <2>3, <2>4
  <2>6. IsFiniteSet(before) /\ IsFiniteSet(new)
    <3>1. before \in SUBSET PostedEvents /\ new \in SUBSET Ev(r)
      BY DEF CountedEvents, CountedRequests, PostedEvents
    <3> QED BY <1>1, <1>4, <3>1, Disjoint, FS_Subset
  <2>7. Cardinality(before) = counters.ingested /\ Cardinality(new) = n
    BY <1>1, <1>4, CountersMean
  <2> HIDE DEF before, new
  <2>8. Cardinality(before \cup new) = Cardinality(before) + Cardinality(new) - Cardinality(before \cap new)
    BY <2>6, FS_Union
  <2>9. Cardinality(before \cap new) = 0
    BY <2>5, FS_EmptySet
  <2>10. Cardinality(CountedEvents' \cap Published') = counters.ingested + n
    <3>1. counters.ingested \in Nat
      BY <1>1 DEF Typed
    <3>2. Cardinality(before \cup new) = counters.ingested + n - 0
      BY <2>7, <2>8, <2>9
    <3>3. CountedEvents' \cap Published' = before \cup new
      BY <2>5
    <3>4. counters.ingested + n - 0 = counters.ingested + n
      BY <1>4, <3>1
    <3> QED BY <3>2, <3>3, <3>4, Zenon
  <2>11. invalid' = invalid /\ saved' = saved
    BY <1>2
  <2> QED BY <1>1, <1>8, <2>10, <2>11, CountersMean
<1> QED BY <1>9, <1>10, <1>11, <1>12, <1>13, <1>14, <1>15, <1>16 DEF IInv

LEMMA DroppedKeeps ==
  ASSUME IInv, NEW r \in Requests, HandlerDropped(r)
  PROVE  IInv'
<1> DEFINE moved == [requests[r] EXCEPT !.step = "dropped"]
<1>1. Typed /\ Underway /\ Handlers /\ Waits /\ KernelOrder /\ SourceOrder /\ Sunk /\ CountersAgree
  BY DEF IInv
<1>2. /\ UNCHANGED <<agentVars, published, backlog, pushed, recorded, refused, invalid, saved, counters,
                     kernelVars>>
      /\ requests[r].step = "publishing" /\ requests[r].overdue /\ publishing[r].sent
      /\ requests' = [requests EXCEPT ![r] = moved]
      /\ publishing' = [publishing EXCEPT ![r] = Resting]
      /\ lost' = lost \cup ToSend(r)
  BY DEF HandlerDropped, ToSend, Unsent
<1>3. /\ requests[r] \in Request /\ r \in 1..Len(requests) /\ Ev(r) \subseteq AppEvent
      /\ r \in Publisher \ {Sensor} /\ Sensor \in Publisher
  BY <1>1, RequestTyped, PlacesTyped
<1>4. /\ requests' \in Seq(Request) /\ Len(requests') = Len(requests) /\ Requests' = Requests
      /\ requests'[r].step = "dropped" /\ requests'[r].awaited = requests[r].awaited
      /\ requests'[r].overdue = requests[r].overdue
      /\ \A x \in Requests \ {r} : requests'[x] = requests[x]
      /\ \A x \in Requests : requests'[x].events = requests[x].events
      /\ \A x \in Requests : Ev(x)' = Ev(x)
      /\ PostedEvents' = PostedEvents
  <2>1. /\ moved \in Request /\ moved.events = requests[r].events /\ moved.step = "dropped"
        /\ moved.awaited = requests[r].awaited /\ moved.overdue = requests[r].overdue
    BY <1>2, <1>3 DEF Request, Step
  <2> HIDE DEF moved
  <2> QED BY <1>1, <1>2, <2>1, RequestMoves
<1> HIDE DEF moved
<1>5. /\ publishing' \in [Publisher -> [left : Seq(AnyEvent), sent : BOOLEAN]]
      /\ publishing'[r] = Resting
      /\ \A p \in Publisher \ {r} : publishing'[p] = publishing[p]
      /\ \A p \in Publisher : publishing'[p].sent => publishing'[p].left # <<>>
  <2>1. Resting \in [left : Seq(AnyEvent), sent : BOOLEAN] /\ Resting.sent = FALSE
    BY EmptySeq DEF Resting
  <2>2. /\ publishing \in [Publisher -> [left : Seq(AnyEvent), sent : BOOLEAN]]
        /\ \A p \in Publisher : publishing[p].sent => publishing[p].left # <<>>
    BY <1>1 DEF Typed
  <2> QED BY <1>2, <1>3, <2>1, <2>2
<1>6. ToSend(r) \subseteq Ev(r) \cap Valid
  <2>1. ToSend(r) \subseteq ToPush(r)
    BY <1>1, <1>3, PublishersTyped
  <2> QED BY <1>1, <1>2, <1>3, <2>1 DEF Handlers
<1>7. Typed'
  <2>1. lost' \subseteq AppEvent
    BY <1>1, <1>2, <1>3, <1>6 DEF Typed
  <2> QED BY SMTT(30), <1>1, <1>2, <1>4, <1>5, <2>1 DEF Typed, agentVars, kernelVars, Request
<1>8. Underway'
  BY <1>1, <1>2, <1>4, UnderwayKept DEF agentVars, Collected, Underway
<1>9. Handlers'
  <2>1. Published' = Published
    BY <1>2 DEF Published
  <2>2. ASSUME NEW e \in Ev(r) PROVE Handled(r, e)'
    <3>1. Handled(r, e) /\ (IsValid(e) <=> e \in Valid)
      BY <1>1, <1>3 DEF Handlers, Valid
    <3>2. UNCHANGED <<invalid, pushed>> /\ (e \in lost' <=> e \in lost \/ e \in ToSend(r))
      BY <1>2
    <3> QED BY <1>2, <1>4, <1>6, <2>1, <3>1, <3>2 DEF Handled, IsValid
  <2>3. Handling(r)'
    BY <1>4, <1>5 DEF Handling
  <2>4. lost' \cup invalid' \cup (Published' \cap AppEvent) \subseteq PostedEvents
    BY <1>1, <1>2, <1>6, <2>1 DEF Handlers, PostedEvents
  <2> QED BY <1>1, <1>2, <1>4, <1>5, <1>6, <2>1, <2>2, <2>3, <2>4, HandlersKeptAt
<1>10. Waits'
  BY <1>1, <1>2, <1>4, WaitsKept DEF Waits, agentVars
<1>11. KernelOrder'
  BY <1>1, <1>2, <1>3, <1>5, KernelKept DEF FromKernel, Published
<1>12. SourceOrder'
  BY <1>1, <1>2, <1>4, SourceOrderKept
<1>13. Sunk'
  <2>1. requests[r].step # "done" /\ requests'[r].step # "done"
    BY <1>2, <1>4
  <2> QED BY <1>1, <1>2, <1>4, <2>1, SinkKept
<1>14. CountersAgree'
  <2>1. CountedRequests' = CountedRequests
    BY <1>2, <1>4 DEF CountedRequests
  <2>2. CountedEvents' = CountedEvents /\ Published' = Published
    BY <1>2, <1>4, <2>1 DEF CountedEvents, CountedRequests, Published
  <2> QED BY <1>1, <1>2, <2>2, CountersMean
<1> QED BY <1>7, <1>8, <1>9, <1>10, <1>11, <1>12, <1>13, <1>14 DEF IInv

LEMMA ConcatAdds ==
  ASSUME NEW S, NEW s \in Seq(S), NEW t \in Seq(S)
  PROVE  /\ s \o t \in Seq(S) /\ Len(s \o t) = Len(s) + Len(t)
         /\ ToSet(s \o t) = ToSet(s) \cup ToSet(t)
<1>1. /\ s \o t \in Seq(S) /\ Len(s \o t) = Len(s) + Len(t) /\ Len(s) \in Nat /\ Len(t) \in Nat
      /\ \A i \in 1..(Len(s) + Len(t)) : (s \o t)[i] = IF i <= Len(s) THEN s[i] ELSE t[i - Len(s)]
  BY ConcatProperties, LenProperties
<1>2. /\ \A x : x \in ToSet(s) <=> \E i \in 1..Len(s) : s[i] = x
      /\ \A x : x \in ToSet(t) <=> \E i \in 1..Len(t) : t[i] = x
      /\ \A x : x \in ToSet(s \o t) <=> \E i \in 1..(Len(s) + Len(t)) : (s \o t)[i] = x
  BY <1>1, ElementsOf
<1>3. ToSet(s \o t) \subseteq ToSet(s) \cup ToSet(t)
  <2>1. \A i \in 1..(Len(s) + Len(t)) : i \in 1..Len(s) \/ i - Len(s) \in 1..Len(t)
    BY <1>1
  <2>2. \A i \in 1..(Len(s) + Len(t)) : ~(i <= Len(s)) => i - Len(s) \in 1..Len(t)
    BY <1>1
  <2>3. \A i \in 1..(Len(s) + Len(t)) : i <= Len(s) => i \in 1..Len(s)
    BY <1>1
  <2>4. \A i \in 1..(Len(s) + Len(t)) : (s \o t)[i] \in ToSet(s) \cup ToSet(t)
    BY <1>1, <1>2, <2>2, <2>3
  <2> QED BY <1>2, <2>4
<1>4. ToSet(s) \subseteq ToSet(s \o t)
  <2>1. \A i \in 1..Len(s) : i \in 1..(Len(s) + Len(t)) /\ i <= Len(s)
    BY <1>1
  <2>2. \A i \in 1..Len(s) : (s \o t)[i] = s[i]
    BY <1>1, <2>1
  <2> QED BY <1>2, <2>1, <2>2
<1>5. ToSet(t) \subseteq ToSet(s \o t)
  <2>1. \A i \in 1..Len(t) : i + Len(s) \in 1..(Len(s) + Len(t)) /\ ~(i + Len(s) <= Len(s)) /\ (i + Len(s)) - Len(s) = i
    BY <1>1
  <2>2. \A i \in 1..Len(t) : (s \o t)[i + Len(s)] = t[i]
    BY <1>1, <2>1
  <2> QED BY <1>2, <2>1, <2>2
<1> QED BY <1>1, <1>3, <1>4, <1>5

LEMMA SaveKeeps ==
  ASSUME IInv, NEW r \in Requests, Save(r)
  PROVE  IInv'
<1> DEFINE moved == [requests[r] EXCEPT !.step = "done"]
           kept == Only(ValidEvents(r), Persistent)
<1>1. Typed /\ Underway /\ Handlers /\ Waits /\ KernelOrder /\ SourceOrder /\ Sunk /\ CountersAgree
  BY DEF IInv
<1>2. /\ UNCHANGED <<agentVars, streamVars, recorded, refused, lost, invalid, kernelVars>>
      /\ requests[r].step = "saving" /\ requests' = [requests EXCEPT ![r] = moved]
      /\ saved' = saved \o kept
      /\ counters' = [counters EXCEPT !.persisted = @ + Len(kept)]
  BY DEF Save
<1>3. /\ requests[r] \in Request /\ r \in 1..Len(requests) /\ Ev(r) \subseteq AppEvent
      /\ r \in Publisher \ {Sensor}
  BY <1>1, RequestTyped, PlacesTyped
<1>4. /\ kept \in Seq(AppEvent) /\ ToSet(kept) = Ev(r) \cap Valid \cap Persistent /\ Len(kept) \in Nat
      /\ \A e \in Ev(r) : (e \in Valid <=> IsValid(e)) /\ (e \in Persistent <=> ShouldPersist(e))
  <2>1. ValidEvents(r) \in Seq(AppEvent) /\ ToSet(ValidEvents(r)) = Ev(r) \cap Valid
    BY <1>1, ValidOfRequest
  <2>2. kept \in Seq(AppEvent) /\ ToSet(kept) = Ev(r) \cap Valid \cap Persistent
    BY <2>1, OnlySelects
  <2> HIDE DEF kept
  <2>3. Len(kept) \in Nat
    BY <2>2, ElementsOf
  <2> QED BY <1>3, <2>2, <2>3 DEF Valid, Persistent
<1> HIDE DEF kept
<1>5. /\ requests' \in Seq(Request) /\ Len(requests') = Len(requests) /\ Requests' = Requests
      /\ requests'[r].step = "done" /\ requests'[r].awaited = requests[r].awaited
      /\ requests'[r].overdue = requests[r].overdue
      /\ \A x \in Requests \ {r} : requests'[x] = requests[x]
      /\ \A x \in Requests : requests'[x].events = requests[x].events
      /\ \A x \in Requests : Ev(x)' = Ev(x)
      /\ PostedEvents' = PostedEvents
  <2>1. /\ moved \in Request /\ moved.events = requests[r].events /\ moved.step = "done"
        /\ moved.awaited = requests[r].awaited /\ moved.overdue = requests[r].overdue
    BY <1>2, <1>3 DEF Request, Step
  <2> HIDE DEF moved
  <2> QED BY <1>1, <1>2, <2>1, RequestMoves
<1> HIDE DEF moved
<1>6. /\ Published' = Published /\ UNCHANGED <<invalid, pushed, publishing, published, lost>>
      /\ \A p : ToPush(p)' = ToPush(p) /\ ToSend(p)' = ToSend(p)
  BY <1>2 DEF Published, streamVars, ToPush, ToSend, Unsent
<1>7. ToPush(r) = {} /\ ToSend(r) = {} /\ publishing[r] = Resting
  <2>1. publishing[r] = Resting /\ publishing[r].left = <<>>
    <3>1. publishing[r] = Resting
      BY <1>1, <1>2, <1>3 DEF Handlers
    <3> QED BY <3>1 DEF Resting
  <2> QED BY <1>1, <1>3, <2>1, PublishersTyped
<1>8. /\ saved' \in Seq(AppEvent) /\ Len(saved') = Len(saved) + Len(kept)
      /\ ToSet(saved') = ToSet(saved) \cup (Ev(r) \cap Valid \cap Persistent)
  BY SMTT(30), <1>1, <1>2, <1>4, ConcatAdds DEF Typed
<1>9. /\ counters' \in [ingested : Nat, invalid : Nat, persisted : Nat]
      /\ counters'.persisted = counters.persisted + Len(kept)
      /\ counters'.invalid = counters.invalid /\ counters'.ingested = counters.ingested
  <2>1. counters \in [ingested : Nat, invalid : Nat, persisted : Nat] /\ counters.persisted + Len(kept) \in Nat
    BY <1>1, <1>4 DEF Typed
  <2> QED BY <1>2, <2>1
<1>10. Typed'
  BY <1>1, <1>2, <1>5, <1>8, <1>9 DEF Typed, agentVars, streamVars, kernelVars, Request
<1>11. Underway'
  BY <1>1, <1>2, <1>5, UnderwayKept DEF agentVars, Collected, Underway
<1>12. Handlers'
  <2>1. \A e \in Ev(r) : Handled(r, e)'
    BY <1>1, <1>2, <1>5, <1>6, <1>7 DEF Handlers, Handled, IsValid
  <2>2. Handling(r)'
    BY <1>5, <1>6, <1>7 DEF Handling
  <2>3. lost' \cup invalid' \cup (Published' \cap AppEvent) \subseteq PostedEvents
    BY <1>1, <1>2, <1>6 DEF Handlers
  <2> QED BY <1>1, <1>2, <1>5, <1>6, <2>1, <2>2, <2>3, HandlersKeptAt
<1>13. Waits'
  BY <1>1, <1>2, <1>5, WaitsKept DEF Waits, agentVars
<1>14. KernelOrder'
  BY <1>1, <1>2, KernelKept DEF streamVars, FromKernel, Published
<1>15. SourceOrder'
  BY <1>1, <1>2, <1>5, SourceOrderKept DEF streamVars
<1>16. Sunk'
  <2>1. Ev(r) \cap Valid \subseteq ToSet(pushed)
    BY <1>1, <1>2, <1>4, <1>7 DEF Handlers, Handled
  <2>2. /\ ToSet(pushed') \subseteq Published'
        /\ ToSet(saved') \subseteq Persistent \cap Valid \cap ToSet(pushed') \cap PostedEvents'
    BY <1>1, <1>5, <1>6, <1>8, <2>1 DEF Sunk, PostedEvents
  <2>3. ASSUME NEW x \in Requests, NEW e \in Ev(x)
        PROVE  e \in ToSet(saved') <=> requests'[x].step = "done" /\ IsValid(e) /\ ShouldPersist(e)
    <3>1. e \in ToSet(saved) <=> requests[x].step = "done" /\ IsValid(e) /\ ShouldPersist(e)
      BY <1>1 DEF Sunk
    <3>2. CASE x = r
      BY <1>2, <1>4, <1>5, <1>8, <3>1, <3>2
    <3>3. CASE x # r
      <4>1. e \notin Ev(r)
        BY <1>1, <3>3, Disjoint
      <4> QED BY <1>5, <1>8, <3>1, <3>3, <4>1
    <3> QED BY <3>2, <3>3
  <2> QED BY <1>5, <2>2, <2>3 DEF Sunk, IsValid, ShouldPersist
<1>17. CountersAgree'
  <2>1. CountedRequests' = CountedRequests
    BY <1>2, <1>5 DEF CountedRequests
  <2>2. CountedEvents' = CountedEvents
    BY <1>5, <2>1 DEF CountedEvents, CountedRequests
  <2> QED BY <1>1, <1>6, <1>8, <1>9, <2>2, CountersMean
<1> QED BY <1>10, <1>11, <1>12, <1>13, <1>14, <1>15, <1>16, <1>17 DEF IInv

-----------------------------------------------------------------------------
(* The native sensor.                                                      *)

\* Steps of the sensor that broadcast nothing leave the application's events.
LEMMA ApplicationRests ==
  ASSUME IInv, UNCHANGED <<agentVars, published, pushed, recorded, refused, requests, serverVars>>,
         \A p \in Publisher \ {Sensor} : publishing'[p] = publishing[p]
  PROVE  /\ Underway' /\ Handlers' /\ Waits' /\ SourceOrder' /\ Sunk' /\ CountersAgree'
         /\ FromKernel' = FromKernel
<1>1. Typed /\ Underway /\ Handlers /\ Waits /\ KernelOrder /\ SourceOrder /\ Sunk /\ CountersAgree
  BY DEF IInv
<1>2. /\ Requests' = Requests /\ PostedEvents' = PostedEvents /\ \A r : Ev(r)' = Ev(r)
      /\ CountedEvents' = CountedEvents /\ Collected' = Collected
      /\ Published' = Published /\ FromKernel' = FromKernel
  BY DEF Requests, PostedEvents, Ev, CountedEvents, CountedRequests, Collected, agentVars, Published, FromKernel
<1>3. Underway'
  BY <1>1, <1>2, UnderwayKept DEF agentVars, Underway
<1>4. Handlers'
  <2>1. {} \in SUBSET Requests
    OBVIOUS
  <2>2. lost' \cup invalid' \cup (Published' \cap AppEvent) \subseteq PostedEvents
    BY <1>1, <1>2 DEF Handlers, serverVars
  <2> QED BY <1>1, <1>2, <2>1, <2>2, HandlersKept DEF serverVars
<1>5. Waits'
  BY <1>1, <1>2 DEF Waits, agentVars
<1>6. SourceOrder'
  BY <1>1, <1>2, SourceOrderKept
<1>7. Sunk'
  BY <1>1, <1>2, SinkKept DEF serverVars
<1>8. CountersAgree'
  BY <1>1, <1>2, CountersMean DEF serverVars
<1> QED BY <1>2, <1>3, <1>4, <1>5, <1>6, <1>7, <1>8

LEMMA KernelEventKeeps ==
  ASSUME IInv, KernelEvent
  PROVE  IInv'
<1> DEFINE event == [from |-> "kernel", n |-> kernel + 1]
<1>1. /\ UNCHANGED <<agentVars, streamVars, recorded, refused, requests, serverVars, channel>>
      /\ kernel < MaxKernel /\ kernel' = kernel + 1
      /\ ring' = Append(ring, event) \/ ring' = ring
  BY DEF KernelEvent
<1>2. Typed /\ KernelOrder
  BY DEF IInv
<1>3. /\ Underway' /\ Handlers' /\ Waits' /\ SourceOrder' /\ Sunk' /\ CountersAgree'
      /\ FromKernel' = FromKernel
  BY <1>1, ApplicationRests DEF streamVars
<1>4. /\ event \in KernelEvents /\ event.n = kernel + 1 /\ kernel \in Nat /\ kernel' \in 0..MaxKernel
      /\ ring \in Seq(KernelEvents) /\ InOrder(ring) /\ ToSet(ring) \subseteq KernelEvents
  <2>1. MaxKernel \in Nat /\ kernel \in 0..MaxKernel
    BY <1>2, PipelineAssumption DEF Typed, PipelineAssumption
  <2>2. kernel + 1 \in 1..MaxKernel /\ kernel + 1 \in 0..MaxKernel
    BY <1>1, <2>1
  <2>3. event \in KernelEvents /\ event.n = kernel + 1
    BY <2>2 DEF KernelEvents
  <2>4. ring \in Seq(KernelEvents) /\ InOrder(ring) /\ ToSet(ring) \subseteq KernelEvents
    BY <1>2, PlacesTyped DEF Typed, KernelOrder
  <2> QED BY <1>1, <2>1, <2>2, <2>3, <2>4
<1> HIDE DEF event
<1>5. \A e \in FromKernel \cup ToPush(Sensor) \cup ToSet(channel) \cup ToSet(ring) : e.n <= kernel /\ e.n \in Int
  <2>1. FromKernel \cup ToPush(Sensor) \cup ToSet(channel) \cup ToSet(ring) \subseteq KernelEvents
    BY <1>2, PlacesTyped DEF KernelOrder
  <2> QED BY <1>2, <2>1, EventsTyped DEF KernelOrder
<1>6. /\ ring' \in Seq(KernelEvents) /\ InOrder(ring')
      /\ ToSet(ring') \subseteq ToSet(ring) \cup {event}
  <2>1. Before(ToSet(ring), {event})
    BY <1>4, <1>5 DEF Before
  <2>2. CASE ring' = ring
    BY <1>4, <2>2
  <2>3. CASE ring' = Append(ring, event)
    BY <1>4, <2>1, <2>3, AppendAdds, OrderGrows
  <2> QED BY <1>1, <2>2, <2>3
<1>7. Typed'
  BY <1>1, <1>2, <1>4, <1>6 DEF Typed, agentVars, streamVars, serverVars
<1>8. KernelOrder'
  <2>1. /\ ToPush(Sensor)' = ToPush(Sensor) /\ ToSend(Sensor)' = ToSend(Sensor)
        /\ publishing' = publishing /\ channel' = channel
    BY <1>1 DEF ToPush, ToSend, Unsent, streamVars
  <2>2. Before(FromKernel \cup ToPush(Sensor) \cup ToSet(channel), ToSet(ring'))
    <3>1. Before(FromKernel \cup ToPush(Sensor) \cup ToSet(channel), ToSet(ring))
      BY <1>2 DEF KernelOrder
    <3>2. \A e \in FromKernel \cup ToPush(Sensor) \cup ToSet(channel) : e.n < event.n
      BY <1>4, <1>5
    <3> QED BY <1>6, <3>1, <3>2 DEF Before
  <2>3. \A e \in FromKernel \cup ToPush(Sensor) \cup ToSet(channel) \cup ToSet(ring') : e.n <= kernel'
    BY <1>1, <1>4, <1>5, <1>6
  <2> QED BY <1>2, <1>3, <1>6, <2>1, <2>2, <2>3 DEF KernelOrder, Before, InOrder
<1> QED BY <1>3, <1>7, <1>8 DEF IInv

LEMMA PollKeeps ==
  ASSUME IInv, PollRing
  PROVE  IInv'
<1> DEFINE event == Head(ring)
<1>1. /\ UNCHANGED <<agentVars, streamVars, recorded, refused, requests, serverVars, kernel>>
      /\ ring # <<>> /\ channel' = Append(channel, event) /\ ring' = Tail(ring)
  BY DEF PollRing
<1>2. Typed /\ KernelOrder
  BY DEF IInv
<1>3. /\ Underway' /\ Handlers' /\ Waits' /\ SourceOrder' /\ Sunk' /\ CountersAgree'
      /\ FromKernel' = FromKernel
  BY <1>1, ApplicationRests DEF streamVars
<1>4. /\ ring \in Seq(KernelEvents) /\ channel \in Seq(KernelEvents) /\ InOrder(ring) /\ InOrder(channel)
      /\ Before(ToSet(channel), ToSet(ring))
  BY <1>2 DEF Typed, KernelOrder, Before
<1>5. /\ event \in KernelEvents /\ ring' \in Seq(KernelEvents) /\ InOrder(ring')
      /\ ToSet(ring) = ToSet(ring') \cup {event} /\ Before({event}, ToSet(ring'))
  BY <1>1, <1>4, HeadLeaves
<1> HIDE DEF event
<1>6. /\ channel' \in Seq(KernelEvents) /\ InOrder(channel') /\ ToSet(channel') = ToSet(channel) \cup {event}
  <2>1. Before(ToSet(channel), {event})
    BY <1>4, <1>5 DEF Before
  <2> QED BY <1>1, <1>4, <1>5, <2>1, AppendAdds, OrderGrows
<1>7. Typed'
  BY <1>1, <1>2, <1>5, <1>6 DEF Typed, agentVars, streamVars, serverVars
<1>8. KernelOrder'
  <2>1. /\ ToPush(Sensor)' = ToPush(Sensor) /\ ToSend(Sensor)' = ToSend(Sensor)
        /\ publishing' = publishing /\ kernel' = kernel
    BY <1>1 DEF ToPush, ToSend, Unsent, streamVars
  <2>2. Before(FromKernel \cup ToPush(Sensor), ToSet(channel'))
    BY <1>2, <1>5, <1>6 DEF KernelOrder, Before
  <2>3. Before(FromKernel \cup ToPush(Sensor) \cup ToSet(channel'), ToSet(ring'))
    BY <1>2, <1>5, <1>6 DEF KernelOrder, Before
  <2>4. \A e \in FromKernel \cup ToPush(Sensor) \cup ToSet(channel') \cup ToSet(ring') : e.n <= kernel
    BY <1>2, <1>5, <1>6 DEF KernelOrder
  <2> QED BY <1>2, <1>3, <1>5, <1>6, <2>1, <2>2, <2>3, <2>4 DEF KernelOrder, Before, InOrder
<1> QED BY <1>3, <1>7, <1>8 DEF IInv

LEMMA ForwardKeeps ==
  ASSUME IInv, Forward
  PROVE  IInv'
<1> DEFINE event == Head(channel)
<1>1. /\ UNCHANGED <<agentVars, published, backlog, pushed, recorded, refused, requests, serverVars, kernel, ring>>
      /\ channel # <<>> /\ Started(Sensor, <<event>>) /\ channel' = Tail(channel)
  BY DEF Forward
<1>2. Typed /\ KernelOrder
  BY DEF IInv
<1>3. /\ channel \in Seq(KernelEvents) /\ InOrder(channel)
  BY <1>2 DEF Typed, KernelOrder
<1>4. /\ event \in KernelEvents /\ channel' \in Seq(KernelEvents) /\ InOrder(channel')
      /\ ToSet(channel) = ToSet(channel') \cup {event} /\ Before({event}, ToSet(channel'))
  BY <1>1, <1>3, HeadLeaves
<1> HIDE DEF event
<1>5. /\ <<event>> \in Seq(AnyEvent) /\ ToSet(<<event>>) = {event} /\ InOrder(<<event>>)
  <2>1. event \in AnyEvent
    BY <1>4, EventsTyped
  <2>2. <<event>> \in Seq(AnyEvent) /\ Len(<<event>>) = 1 /\ <<event>>[1] = event
    BY <2>1
  <2>3. \A x : x \in ToSet(<<event>>) <=> x = event
    <3>1. \A x : x \in ToSet(<<event>>) <=> \E i \in 1..Len(<<event>>) : <<event>>[i] = x
      BY <2>2, ElementsOf
    <3>2. \A i \in 1..Len(<<event>>) : i = 1
      BY <2>2
    <3>3. 1 \in 1..Len(<<event>>)
      BY <2>2
    <3> QED BY <2>2, <3>1, <3>2, <3>3
  <2> QED BY <2>2, <2>3 DEF InOrder
<1>6. /\ publishing' \in [Publisher -> [left : Seq(AnyEvent), sent : BOOLEAN]]
      /\ publishing'[Sensor].left = <<event>>
      /\ \A x \in Publisher \ {Sensor} : publishing'[x] = publishing[x]
      /\ \A x \in Publisher : publishing'[x].sent => publishing'[x].left # <<>>
      /\ ToPush(Sensor)' = {event} /\ ToSend(Sensor)' = {event}
  BY <1>1, <1>2, <1>5, Starts, PlacesTyped
<1>7. /\ Underway' /\ Handlers' /\ Waits' /\ SourceOrder' /\ Sunk' /\ CountersAgree'
      /\ FromKernel' = FromKernel
  BY <1>1, <1>6, ApplicationRests
<1>8. Typed'
  BY <1>1, <1>2, <1>4, <1>6 DEF Typed, agentVars, serverVars
<1>9. KernelOrder'
  <2>1. /\ Before(FromKernel, {event}) /\ Before(FromKernel \cup {event}, ToSet(channel'))
        /\ Before(FromKernel \cup {event} \cup ToSet(channel'), ToSet(ring))
    BY <1>2, <1>4 DEF KernelOrder, Before
  <2>2. \A e \in FromKernel \cup {event} \cup ToSet(channel') \cup ToSet(ring) : e.n <= kernel
    BY <1>2, <1>4 DEF KernelOrder
  <2>3. InOrder(publishing'[Sensor].left)
    BY <1>5, <1>6
  <2>4. ring' = ring /\ kernel' = kernel /\ InOrder(ring)
    BY <1>1, <1>2 DEF KernelOrder
  <2> QED BY <1>4, <1>6, <1>7, <2>1, <2>2, <2>3, <2>4 DEF KernelOrder, Before, InOrder
<1> QED BY <1>7, <1>8, <1>9 DEF IInv

LEMMA StutterKeeps ==
  ASSUME IInv, UNCHANGED pipelineVars
  PROVE  IInv'
<1>1. UNCHANGED <<agentVars, published, pushed, recorded, refused, requests, serverVars, publishing, kernelVars>>
  BY DEF pipelineVars, streamVars
<1>2. Typed /\ KernelOrder
  BY DEF IInv
<1>3. /\ Underway' /\ Handlers' /\ Waits' /\ SourceOrder' /\ Sunk' /\ CountersAgree'
      /\ FromKernel' = FromKernel
  BY <1>1, ApplicationRests
<1>4. Typed'
  BY <1>1, <1>2 DEF Typed, agentVars, serverVars, kernelVars
<1>5. KernelOrder'
  BY <1>1, <1>2, <1>3, KernelKept
<1> QED BY <1>3, <1>4, <1>5 DEF IInv

LEMMA PipelineStepInv ==
  ASSUME IInv, [PipelineNext]_pipelineVars
  PROVE  IInv'
<1>1. CASE \E k \in Kind : RecordEvent(k)
  BY <1>1, RecordKeeps
<1>2. CASE CloseAgent \/ EndAgent
  BY <1>2, CloseKeeps
<1>3. CASE ReceiveEvent
  BY <1>3, ReceiveKeeps
<1>4. CASE PostBatch
  BY <1>4, PostKeeps
<1>5. ASSUME NEW r \in Requests, Answered(r) \/ GivesUp(r) PROVE IInv'
  BY <1>5, AnswerKeeps
<1>6. ASSUME NEW r \in Requests, Lose(r) PROVE IInv'
  BY <1>6, LoseKeeps
<1>7. ASSUME NEW r \in Requests, Arrive(r) PROVE IInv'
  BY <1>7, ArriveKeeps
<1>8. ASSUME NEW r \in Requests, HandlerDone(r) PROVE IInv'
  BY <1>8, DoneKeeps
<1>9. ASSUME NEW r \in Requests, HandlerDropped(r) PROVE IInv'
  BY <1>9, DroppedKeeps
<1>10. ASSUME NEW r \in Requests, Save(r) PROVE IInv'
  BY <1>10, SaveKeeps
<1>11. ASSUME NEW p \in Publisher, SendEvent(p) PROVE IInv'
  BY <1>11, SendKeeps
<1>12. ASSUME NEW p \in Publisher, PushEvent(p) PROVE IInv'
  BY <1>12, PushKeeps
<1>13. CASE KernelEvent
  BY <1>13, KernelEventKeeps
<1>14. CASE PollRing
  BY <1>14, PollKeeps
<1>15. CASE Forward
  BY <1>15, ForwardKeeps
<1>16. CASE UNCHANGED pipelineVars
  BY <1>16, StutterKeeps
<1> QED BY <1>1, <1>2, <1>3, <1>4, <1>5, <1>6, <1>7, <1>8, <1>9, <1>10, <1>11, <1>12, <1>13, <1>14, <1>15,
           <1>16 DEF PipelineNext

LEMMA PipelineInv == PipelineSpec => []IInv
<1>1. PipelineInit => IInv
  BY PipelineInitInv
<1>2. IInv /\ [PipelineNext]_pipelineVars => IInv'
  BY PipelineStepInv
<1> QED BY <1>1, <1>2, PTL DEF PipelineSpec

-----------------------------------------------------------------------------
(* Every event is in one place.                                            *)

Handed == UNION {InHand(r) : r \in Requests}
AppPublished == {e \in Published : e.from = "app"}

LEMMA PlacesAre ==
  /\ DOMAIN Places = 1..7
  /\ Places[1] = refused /\ Places[2] = Queued /\ Places[3] = Collected /\ Places[4] = Handed
  /\ Places[5] = lost /\ Places[6] = invalid /\ Places[7] = AppPublished
BY DEF Places, Queued, Collected, Handed, AppPublished, Published

LEMMA HandedIsPosted ==
  ASSUME Typed, Handlers, NEW r \in Requests
  PROVE  InHand(r) \subseteq Ev(r)
<1>1. r \in Publisher \ {Sensor}
  BY PlacesTyped
<1>2. ToSend(r) \subseteq ToPush(r)
  BY <1>1, PublishersTyped
<1>3. requests[r].step = "publishing" => ToPush(r) \subseteq Ev(r)
  BY <1>1 DEF Handlers
<1> QED BY <1>2, <1>3 DEF InHand, Ev, ToSend

\* An event of a request is handed on, or lost, or invalid, or broadcast.
LEMMA OneFateInRequest ==
  ASSUME IInv, NEW r \in Requests, NEW e \in Ev(r)
  PROVE  /\ e \in Handed \/ e \in lost \/ e \in invalid \/ e \in AppPublished
         /\ e \in Handed => e \notin lost /\ e \notin invalid /\ e \notin AppPublished
         /\ e \in lost => e \notin invalid /\ e \notin AppPublished
         /\ e \in invalid => e \notin AppPublished
<1>1. Typed /\ Underway /\ Handlers
  BY DEF IInv
<1>2. /\ e \in AppEvent /\ e.from = "app" /\ requests[r].step \in Step
      /\ r \in Publisher \ {Sensor} /\ (e \in Valid <=> IsValid(e))
  BY <1>1, PlacesTyped, EventsTyped DEF Valid
<1>3. e \in AppPublished <=> e \in Published
  BY <1>2 DEF AppPublished
<1>4. /\ requests[r].step = "publishing" => ToSend(r) \subseteq Ev(r) \cap Valid
      /\ requests[r].step # "publishing" => ToSend(r) = {}
  <2>1. ToSend(r) \subseteq ToPush(r) /\ (publishing[r].left = <<>> => ToSend(r) = {})
    BY <1>1, <1>2, PublishersTyped
  <2>2. CASE requests[r].step = "publishing"
    BY <1>1, <1>2, <2>1, <2>2 DEF Handlers
  <2>3. CASE requests[r].step # "publishing"
    <3>1. publishing[r] = Resting
      BY <1>1, <1>2, <2>3 DEF Handlers
    <3>2. publishing[r].left = <<>>
      BY <3>1 DEF Resting
    <3> QED BY <2>1, <2>3, <3>2
  <2> QED BY <2>2, <2>3
<1>6. e \in Handed <=> e \in InHand(r)
  BY <1>1, HandedIsPosted, Disjoint DEF Handed
<1>7. e \in Handed <=> requests[r].step = "travelling" \/ (requests[r].step = "publishing" /\ e \in ToSend(r))
  BY <1>6 DEF InHand, Ev, ToSend
<1>8. Handled(r, e)
  BY <1>1 DEF Handlers
<1> QED BY <1>2, <1>3, <1>4, <1>7, <1>8 DEF Handled, Step

LEMMA OnePlace ==
  ASSUME IInv, NEW e \in Recorded
  PROVE  \E k \in 1..7 : \A l \in 1..7 : e \in Places[l] <=> l = k
<1>1. Typed /\ Underway /\ Handlers
  BY DEF IInv
<1>2. /\ Recorded = refused \cup Queued \cup Collected \cup PostedEvents
      /\ refused \cap (Queued \cup Collected \cup PostedEvents) = {}
  BY <1>1 DEF Underway
<1>3. e.n \in Int
  BY <1>1, PlacesTyped, EventsTyped
<1>4. /\ ~(e \in Collected /\ e \in Queued) /\ ~(e \in PostedEvents /\ e \in Collected)
      /\ ~(e \in PostedEvents /\ e \in Queued)
  <2>1. ~(e.n < e.n)
    BY <1>3
  <2> QED BY <1>1, <2>1 DEF Underway, Before
<1>5. e \in Handed \/ e \in lost \/ e \in invalid \/ e \in AppPublished => e \in PostedEvents
  <2>1. lost \cup invalid \cup (Published \cap AppEvent) \subseteq PostedEvents
    BY <1>1 DEF Handlers
  <2>2. AppPublished \subseteq Published \cap AppEvent
    BY <1>1, PlacesTyped, EventsTyped DEF AppPublished
  <2>3. Handed \subseteq PostedEvents
    BY <1>1, HandedIsPosted DEF Handed, PostedEvents
  <2> QED BY <2>1, <2>2, <2>3
<1>6. e \in PostedEvents =>
        /\ e \in Handed \/ e \in lost \/ e \in invalid \/ e \in AppPublished
        /\ e \in Handed => e \notin lost /\ e \notin invalid /\ e \notin AppPublished
        /\ e \in lost => e \notin invalid /\ e \notin AppPublished
        /\ e \in invalid => e \notin AppPublished
  BY OneFateInRequest DEF PostedEvents
<1>7. \A l \in 1..7 : e \in Places[l] <=> \/ l = 1 /\ e \in refused
                                          \/ l = 2 /\ e \in Queued
                                          \/ l = 3 /\ e \in Collected
                                          \/ l = 4 /\ e \in Handed
                                          \/ l = 5 /\ e \in lost
                                          \/ l = 6 /\ e \in invalid
                                          \/ l = 7 /\ e \in AppPublished
  <2> SUFFICES ASSUME NEW l \in 1..7
               PROVE  e \in Places[l] <=> \/ l = 1 /\ e \in refused
                                          \/ l = 2 /\ e \in Queued
                                          \/ l = 3 /\ e \in Collected
                                          \/ l = 4 /\ e \in Handed
                                          \/ l = 5 /\ e \in lost
                                          \/ l = 6 /\ e \in invalid
                                          \/ l = 7 /\ e \in AppPublished
    OBVIOUS
  <2>1. l = 1 \/ l = 2 \/ l = 3 \/ l = 4 \/ l = 5 \/ l = 6 \/ l = 7
    OBVIOUS
  <2> QED BY <2>1, PlacesAre
<1>8. PICK k \in 1..7 : e \in Places[k]
  <2>1. \/ e \in refused \/ e \in Queued \/ e \in Collected
        \/ e \in Handed \/ e \in lost \/ e \in invalid \/ e \in AppPublished
    BY <1>2, <1>6
  <2>2. 1 \in 1..7 /\ 2 \in 1..7 /\ 3 \in 1..7 /\ 4 \in 1..7 /\ 5 \in 1..7 /\ 6 \in 1..7 /\ 7 \in 1..7
    OBVIOUS
  <2> QED BY <2>1, <2>2, PlacesAre
<1>9. \A l \in 1..7 : e \in Places[l] => l = k
  BY <1>2, <1>4, <1>5, <1>6, <1>7, <1>8
<1> QED BY <1>8, <1>9

\* Every event the application records is in exactly one place, whatever is lost,
\* late or given up on the way.
THEOREM PipelineAccounts == PipelineSpec => []Accounted
<1>1. IInv => Accounted
  <2> SUFFICES ASSUME IInv, NEW i \in DOMAIN recorded
               PROVE  Cardinality({k \in DOMAIN Places : recorded[i] \in Places[k]}) = 1
    BY DEF Accounted
  <2>1. recorded[i] \in Recorded
    BY DEF Recorded, ToSet
  <2>2. PICK k \in 1..7 : \A l \in 1..7 : recorded[i] \in Places[l] <=> l = k
    BY <2>1, OnePlace
  <2>3. {l \in DOMAIN Places : recorded[i] \in Places[l]} = {k}
    BY <2>2, PlacesAre
  <2> QED BY <2>3, FS_Singleton
<1> QED BY <1>1, PipelineInv, PTL

\* Events of one source are broadcast in the order of their recording, unless the
\* request of the earlier one was given up while it was handled.
THEOREM SourcesKeepOrder == PipelineSpec => []SourceOrder
<1>1. IInv => SourceOrder
  BY DEF IInv
<1> QED BY <1>1, PipelineInv, PTL

\* The sink holds significant events that were pushed before, and all of those of
\* every request whose save is done.
THEOREM SinkFollows == PipelineSpec => []SinkFollowsStream
<1>1. IInv => SinkFollowsStream
  <2> SUFFICES ASSUME IInv PROVE SinkFollowsStream
    OBVIOUS
  <2>1. Sunk
    BY DEF IInv
  <2>2. ASSUME NEW i \in DOMAIN saved PROVE ShouldPersist(saved[i]) /\ saved[i] \in ToSet(pushed)
    <3>1. saved[i] \in ToSet(saved)
      BY DEF ToSet
    <3> QED BY <2>1, <3>1 DEF Sunk, Persistent
  <2>3. \A r \in Requests : requests[r].step = "done" =>
          \A e \in Ev(r) : IsValid(e) /\ ShouldPersist(e) => e \in ToSet(saved)
    BY <2>1 DEF Sunk
  <2> QED BY <2>2, <2>3 DEF SinkFollowsStream, Ev
<1> QED BY <1>1, PipelineInv, PTL

\* The counters agree with the events refused, with those broadcast by handlers
\* that came to their end, and with the sink's records.
THEOREM CountersAreRight == PipelineSpec => []CountersAgree
<1>1. IInv => CountersAgree
  BY DEF IInv
<1> QED BY <1>1, PipelineInv, PTL

-----------------------------------------------------------------------------
(* What TelemetryDelivery promises: one fate for each event, for good.     *)

LEMMA RecordedAt ==
  ASSUME Typed
  PROVE  /\ DOMAIN recorded = 1..Len(recorded) /\ Len(recorded) \in 0..MaxRecorded
         /\ \A n \in DOMAIN recorded : recorded[n] \in Recorded /\ recorded[n].n = n
         /\ \A e \in Recorded : e.n \in DOMAIN recorded /\ e.n \in 1..MaxRecorded /\ recorded[e.n] = e
<1>1. /\ DOMAIN recorded = 1..Len(recorded) /\ Len(recorded) \in Nat
      /\ \A e : e \in Recorded <=> \E i \in 1..Len(recorded) : recorded[i] = e
  BY ElementsOf DEF Typed, Recorded
<1>2. Len(recorded) <= MaxRecorded /\ MaxRecorded \in Nat /\ \A i \in 1..Len(recorded) : recorded[i].n = i
  BY PlacesTyped DEF Typed
<1>3. \A n \in 1..Len(recorded) : n \in 1..MaxRecorded
  BY <1>1, <1>2
<1> QED BY <1>1, <1>2, <1>3

\* An event keeps its fate while it keeps its places.
LEMMA FateKept ==
  ASSUME NEW n, n \in DOMAIN recorded' <=> n \in DOMAIN recorded,
         n \in DOMAIN recorded =>
           /\ recorded'[n] = recorded[n]
           /\ recorded[n] \in refused' <=> recorded[n] \in refused
           /\ recorded[n] \in invalid' <=> recorded[n] \in invalid
           /\ recorded[n] \in lost' <=> recorded[n] \in lost
           /\ recorded[n] \in Published' <=> recorded[n] \in Published
  PROVE  FateOf(n)' = FateOf(n)
BY DEF FateOf, Published

LEMMA FateHeld ==
  ASSUME NEW n \in DOMAIN recorded, recorded[n] \notin refused, recorded[n] \notin invalid,
         recorded[n] \notin lost, recorded[n] \notin Published
  PROVE  FateOf(n) = "held"
BY DEF FateOf, Published

\* An event that is published or in a request was not refused.
LEMMA FateOfPosted ==
  ASSUME IInv, NEW e \in PostedEvents
  PROVE  /\ e \in Recorded /\ e.n \in DOMAIN recorded /\ e.n \in 1..MaxRecorded
         /\ recorded[e.n] = e /\ e \notin refused
<1>1. e \in Recorded /\ e \notin refused /\ Typed
  BY DEF IInv, Underway
<1> QED BY <1>1, RecordedAt

LEMMA DeliveryStarts == PipelineInit => Delivery!Init
<1> SUFFICES ASSUME PipelineInit PROVE Delivery!Init
  OBVIOUS
<1>1. recorded = <<>> /\ published = <<>> /\ saved = <<>>
  BY DEF PipelineInit, StreamInit
<1>2. DOMAIN recorded = {} /\ DOMAIN saved = {}
  BY <1>1, EmptySeq
<1>3. \A n \in 1..MaxRecorded : FateOf(n) = "unrecorded"
  BY <1>2 DEF FateOf
<1>4. Only(published, AppEvent) = <<>>
  <2>1. <<>> \in Seq(AnyEvent)
    BY EmptySeq
  <2>2. /\ Only(<<>>, AppEvent) \in Seq(AnyEvent)
        /\ ToSet(Only(<<>>, AppEvent)) = ToSet(<<>>) \cap AppEvent
    BY <2>1, OnlySelects
  <2>3. ToSet(Only(<<>>, AppEvent)) = {}
    BY <2>2, SetOfEmpty
  <2> QED BY <1>1, <2>2, <2>3, ElementsOf
<1>5. [i \in DOMAIN Only(published, AppEvent) |-> Only(published, AppEvent)[i].n] = <<>>
  BY <1>4
<1> QED BY <1>2, <1>3, <1>5 DEF Delivery!Init, Delivery!Event

\* Steps at which no event changes its place of rest.
LEMMA DeliveryRests ==
  ASSUME UNCHANGED <<recorded, refused, invalid, lost, published, saved>>
  PROVE  UNCHANGED Delivery!vars
<1>1. \A n \in 1..MaxRecorded : FateOf(n)' = FateOf(n)
  BY FateKept DEF Published
<1> QED BY <1>1 DEF Delivery!vars

LEMMA DeliveryRecords ==
  ASSUME IInv, NEW k \in Kind, RecordEvent(k)
  PROVE  Delivery!Next
<1> DEFINE event == [from |-> "app", n |-> Len(recorded) + 1, kind |-> k]
<1>1. /\ Len(recorded) < MaxRecorded /\ recorded' = Append(recorded, event)
      /\ refused' = refused \/ refused' = refused \cup {event}
      /\ UNCHANGED <<published, invalid, lost, saved>>
  BY DEF RecordEvent, streamVars, serverVars
<1>2. Typed /\ Underway /\ Handlers
  BY DEF IInv
<1> PICK new \in Nat : new = Len(recorded) + 1
  BY <1>2, RecordedAt
<1>3. /\ DOMAIN recorded = 1..Len(recorded) /\ Len(recorded) \in Nat /\ new \in 1..MaxRecorded
      /\ \A n \in DOMAIN recorded : recorded[n] \in Recorded /\ recorded[n].n = n
      /\ \A e \in Recorded : e.n \in DOMAIN recorded
      /\ MaxRecorded \in Nat
  BY <1>1, <1>2, RecordedAt, PlacesTyped
<1>4. event.n = new /\ event \notin Recorded
  BY <1>3
<1>5. event \in AppEvent
  BY <1>3 DEF AppEvent
<1> HIDE DEF event
<1>6. /\ DOMAIN recorded' = 1..new /\ recorded'[new] = event
      /\ \A n \in DOMAIN recorded : recorded'[n] = recorded[n]
  <2>1. /\ recorded \in Seq(AppEvent) /\ Append(recorded, event) \in Seq(AppEvent)
        /\ Len(Append(recorded, event)) = new
    BY <1>2, <1>5, AppendProperties DEF Typed
  <2>2. DOMAIN Append(recorded, event) = 1..Len(Append(recorded, event))
    BY <2>1, ElementsOf
  <2> QED BY <1>1, <1>3, <1>5, <2>1, <2>2, AppendProperties
<1>7. event \notin refused /\ event \notin invalid /\ event \notin lost /\ event \notin Published
  <2>1. lost \cup invalid \cup (Published \cap AppEvent) \subseteq PostedEvents /\ PostedEvents \cup refused \subseteq Recorded
    BY <1>2 DEF Underway, Handlers
  <2> QED BY <1>4, <1>5, <2>1
<1>8. \A n \in 1..MaxRecorded : n # new => FateOf(n)' = FateOf(n)
  <2> SUFFICES ASSUME NEW n \in 1..MaxRecorded, n # new PROVE FateOf(n)' = FateOf(n)
    OBVIOUS
  <2>1. n \in DOMAIN recorded' <=> n \in DOMAIN recorded
    BY <1>3, <1>6
  <2>2. n \in DOMAIN recorded => recorded'[n] = recorded[n] /\ recorded[n] # event
    BY <1>3, <1>4, <1>6
  <2> QED BY <1>1, <2>1, <2>2, FateKept DEF Published
<1>9. FateOf(new) = "unrecorded" /\ \A n \in 1..(new - 1) : FateOf(n) # "unrecorded"
  <2>1. new \notin DOMAIN recorded /\ \A n \in 1..(new - 1) : n \in DOMAIN recorded
    BY <1>3
  <2> QED BY <2>1 DEF FateOf
<1>10. FateOf(new)' \in {"held", "refused"}
  <2>1. new \in DOMAIN recorded' /\ Published' = Published
    BY <1>1, <1>3, <1>6 DEF Published
  <2> QED BY <1>1, <1>6, <1>7, <2>1 DEF FateOf, Published
<1>11. PICK f \in {"held", "refused"} : FateOf(new)' = f
  BY <1>10
<1>12. [n \in 1..MaxRecorded |-> FateOf(n)]' = [[n \in 1..MaxRecorded |-> FateOf(n)] EXCEPT ![new] = f]
  BY <1>3, <1>8, <1>11
<1>13. Delivery!Record(new)
  <2>1. [n \in 1..MaxRecorded |-> FateOf(n)][new] = "unrecorded"
    BY <1>3, <1>9
  <2>2. \A n \in 1..(new - 1) : [m \in 1..MaxRecorded |-> FateOf(m)][n] # "unrecorded"
    <3>1. \A n \in 1..(new - 1) : n \in 1..MaxRecorded
      BY <1>3
    <3> QED BY <1>9, <3>1
  <2>3. /\ [i \in DOMAIN Only(published, AppEvent) |-> Only(published, AppEvent)[i].n]'
             = [i \in DOMAIN Only(published, AppEvent) |-> Only(published, AppEvent)[i].n]
        /\ {saved[i].n : i \in DOMAIN saved}' = {saved[i].n : i \in DOMAIN saved}
    BY <1>1
  <2> QED BY <1>12, <2>1, <2>2, <2>3 DEF Delivery!Record
<1> QED BY <1>3, <1>13 DEF Delivery!Next, Delivery!Event

\* Events that are lost or found invalid were held until then.
LEMMA DeliveryGivesUp ==
  ASSUME IInv, NEW given \in SUBSET PostedEvents, NEW why \in {"lost", "invalid"},
         UNCHANGED <<recorded, refused, published, saved>>,
         \A e \in given : e \notin invalid /\ e \notin lost /\ e \notin Published,
         IF why = "lost" THEN lost' = lost \cup given /\ invalid' = invalid
                         ELSE invalid' = invalid \cup given /\ lost' = lost
  PROVE  Delivery!Next
<1> DEFINE affected == {n \in DOMAIN recorded : recorded[n] \in given}
<1>1. \A n \in affected : n \in 1..MaxRecorded /\ FateOf(n) = "held" /\ recorded[n] \notin refused
  <2> SUFFICES ASSUME NEW n \in affected
               PROVE  n \in 1..MaxRecorded /\ FateOf(n) = "held" /\ recorded[n] \notin refused
    OBVIOUS
  <2>1. recorded[n] \in PostedEvents /\ recorded[n] \in given /\ n \in DOMAIN recorded
    OBVIOUS
  <2>2. recorded[n] \notin refused
    BY <2>1, FateOfPosted
  <2>3. n \in 1..MaxRecorded
    <3>1. Typed
      BY DEF IInv
    <3>2. DOMAIN recorded = 1..Len(recorded) /\ Len(recorded) \in 0..MaxRecorded /\ MaxRecorded \in Nat
      BY <3>1, RecordedAt, PlacesTyped
    <3> QED BY <2>1, <3>2
  <2> QED BY <2>1, <2>2, <2>3, FateHeld
<1>2. ASSUME NEW n \in 1..MaxRecorded
      PROVE  FateOf(n)' = IF n \in affected THEN why ELSE FateOf(n)
  <2>1. CASE n \in affected
    <3>1. /\ n \in DOMAIN recorded' /\ recorded'[n] = recorded[n] /\ recorded[n] \in given
          /\ recorded[n] \notin refused' /\ recorded[n] \notin ToSet(published')
      BY <1>1, <2>1 DEF Published
    <3>2. CASE why = "lost"
      <4>1. recorded[n] \in lost' /\ recorded[n] \notin invalid'
        BY <3>1, <3>2
      <4> QED BY <2>1, <3>1, <3>2, <4>1 DEF FateOf
    <3>3. CASE why = "invalid"
      <4>1. recorded[n] \in invalid' /\ recorded[n] \notin lost'
        BY <3>1, <3>3
      <4> QED BY <2>1, <3>1, <3>3, <4>1 DEF FateOf
    <3> QED BY <3>2, <3>3
  <2>2. CASE n \notin affected
    <3>1. n \in DOMAIN recorded => recorded[n] \notin given
      BY <2>2
    <3>2. FateOf(n)' = FateOf(n)
      BY <3>1, FateKept DEF Published
    <3> QED BY <2>2, <3>2
  <2> QED BY <2>1, <2>2
<1> HIDE DEF affected
<1>3. affected \in SUBSET {n \in 1..MaxRecorded : [m \in 1..MaxRecorded |-> FateOf(m)][n] = "held"}
  BY <1>1
<1>4. [n \in 1..MaxRecorded |-> FateOf(n)]'
        = [n \in 1..MaxRecorded |-> IF n \in affected THEN why ELSE [m \in 1..MaxRecorded |-> FateOf(m)][n]]
  BY <1>2
<1>5. Delivery!GiveUp(affected, why)
  <2>1. /\ [i \in DOMAIN Only(published, AppEvent) |-> Only(published, AppEvent)[i].n]'
             = [i \in DOMAIN Only(published, AppEvent) |-> Only(published, AppEvent)[i].n]
        /\ {saved[i].n : i \in DOMAIN saved}' = {saved[i].n : i \in DOMAIN saved}
    OBVIOUS
  <2> QED BY <1>4, <2>1 DEF Delivery!GiveUp, Delivery!Event
<1> QED BY <1>3, <1>5 DEF Delivery!Next, Delivery!Held, Delivery!Event

LEMMA DeliveryLoses ==
  ASSUME IInv, NEW r \in Requests, Lose(r) \/ Arrive(r) \/ HandlerDropped(r)
  PROVE  Delivery!Next
<1>1. Typed /\ Handlers /\ Ev(r) \in SUBSET PostedEvents /\ r \in Publisher \ {Sensor} /\ Ev(r) \subseteq AppEvent
  BY PlacesTyped DEF IInv, PostedEvents
<1>2. CASE Lose(r)
  <2>1. /\ UNCHANGED <<recorded, refused, published, saved>> /\ lost' = lost \cup Ev(r) /\ invalid' = invalid
        /\ requests[r].step = "travelling"
    BY <1>2 DEF Lose, Ev, streamVars
  <2>2. \A e \in Ev(r) : e \notin invalid /\ e \notin lost /\ e \notin Published
    BY <1>1, <2>1 DEF Handlers, Handled
  <2> QED BY <1>1, <2>1, <2>2, DeliveryGivesUp
<1>3. CASE Arrive(r)
  <2> DEFINE refusing == {e \in Ev(r) : ~IsValid(e)}
  <2>1. /\ UNCHANGED <<recorded, refused, published, saved>> /\ invalid' = invalid \cup refusing /\ lost' = lost
        /\ requests[r].step = "travelling"
    BY <1>3 DEF Arrive, Ev
  <2>2. refusing \in SUBSET PostedEvents /\ \A e \in refusing : e \notin invalid /\ e \notin lost /\ e \notin Published
    BY <1>1, <2>1 DEF Handlers, Handled
  <2> HIDE DEF refusing
  <2> QED BY <2>1, <2>2, DeliveryGivesUp
<1>4. CASE HandlerDropped(r)
  <2>1. /\ UNCHANGED <<recorded, refused, published, saved, invalid>> /\ lost' = lost \cup ToSend(r)
        /\ requests[r].step = "publishing"
    BY <1>4 DEF HandlerDropped, ToSend, Unsent
  <2>2. ToSend(r) \subseteq Ev(r) \cap Valid
    BY <1>1, <2>1, PublishersTyped DEF Handlers
  <2>3. \A e \in ToSend(r) : e \notin invalid /\ e \notin lost /\ e \notin Published
    BY <1>1, <2>1, <2>2 DEF Handlers, Handled, Valid
  <2> QED BY <1>1, <2>1, <2>2, <2>3, DeliveryGivesUp
<1> QED BY <1>2, <1>3, <1>4

LEMMA DeliveryBroadcasts ==
  ASSUME IInv, NEW p \in Publisher, SendEvent(p)
  PROVE  Delivery!Next \/ UNCHANGED Delivery!vars
<1>1. Typed /\ Handlers /\ KernelOrder
  BY DEF IInv
<1>2. /\ UNCHANGED <<recorded, refused, invalid, lost, saved>> /\ Send(p) /\ publishing[p].left # <<>>
  BY DEF SendEvent, Send, serverVars
<1>3. InOrder(publishing[p].left) /\ (p = Sensor \/ (p \in Requests /\ requests[p].step = "publishing"))
  BY <1>1, <1>2, WhoPublishes
<1>4. PICK e \in AnyEvent :
        /\ e \in ToPush(p) /\ ToSend(p) = ToSend(p)' \cup {e}
        /\ published' = Append(published, e) /\ Published' = Published \cup {e}
  BY <1>1, <1>2, <1>3, Sends
<1>5. published \in Seq(AnyEvent) /\ Only(published, AppEvent) \in Seq(AnyEvent)
  BY <1>1, OnlySelects DEF Typed
<1>6. Only(published, AppEvent)' = IF e \in AppEvent THEN Append(Only(published, AppEvent), e)
                                                     ELSE Only(published, AppEvent)
  BY <1>4, <1>5, OnlyAppends
<1>7. {saved[i].n : i \in DOMAIN saved}' = {saved[i].n : i \in DOMAIN saved}
  BY <1>2
<1>8. CASE p = Sensor
  <2>1. e \notin AppEvent
    BY <1>1, <1>4, <1>8, EventsTyped DEF KernelOrder
  <2>2. \A n \in 1..MaxRecorded : FateOf(n)' = FateOf(n)
    <3>1. \A n \in DOMAIN recorded : recorded[n] # e
      BY <1>1, <2>1, RecordedAt, PlacesTyped
    <3> QED BY <1>2, <1>4, <3>1, FateKept
  <2>3. [i \in DOMAIN Only(published, AppEvent) |-> Only(published, AppEvent)[i].n]'
          = [i \in DOMAIN Only(published, AppEvent) |-> Only(published, AppEvent)[i].n]
    BY <1>6, <2>1
  <2> QED BY <1>7, <2>2, <2>3 DEF Delivery!vars
<1>9. CASE p \in Requests /\ requests[p].step = "publishing"
  <2>1. p \in Publisher \ {Sensor} /\ Ev(p) \subseteq PostedEvents /\ Ev(p) \subseteq AppEvent
    BY <1>1, <1>9, PlacesTyped DEF PostedEvents
  <2>2. e \in Ev(p) /\ e \in AppEvent /\ IsValid(e) /\ e \in ToSend(p)
    BY <1>1, <1>4, <1>9, <2>1 DEF Handlers, Valid
  <2>3. e \notin invalid /\ e \notin lost /\ e \notin Published
    BY <1>1, <1>9, <2>2 DEF Handlers, Handled
  <2>4. /\ e.n \in DOMAIN recorded /\ e.n \in 1..MaxRecorded /\ recorded[e.n] = e /\ e \notin refused
    BY <2>1, <2>2, FateOfPosted
  <2>5. FateOf(e.n) = "held"
    BY <2>3, <2>4, FateHeld
  <2>6. FateOf(e.n)' = "broadcast"
    BY <1>2, <1>4, <2>3, <2>4 DEF FateOf, Published
  <2>7. \A n \in 1..MaxRecorded : n # e.n => FateOf(n)' = FateOf(n)
    <3>1. \A n \in DOMAIN recorded : recorded[n].n = n
      BY <1>1, RecordedAt
    <3> QED BY <1>2, <1>4, <3>1, FateKept
  <2>8. [n \in 1..MaxRecorded |-> FateOf(n)]' = [[n \in 1..MaxRecorded |-> FateOf(n)] EXCEPT ![e.n] = "broadcast"]
    BY <2>4, <2>6, <2>7
  <2> DEFINE app == Only(published, AppEvent)
  <2>9. [i \in DOMAIN Only(published, AppEvent) |-> Only(published, AppEvent)[i].n]'
          = Append([i \in DOMAIN app |-> app[i].n], e.n)
    <3>1. /\ app \in Seq(AnyEvent) /\ app' = Append(app, e)
          /\ Len(app) \in Nat /\ DOMAIN app = 1..Len(app)
      BY <1>5, <1>6, <2>2, ElementsOf
    <3>2. /\ DOMAIN Append(app, e) = 1..(Len(app) + 1)
          /\ Append(app, e)[Len(app) + 1] = e
          /\ \A i \in 1..Len(app) : Append(app, e)[i] = app[i]
      <4>1. Append(app, e) \in Seq(AnyEvent) /\ Len(Append(app, e)) = Len(app) + 1
        BY <1>5, AppendProperties
      <4>2. DOMAIN Append(app, e) = 1..Len(Append(app, e))
        BY <4>1, ElementsOf
      <4> QED BY <1>5, <4>1, <4>2, AppendProperties
    <3> HIDE DEF app
    <3> DEFINE numbers == [i \in 1..Len(app) |-> app[i].n]
    <3>3. numbers \in Seq(Int) /\ Len(numbers) = Len(app)
      <4>1. \A i \in 1..Len(app) : app[i].n \in Int
        BY <3>1, ElementOfSeq, EventsTyped
      <4> QED BY <3>1, <4>1, IsASeq
    <3>4. Append(numbers, e.n) = [i \in 1..(Len(app) + 1) |-> Append(app, e)[i].n]
      <4>1. e.n \in Int
        BY <2>4
      <4>2. /\ Append(numbers, e.n) \in Seq(Int) /\ Len(Append(numbers, e.n)) = Len(app) + 1
            /\ \A i \in 1..Len(app) : Append(numbers, e.n)[i] = app[i].n
            /\ Append(numbers, e.n)[Len(app) + 1] = e.n
        BY <3>3, <4>1, AppendProperties
      <4>3. DOMAIN Append(numbers, e.n) = 1..(Len(app) + 1)
        BY <4>2, ElementsOf
      <4>4. \A i \in 1..(Len(app) + 1) : Append(numbers, e.n)[i] = Append(app, e)[i].n
        BY <3>1, <3>2, <4>2
      <4>5. Append(numbers, e.n) = [i \in 1..(Len(app) + 1) |-> Append(numbers, e.n)[i]]
        BY <4>2, <4>3
      <4> QED BY <4>4, <4>5
    <3> QED BY <3>1, <3>2, <3>4 DEF app
  <2>10. Delivery!Broadcast(e.n)
    BY <1>7, <2>4, <2>5, <2>8, <2>9 DEF Delivery!Broadcast
  <2> QED BY <2>4, <2>10 DEF Delivery!Next, Delivery!Event
<1> QED BY <1>3, <1>8, <1>9

LEMMA DeliveryKeeps ==
  ASSUME IInv, NEW r \in Requests, Save(r)
  PROVE  Delivery!Next
<1> DEFINE kept == Only(ValidEvents(r), Persistent)
           affected == {e.n : e \in ToSet(kept)}
<1>1. Typed /\ Underway /\ Handlers /\ Sunk /\ Ev(r) \subseteq PostedEvents /\ r \in Publisher \ {Sensor}
  BY PlacesTyped DEF IInv, PostedEvents
<1>2. /\ UNCHANGED <<recorded, refused, invalid, lost, published>>
      /\ requests[r].step = "saving" /\ saved' = saved \o kept
  BY DEF Save, streamVars
<1>3. /\ kept \in Seq(AppEvent) /\ ToSet(kept) = Ev(r) \cap Valid \cap Persistent
  <2>1. ValidEvents(r) \in Seq(AppEvent) /\ ToSet(ValidEvents(r)) = Ev(r) \cap Valid
    BY <1>1, ValidOfRequest
  <2> QED BY <2>1, OnlySelects
<1> HIDE DEF kept
<1>4. ToSet(saved') = ToSet(saved) \cup ToSet(kept)
  <2>1. saved \in Seq(AppEvent)
    BY <1>1 DEF Typed
  <2>2. ToSet(saved \o kept) = ToSet(saved) \cup ToSet(kept)
    BY <1>3, <2>1, ConcatAdds
  <2> QED BY <1>2, <2>2
<1>5. \A s : {s[i].n : i \in DOMAIN s} = {e.n : e \in ToSet(s)}
  BY DEF ToSet
<1>6. {saved[i].n : i \in DOMAIN saved}' = {saved[i].n : i \in DOMAIN saved} \cup affected
  <2>1. {saved'[i].n : i \in DOMAIN saved'} = {e.n : e \in ToSet(saved')}
    BY <1>5
  <2>2. {saved[i].n : i \in DOMAIN saved} = {e.n : e \in ToSet(saved)}
    BY <1>5
  <2> QED BY <1>4, <2>1, <2>2
<1>7. \A e \in ToSet(kept) : e \in Published /\ e \notin ToSet(saved) /\ e \in PostedEvents
  <2>1. ToSend(r) = {}
    <3>1. publishing[r] = Resting
      BY <1>1, <1>2 DEF Handlers
    <3>2. publishing[r].left = <<>>
      BY <3>1 DEF Resting
    <3> QED BY <1>1, <3>2, PublishersTyped
  <2>2. \A e \in Ev(r) \cap Valid : e \in Published
    BY <1>1, <1>2, <2>1 DEF Handlers, Handled, Valid
  <2>3. \A e \in Ev(r) : e \notin ToSet(saved)
    BY <1>1, <1>2 DEF Sunk
  <2> QED BY <1>1, <1>3, <2>2, <2>3
<1>8. \A n \in affected : /\ n \in 1..MaxRecorded /\ FateOf(n) = "broadcast"
                        /\ n \notin {saved[i].n : i \in DOMAIN saved}
  <2> SUFFICES ASSUME NEW e \in ToSet(kept)
               PROVE  /\ e.n \in 1..MaxRecorded /\ FateOf(e.n) = "broadcast"
                      /\ \A s \in ToSet(saved) : s.n # e.n
    <3>1. {saved[i].n : i \in DOMAIN saved} = {s.n : s \in ToSet(saved)}
      BY <1>5
    <3> QED BY <3>1
  <2>1. /\ e \in PostedEvents /\ e \in Published /\ e \in Ev(r) \cap Valid /\ e \notin ToSet(saved)
        /\ e.n \in DOMAIN recorded /\ e.n \in 1..MaxRecorded /\ recorded[e.n] = e /\ e \notin refused
    BY <1>3, <1>7, FateOfPosted
  <2>2. e \notin invalid /\ e \notin lost
    BY <1>1, <1>2, <2>1 DEF Handlers, Handled, Valid
  <2>3. FateOf(e.n) = "broadcast"
    BY <2>1, <2>2 DEF FateOf, Published
  <2>4. \A s \in ToSet(saved) : s.n = e.n => s = e
    <3>1. \A s \in ToSet(saved) : s \in PostedEvents
      BY <1>1 DEF Sunk
    <3>2. \A s \in ToSet(saved) : recorded[s.n] = s
      BY <3>1, FateOfPosted
    <3> QED BY <2>1, <3>2
  <2> QED BY <2>1, <2>3, <2>4
<1> HIDE DEF affected
<1>9. \A n \in 1..MaxRecorded : FateOf(n)' = FateOf(n)
  BY <1>2, FateKept DEF Published
<1>10. [i \in DOMAIN Only(published, AppEvent) |-> Only(published, AppEvent)[i].n]'
         = [i \in DOMAIN Only(published, AppEvent) |-> Only(published, AppEvent)[i].n]
  BY <1>2
<1> PICK chosen : chosen = affected
  OBVIOUS
<1>11. Delivery!Keep(chosen)
  BY <1>6, <1>9, <1>10 DEF Delivery!Keep
<1>12. affected \in SUBSET ({n \in 1..MaxRecorded : [m \in 1..MaxRecorded |-> FateOf(m)][n] = "broadcast"}
                            \ {saved[i].n : i \in DOMAIN saved})
  BY <1>8
<1>13. chosen \in SUBSET (Delivery!BroadcastEvents \ {saved[i].n : i \in DOMAIN saved})
  BY <1>12 DEF Delivery!BroadcastEvents, Delivery!Event
<1> QED BY <1>11, <1>13 DEF Delivery!Next

\* The pipeline implements TelemetryDelivery, but for its promise that no event is
\* held for ever: every event has one fate, and has it for good; it is broadcast at
\* most once, and kept at most once and only when it was broadcast.
THEOREM PipelineDelivers == PipelineSpec => Delivery!Init /\ [][Delivery!Next]_(Delivery!vars)
<1>1. PipelineInit => Delivery!Init
  BY DeliveryStarts
<1>2. IInv /\ [PipelineNext]_pipelineVars => [Delivery!Next]_(Delivery!vars)
  <2> SUFFICES ASSUME IInv, [PipelineNext]_pipelineVars
               PROVE  Delivery!Next \/ UNCHANGED Delivery!vars
    OBVIOUS
  <2>1. CASE \E k \in Kind : RecordEvent(k)
    BY <2>1, DeliveryRecords
  <2>2. CASE \/ CloseAgent \/ ReceiveEvent \/ EndAgent \/ PostBatch
             \/ KernelEvent \/ PollRing \/ Forward \/ UNCHANGED pipelineVars
    <3>1. UNCHANGED <<recorded, refused, invalid, lost, published, saved>>
      BY <2>2 DEF CloseAgent, ReceiveEvent, EndAgent, PostBatch, KernelEvent, PollRing, Forward,
                  pipelineVars, streamVars, serverVars
    <3> QED BY <3>1, DeliveryRests
  <2>3. ASSUME NEW r \in Requests, Answered(r) \/ GivesUp(r) \/ HandlerDone(r)
        PROVE  UNCHANGED Delivery!vars
    <3>1. UNCHANGED <<recorded, refused, invalid, lost, published, saved>>
      BY <2>3 DEF Answered, GivesUp, HandlerDone, Finished, streamVars, serverVars
    <3> QED BY <3>1, DeliveryRests
  <2>4. ASSUME NEW r \in Requests, Lose(r) \/ Arrive(r) \/ HandlerDropped(r)
        PROVE  Delivery!Next
    BY <2>4, DeliveryLoses
  <2>5. ASSUME NEW r \in Requests, Save(r) PROVE Delivery!Next
    BY <2>5, DeliveryKeeps
  <2>6. ASSUME NEW p \in Publisher, SendEvent(p)
        PROVE  Delivery!Next \/ UNCHANGED Delivery!vars
    BY <2>6, DeliveryBroadcasts
  <2>7. ASSUME NEW p \in Publisher, PushEvent(p)
        PROVE  UNCHANGED Delivery!vars
    <3>1. UNCHANGED <<recorded, refused, invalid, lost, published, saved>>
      BY <2>7 DEF PushEvent, Push, serverVars
    <3> QED BY <3>1, DeliveryRests
  <2> QED BY <2>1, <2>2, <2>3, <2>4, <2>5, <2>6, <2>7 DEF PipelineNext
<1> QED BY <1>1, <1>2, PipelineInv, PTL DEF PipelineSpec

-----------------------------------------------------------------------------
(***************************************************************************)
(* EventStream with its receivers (StreamSubscribers): for every number of *)
(* publishers, every ring, backlog and started, and any number of events.    *)
(***************************************************************************)

StreamTyped ==
  /\ publishing \in [Publisher -> [left : Seq(Nat), sent : BOOLEAN]]
  /\ \A p \in Publisher : publishing[p].sent => publishing[p].left # <<>>
  /\ published \in Seq(Nat) /\ backlog \in Seq(Nat) /\ pushed \in Seq(Nat)
  /\ evaluated \in Seq(Nat)
  /\ events \in Nat
  /\ detector \in [next : Nat \ {0}, ended : BOOLEAN]

\* The backlog is the end of what was pushed, and as long as there is room for.
Newest ==
  /\ Len(backlog) = IF Len(pushed) < MaxBacklog THEN Len(pushed) ELSE MaxBacklog
  /\ \A i \in 1..Len(backlog) : backlog[i] = pushed[Len(pushed) - Len(backlog) + i]

\* The worker stands behind the last event it took.
Gapless ==
  /\ Len(evaluated) <= Len(published)
  /\ \A i \in 1..Len(evaluated) : evaluated[i] = published[i]
  /\ ~detector.ended => detector.next = Len(evaluated) + 1

StreamIInv == StreamTyped /\ Newest /\ Gapless

-----------------------------------------------------------------------------
(* Sequences.                                                              *)

LEMMA AgreeingIsPrefix ==
  ASSUME NEW s \in Seq(Nat), NEW t \in Seq(Nat), Len(s) <= Len(t),
         \A i \in 1..Len(s) : s[i] = t[i]
  PROVE  IsPrefix(s, t)
<1>1. /\ Len(s) \in Nat /\ Len(t) \in Nat
      /\ \A i \in 1..Len(s) : s[i] \in Nat /\ t[i] \in Nat
  BY LenProperties, ElementOfSeq
<1>2. /\ SubSeq(s, 1, Len(s)) \in Seq(Nat) /\ SubSeq(t, 1, Len(s)) \in Seq(Nat)
      /\ Len(SubSeq(s, 1, Len(s))) = Len(s) /\ Len(SubSeq(t, 1, Len(s))) = Len(s)
      /\ \A i \in 1..Len(s) : SubSeq(s, 1, Len(s))[i] = s[i] /\ SubSeq(t, 1, Len(s))[i] = t[i]
  BY <1>1, SubSeqProperties
<1>3. SubSeq(s, 1, Len(s)) = SubSeq(t, 1, Len(s))
  BY <1>2, SeqEqual
<1> QED BY <1>3 DEF IsPrefix

LEMMA ReverseReads ==
  ASSUME NEW s \in Seq(Nat)
  PROVE  /\ Reverse(s) \in Seq(Nat) /\ Len(Reverse(s)) = Len(s)
         /\ \A i \in 1..Len(s) : Reverse(s)[i] = s[Len(s) - i + 1]
<1>1. Len(s) \in Nat /\ \A i \in 1..Len(s) : s[i] \in Nat
  BY LenProperties, ElementOfSeq
<1>2. \A i \in 1..Len(s) : (Len(s) - i) + 1 \in 1..Len(s)
  BY <1>1
<1>3. Reverse(s) \in [1..Len(s) -> Nat]
  BY <1>1, <1>2 DEF Reverse
<1>4. Reverse(s) \in Seq(Nat)
  BY <1>1, <1>3, SeqDef
<1>5. DOMAIN Reverse(s) = 1..Len(s)
  BY DEF Reverse
<1>6. Len(Reverse(s)) = Len(s)
  BY <1>1, <1>4, <1>5, LenProperties
<1> QED BY <1>4, <1>6 DEF Reverse

LEMMA AgreeingIsSuffix ==
  ASSUME NEW s \in Seq(Nat), NEW t \in Seq(Nat), Len(s) <= Len(t),
         \A i \in 1..Len(s) : s[i] = t[Len(t) - Len(s) + i]
  PROVE  IsSuffix(s, t)
<1>1. Len(s) \in Nat /\ Len(t) \in Nat
  BY LenProperties
<1>2. \A i \in 1..Len(s) : Reverse(s)[i] = Reverse(t)[i]
  <2> SUFFICES ASSUME NEW i \in 1..Len(s) PROVE Reverse(s)[i] = Reverse(t)[i]
    OBVIOUS
  <2>1. /\ Len(s) - i + 1 \in 1..Len(s) /\ i \in 1..Len(t)
        /\ Len(t) - Len(s) + (Len(s) - i + 1) = Len(t) - i + 1
    BY <1>1
  <2>2. s[Len(s) - i + 1] = t[Len(t) - i + 1]
    BY <2>1
  <2> QED BY <2>1, <2>2, ReverseReads
<1>3. IsPrefix(Reverse(s), Reverse(t))
  BY <1>1, <1>2, ReverseReads, AgreeingIsPrefix
<1> QED BY <1>3 DEF IsSuffix

\* An event pushed onto the backlog leaves it the end of what was pushed.
LEMMA PushKeepsNewest ==
  ASSUME Newest, NEW e \in Nat, backlog \in Seq(Nat), pushed \in Seq(Nat),
         backlog' = Pushed(e), pushed' = Append(pushed, e)
  PROVE  /\ backlog' \in Seq(Nat) /\ pushed' \in Seq(Nat)
         /\ Newest'
<1> DEFINE k == Len(pushed)
           m == Len(backlog)
           c == Append(pushed, e)
           b == Pushed(e)
<1>1. /\ m = IF k < MaxBacklog THEN k ELSE MaxBacklog
      /\ \A i \in 1..m : backlog[i] = pushed[k - m + i]
      /\ k \in Nat /\ m \in Nat
  BY LenProperties DEF Newest
<1>2. /\ c \in Seq(Nat) /\ Len(c) = k + 1 /\ c[k + 1] = e
      /\ \A i \in 1..k : c[i] = pushed[i]
  BY AppendProperties
<1>3. /\ b \in Seq(Nat)
      /\ Len(b) = IF m >= MaxBacklog THEN m ELSE m + 1
      /\ b[Len(b)] = e
      /\ \A i \in 1..(Len(b) - 1) : b[i] = IF m >= MaxBacklog THEN backlog[i + 1] ELSE backlog[i]
  <2>1. CASE m >= MaxBacklog
    <3>1. backlog # <<>>
      BY <2>1, StreamAssumption
    <3>2. /\ Tail(backlog) \in Seq(Nat) /\ Len(Tail(backlog)) = m - 1
          /\ \A i \in 1..Len(Tail(backlog)) : Tail(backlog)[i] = backlog[i + 1]
      BY <3>1, HeadTailProperties
    <3>3. b = Append(Tail(backlog), e)
      BY <2>1 DEF Pushed
    <3> QED BY <2>1, <3>2, <3>3, AppendProperties
  <2>2. CASE ~(m >= MaxBacklog)
    <3>1. b = Append(backlog, e)
      BY <2>2 DEF Pushed
    <3> QED BY <2>2, <3>1, AppendProperties
  <2> QED BY <2>1, <2>2
<1> HIDE DEF k, m, c, b
<1>4. Len(b) = IF k + 1 < MaxBacklog THEN k + 1 ELSE MaxBacklog
  BY <1>1, <1>3, StreamAssumption
<1>5. ASSUME NEW i \in 1..Len(b) PROVE b[i] = c[k + 1 - Len(b) + i]
  <2>1. CASE i = Len(b)
    <3>1. k + 1 - Len(b) + i = k + 1
      BY <2>1, <1>1
    <3> QED BY <1>2, <1>3, <2>1, <3>1
  <2>2. CASE i # Len(b) /\ m >= MaxBacklog
    <3>1. m = MaxBacklog /\ Len(b) = m /\ i \in 1..(m - 1) /\ m <= k
      BY <1>1, <1>3, <2>2, StreamAssumption
    <3>2. /\ i + 1 \in 1..m /\ k - m + (i + 1) \in 1..k
          /\ k + 1 - Len(b) + i = k - m + (i + 1)
      BY <1>1, <3>1, StreamAssumption
    <3>3. b[i] = backlog[i + 1]
      BY <1>3, <2>2, <3>1
    <3>4. backlog[i + 1] = pushed[k - m + (i + 1)]
      BY <1>1, <3>2
    <3> QED BY <1>2, <3>2, <3>3, <3>4
  <2>3. CASE i # Len(b) /\ ~(m >= MaxBacklog)
    <3>1. m = k /\ Len(b) = k + 1 /\ i \in 1..k
      BY <1>1, <1>3, <2>3, StreamAssumption
    <3>2. k - m + i = i /\ k + 1 - Len(b) + i = i
      BY <1>1, <3>1
    <3>3. b[i] = backlog[i]
      BY <1>1, <1>3, <2>3, <3>1
    <3>4. backlog[i] = pushed[k - m + i]
      BY <1>1, <3>1
    <3>5. c[i] = pushed[i]
      BY <1>2, <3>1
    <3> QED BY <3>2, <3>3, <3>4, <3>5
  <2> QED BY <2>1, <2>2, <2>3
<1>6. backlog' = b /\ pushed' = c
  BY DEF b, c
<1>7. ASSUME NEW i \in 1..Len(b) PROVE b[i] = c[Len(c) - Len(b) + i]
  <2>1. Len(c) - Len(b) + i = k + 1 - Len(b) + i
    BY <1>1, <1>2, <1>3, <1>4, StreamAssumption
  <2> QED BY <1>5, <2>1
<1>8. Len(b) = IF Len(c) < MaxBacklog THEN Len(c) ELSE MaxBacklog
  BY <1>2, <1>4
<1> QED BY <1>2, <1>3, <1>6, <1>7, <1>8 DEF Newest

-----------------------------------------------------------------------------
(* The invariant.                                                          *)

LEMMA StreamInit1 == Init => StreamIInv
<1> SUFFICES ASSUME Init PROVE StreamIInv
  OBVIOUS
<1>1. StreamTyped
  BY DEF Init, StreamInit, Resting, StreamTyped
<1>2. Newest
  BY StreamAssumption DEF Init, StreamInit, Newest
<1>3. Gapless
  BY DEF Init, StreamInit, Gapless
<1> QED BY <1>1, <1>2, <1>3 DEF StreamIInv

LEMMA PublisherStarts ==
  ASSUME StreamIInv, NEW p \in Publisher, NEW n \in 1..MaxBatch, Start(p, n)
  PROVE  StreamIInv'
<1> DEFINE started == [i \in 1..n |-> events + i]
<1>1. n \in Nat /\ events \in Nat
  BY RingAssumption DEF StreamIInv, StreamTyped
<1>2. started \in Seq(Nat)
  <2>1. started \in [1..n -> Nat]
    BY <1>1
  <2> QED BY <1>1, <2>1, SeqDef
<1>3. /\ publishing' = [publishing EXCEPT ![p].left = started] /\ publishing[p] = Resting
      /\ events' = events + n
      /\ UNCHANGED <<published, backlog, pushed, detector, evaluated>>
  BY DEF Start, Started
<1>4. /\ publishing' \in [Publisher -> [left : Seq(Nat), sent : BOOLEAN]]
      /\ \A q \in Publisher : publishing'[q].sent => publishing'[q].left # <<>>
  <2> HIDE DEF started
  <2>1. /\ publishing \in [Publisher -> [left : Seq(Nat), sent : BOOLEAN]]
        /\ \A q \in Publisher : publishing[q].sent => publishing[q].left # <<>>
    BY DEF StreamIInv, StreamTyped
  <2>2. publishing[p].sent = FALSE
    BY <1>3 DEF Resting
  <2>3. /\ publishing'[p] = [left |-> started, sent |-> FALSE]
        /\ \A q \in Publisher \ {p} : publishing'[q] = publishing[q]
        /\ DOMAIN publishing' = Publisher
    BY <1>3, <2>1, <2>2
  <2>4. publishing' = [q \in Publisher |-> IF q = p THEN [left |-> started, sent |-> FALSE]
                                           ELSE publishing[q]]
    BY <1>3, <2>1, <2>2, <2>3
  <2>5. [left |-> started, sent |-> FALSE] \in [left : Seq(Nat), sent : BOOLEAN]
    BY <1>2
  <2>6. publishing' \in [Publisher -> [left : Seq(Nat), sent : BOOLEAN]]
    BY <2>1, <2>4, <2>5
  <2>7. \A q \in Publisher : publishing'[q].sent => publishing'[q].left # <<>>
    <3> TAKE q \in Publisher
    <3>1. CASE q = p
      BY <2>3, <3>1
    <3>2. CASE q # p
      <4>1. publishing'[q] = publishing[q]
        BY <2>3, <3>2
      <4> QED BY <2>1, <4>1
    <3> QED BY <3>1, <3>2
  <2> QED BY <2>6, <2>7
<1>5. StreamTyped'
  BY <1>1, <1>3, <1>4 DEF StreamIInv, StreamTyped
<1>6. Newest' /\ Gapless'
  BY <1>3 DEF StreamIInv, Newest, Gapless
<1> QED BY <1>5, <1>6 DEF StreamIInv

LEMMA PublisherSends ==
  ASSUME StreamIInv, NEW p \in Publisher, Send(p), UNCHANGED <<events, detector, evaluated, socket>>
  PROVE  StreamIInv'
<1> DEFINE e == Head(publishing[p].left)
<1>1. /\ publishing[p].left \in Seq(Nat) /\ publishing[p].left # <<>> /\ e \in Nat
      /\ published \in Seq(Nat)
  BY HeadTailProperties DEF StreamIInv, StreamTyped, Send
<1>2. /\ published' = Append(published, e) /\ publishing' = [publishing EXCEPT ![p].sent = TRUE]
      /\ UNCHANGED <<backlog, pushed>>
  BY DEF Send
<1> HIDE DEF e
<1>3. /\ published' \in Seq(Nat) /\ Len(published') = Len(published) + 1 /\ Len(published) \in Nat
      /\ \A i \in 1..Len(published) : published'[i] = published[i]
  BY <1>1, <1>2, AppendProperties, LenProperties
<1>4. StreamTyped'
  BY <1>1, <1>2, <1>3 DEF StreamIInv, StreamTyped
<1>5. Newest'
  BY <1>2 DEF StreamIInv, Newest
<1>6. Gapless'
  <2>1. Len(evaluated) \in Nat
    BY LenProperties DEF StreamIInv, StreamTyped
  <2>2. Len(evaluated) <= Len(published)
    BY DEF StreamIInv, Gapless
  <2>3. \A i \in 1..Len(evaluated) : i \in 1..Len(published)
    BY <1>3, <2>1, <2>2
  <2> QED BY <1>3, <2>1, <2>2, <2>3 DEF StreamIInv, Gapless
<1> QED BY <1>4, <1>5, <1>6 DEF StreamIInv

LEMMA PublisherPushes ==
  ASSUME StreamIInv, NEW p \in Publisher, Push(p), UNCHANGED <<events, detector, evaluated, socket>>
  PROVE  StreamIInv'
<1> DEFINE e == Head(publishing[p].left)
           rest == Tail(publishing[p].left)
<1>1. publishing[p].left \in Seq(Nat) /\ publishing[p].left # <<>>
  BY DEF StreamIInv, StreamTyped, Push
<1>2. e \in Nat /\ rest \in Seq(Nat)
  BY <1>1, HeadTailProperties
<1>3. /\ backlog' = Pushed(e) /\ pushed' = Append(pushed, e)
      /\ publishing' = [publishing EXCEPT ![p] = [left |-> rest, sent |-> FALSE]]
      /\ UNCHANGED published
  BY DEF Push
<1> HIDE DEF e, rest
<1>4. backlog' \in Seq(Nat) /\ pushed' \in Seq(Nat) /\ Newest'
  BY <1>2, <1>3, PushKeepsNewest DEF StreamIInv, StreamTyped
<1>5. StreamTyped'
  BY <1>2, <1>3, <1>4 DEF StreamIInv, StreamTyped
<1>6. Gapless'
  BY <1>3 DEF StreamIInv, Gapless
<1> QED BY <1>4, <1>5, <1>6 DEF StreamIInv

LEMMA DetectKeeps == StreamIInv /\ Detect => StreamIInv'
<1> SUFFICES ASSUME StreamIInv, Detect PROVE StreamIInv'
  OBVIOUS
<1> DEFINE n == detector.next
<1>1. /\ ~detector.ended /\ n = Len(evaluated) + 1 /\ n <= Len(published)
      /\ published \in Seq(Nat) /\ evaluated \in Seq(Nat) /\ Len(evaluated) \in Nat /\ Len(published) \in Nat
  BY LenProperties DEF StreamIInv, StreamTyped, Gapless, Detect, Waiting
<1>2. /\ evaluated' = Append(evaluated, published[n])
      /\ detector' = [detector EXCEPT !.next = n + 1]
      /\ UNCHANGED <<publishing, published, backlog, pushed, events>>
  BY DEF Detect, streamVars
<1>3. published[n] \in Nat
  BY <1>1, ElementOfSeq
<1>4. /\ detector' \in [next : Nat \ {0}, ended : BOOLEAN]
      /\ detector'.next = n + 1 /\ detector'.ended = FALSE
  <2>1. detector \in [next : Nat \ {0}, ended : BOOLEAN] /\ detector.ended = FALSE
    BY <1>1 DEF StreamIInv, StreamTyped
  <2>2. n + 1 \in Nat \ {0}
    BY <1>1
  <2> HIDE DEF n
  <2> QED BY <1>2, <2>1, <2>2
<1> HIDE DEF n
<1>5. /\ evaluated' \in Seq(Nat) /\ Len(evaluated') = Len(evaluated) + 1
      /\ evaluated'[Len(evaluated) + 1] = published[n]
      /\ \A i \in 1..Len(evaluated) : evaluated'[i] = evaluated[i]
  BY <1>1, <1>2, <1>3, AppendProperties
<1>6. StreamTyped'
  BY <1>2, <1>4, <1>5 DEF StreamIInv, StreamTyped
<1>7. Newest'
  BY <1>2 DEF StreamIInv, Newest
<1>8. Gapless'
  <2>1. ASSUME NEW i \in 1..Len(evaluated') PROVE evaluated'[i] = published[i]
    <3>1. CASE i = n
      BY <1>1, <1>5, <3>1
    <3>2. CASE i # n
      <4>1. i \in 1..Len(evaluated)
        BY <1>1, <1>5, <3>2
      <4> QED BY <1>5, <4>1 DEF StreamIInv, Gapless
    <3> QED BY <3>1, <3>2
  <2>2. Len(evaluated') <= Len(published)
    BY <1>1, <1>5
  <2>3. detector'.next = Len(evaluated') + 1
    BY <1>1, <1>4, <1>5
  <2> QED BY <1>2, <2>1, <2>2, <2>3 DEF Gapless
<1> QED BY <1>6, <1>7, <1>8 DEF StreamIInv

LEMMA StreamStep == StreamIInv /\ [Next]_vars => StreamIInv'
<1> SUFFICES ASSUME StreamIInv, [Next]_vars PROVE StreamIInv'
  OBVIOUS
<1>1. ASSUME NEW p \in Publisher, Publish(p) PROVE StreamIInv'
  BY <1>1, PublisherSends, PublisherPushes DEF Publish
<1>2. CASE DetectorLags
  <2>1. /\ detector' = [next |-> Oldest, ended |-> TRUE]
        /\ UNCHANGED <<publishing, published, backlog, pushed, events, evaluated>>
    BY <1>2 DEF DetectorLags, streamVars
  <2>2. Len(published) \in Nat
    BY LenProperties DEF StreamIInv, StreamTyped
  <2>3. Oldest \in Nat \ {0}
    BY <2>2, RingAssumption DEF Oldest
  <2>4. detector' \in [next : Nat \ {0}, ended : BOOLEAN] /\ detector'.ended
    BY <2>1, <2>3
  <2> QED BY <2>1, <2>4 DEF StreamIInv, StreamTyped, Newest, Gapless
<1>3. CASE \/ SocketShows \/ SocketLags \/ SocketShowsIncident \/ SocketMissesIncidents
           \/ SocketCloses \/ UNCHANGED vars
  <2>1. UNCHANGED <<publishing, published, backlog, pushed, events, detector, evaluated>>
    BY <1>3 DEF SocketShows, SocketLags, SocketShowsIncident, SocketMissesIncidents, SocketCloses,
                streamVars, vars
  <2> QED BY <2>1 DEF StreamIInv, StreamTyped, Newest, Gapless
<1> QED BY <1>1, <1>2, <1>3, PublisherStarts, DetectKeeps DEF Next

LEMMA StreamInvariant == Spec => []StreamIInv
BY StreamInit1, StreamStep, PTL DEF Spec

-----------------------------------------------------------------------------
\* The worker evaluates the events in the order of the broadcast without a gap.
THEOREM WorkerHasNoGap == Spec => []DetectorHasNoGap
<1>1. StreamIInv => DetectorHasNoGap
  BY AgreeingIsPrefix DEF StreamIInv, StreamTyped, Gapless, DetectorHasNoGap
<1> QED BY <1>1, StreamInvariant, PTL

\* What a poll of the backlog returns is the newest of what was pushed, for every
\* length of the backlog and every number of publishers between their two steps.
THEOREM BacklogStaysNewest == Spec => []BacklogIsNewest
<1>1. StreamIInv => BacklogIsNewest
  <2> SUFFICES ASSUME StreamIInv, NEW limit \in 0..MaxBacklog
               PROVE  /\ IsSuffix(Recent(limit), pushed)
                      /\ Len(Recent(limit)) = IF Len(pushed) < limit THEN Len(pushed) ELSE limit
    BY DEF BacklogIsNewest
  <2> DEFINE k == Len(pushed)
             m == Len(backlog)
             d == IF m > limit THEN m - limit ELSE 0
             r == SubSeq(backlog, d + 1, m)
  <2>1. /\ backlog \in Seq(Nat) /\ pushed \in Seq(Nat) /\ k \in Nat /\ m \in Nat /\ limit \in Nat
        /\ m = IF k < MaxBacklog THEN k ELSE MaxBacklog
        /\ \A i \in 1..m : backlog[i] = pushed[k - m + i]
        /\ \A i \in 1..m : backlog[i] \in Nat
    <3>1. backlog \in Seq(Nat) /\ pushed \in Seq(Nat) /\ Newest
      BY DEF StreamIInv, StreamTyped
    <3>2. k \in Nat /\ m \in Nat /\ limit \in Nat
      BY <3>1, LenProperties, StreamAssumption
    <3>3. \A i \in 1..m : backlog[i] \in Nat
      BY <3>1, ElementOfSeq
    <3> QED BY <3>1, <3>2, <3>3 DEF Newest
  <2>2. Recent(limit) = r
    BY DEF Recent
  <2>3. d \in 0..m /\ d \in Int /\ m \in Int
    BY SMTT(30), <2>1
  <2> HIDE DEF k, m, d
  <2>4. \A i \in (d + 1)..m : backlog[i] \in Nat
    BY <2>1, <2>3
  <2>5. /\ r \in Seq(Nat) /\ Len(r) = m - d
        /\ \A i \in 1..(m - d) : r[i] = backlog[d + i]
    <3>1. /\ r \in Seq(Nat)
          /\ Len(r) = IF d + 1 <= m THEN m - (d + 1) + 1 ELSE 0
          /\ \A i \in 1..(m - (d + 1) + 1) : r[i] = backlog[d + 1 + i - 1]
      BY <2>3, <2>4, SubSeqProperties
    <3> HIDE DEF r
    <3>2. m - (d + 1) + 1 = m - d
      BY <2>3
    <3>3. \A i \in 1..(m - d) : d + 1 + i - 1 = d + i
      BY <2>3
    <3> QED BY <2>3, <3>1, <3>2, <3>3
  <2> HIDE DEF r
  <2>6. \A i \in 1..(m - d) : r[i] = pushed[k - (m - d) + i]
    <3> SUFFICES ASSUME NEW i \in 1..(m - d) PROVE r[i] = pushed[k - (m - d) + i]
      OBVIOUS
    <3>0. /\ k \in Nat /\ m \in Nat /\ d \in Nat /\ i \in Nat /\ i <= m - d /\ i >= 1
      BY <2>1, <2>3
    <3>1. d + i \in 1..m
      BY <3>0
    <3>2. k - m + (d + i) = k - (m - d) + i
      BY <3>0
    <3>3. backlog[d + i] = pushed[k - m + (d + i)]
      BY <2>1, <3>1
    <3> QED BY <2>5, <3>2, <3>3
  <2>7. m - d <= k /\ m - d = IF k < limit THEN k ELSE limit
    BY <2>1, StreamAssumption DEF d
  <2>8. IsSuffix(r, pushed)
    BY <2>1, <2>5, <2>6, <2>7, AgreeingIsSuffix DEF k
  <2> QED BY <2>2, <2>5, <2>7, <2>8 DEF k
<1> QED BY <1>1, StreamInvariant, PTL
=============================================================================
