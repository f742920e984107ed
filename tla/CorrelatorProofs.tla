-------------------------- MODULE CorrelatorProofs --------------------------
(***************************************************************************)
(* Proofs about Correlator and SensorDetection, for any aliases and their  *)
(* kinds, applications, events and reports, windows and lengths of chains, *)
(* and any number of events.                                               *)
(***************************************************************************)
EXTENDS SensorDetection, SequenceTheorems, FiniteSetTheorems, NaturalsInduction,
        WellFoundedInduction, TLAPS

-----------------------------------------------------------------------------
(* Numbers of finite sets.                                                 *)

LEMMA LeastExists ==
  ASSUME NEW T, T \subseteq Nat, T # {}
  PROVE  \E m \in T : \A n \in T : m <= n
<1>1. PICK m \in T : \A n \in T : ~(<<n, m>> \in OpToRel(<, Nat))
  BY NatLessThanWellFounded, WFMin
<1>2. \A n \in T : n \in Nat /\ m \in Nat /\ ~(n < m)
  BY <1>1 DEF OpToRel
<1>3. \A n \in T : m <= n
  BY <1>2
<1> QED BY <1>3

LEMMA ImageFinite ==
  ASSUME NEW S, IsFiniteSet(S), NEW f
  PROVE  IsFiniteSet({f[x] : x \in S})
<1> DEFINE T == {f[x] : x \in S}
           g == [x \in S |-> f[x]]
<1>1. g \in [S -> T] /\ \A t \in T : \E x \in S : g[x] = t
  OBVIOUS
<1>2. g \in Surjection(S, T)
  BY <1>1 DEF Surjection
<1> HIDE DEF T, g
<1>3. IsFiniteSet(T)
  BY <1>2, FS_Surjection
<1> QED BY <1>3 DEF T

IsLeast(v, S) == v \in S /\ \A y \in S : v <= y
IsGreatest(v, S) == v \in S /\ \A y \in S : v >= y

LEMMA ExtremesAre ==
  ASSUME NEW S, S \subseteq Int, NEW v
  PROVE  /\ IsLeast(v, S) => Min(S) = v
         /\ IsGreatest(v, S) => Max(S) = v
<1>1. ASSUME IsLeast(v, S) PROVE Min(S) = v
  <2>1. \A x \in S : (\A y \in S : x =< y) => x = v
    BY <1>1 DEF IsLeast
  <2>2. v \in S /\ \A y \in S : v =< y
    BY <1>1 DEF IsLeast
  <2> QED BY <2>1, <2>2 DEF Min
<1>2. ASSUME IsGreatest(v, S) PROVE Max(S) = v
  <2>1. \A x \in S : (\A y \in S : x >= y) => x = v
    BY <1>2 DEF IsGreatest
  <2>2. v \in S /\ \A y \in S : v >= y
    BY <1>2 DEF IsGreatest
  <2> QED BY <2>1, <2>2 DEF Max
<1> QED BY <1>1, <1>2

\* A finite set of integers has a least and a greatest one.
LEMMA Extremes ==
  ASSUME NEW S, S \subseteq Int, S # {}, IsFiniteSet(S)
  PROVE  IsLeast(Min(S), S) /\ IsGreatest(Max(S), S)
<1> DEFINE Least(T) == \E x \in T : \A y \in T : x <= y
           Greatest(T) == \E x \in T : \A y \in T : x >= y
           Without == {n \in Nat : \E T \in SUBSET S : /\ T # {} /\ Cardinality(T) = n
                                                        /\ ~(Least(T) /\ Greatest(T))}
<1>1. ASSUME Without # {} PROVE FALSE
  <2>1. PICK n \in Without : \A m \in Without : n <= m
    <3>1. Without \subseteq Nat
      OBVIOUS
    <3> HIDE DEF Without
    <3> QED BY <1>1, <3>1, LeastExists
  <2>2. PICK T \in SUBSET S : T # {} /\ Cardinality(T) = n /\ ~(Least(T) /\ Greatest(T))
    BY <2>1
  <2>3. PICK x \in T : TRUE
    BY <2>2
  <2>4. IsFiniteSet(T)
    BY FS_Subset
  <2>5. Cardinality(T \ {x}) = n - 1
    BY <2>2, <2>3, <2>4, FS_RemoveElement
  <2>6. n \in Nat /\ n - 1 \in Nat
    <3>1. IsFiniteSet(T \ {x})
      BY <2>4, FS_RemoveElement
    <3> QED BY <2>5, <3>1, FS_CardinalityType
  <2>7. n - 1 \notin Without
    BY <2>1, <2>6
  <2>8. T \ {x} # {} => Least(T \ {x}) /\ Greatest(T \ {x})
    <3>1. T \ {x} \in SUBSET S
      OBVIOUS
    <3> QED BY <2>5, <2>6, <2>7, <3>1
  <2>9. CASE T \ {x} = {}
    <3>1. T = {x} /\ x \in Int
      BY <2>3, <2>9
    <3> QED BY <2>2, <3>1
  <2>10. CASE T \ {x} # {}
    <3>1. PICK low \in T \ {x}, high \in T \ {x} : \A y \in T \ {x} : low <= y /\ high >= y
      BY <2>8, <2>10
    <3>2. low \in Int /\ high \in Int /\ x \in Int
      BY <2>3
    <3>3. \A y \in T : y \in Int /\ (y = x \/ y \in T \ {x})
      OBVIOUS
    <3>4. Least(T)
      <4>1. CASE low <= x
        BY <3>1, <3>2, <3>3, <4>1
      <4>2. CASE x <= low
        BY <2>3, <3>1, <3>2, <3>3, <4>2
      <4> QED BY <3>2, <4>1, <4>2
    <3>5. Greatest(T)
      <4>1. CASE high >= x
        BY <3>1, <3>2, <3>3, <4>1
      <4>2. CASE x >= high
        BY <2>3, <3>1, <3>2, <3>3, <4>2
      <4> QED BY <3>2, <4>1, <4>2
    <3> QED BY <2>2, <3>4, <3>5
  <2> QED BY <2>9, <2>10
<1>2. Cardinality(S) \in Nat
  BY FS_CardinalityType
<1>3. Least(S) /\ Greatest(S)
  BY <1>1, <1>2
<1> QED BY <1>3 DEF Min, Max, IsLeast, IsGreatest

\* f has the sums of value over the subsets of set with up to n elements.
Totals(f, value, set, n) ==
  f = [S \in {S \in SUBSET set : Cardinality(S) <= n} |->
         IF S = {} THEN 0 ELSE LET x == CHOOSE x \in S : TRUE IN value[x] + f[S \ {x}]]

LEMMA TotalsExist ==
  ASSUME NEW value, NEW set, IsFiniteSet(set), NEW n \in Nat
  PROVE  \E f : Totals(f, value, set, n)
<1> DEFINE Stuck == {m \in Nat : ~\E f : Totals(f, value, set, m)}
           Upto(m) == {S \in SUBSET set : Cardinality(S) <= m}
<1>6. \A S \in SUBSET set : IsFiniteSet(S)
  BY FS_Subset
<1>7. \A S \in SUBSET set : Cardinality(S) \in Nat
  BY <1>6, FS_CardinalityType
<1>8. \A S \in SUBSET set : Cardinality(S) = 0 <=> S = {}
  BY <1>6, FS_EmptySet
<1>1. SUFFICES ASSUME Stuck # {} PROVE FALSE
  OBVIOUS
<1>2. PICK m \in Stuck : \A k \in Stuck : m <= k
  <2>1. Stuck \subseteq Nat
    OBVIOUS
  <2> HIDE DEF Stuck
  <2> QED BY <1>1, <2>1, LeastExists
<1>3. m # 0
  <2> DEFINE g == [S \in Upto(0) |-> 0]
  <2>1. ASSUME NEW S \in Upto(0) PROVE S = {}
    <3>1. Cardinality(S) = 0
      BY <1>7
    <3> QED BY <1>8, <3>1
  <2>2. Totals(g, value, set, 0)
    <3>1. \A S \in Upto(0) : g[S] = IF S = {} THEN 0
                                   ELSE LET x == CHOOSE x \in S : TRUE IN value[x] + g[S \ {x}]
      BY <2>1
    <3>2. g = [S \in Upto(0) |-> g[S]]
      OBVIOUS
    <3> HIDE DEF g
    <3> QED BY <3>1, <3>2, Zenon DEF Totals
  <2> QED BY <2>2
<1>4. PICK f : Totals(f, value, set, m - 1)
  <2>1. m - 1 \in Nat /\ ~(m <= m - 1)
    BY <1>3
  <2> QED BY <1>2, <2>1
<1> DEFINE g == [S \in Upto(m) |->
                   IF S = {} THEN 0
                   ELSE LET x == CHOOSE x \in S : TRUE IN value[x] + f[S \ {x}]]
<1>5. Totals(g, value, set, m)
  <2>1. \A S \in Upto(m - 1) : f[S] = IF S = {} THEN 0
                                     ELSE LET x == CHOOSE x \in S : TRUE IN value[x] + f[S \ {x}]
    BY <1>4, Zenon DEF Totals
  <2>2. \A S \in Upto(m - 1) : S \in Upto(m)
    BY <1>7
  <2>3. \A S \in Upto(m - 1) : g[S] = f[S]
    BY <2>1, <2>2
  <2>4. \A S \in Upto(m) : g[S] = IF S = {} THEN 0
                                 ELSE LET x == CHOOSE x \in S : TRUE IN value[x] + f[S \ {x}]
    OBVIOUS
  <2>5. \A S \in Upto(m) : S # {} => S \ {CHOOSE x \in S : TRUE} \in Upto(m - 1)
    <3> TAKE S \in Upto(m)
    <3>1. \A x \in S : Cardinality(S \ {x}) = Cardinality(S) - 1
      BY <1>6, FS_RemoveElement
    <3>2. \A x \in S : Cardinality(S \ {x}) <= m - 1
      BY <1>7, <3>1
    <3>3. \A x \in S : S \ {x} \in Upto(m - 1)
      BY <3>2
    <3>4. S # {} => (CHOOSE x \in S : TRUE) \in S
      OBVIOUS
    <3> HIDE DEF Upto
    <3> QED BY <3>3, <3>4
  <2>6. g = [S \in Upto(m) |-> g[S]]
    OBVIOUS
  <2> HIDE DEF g, Upto
  <2>7. \A S \in Upto(m) : g[S] = IF S = {} THEN 0
                                 ELSE LET x == CHOOSE x \in S : TRUE IN value[x] + g[S \ {x}]
    BY <2>3, <2>4, <2>5
  <2> QED BY <2>6, <2>7, Zenon DEF Totals, Upto
<1> QED BY <1>5

\* The sum of the sizes of disjoint finite sets is the size of their union.
LEMMA SumOfSizes ==
  ASSUME NEW value, NEW set, IsFiniteSet(set), NEW F,
         \A x \in set : IsFiniteSet(F[x]) /\ value[x] = Cardinality(F[x]),
         \A x, y \in set : x # y => F[x] \cap F[y] = {}
  PROVE  /\ IsFiniteSet(UNION {F[x] : x \in set})
         /\ SumOver(value, set) = Cardinality(UNION {F[x] : x \in set})
<1> DEFINE n == Cardinality(set)
           f == CHOOSE f : f = [S \in SUBSET set |->
                                  IF S = {} THEN 0
                                  ELSE LET x == CHOOSE x \in S : TRUE IN value[x] + f[S \ {x}]]
           U(S) == UNION {F[x] : x \in S}
           Wrong == {m \in Nat : \E S \in SUBSET set :
                       Cardinality(S) = m /\ ~(IsFiniteSet(U(S)) /\ f[S] = Cardinality(U(S)))}
<1>1. SumOver(value, set) = f[set]
  BY DEF SumOver
<1>2. \A S \in SUBSET set : IsFiniteSet(S) /\ Cardinality(S) \in Nat /\ Cardinality(S) <= n
  BY FS_Subset, FS_CardinalityType
<1>3. SUBSET set = {S \in SUBSET set : Cardinality(S) <= n}
  BY <1>2
<1>4. \A S \in SUBSET set : f[S] = IF S = {} THEN 0
                                  ELSE LET x == CHOOSE x \in S : TRUE IN value[x] + f[S \ {x}]
  <2>1. PICK h : Totals(h, value, set, n)
    BY <1>2, TotalsExist
  <2>4. PICK D : D = {S \in SUBSET set : Cardinality(S) <= n}
    OBVIOUS
  <2>5. h = [S \in D |-> IF S = {} THEN 0
                         ELSE LET x == CHOOSE x \in S : TRUE IN value[x] + h[S \ {x}]]
    BY <2>1, <2>4, Zenon DEF Totals
  <2>6. D = SUBSET set
    BY <1>3, <2>4
  <2>2. \E g : g = [S \in SUBSET set |->
                      IF S = {} THEN 0
                      ELSE LET x == CHOOSE x \in S : TRUE IN value[x] + g[S \ {x}]]
    <3>1. h = [S \in SUBSET set |-> IF S = {} THEN 0
                                    ELSE LET x == CHOOSE x \in S : TRUE IN value[x] + h[S \ {x}]]
      BY <2>5, <2>6
    <3> QED BY <3>1, Zenon
  <2>3. f = [S \in SUBSET set |->
                      IF S = {} THEN 0
                      ELSE LET x == CHOOSE x \in S : TRUE IN value[x] + f[S \ {x}]]
    BY <2>2, Zenon
  <2> HIDE DEF f
  <2> QED BY <2>3, Zenon
<1> HIDE DEF f
<1>5. ASSUME Wrong # {} PROVE FALSE
  <2>1. PICK m \in Wrong : \A k \in Wrong : m <= k
    <3>1. Wrong \subseteq Nat
      OBVIOUS
    <3> HIDE DEF Wrong
    <3> QED BY <1>5, <3>1, LeastExists
  <2>2. PICK S \in SUBSET set :
          Cardinality(S) = m /\ ~(IsFiniteSet(U(S)) /\ f[S] = Cardinality(U(S)))
    BY <2>1
  <2>3. CASE S = {}
    <3>1. U(S) = {}
      BY <2>3
    <3>2. f[S] = 0
      BY <1>4, <2>3
    <3> HIDE DEF U
    <3> QED BY <2>2, <3>1, <3>2, FS_EmptySet
  <2>4. CASE S # {}
    <3>1. PICK x : x = CHOOSE y \in S : TRUE
      OBVIOUS
    <3>2. x \in S
      BY <2>4, <3>1
    <3>3. f[S] = value[x] + f[S \ {x}]
      BY <1>4, <2>4, <3>1
    <3>4. Cardinality(S \ {x}) = m - 1 /\ m \in Nat /\ m - 1 \in Nat
      <4>1. IsFiniteSet(S)
        BY <1>2
      <4>2. Cardinality(S \ {x}) = m - 1
        BY <2>2, <3>2, <4>1, FS_RemoveElement
      <4>3. IsFiniteSet(S \ {x})
        BY <4>1, FS_RemoveElement
      <4> QED BY <4>2, <4>3, FS_CardinalityType
    <3>5. m - 1 \notin Wrong
      <4> HIDE DEF Wrong
      <4> QED BY <2>1, <3>4
    <3>6. IsFiniteSet(U(S \ {x})) /\ f[S \ {x}] = Cardinality(U(S \ {x}))
      <4>1. S \ {x} \in SUBSET set
        OBVIOUS
      <4> QED BY <3>4, <3>5, <4>1
    <3>7. U(S) = U(S \ {x}) \cup F[x]
      BY <3>2
    <3>8. U(S \ {x}) \cap F[x] = {}
      BY <3>2
    <3>9. IsFiniteSet(F[x]) /\ value[x] = Cardinality(F[x])
      BY <3>2
    <3> HIDE DEF U
    <3>10. IsFiniteSet(U(S)) /\ Cardinality(U(S))
             = Cardinality(U(S \ {x})) + Cardinality(F[x]) - Cardinality(U(S \ {x}) \cap F[x])
      <4>1. PICK V, W : V = U(S \ {x}) /\ W = F[x]
        OBVIOUS
      <4>2. IsFiniteSet(V) /\ IsFiniteSet(W)
        BY <3>6, <3>9, <4>1
      <4>3. IsFiniteSet(V \cup W) /\ Cardinality(V \cup W) = Cardinality(V) + Cardinality(W) - Cardinality(V \cap W)
        BY <4>2, FS_Union
      <4> QED BY <3>7, <4>1, <4>3
    <3>11. Cardinality(U(S \ {x}) \cap F[x]) = 0
      BY <3>8, FS_EmptySet
    <3>12. Cardinality(U(S \ {x})) \in Nat /\ Cardinality(F[x]) \in Nat
      BY <3>6, <3>9, FS_CardinalityType
    <3> QED BY <2>2, <3>3, <3>6, <3>9, <3>10, <3>11, <3>12
  <2> QED BY <2>3, <2>4
<1>6. IsFiniteSet(U(set)) /\ f[set] = Cardinality(U(set))
  <2>1. n \in Nat /\ n \notin Wrong
    BY <1>2, <1>5
  <2> QED BY <2>1
<1> QED BY <1>1, <1>6

-----------------------------------------------------------------------------
(* What an event resolves to.                                              *)

\* An alias leads to one of its entity's own aliases, on which it was founded.
Anchored ==
  /\ canonical \in [DOMAIN canonical -> DOMAIN canonical]
  /\ DOMAIN canonical \subseteq Alias
  /\ \A a \in DOMAIN canonical : canonical[canonical[a]] = canonical[a]

IsEntity(entity) ==
  /\ entity = [type |-> entity.type, aliases |-> entity.aliases, apps |-> entity.apps,
               capabilities |-> entity.capabilities, count |-> entity.count,
               first |-> entity.first, last |-> entity.last]
  /\ entity.type \in EntityType /\ entity.first \in Int /\ entity.last \in Int

\* The entities are those aliases lead to, and applications.
Inhabited ==
  /\ DOMAIN entities \subseteq App \cup DOMAIN canonical
  /\ \A a \in DOMAIN canonical : canonical[a] \in DOMAIN entities
  /\ \A id \in DOMAIN entities \cap Alias : canonical[id] = id
  /\ \A id \in DOMAIN entities : IsEntity(entities[id])

LEMMA StrengthTyped ==
  ASSUME NEW type \in EntityType
  PROVE  Strength(type) \in 1..4
<1>1. DOMAIN Kinds = 1..4
  BY DEF Kinds
<1>2. \E i \in 1..4 : Kinds[i] = type
  <2>1. Kinds[1] = "host" /\ Kinds[2] = "session" /\ Kinds[3] = "workload" /\ Kinds[4] = "user"
    BY DEF Kinds
  <2>2. 1 \in 1..4 /\ 2 \in 1..4 /\ 3 \in 1..4 /\ 4 \in 1..4
    OBVIOUS
  <2> QED BY <2>1, <2>2 DEF EntityType
<1> QED BY <1>1, <1>2 DEF Strength

\* Of some ids one is the strongest, and of several the first.
LEMMA FirstOfStrongest ==
  ASSUME NEW ids, ids \subseteq Nat, ids # {}, NEW f, \A id \in ids : f[id] \in 1..4
  PROVE  \E id \in ids : \A other \in ids : f[id] > f[other] \/ (f[id] = f[other] /\ id <= other)
<1> DEFINE T == {4 - f[id] : id \in ids}
<1>1. T \subseteq Nat /\ T # {}
  <2>1. \A id \in ids : f[id] \in 1..4 /\ 4 - f[id] \in Nat
    OBVIOUS
  <2> QED BY <2>1
<1>2. PICK m \in T : \A n \in T : m <= n
  <2> HIDE DEF T
  <2> QED BY <1>1, LeastExists
<1> DEFINE U == {id \in ids : 4 - f[id] = m}
<1>3. U \subseteq Nat /\ U # {}
  BY <1>2
<1>4. PICK x \in U : \A y \in U : x <= y
  <2> HIDE DEF U
  <2> QED BY <1>3, LeastExists
<1>5. ASSUME NEW other \in ids
      PROVE  f[x] > f[other] \/ (f[x] = f[other] /\ x <= other)
  <2>1. 4 - f[other] \in T /\ f[other] \in 1..4 /\ f[x] \in 1..4 /\ 4 - f[x] = m
    BY <1>4
  <2>2. m <= 4 - f[other]
    BY <1>2, <2>1
  <2>3. CASE f[x] = f[other]
    <3>1. other \in U
      BY <2>1, <2>3
    <3> QED BY <1>4, <2>3, <3>1
  <2>4. CASE f[x] # f[other]
    BY <2>1, <2>2, <2>4
  <2> QED BY <2>3, <2>4
<1> QED BY <1>4, <1>5

\* An event resolves to an entity that one of its aliases leads to, or else to an
\* alias nothing is known of yet, or without alias to its application.
LEMMA Resolution ==
  ASSUME Anchored, Inhabited, NEW event \in Event
  PROVE  /\ Matched(event.aliases) \subseteq DOMAIN canonical \cap DOMAIN entities
         /\ event.aliases = {} => Resolve(event) = event.app /\ Matched(event.aliases) = {}
         /\ Matched(event.aliases) # {} => Resolve(event) \in Matched(event.aliases)
         /\ Matched(event.aliases) = {} /\ event.aliases # {} => Resolve(event) \in event.aliases
         /\ Matched(event.aliases) = {} => event.aliases \cap DOMAIN canonical = {}
<1>1. event.aliases \subseteq Alias /\ Alias \subseteq Nat /\ DOMAIN canonical \subseteq Alias
  BY CorrelatorAssumption, IdentityAssumption DEF Anchored
<1>2. PICK M : M = Matched(event.aliases)
  OBVIOUS
<1>3. M \subseteq DOMAIN canonical \cap DOMAIN entities
  BY <1>2 DEF Matched, Anchored, Inhabited
<1>4. ASSUME M # {} PROVE Strongest(M) \in M
  <2> DEFINE f == [id \in M |-> Strength(entities[id].type)]
  <2>1. \A id \in M : f[id] \in 1..4 /\ f[id] = Strength(entities[id].type)
    BY <1>3, StrengthTyped DEF Inhabited, IsEntity
  <2>2. M \subseteq Nat
    BY <1>1, <1>3
  <2> HIDE DEF f
  <2>3. \E id \in M : \A other \in M : f[id] > f[other] \/ (f[id] = f[other] /\ id <= other)
    BY <1>4, <2>1, <2>2, FirstOfStrongest
  <2>4. \E id \in M : \A other \in M :
          \/ Strength(entities[id].type) > Strength(entities[other].type)
          \/ Strength(entities[id].type) = Strength(entities[other].type) /\ id <= other
    BY <2>1, <2>3
  <2> QED BY <2>4 DEF Strongest
<1>5. ASSUME event.aliases # {} PROVE Founder(event.aliases) \in event.aliases
  <2> DEFINE f == [a \in event.aliases |-> Strength(KindOf[a])]
  <2>1. \A a \in event.aliases : f[a] \in 1..4 /\ f[a] = Strength(KindOf[a])
    BY <1>1, StrengthTyped, IdentityAssumption
  <2>2. event.aliases \subseteq Nat
    BY <1>1
  <2> HIDE DEF f
  <2>3. \E a \in event.aliases : \A b \in event.aliases : f[a] > f[b] \/ (f[a] = f[b] /\ a <= b)
    BY <1>5, <2>1, <2>2, FirstOfStrongest
  <2>4. \E a \in event.aliases : \A b \in event.aliases : Strength(KindOf[a]) >= Strength(KindOf[b])
    BY <2>1, <2>3
  <2> QED BY <2>4 DEF Founder
<1>6. M = {} <=> event.aliases \cap DOMAIN canonical = {}
  BY <1>2 DEF Matched
<1>7. Resolve(event) = IF event.aliases = {} THEN event.app
                       ELSE IF M = {} THEN Founder(event.aliases) ELSE Strongest(M)
  BY <1>2 DEF Resolve
<1> QED BY <1>2, <1>3, <1>4, <1>5, <1>6, <1>7

LogTyped == log \in Seq([event : Event, id : App \cup Alias])

\* What the processing of an event does to aliases, entities and the log: A are
\* its aliases, M the entities they lead to, id is what it resolves to.
Outcome(event, id, M, A) ==
  /\ id = Resolve(event) /\ M = Matched(event.aliases) /\ A = event.aliases
  /\ A \subseteq Alias /\ event.app \in App
  /\ M = {canonical[a] : a \in A \cap DOMAIN canonical}
  /\ M \subseteq DOMAIN canonical \cap DOMAIN entities
  /\ A = {} => id \in App /\ id = event.app /\ M = {}
  /\ A # {} /\ M = {} => id \in A /\ id \notin DOMAIN canonical
  /\ A # {} /\ M # {} => id \in M
  /\ M = {} => A \cap DOMAIN canonical = {}
  /\ canonical' = [a \in DOMAIN canonical \cup A |->
                     IF a \in A \/ canonical[a] \in M \ {id} THEN id ELSE canonical[a]]
  /\ DOMAIN entities' = (DOMAIN entities \ M) \cup {id}
  /\ \A i \in DOMAIN entities \ M : i # id => entities'[i] = entities[i]
  /\ log' = Append(log, [event |-> event, id |-> id])

LEMMA Processing ==
  ASSUME Anchored, Inhabited, LogTyped, NEW event \in Event, ProcessEvent(event)
  PROVE  \E id, M, A : Outcome(event, id, M, A)
<1> PICK id, M, A : id = Resolve(event) /\ M = Matched(event.aliases) /\ A = event.aliases
  OBVIOUS
<1>1. A \subseteq Alias /\ event.app \in App
  BY CorrelatorAssumption
<1>2. M = {canonical[a] : a \in A \cap DOMAIN canonical}
  BY DEF Matched
<1>3. M \subseteq DOMAIN canonical \cap DOMAIN entities
  BY Resolution
<1>4. A = {} => id \in App /\ id = event.app /\ M = {}
  BY <1>1, Resolution
<1>5. M = {} => A \cap DOMAIN canonical = {}
  BY Resolution
<1>6. A # {} /\ M = {} => id \in A /\ id \notin DOMAIN canonical
  <2>1. A # {} /\ M = {} => id \in A
    BY Resolution
  <2> QED BY <1>5, <2>1
<1>7. A # {} /\ M # {} => id \in M
  BY Resolution
<1>8. canonical' = [a \in DOMAIN canonical \cup A |->
                      IF a \in A \/ canonical[a] \in M \ {id} THEN id ELSE canonical[a]]
  BY DEF ProcessEvent, Redirected, Absorbed
<1>9. DOMAIN EntitiesAfter(event, Now) = (DOMAIN entities \ M) \cup {id}
      /\ \A i \in DOMAIN entities \ M : i # id => EntitiesAfter(event, Now)[i] = entities[i]
  BY DEF EntitiesAfter, Absorbed
<1>10. entities' = [EntitiesAfter(event, Now) EXCEPT ![id].capabilities = @ \cup InferCapabilities(event)]
  BY DEF ProcessEvent
<1>11. DOMAIN entities' = (DOMAIN entities \ M) \cup {id}
       /\ \A i \in DOMAIN entities \ M : i # id => entities'[i] = entities[i]
  BY <1>9, <1>10
<1>12. log' = Append(log, [event |-> event, id |-> id])
  BY DEF ProcessEvent
<1>13. Outcome(event, id, M, A)
  BY <1>1, <1>2, <1>3, <1>4, <1>5, <1>6, <1>7, <1>8, <1>11, <1>12 DEF Outcome
<1> QED BY <1>13

LEMMA AnchoredStep ==
  ASSUME Anchored, Inhabited, LogTyped, NEW event \in Event, ProcessEvent(event)
  PROVE  Anchored' /\ LogTyped'
<1>1. PICK id, M, A : Outcome(event, id, M, A)
  BY Processing
<1> USE DEF Outcome
<1> DEFINE old == DOMAIN canonical
<1>2. /\ old \subseteq Alias
      /\ \A a \in old : canonical[a] \in old /\ canonical[canonical[a]] = canonical[a]
  BY DEF Anchored
<1>3. DOMAIN canonical' = old \cup A
  BY <1>1
<1>4. \A a \in A : canonical'[a] = id
  BY <1>1
<1>5. \A a \in old \ A : canonical'[a] = IF canonical[a] \in M \ {id} THEN id ELSE canonical[a]
  BY <1>1
<1>6. A # {} => id \in old \cup A /\ canonical'[id] = id
  <2>1. CASE A # {} /\ M = {}
    BY <1>1, <1>4, <2>1
  <2>2. CASE A # {} /\ M # {}
    <3>1. PICK a \in A \cap old : id = canonical[a]
      BY <1>1, <2>2
    <3>2. id \in old /\ canonical[id] = id
      BY <1>2, <3>1
    <3> QED BY <1>4, <1>5, <3>2
  <2> QED BY <2>1, <2>2
<1>7. ASSUME NEW a \in old \cup A
      PROVE  canonical'[a] \in old \cup A /\ canonical'[canonical'[a]] = canonical'[a]
  <2>1. CASE a \in A
    BY <1>4, <1>6, <2>1
  <2>2. CASE a \notin A /\ canonical[a] \in M \ {id}
    <3>1. A # {} /\ canonical'[a] = id
      BY <1>1, <1>5, <2>2
    <3> QED BY <1>6, <3>1
  <2>3. CASE a \notin A /\ canonical[a] \notin M \ {id}
    <3>1. PICK c : c = canonical[a]
      OBVIOUS
    <3>2. c \in old /\ canonical[c] = c /\ canonical'[a] = c
      BY <1>2, <1>5, <2>3, <3>1
    <3>3. c \in A => c = id
      <4>1. c \in A => c \in M
        BY <1>1, <3>2
      <4> QED BY <2>3, <3>1, <4>1
    <3>4. canonical'[c] = c
      BY <1>4, <1>5, <2>3, <3>1, <3>2, <3>3
    <3> QED BY <3>2, <3>4
  <2> QED BY <2>1, <2>2, <2>3
<1>8. canonical' \in [old \cup A -> old \cup A]
  <2>1. canonical' = [a \in old \cup A |-> canonical'[a]]
    BY <1>1
  <2> QED BY <1>7, <2>1
<1>9. Anchored'
  BY <1>1, <1>2, <1>3, <1>7, <1>8 DEF Anchored
<1>10. id \in App \cup Alias
  BY <1>1, <1>2
<1> QED BY <1>1, <1>9, <1>10 DEF LogTyped

\* What it makes of the entity the event resolves to.
Known(id, event) == IF id \in DOMAIN entities THEN entities[id] ELSE NewEntity(id, event, Now)

LEMMA EntityStep ==
  ASSUME Anchored, Inhabited, LogTyped, NEW event \in Event, ProcessEvent(event),
         NEW id, id = Resolve(event), NEW M, M = Matched(event.aliases)
  PROVE  /\ IsEntity(Known(id, event))
         /\ IsEntity(entities'[id])
         /\ entities'[id].apps = Known(id, event).apps \cup {event.app}
              \cup UNION {entities[i].apps : i \in M \ {id}}
         /\ entities'[id].capabilities = Known(id, event).capabilities \cup InferCapabilities(event)
              \cup UNION {entities[i].capabilities : i \in M \ {id}}
         /\ entities'[id].count = Known(id, event).count + CountOf(M \ {id}) + 1
         /\ IsLeast(entities'[id].first,
                    {Known(id, event).first} \cup {entities[i].first : i \in M \ {id}})
         /\ event.aliases # {} =>
              IsGreatest(entities'[id].last,
                         {event.ts, Known(id, event).last} \cup {entities[i].last : i \in M \ {id}})
<1> DEFINE x == Known(id, event)
           m == Merged(x, M \ {id})
           u == Updated(m, event)
           v == [u EXCEPT !.capabilities = @ \cup InferCapabilities(event)]
           low == Min({x.first} \cup {entities[i].first : i \in M \ {id}})
           high == Max({x.last} \cup {entities[i].last : i \in M \ {id}})
<1>1. /\ event.aliases \subseteq Alias /\ event.app \in App /\ event.ts \in Int
      /\ IsFiniteSet(event.aliases) /\ Now \in Nat
  BY CorrelatorAssumption, LenProperties DEF Now, LogTyped
<1>2. /\ M \subseteq DOMAIN entities
      /\ event.aliases # {} => id \in M \/ id \in Alias
  <2>1. M \subseteq DOMAIN canonical \cap DOMAIN entities
    BY Resolution
  <2>2. event.aliases # {} => id \in M \/ id \in event.aliases
    BY Resolution
  <2> QED BY <1>1, <2>1, <2>2
<1>3. IsEntity(x)
  <2>1. CASE id \in DOMAIN entities
    BY <2>1 DEF Known, Inhabited
  <2>2. CASE id \notin DOMAIN entities
    <3>1. event.aliases # {} => KindOf[id] \in EntityType
      BY <1>2, <2>2, IdentityAssumption
    <3>2. "host" \in EntityType
      BY DEF EntityType
    <3>3. x = NewEntity(id, event, Now)
      BY <2>2 DEF Known
    <3> QED BY <1>1, <3>1, <3>2, <3>3 DEF NewEntity, IsEntity
  <2> QED BY <2>1, <2>2
<1>4. \A i \in M \ {id} : entities[i].first \in Int /\ entities[i].last \in Int
  BY <1>2 DEF Inhabited, IsEntity
<1>5. IsFiniteSet(M \ {id})
  <2>1. IsFiniteSet(event.aliases \cap DOMAIN canonical)
    BY <1>1, FS_Subset
  <2>2. IsFiniteSet({canonical[a] : a \in event.aliases \cap DOMAIN canonical})
    BY <2>1, ImageFinite
  <2>3. IsFiniteSet(M)
    BY <2>2 DEF Matched
  <2> QED BY <2>3, FS_Subset
<1>6. IsFiniteSet({entities[i].first : i \in M \ {id}}) /\ IsFiniteSet({entities[i].last : i \in M \ {id}})
  <2> DEFINE N == M \ {id}
             firsts == [i \in N |-> entities[i].first]
             lasts == [i \in N |-> entities[i].last]
  <2>1. IsFiniteSet({firsts[i] : i \in N}) /\ IsFiniteSet({lasts[i] : i \in N})
    <3> HIDE DEF N, firsts, lasts
    <3> QED BY <1>5, ImageFinite DEF N
  <2>2. {firsts[i] : i \in N} = {entities[i].first : i \in N}
    OBVIOUS
  <2>3. {lasts[i] : i \in N} = {entities[i].last : i \in N}
    OBVIOUS
  <2> QED BY <2>1, <2>2, <2>3
<1>7. low \in Int /\ IsLeast(low, {x.first} \cup {entities[i].first : i \in M \ {id}})
  <2>1. PICK S : S = {x.first} \cup {entities[i].first : i \in M \ {id}}
    OBVIOUS
  <2>2. S \subseteq Int /\ S # {}
    BY <1>3, <1>4, <2>1 DEF IsEntity
  <2>3. IsFiniteSet({entities[i].first : i \in M \ {id}} \cup {x.first})
    BY <1>6, FS_AddElement
  <2>4. S = {entities[i].first : i \in M \ {id}} \cup {x.first}
    BY <2>1
  <2>5. IsLeast(Min(S), S)
    BY <2>2, <2>3, <2>4, Extremes
  <2>6. Min(S) \in Int
    BY <2>2, <2>5 DEF IsLeast
  <2> QED BY <2>1, <2>5, <2>6
<1>8. high \in Int /\ IsGreatest(high, {x.last} \cup {entities[i].last : i \in M \ {id}})
  <2>1. PICK S : S = {x.last} \cup {entities[i].last : i \in M \ {id}}
    OBVIOUS
  <2>2. S \subseteq Int /\ S # {}
    BY <1>3, <1>4, <2>1 DEF IsEntity
  <2>3. IsFiniteSet({entities[i].last : i \in M \ {id}} \cup {x.last})
    BY <1>6, FS_AddElement
  <2>4. S = {entities[i].last : i \in M \ {id}} \cup {x.last}
    BY <2>1
  <2>5. IsGreatest(Max(S), S)
    BY <2>2, <2>3, <2>4, Extremes
  <2>6. Max(S) \in Int
    BY <2>2, <2>5 DEF IsGreatest
  <2> QED BY <2>1, <2>5, <2>6
<1>9. /\ Max({high, event.ts}) \in Int
      /\ IsGreatest(Max({high, event.ts}), {event.ts, x.last} \cup {entities[i].last : i \in M \ {id}})
  <2>1. PICK h : h = high
    OBVIOUS
  <2>2. IsFiniteSet({h, event.ts})
    <3>1. IsFiniteSet({h} \cup {event.ts})
      BY FS_Singleton, FS_AddElement
    <3>2. {h, event.ts} = {h} \cup {event.ts}
      OBVIOUS
    <3> QED BY <3>1, <3>2
  <2>3. {h, event.ts} \subseteq Int
    BY <1>1, <1>8, <2>1
  <2>4. PICK top : top = Max({h, event.ts})
    OBVIOUS
  <2>5. IsGreatest(top, {h, event.ts})
    BY <2>2, <2>3, <2>4, Extremes
  <2>6. top \in Int /\ (top = h \/ top = event.ts) /\ top >= h /\ top >= event.ts
    BY <2>3, <2>5 DEF IsGreatest
  <2>7. PICK S : S = {x.last} \cup {entities[i].last : i \in M \ {id}}
    OBVIOUS
  <2>8. S \subseteq Int /\ IsGreatest(h, S)
    BY <1>3, <1>4, <1>8, <2>1, <2>7 DEF IsEntity
  <2>9. IsGreatest(top, {event.ts} \cup S)
    <3>1. h \in Int /\ h \in S /\ \A y \in S : y \in Int /\ h >= y
      BY <2>8 DEF IsGreatest
    <3>2. \A y \in S : top >= y
      BY <2>6, <3>1
    <3> QED BY <2>6, <3>1, <3>2 DEF IsGreatest
  <2>10. {event.ts, x.last} \cup {entities[i].last : i \in M \ {id}} = {event.ts} \cup S
    BY <2>7
  <2> QED BY <2>1, <2>4, <2>6, <2>9, <2>10
<1>10. entities'[id] = v
  <2>1. EntitiesAfter(event, Now)[id] = u /\ id \in DOMAIN EntitiesAfter(event, Now)
    BY DEF EntitiesAfter, Known, Absorbed
  <2>2. entities' = [EntitiesAfter(event, Now) EXCEPT ![id].capabilities = @ \cup InferCapabilities(event)]
    BY DEF ProcessEvent
  <2> HIDE DEF u
  <2> QED BY <2>1, <2>2
<1>11. /\ m.type = x.type /\ m.apps = x.apps \cup UNION {entities[i].apps : i \in M \ {id}}
       /\ m.capabilities = x.capabilities \cup UNION {entities[i].capabilities : i \in M \ {id}}
       /\ m.count = x.count + CountOf(M \ {id}) /\ m.first = low /\ m.last = high
       /\ m = [type |-> m.type, aliases |-> m.aliases, apps |-> m.apps,
               capabilities |-> m.capabilities, count |-> m.count, first |-> m.first, last |-> m.last]
  <2> HIDE DEF x
  <2>1. PICK ty, al, ap, ca, co, fi, la :
          x = [type |-> ty, aliases |-> al, apps |-> ap, capabilities |-> ca,
               count |-> co, first |-> fi, last |-> la]
    BY <1>3 DEF IsEntity
  <2>2. PICK y : y = Merged(x, M \ {id})
    OBVIOUS
  <2>3. /\ y.type = ty /\ y.apps = ap \cup UNION {entities[i].apps : i \in M \ {id}}
        /\ y.capabilities = ca \cup UNION {entities[i].capabilities : i \in M \ {id}}
        /\ y.count = co + CountOf(M \ {id})
        /\ y.first = Min({fi} \cup {entities[i].first : i \in M \ {id}})
        /\ y.last = Max({la} \cup {entities[i].last : i \in M \ {id}})
    BY <2>1, <2>2 DEF Merged
  <2>4. y = [type |-> y.type, aliases |-> y.aliases, apps |-> y.apps,
             capabilities |-> y.capabilities, count |-> y.count, first |-> y.first, last |-> y.last]
    BY <2>1, <2>2 DEF Merged
  <2>5. x.type = ty /\ x.apps = ap /\ x.capabilities = ca /\ x.count = co /\ x.first = fi /\ x.last = la
    BY <2>1
  <2> QED BY <2>2, <2>3, <2>4, <2>5
<1> HIDE DEF m
<1>12. /\ u.type \in {x.type, "user"} /\ u.apps = m.apps \cup {event.app}
       /\ u.capabilities = m.capabilities /\ u.count = m.count + 1 /\ u.first = m.first
       /\ u.last = IF event.aliases = {} THEN event.ts ELSE Max({m.last, event.ts})
       /\ u = [type |-> u.type, aliases |-> u.aliases, apps |-> u.apps,
               capabilities |-> u.capabilities, count |-> u.count, first |-> u.first, last |-> u.last]
  <2>1. PICK ty, al, ap, ca, co, fi, la :
          m = [type |-> ty, aliases |-> al, apps |-> ap, capabilities |-> ca,
               count |-> co, first |-> fi, last |-> la]
    BY <1>11
  <2> HIDE DEF low, high
  <2>2. PICK y : y = Updated(m, event)
    OBVIOUS
  <2>3. /\ y.type = IF event.aliases # {} /\ event.user THEN "user" ELSE ty
        /\ y.apps = ap \cup {event.app} /\ y.capabilities = ca /\ y.count = co + 1 /\ y.first = fi
        /\ y.last = IF event.aliases = {} THEN event.ts ELSE Max({la, event.ts})
    BY <2>1, <2>2 DEF Updated
  <2>4. y = [type |-> y.type, aliases |-> y.aliases, apps |-> y.apps,
             capabilities |-> y.capabilities, count |-> y.count, first |-> y.first, last |-> y.last]
    BY <2>1, <2>2 DEF Updated
  <2>5. /\ m.type = ty /\ m.apps = ap /\ m.capabilities = ca /\ m.count = co /\ m.first = fi
        /\ m.last = la /\ x.type = ty
    BY <1>11, <2>1
  <2>6. y.type \in {x.type, "user"}
    BY <2>3, <2>5
  <2> QED BY <2>2, <2>3, <2>4, <2>5, <2>6
<1> HIDE DEF u
<1>13. /\ v.type = u.type /\ v.apps = u.apps /\ v.count = u.count /\ v.first = u.first /\ v.last = u.last
       /\ v.capabilities = u.capabilities \cup InferCapabilities(event)
       /\ v = [type |-> v.type, aliases |-> v.aliases, apps |-> v.apps,
               capabilities |-> v.capabilities, count |-> v.count, first |-> v.first, last |-> v.last]
  BY <1>12
<1> HIDE DEF v
<1>14. v.type \in EntityType
  BY <1>3, <1>12, <1>13 DEF IsEntity, EntityType
<1>15. v.first \in Int /\ v.last \in Int
  BY <1>1, <1>7, <1>9, <1>11, <1>12, <1>13
<1>16. IsEntity(v)
  BY <1>13, <1>14, <1>15 DEF IsEntity
<1>17. v.apps = x.apps \cup {event.app} \cup UNION {entities[i].apps : i \in M \ {id}}
  BY <1>11, <1>12, <1>13
<1>18. v.capabilities = x.capabilities \cup InferCapabilities(event)
                          \cup UNION {entities[i].capabilities : i \in M \ {id}}
  BY <1>11, <1>12, <1>13
<1>19. v.count = x.count + CountOf(M \ {id}) + 1 /\ v.first = low
  BY <1>11, <1>12, <1>13
<1>20. event.aliases # {} => v.last = Max({high, event.ts})
  BY <1>11, <1>12, <1>13
<1>21. IsLeast(v.first, {x.first} \cup {entities[i].first : i \in M \ {id}})
  BY <1>7, <1>19
<1>22. event.aliases # {} =>
         IsGreatest(v.last, {event.ts, x.last} \cup {entities[i].last : i \in M \ {id}})
  BY <1>9, <1>20
<1> QED BY <1>3, <1>10, <1>16, <1>17, <1>18, <1>19, <1>21, <1>22

LEMMA InhabitedStep ==
  ASSUME Anchored, Inhabited, LogTyped, NEW event \in Event, ProcessEvent(event)
  PROVE  Inhabited'
<1>1. PICK id, M, A : Outcome(event, id, M, A)
  BY Processing
<1> USE DEF Outcome
<1> DEFINE old == DOMAIN canonical
<1>2. DOMAIN canonical' = old \cup A
  BY <1>1
<1>3. \A a \in A : canonical'[a] = id
  BY <1>1
<1>4. \A a \in old \ A : canonical'[a] = IF canonical[a] \in M \ {id} THEN id ELSE canonical[a]
  BY <1>1
<1>5. /\ DOMAIN entities \subseteq App \cup old
      /\ \A a \in old : canonical[a] \in DOMAIN entities
      /\ \A i \in DOMAIN entities \cap Alias : canonical[i] = i
  BY DEF Inhabited
<1>6. App \cap Alias = {} /\ old \subseteq Alias
  BY CorrelatorAssumption DEF Anchored
<1>7. DOMAIN entities' \subseteq App \cup DOMAIN canonical'
  BY <1>1, <1>2, <1>5
<1>8. ASSUME NEW a \in old \cup A PROVE canonical'[a] \in DOMAIN entities'
  <2>1. CASE a \in A
    BY <1>1, <1>3, <2>1
  <2>2. CASE a \notin A /\ canonical[a] \in M \ {id}
    BY <1>1, <1>4, <2>2
  <2>3. CASE a \notin A /\ canonical[a] \notin M \ {id}
    <3>1. canonical'[a] = canonical[a] /\ canonical[a] \in DOMAIN entities
      BY <1>4, <1>5, <2>3
    <3> QED BY <1>1, <2>3, <3>1
  <2> QED BY <2>1, <2>2, <2>3
<1>9. ASSUME NEW i \in DOMAIN entities' \cap Alias PROVE canonical'[i] = i
  <2>1. CASE i = id
    <3>1. A # {}
      BY <1>1, <1>6, <2>1
    <3>2. CASE i \in A
      BY <1>3, <2>1, <3>2
    <3>3. CASE i \notin A
      <4>1. id \in M
        BY <1>1, <2>1, <3>1, <3>3
      <4>2. canonical[i] = i
        BY <1>1, <1>5, <2>1, <4>1
      <4> QED BY <1>1, <1>4, <2>1, <3>3, <4>1, <4>2
    <3> QED BY <3>2, <3>3
  <2>2. CASE i # id
    <3>1. i \in DOMAIN entities \cap Alias /\ i \notin M
      BY <1>1, <2>2
    <3>2. i \in old /\ canonical[i] = i
      BY <1>5, <1>6, <3>1
    <3>3. i \notin A
      BY <1>1, <3>1, <3>2
    <3> QED BY <1>4, <3>1, <3>2, <3>3
  <2> QED BY <2>1, <2>2
<1>10. ASSUME NEW i \in DOMAIN entities' PROVE IsEntity(entities'[i])
  <2>1. IsEntity(entities'[id])
    BY <1>1, EntityStep
  <2>2. CASE i # id
    BY <1>1, <2>2 DEF Inhabited
  <2> QED BY <2>1, <2>2
<1> QED BY <1>2, <1>7, <1>8, <1>9, <1>10 DEF Inhabited, IsEntity

-----------------------------------------------------------------------------
(* Identity is connectivity.                                               *)

\* Aliases named together have been given one entity.
Linked ==
  \A i \in DOMAIN log : \A a, b \in log[i].event.aliases :
    a \in DOMAIN canonical /\ canonical[a] = canonical[b]

\* No part of an entity's aliases is without an event that names others of them.
Bridged ==
  \A id \in DOMAIN entities : \A part \in (SUBSET Group(id)) \ {{}, Group(id)} :
    \E i \in DOMAIN log :
      log[i].event.aliases \cap part # {} /\ log[i].event.aliases \cap (Group(id) \ part) # {}

\* What Group becomes: the entity takes over the aliases of those it absorbs.
LEMMA GroupStep ==
  ASSUME Anchored, Inhabited, LogTyped, NEW event, NEW id, NEW M, NEW A, Outcome(event, id, M, A)
  PROVE  /\ A # {} => Group(id)' = A \cup {a \in DOMAIN canonical : canonical[a] \in M}
         /\ A = {} => \A x : Group(x)' = Group(x)
         /\ \A x \in DOMAIN entities \ M : x # id => Group(x)' = Group(x)
<1> USE DEF Outcome
<1> DEFINE old == DOMAIN canonical
<1>1. DOMAIN canonical' = old \cup A
  OBVIOUS
<1>2. \A a \in A : canonical'[a] = id
  OBVIOUS
<1>3. \A a \in old \ A : canonical'[a] = IF canonical[a] \in M \ {id} THEN id ELSE canonical[a]
  OBVIOUS
<1>4. \A a \in A \cap old : canonical[a] \in M
  OBVIOUS
<1>5. ASSUME A # {}
      PROVE  Group(id)' = A \cup {a \in old : canonical[a] \in M}
  <2>1. \A a \in old : canonical[a] = id => id \in M
    <3>1. \A a \in old : canonical[a] \in old
      BY DEF Anchored
    <3> QED BY <1>5, <3>1
  <2>2. ASSUME NEW a \in old \cup A
        PROVE  canonical'[a] = id <=> a \in A \/ (a \in old /\ canonical[a] \in M)
    <3>1. CASE a \in A
      BY <1>2, <3>1
    <3>2. CASE a \notin A
      BY <1>3, <2>1, <3>2
    <3> QED BY <3>1, <3>2
  <2> QED BY <1>1, <2>2 DEF Group
<1>6. ASSUME A = {}
      PROVE  \A x : Group(x)' = Group(x)
  <2>1. DOMAIN canonical' = old /\ \A a \in old : canonical'[a] = canonical[a]
    BY <1>1, <1>3, <1>6
  <2> QED BY <2>1 DEF Group
<1>7. ASSUME NEW x \in DOMAIN entities \ M, x # id
      PROVE  Group(x)' = Group(x)
  <2>1. ASSUME NEW a \in old \cup A
        PROVE  canonical'[a] = x <=> a \in old /\ canonical[a] = x
    <3>1. CASE a \in A
      BY <1>2, <1>4, <1>7, <3>1
    <3>2. CASE a \notin A
      BY <1>3, <1>7, <3>2
    <3> QED BY <3>1, <3>2
  <2> QED BY <1>1, <2>1 DEF Group
<1> QED BY <1>5, <1>6, <1>7

\* The log grows by the event.
LEMMA LogStep ==
  ASSUME LogTyped, NEW event, NEW id, NEW M, NEW A, Outcome(event, id, M, A)
  PROVE  /\ Len(log) \in Nat /\ DOMAIN log = 1..Len(log)
         /\ Len(log') = Len(log) + 1 /\ DOMAIN log' = 1..(Len(log) + 1)
         /\ DOMAIN log' = DOMAIN log \cup {Len(log) + 1} /\ Len(log) + 1 \notin DOMAIN log
         /\ log'[Len(log) + 1].event = event /\ log'[Len(log) + 1].id = id
         /\ \A i \in DOMAIN log : log'[i] = log[i]
         /\ \A i \in DOMAIN log : log[i].event \in Event /\ log[i].id \in App \cup Alias
<1>1. log' = Append(log, [event |-> event, id |-> id])
  BY DEF Outcome
<1>2. \E S : log \in Seq(S) /\ S = [event : Event, id : App \cup Alias]
  BY DEF LogTyped
<1>3. Len(log) \in Nat /\ DOMAIN log = 1..Len(log)
      /\ \A i \in DOMAIN log : log[i] \in [event : Event, id : App \cup Alias]
  BY <1>2, LenProperties, ElementOfSeq
<1>4. Len(log') = Len(log) + 1 /\ DOMAIN log' = 1..(Len(log) + 1)
      /\ log'[Len(log) + 1] = [event |-> event, id |-> id] /\ \A i \in 1..Len(log) : log'[i] = log[i]
  BY <1>1, <1>2
<1> QED BY <1>3, <1>4

LEMMA LinkedStep ==
  ASSUME Anchored, Inhabited, LogTyped, Linked, NEW event \in Event, ProcessEvent(event)
  PROVE  Linked'
<1>1. PICK id, M, A : Outcome(event, id, M, A)
  BY Processing
<1>2. /\ DOMAIN canonical' = DOMAIN canonical \cup A
      /\ \A a \in A : canonical'[a] = id
      /\ \A a \in DOMAIN canonical \ A :
           canonical'[a] = IF canonical[a] \in M \ {id} THEN id ELSE canonical[a]
      /\ \A a \in A \cap DOMAIN canonical : canonical[a] \in M
  BY <1>1 DEF Outcome
<1>3. ASSUME NEW i \in DOMAIN log', NEW a \in log'[i].event.aliases, NEW b \in log'[i].event.aliases
      PROVE  a \in DOMAIN canonical' /\ canonical'[a] = canonical'[b]
  <2>1. CASE i \in DOMAIN log
    <3>1. a \in log[i].event.aliases /\ b \in log[i].event.aliases
      BY <1>1, <2>1, LogStep
    <3>2. a \in DOMAIN canonical /\ b \in DOMAIN canonical /\ canonical[a] = canonical[b]
      BY <2>1, <3>1 DEF Linked
    <3>3. PICK c : c = canonical[a] /\ c = canonical[b]
      BY <3>2
    <3>4. CASE c \in M
      <4>1. \A x \in DOMAIN canonical : canonical[x] = c => canonical'[x] = id
        BY <1>2, <3>4
      <4> QED BY <1>2, <3>2, <3>3, <4>1
    <3>5. CASE c \notin M
      BY <1>2, <3>2, <3>3, <3>5
    <3> QED BY <3>4, <3>5
  <2>2. CASE i \notin DOMAIN log
    <3>1. log'[i].event = event
      BY <1>1, <2>2, LogStep
    <3> QED BY <1>1, <1>2, <3>1 DEF Outcome
  <2> QED BY <2>1, <2>2
<1> QED BY <1>3 DEF Linked

LEMMA BridgedStep ==
  ASSUME Anchored, Inhabited, LogTyped, Bridged, NEW event \in Event, ProcessEvent(event)
  PROVE  Bridged'
<1>1. PICK id, M, A : Outcome(event, id, M, A)
  BY Processing
<1>2. ASSUME NEW x, NEW G, G = Group(x), x \in DOMAIN entities,
             NEW part \in SUBSET G, part # {}, part # G
      PROVE  \E i \in DOMAIN log' : /\ log'[i].event.aliases \cap part # {}
                                    /\ log'[i].event.aliases \cap (G \ part) # {}
  <2>1. part \in (SUBSET Group(x)) \ {{}, Group(x)}
    BY <1>2
  <2>2. PICK i \in DOMAIN log : /\ log[i].event.aliases \cap part # {}
                                /\ log[i].event.aliases \cap (Group(x) \ part) # {}
    BY <1>2, <2>1 DEF Bridged
  <2>3. i \in DOMAIN log' /\ log'[i] = log[i]
    BY <1>1, LogStep
  <2> QED BY <1>2, <2>2, <2>3
<1>3. ASSUME NEW x \in DOMAIN entities', NEW part, NEW G, G = Group(x)',
             part \in (SUBSET G) \ {{}, G}
      PROVE  \E i \in DOMAIN log' : /\ log'[i].event.aliases \cap part # {}
                                    /\ log'[i].event.aliases \cap (G \ part) # {}
  <2>1. CASE x # id
    <3>1. x \in DOMAIN entities \ M /\ Group(x)' = Group(x)
      <4>1. x \in DOMAIN entities \ M
        BY <1>1, <2>1 DEF Outcome
      <4>2. \A y \in DOMAIN entities \ M : y # id => Group(y)' = Group(y)
        BY <1>1, GroupStep
      <4> QED BY <2>1, <4>1, <4>2
    <3> QED BY <1>2, <1>3, <3>1
  <2>2. CASE x = id /\ A = {}
    <3>1. G = Group(x)
      BY <1>1, <1>3, <2>2, GroupStep
    <3>2. x \in DOMAIN entities
      <4>1. PICK a \in DOMAIN canonical : canonical[a] = x
        BY <1>3, <3>1 DEF Group
      <4> QED BY <4>1 DEF Inhabited
    <3> QED BY <1>2, <1>3, <3>1, <3>2
  <2>3. CASE x = id /\ A # {}
    <3>1. G = A \cup {a \in DOMAIN canonical : canonical[a] \in M}
      BY <1>1, <1>3, <2>3, GroupStep
    <3>2. CASE A \cap part # {} /\ A \ part # {}
      <4>1. Len(log) + 1 \in DOMAIN log' /\ log'[Len(log) + 1].event.aliases = A
        BY <1>1, LogStep DEF Outcome
      <4>2. A \cap (G \ part) # {}
        BY <3>1, <3>2
      <4> QED BY <3>2, <4>1, <4>2
    <3>3. CASE ~(A \cap part # {} /\ A \ part # {})
      <4>1. PICK b \in G \ A : \A a \in A : a \in part <=> b \notin part
        BY <1>3, <2>3, <3>1, <3>3
      <4>2. PICK m \in M : b \in DOMAIN canonical /\ canonical[b] = m
        BY <3>1, <4>1
      <4>3. PICK a \in A \cap DOMAIN canonical : canonical[a] = m
        BY <1>1, <4>2 DEF Outcome
      <4>4. PICK H : H = Group(m)
        OBVIOUS
      <4>5. a \in H /\ b \in H /\ H \subseteq G
        BY <3>1, <4>2, <4>3, <4>4 DEF Group
      <4>6. H \cap part # {} /\ H \cap part # H
        BY <4>1, <4>3, <4>5
      <4>7. m \in DOMAIN entities
        BY <1>1, <4>2 DEF Outcome
      <4>8. \E i \in DOMAIN log' : /\ log'[i].event.aliases \cap (H \cap part) # {}
                                   /\ log'[i].event.aliases \cap (H \ (H \cap part)) # {}
        BY <1>2, <4>4, <4>6, <4>7
      <4> QED BY <4>5, <4>8
    <3> QED BY <3>2, <3>3
  <2> QED BY <2>1, <2>2, <2>3
<1> QED BY <1>3 DEF Bridged

IdentityInv == Anchored /\ Inhabited /\ LogTyped /\ Linked /\ Bridged

LEMMA IdentityInitial == Init => IdentityInv
<1> SUFFICES ASSUME Init PROVE IdentityInv
  OBVIOUS
<1>1. canonical = <<>> /\ entities = <<>> /\ log = <<>>
  BY DEF Init, IdentityInit
<1>2. DOMAIN canonical = {} /\ DOMAIN entities = {} /\ DOMAIN log = {}
  BY <1>1
<1>3. canonical \in [{} -> {}]
  BY <1>1
<1> QED BY <1>1, <1>2, <1>3 DEF IdentityInv, Anchored, Inhabited, LogTyped, Linked, Bridged

LEMMA IdentityStep == IdentityInv /\ [Next]_vars => IdentityInv'
<1> SUFFICES ASSUME IdentityInv, [Next]_vars PROVE IdentityInv'
  OBVIOUS
<1>1. CASE Next
  <2>1. PICK event \in Event : ProcessEvent(event)
    BY <1>1 DEF Next
  <2> QED BY <2>1, AnchoredStep, InhabitedStep, LinkedStep, BridgedStep DEF IdentityInv
<1>2. CASE UNCHANGED vars
  <2>1. canonical' = canonical /\ entities' = entities /\ log' = log
    BY <1>2 DEF vars, identityVars
  <2>2. Anchored' /\ LogTyped'
    BY <2>1 DEF IdentityInv, Anchored, LogTyped
  <2>3. Inhabited'
    BY <2>1 DEF IdentityInv, Inhabited, IsEntity
  <2>4. Linked'
    BY <2>1 DEF IdentityInv, Linked
  <2>5. Bridged'
    <3>1. \A id : Group(id)' = Group(id)
      BY <2>1 DEF Group
    <3>2. Bridged
      BY DEF IdentityInv
    <3> QED BY <2>1, <3>1, <3>2 DEF Bridged
  <2> QED BY <2>2, <2>3, <2>4, <2>5 DEF IdentityInv
<1> QED BY <1>1, <1>2

LEMMA IdentityInvariant == Spec => []IdentityInv
BY IdentityInitial, IdentityStep, PTL DEF Spec

\* Reports and telemetry reach the correlator as events of its own.
LEMMA SensorsAreEvents == SensorSpec => Spec
<1>1. SensorInit => Init
  BY DEF SensorInit
<1>2. ASSUME [SensorNext]_sensorVars PROVE [Next]_vars
  <2>1. ASSUME NEW r \in Report, Detect(r) PROVE Next
    <3>1. EventOf(r) \in Event
      BY <2>1, SensorAssumption DEF Detect
    <3> QED BY <2>1, <3>1 DEF Detect, Next
  <2>2. ASSUME NEW event \in Telemetry, Observe(event) PROVE Next
    <3>1. event \in Event
      BY SensorAssumption
    <3> QED BY <2>2, <3>1 DEF Observe, Next
  <2> QED BY <1>2, <2>1, <2>2 DEF SensorNext, sensorVars
<1> QED BY <1>1, <1>2, PTL DEF SensorSpec, Spec

\* Aliases have one canonical entity exactly when a chain of events links them,
\* whatever events come in whatever order: those of one event are never apart,
\* and an entity holds no aliases that no event joins to the others
\* (identity.rs:128-206).
THEOREM IdentityConnects == SensorSpec => []IdentityIsConnectivity
<1>1. IdentityInv => IdentityIsConnectivity
  BY DEF IdentityInv, Linked, Bridged, IdentityIsConnectivity
<1> QED BY <1>1, IdentityInvariant, SensorsAreEvents, PTL

-----------------------------------------------------------------------------
(* What an entity's events have said of it.                                *)

\* The events that were recorded under one of an entity's former ids.
EventsOf(id) == {i \in DOMAIN log : log[i].id \in FormerIds(id)}

\* An event went to an entity that is still there, with all aliases of the event.
Recorded ==
  \A i \in DOMAIN log :
    /\ log[i].event.aliases = {} => log[i].id \in App
    /\ log[i].id \in App => log[i].id \in DOMAIN entities /\ log[i].event.aliases = {}
    /\ log[i].id \notin App => log[i].id \in DOMAIN canonical
    /\ \A a \in log[i].event.aliases :
         a \in DOMAIN canonical /\ canonical[a] = canonical[log[i].id]

Tallied ==
  \A id \in DOMAIN entities :
    /\ entities[id].count = Cardinality(EventsOf(id))
    /\ entities[id].apps = {log[i].event.app : i \in EventsOf(id)}
    /\ entities[id].capabilities = UNION {InferCapabilities(log[i].event) : i \in EventsOf(id)}

LEMMA RecordedStep ==
  ASSUME Anchored, Inhabited, LogTyped, Recorded, NEW event \in Event, ProcessEvent(event)
  PROVE  Recorded'
<1>1. PICK id, M, A : Outcome(event, id, M, A)
  BY Processing
<1>2. /\ DOMAIN canonical' = DOMAIN canonical \cup A
      /\ \A a \in A : canonical'[a] = id
      /\ \A a \in DOMAIN canonical \ A :
           canonical'[a] = IF canonical[a] \in M \ {id} THEN id ELSE canonical[a]
      /\ \A a \in A \cap DOMAIN canonical : canonical[a] \in M
      /\ M \subseteq DOMAIN canonical /\ App \cap Alias = {} /\ DOMAIN canonical \subseteq Alias
  BY <1>1, CorrelatorAssumption DEF Outcome, Anchored
<1>3. \A a, b \in DOMAIN canonical : canonical[a] = canonical[b] => canonical'[a] = canonical'[b]
  <2> TAKE a, b \in DOMAIN canonical
  <2> HAVE canonical[a] = canonical[b]
  <2>1. PICK c : c = canonical[a] /\ c = canonical[b]
    OBVIOUS
  <2>2. CASE c \in M
    BY <1>2, <2>1, <2>2
  <2>3. CASE c \notin M
    BY <1>2, <2>1, <2>3
  <2> QED BY <2>2, <2>3
<1>4. ASSUME NEW i \in DOMAIN log'
      PROVE  /\ log'[i].event.aliases = {} => log'[i].id \in App
             /\ log'[i].id \in App => log'[i].id \in DOMAIN entities' /\ log'[i].event.aliases = {}
             /\ log'[i].id \notin App => log'[i].id \in DOMAIN canonical'
             /\ \A a \in log'[i].event.aliases :
                  a \in DOMAIN canonical' /\ canonical'[a] = canonical'[log'[i].id]
  <2>1. CASE i \in DOMAIN log
    <3>1. log'[i] = log[i]
      BY <1>1, <2>1, LogStep
    <3>2. PICK x, B : x = log[i].id /\ B = log[i].event.aliases
      OBVIOUS
    <3>3. /\ B = {} => x \in App
          /\ x \in App => x \in DOMAIN entities /\ B = {}
          /\ x \notin App => x \in DOMAIN canonical
          /\ \A a \in B : a \in DOMAIN canonical /\ canonical[a] = canonical[x]
      BY <2>1, <3>2 DEF Recorded
    <3>4. x \in App => x \in DOMAIN entities'
      BY <1>1, <1>2, <3>3 DEF Outcome
    <3>5. \A a \in B : a \in DOMAIN canonical' /\ canonical'[a] = canonical'[x]
      BY <1>2, <1>3, <3>3
    <3> QED BY <1>2, <3>1, <3>2, <3>3, <3>4, <3>5
  <2>2. CASE i \notin DOMAIN log
    <3>1. log'[i].event = event /\ log'[i].id = id
      BY <1>1, <2>2, LogStep
    <3>2. id \in DOMAIN entities' /\ A = event.aliases
      BY <1>1 DEF Outcome
    <3>3. CASE A = {}
      <4>1. id \in App
        BY <1>1, <3>3 DEF Outcome
      <4> QED BY <3>1, <3>2, <3>3, <4>1
    <3>4. CASE A # {}
      <4>1. id \in A \/ id \in M
        BY <1>1, <3>4 DEF Outcome
      <4>2. id \in Alias /\ id \notin App /\ id \in DOMAIN canonical'
        BY <1>1, <1>2, <4>1 DEF Outcome
      <4>3. canonical'[id] = id
        <5>1. CASE id \in A
          BY <1>2, <5>1
        <5>2. CASE id \notin A
          <6>1. id \in M /\ id \in DOMAIN canonical /\ canonical[id] = id
            BY <1>1, <1>2, <4>1, <4>2, <5>2 DEF Outcome, Inhabited
          <6> QED BY <1>2, <5>2, <6>1
        <5> QED BY <5>1, <5>2
      <4> QED BY <1>2, <3>1, <3>2, <3>4, <4>2, <4>3
    <3> QED BY <3>3, <3>4
  <2> QED BY <2>1, <2>2
<1> QED BY <1>4 DEF Recorded

\* The entity an event resolves to takes over the events of those it absorbs.
LEMMA EventsStep ==
  ASSUME Anchored, Inhabited, LogTyped, Recorded, NEW event, NEW id, NEW M, NEW A,
         Outcome(event, id, M, A)
  PROVE  /\ EventsOf(id)' = {Len(log) + 1} \cup (IF id \in DOMAIN entities THEN EventsOf(id) ELSE {})
              \cup UNION {EventsOf(m) : m \in M \ {id}}
         /\ \A x \in DOMAIN entities \ M : x # id => EventsOf(x)' = EventsOf(x)
<1>1. /\ M \subseteq DOMAIN canonical \cap DOMAIN entities
      /\ App \cap Alias = {} /\ DOMAIN canonical \subseteq Alias /\ A \subseteq Alias
      /\ \A a \in A \cap DOMAIN canonical : canonical[a] \in M
      /\ DOMAIN entities \subseteq App \cup DOMAIN canonical
      /\ \A m \in M : canonical[m] = m
      /\ A = {} => id \in App /\ M = {}
      /\ A # {} /\ M = {} => id \in A /\ id \notin DOMAIN canonical
      /\ A # {} /\ M # {} => id \in M
  BY CorrelatorAssumption DEF Outcome, Anchored, Inhabited
<1>2. /\ DOMAIN log' = DOMAIN log \cup {Len(log) + 1} /\ Len(log) + 1 \notin DOMAIN log
      /\ log'[Len(log) + 1].id = id
      /\ \A i \in DOMAIN log : log'[i] = log[i]
  BY LogStep
<1>3. \A i \in DOMAIN log : /\ log[i].id \in App => log[i].id \in DOMAIN entities
                            /\ log[i].id \notin App => log[i].id \in DOMAIN canonical
  BY DEF Recorded
<1>4. CASE A = {}
  <2>1. id \in App /\ M = {} /\ \A x : Group(x)' = Group(x)
    BY <1>1, <1>4, GroupStep
  <2>2. \A x : FormerIds(x)' = FormerIds(x)
    BY <2>1 DEF FormerIds
  <2>3. \A x : EventsOf(x)' = {i \in DOMAIN log' : log'[i].id \in FormerIds(x)}
    BY <2>2 DEF EventsOf
  <2>4. FormerIds(id) = {id} /\ \A x \in DOMAIN entities : x # id => id \notin FormerIds(x)
    BY <1>1, <2>1 DEF FormerIds, Group
  <2>5. id \notin DOMAIN entities => EventsOf(id) = {}
    BY <1>3, <2>1, <2>4 DEF EventsOf
  <2>6. EventsOf(id)' = {Len(log) + 1} \cup EventsOf(id)
    BY <1>2, <2>3, <2>4 DEF EventsOf
  <2>7. \A x \in DOMAIN entities : x # id => EventsOf(x)' = EventsOf(x)
    BY <1>2, <2>3, <2>4 DEF EventsOf
  <2> QED BY <2>1, <2>5, <2>6, <2>7
<1>5. CASE A # {}
  <2>1. id \notin App /\ id \in Alias /\ (id \in DOMAIN entities <=> id \in M)
    BY <1>1, <1>5
  <2>2. FormerIds(id)' = A \cup {a \in DOMAIN canonical : canonical[a] \in M}
    BY <1>5, <2>1, GroupStep DEF FormerIds
  <2>3. \A m \in M : FormerIds(m) = Group(m)
    BY <1>1 DEF FormerIds
  <2>4. id \in FormerIds(id)'
    BY <1>1, <1>5, <2>2
  <2>5. ASSUME NEW i \in DOMAIN log
        PROVE  log[i].id \in FormerIds(id)' <=> \E m \in M : i \in EventsOf(m)
    <3>1. PICK x : x = log[i].id
      OBVIOUS
    <3>2. x \in FormerIds(id)' <=> x \in DOMAIN canonical /\ canonical[x] \in M
      BY <1>1, <1>3, <2>2, <3>1
    <3>3. \A m \in M : i \in EventsOf(m) <=> x \in DOMAIN canonical /\ canonical[x] = m
      BY <2>3, <3>1 DEF EventsOf, Group
    <3> QED BY <3>1, <3>2, <3>3
  <2>6. \A i \in DOMAIN log' : i \in EventsOf(id)' <=> i = Len(log) + 1 \/ \E m \in M : i \in EventsOf(m)
    BY <1>2, <2>4, <2>5 DEF EventsOf
  <2>7. EventsOf(id)' = {Len(log) + 1} \cup UNION {EventsOf(m) : m \in M}
    <3>1. EventsOf(id)' \subseteq DOMAIN log' /\ \A m \in M : EventsOf(m) \subseteq DOMAIN log
      BY DEF EventsOf
    <3> QED BY <1>2, <2>6, <3>1
  <2>8. UNION {EventsOf(m) : m \in M} = (IF id \in DOMAIN entities THEN EventsOf(id) ELSE {})
                                          \cup UNION {EventsOf(m) : m \in M \ {id}}
    BY <2>1
  <2>9. ASSUME NEW x \in DOMAIN entities \ M, x # id
        PROVE  EventsOf(x)' = EventsOf(x)
    <3>1. Group(x)' = Group(x) /\ FormerIds(x)' = FormerIds(x)
      BY <2>9, GroupStep DEF FormerIds
    <3>2. id \notin FormerIds(x)
      BY <1>1, <2>1, <2>9 DEF FormerIds, Group
    <3> QED BY <1>2, <3>1, <3>2 DEF EventsOf
  <2> QED BY <2>7, <2>8, <2>9
<1> QED BY <1>4, <1>5

\* No event counts for two entities.
LEMMA EventsApart ==
  ASSUME Anchored, NEW x, NEW y, x # y
  PROVE  EventsOf(x) \cap EventsOf(y) = {}
<1>1. DOMAIN canonical \cap App = {}
  BY CorrelatorAssumption DEF Anchored
<1> QED BY <1>1 DEF EventsOf, FormerIds, Group

LEMMA EventsFinite ==
  ASSUME LogTyped, NEW x
  PROVE  IsFiniteSet(EventsOf(x)) /\ Cardinality(EventsOf(x)) \in Nat /\ IsFiniteSet(DOMAIN log)
<1>1. DOMAIN log = 1..Len(log) /\ Len(log) \in Nat
  BY LenProperties DEF LogTyped
<1>2. IsFiniteSet(1..Len(log))
  BY <1>1, FS_Interval
<1>3. EventsOf(x) \subseteq 1..Len(log)
  BY <1>1 DEF EventsOf
<1>4. IsFiniteSet(EventsOf(x))
  BY <1>2, <1>3, FS_Subset
<1> QED BY <1>1, <1>2, <1>4, FS_CardinalityType

LEMMA TalliedStep ==
  ASSUME Anchored, Inhabited, LogTyped, Recorded, Tallied, NEW event \in Event, ProcessEvent(event)
  PROVE  Tallied'
<1>1. PICK id, M, A : Outcome(event, id, M, A)
  BY Processing
<1>2. PICK k, old, N : /\ k = Known(id, event) /\ N = M \ {id}
                       /\ old = IF id \in DOMAIN entities THEN EventsOf(id) ELSE {}
  OBVIOUS
<1>3. PICK parts : parts = UNION {EventsOf(m) : m \in N}
  OBVIOUS
<1>4. EventsOf(id)' = {Len(log) + 1} \cup old \cup parts
  BY <1>1, <1>2, <1>3, EventsStep
<1>5. /\ entities'[id].apps = k.apps \cup {event.app} \cup UNION {entities[i].apps : i \in N}
      /\ entities'[id].capabilities = k.capabilities \cup InferCapabilities(event)
           \cup UNION {entities[i].capabilities : i \in N}
      /\ entities'[id].count = k.count + CountOf(N) + 1
  <2>1. id = Resolve(event) /\ M = Matched(event.aliases)
    BY <1>1 DEF Outcome
  <2>2. /\ entities'[id].apps = Known(id, event).apps \cup {event.app}
              \cup UNION {entities[i].apps : i \in M \ {id}}
        /\ entities'[id].capabilities = Known(id, event).capabilities \cup InferCapabilities(event)
              \cup UNION {entities[i].capabilities : i \in M \ {id}}
        /\ entities'[id].count = Known(id, event).count + CountOf(M \ {id}) + 1
    BY <2>1, EntityStep
  <2> QED BY <1>2, <2>2
<1>6. /\ k.count = Cardinality(old)
      /\ k.apps = {log[i].event.app : i \in old}
      /\ k.capabilities = UNION {InferCapabilities(log[i].event) : i \in old}
  <2>1. CASE id \in DOMAIN entities
    BY <1>2, <2>1 DEF Known, Tallied
  <2>2. CASE id \notin DOMAIN entities
    <3>1. k = NewEntity(id, event, Now) /\ old = {}
      BY <1>2, <2>2 DEF Known
    <3>2. k.count = 0 /\ k.apps = {} /\ k.capabilities = {}
      BY <3>1 DEF NewEntity
    <3> QED BY <3>1, <3>2, FS_EmptySet
  <2> QED BY <2>1, <2>2
<1>7. \A m \in N : /\ m \in DOMAIN entities /\ m # id
                   /\ entities[m].count = Cardinality(EventsOf(m))
                   /\ entities[m].apps = {log[i].event.app : i \in EventsOf(m)}
                   /\ entities[m].capabilities = UNION {InferCapabilities(log[i].event) : i \in EventsOf(m)}
  BY <1>1, <1>2 DEF Outcome, Tallied
<1>8. IsFiniteSet(parts) /\ CountOf(N) = Cardinality(parts)
  <2> DEFINE value == [i \in N |-> entities[i].count]
             F == [m \in N |-> EventsOf(m)]
  <2>1. CountOf(N) = SumOver(value, N)
    BY DEF CountOf
  <2>2. \A m \in N : IsFiniteSet(F[m]) /\ value[m] = Cardinality(F[m])
    BY <1>7, EventsFinite
  <2>3. \A x, y \in N : x # y => F[x] \cap F[y] = {}
    BY EventsApart
  <2>4. parts = UNION {F[m] : m \in N}
    BY <1>3
  <2>5. IsFiniteSet(N)
    <3>1. IsFiniteSet(event.aliases)
      BY CorrelatorAssumption
    <3>2. IsFiniteSet(A \cap DOMAIN canonical)
      BY <1>1, <3>1, FS_Subset DEF Outcome
    <3>3. IsFiniteSet({canonical[a] : a \in A \cap DOMAIN canonical})
      BY <3>2, ImageFinite
    <3>4. IsFiniteSet(M)
      BY <1>1, <3>3 DEF Outcome
    <3> QED BY <1>2, <3>4, FS_Subset
  <2> HIDE DEF value, F
  <2>6. IsFiniteSet(UNION {F[m] : m \in N}) /\ SumOver(value, N) = Cardinality(UNION {F[m] : m \in N})
    BY <2>2, <2>3, <2>5, SumOfSizes
  <2> QED BY <2>1, <2>4, <2>6
<1>9. entities'[id].count = Cardinality(EventsOf(id)')
  <2>1. IsFiniteSet(old)
    BY <1>2, EventsFinite, FS_EmptySet
  <2>2. old \cap parts = {}
    <3>1. \A m \in N : old \cap EventsOf(m) = {}
      BY <1>2, <1>7, EventsApart
    <3> QED BY <1>3, <3>1
  <2>3. PICK both : both = old \cup parts
    OBVIOUS
  <2>4. IsFiniteSet(both) /\ Cardinality(both) = Cardinality(old) + Cardinality(parts)
    <3>1. /\ IsFiniteSet(old \cup parts)
          /\ Cardinality(old \cup parts) = Cardinality(old) + Cardinality(parts) - Cardinality(old \cap parts)
      BY <1>8, <2>1, FS_Union
    <3>2. Cardinality(old \cap parts) = 0
      BY <2>2, FS_EmptySet
    <3>3. Cardinality(old) \in Nat /\ Cardinality(parts) \in Nat
      BY <1>8, <2>1, FS_CardinalityType
    <3> QED BY <2>3, <3>1, <3>2, <3>3
  <2>5. Len(log) + 1 \notin both
    <3>1. Len(log) + 1 \notin DOMAIN log
      BY <1>1, LogStep
    <3>2. both \subseteq DOMAIN log
      BY <1>2, <1>3, <2>3 DEF EventsOf
    <3> QED BY <3>1, <3>2
  <2>6. PICK new : new = Len(log) + 1
    OBVIOUS
  <2>7. Cardinality(both \cup {new}) = Cardinality(both) + 1
    BY <2>4, <2>5, <2>6, FS_AddElement
  <2>8. EventsOf(id)' = both \cup {new}
    BY <1>4, <2>3, <2>6
  <2> QED BY <1>5, <1>6, <1>8, <2>4, <2>7, <2>8
<1>10. \A i \in old \cup parts : i \in DOMAIN log /\ log'[i] = log[i]
  <2>1. \A i \in old \cup parts : i \in DOMAIN log
    BY <1>2, <1>3 DEF EventsOf
  <2> QED BY <1>1, <2>1, LogStep
<1>11. log'[Len(log) + 1].event = event
  BY <1>1, LogStep
<1>12. entities'[id].apps = {log'[i].event.app : i \in EventsOf(id)'}
  <2>1. UNION {entities[m].apps : m \in N} = {log[i].event.app : i \in parts}
    BY <1>3, <1>7
  <2>2. {log'[i].event.app : i \in EventsOf(id)'} = {event.app} \cup {log'[i].event.app : i \in old \cup parts}
    BY <1>4, <1>11
  <2>3. {log'[i].event.app : i \in old \cup parts} = {log[i].event.app : i \in old \cup parts}
    BY <1>10
  <2> QED BY <1>5, <1>6, <2>1, <2>2, <2>3
<1>13. entities'[id].capabilities = UNION {InferCapabilities(log'[i].event) : i \in EventsOf(id)'}
  <2>1. UNION {entities[m].capabilities : m \in N} = UNION {InferCapabilities(log[i].event) : i \in parts}
    BY <1>3, <1>7
  <2>2. UNION {InferCapabilities(log'[i].event) : i \in EventsOf(id)'}
          = InferCapabilities(event) \cup UNION {InferCapabilities(log'[i].event) : i \in old \cup parts}
    BY <1>4, <1>11
  <2>3. UNION {InferCapabilities(log'[i].event) : i \in old \cup parts}
          = UNION {InferCapabilities(log[i].event) : i \in old \cup parts}
    BY <1>10
  <2>4. UNION {InferCapabilities(log[i].event) : i \in old \cup parts}
          = k.capabilities \cup UNION {entities[m].capabilities : m \in N}
    BY <1>6, <2>1
  <2> QED BY <1>5, <2>2, <2>3, <2>4
<1>14. ASSUME NEW x \in DOMAIN entities', x # id
       PROVE  /\ entities'[x].count = Cardinality(EventsOf(x)')
              /\ entities'[x].apps = {log'[i].event.app : i \in EventsOf(x)'}
              /\ entities'[x].capabilities = UNION {InferCapabilities(log'[i].event) : i \in EventsOf(x)'}
  <2>1. x \in DOMAIN entities \ M /\ entities'[x] = entities[x]
    BY <1>1, <1>14 DEF Outcome
  <2>2. EventsOf(x)' = EventsOf(x)
    <3>1. \A y \in DOMAIN entities \ M : y # id => EventsOf(y)' = EventsOf(y)
      BY <1>1, EventsStep
    <3> QED BY <1>14, <2>1, <3>1
  <2>3. \A i \in EventsOf(x) : log'[i] = log[i]
    BY <1>1, LogStep DEF EventsOf
  <2>4. /\ entities[x].count = Cardinality(EventsOf(x))
        /\ entities[x].apps = {log[i].event.app : i \in EventsOf(x)}
        /\ entities[x].capabilities = UNION {InferCapabilities(log[i].event) : i \in EventsOf(x)}
    BY <2>1 DEF Tallied
  <2> QED BY <2>1, <2>2, <2>3, <2>4
<1> QED BY <1>9, <1>12, <1>13, <1>14 DEF Tallied

-----------------------------------------------------------------------------
(* What the graph has of the events.                                       *)

Access(i) == EntityToApp(log[i].id, log[i].event)

Drawn(i) == EdgesOf(log[i].id, log[i].event)

\* The events that made an access edge.
Accesses(edge) == {i \in DOMAIN log : Access(i) = edge}

AccessRelation == {"ACCESSES", "AUTHENTICATES_ON"}

IsSeen(seen) ==
  seen = [count |-> seen.count, first_seen |-> seen.first_seen, last_seen |-> seen.last_seen]

\* The edges are those of the events, each as often as there are such events.
Graphed ==
  /\ \A edge \in DOMAIN edges : IsSeen(edges[edge]) /\ \E i \in DOMAIN log : edge \in Drawn(i)
  /\ \A i \in DOMAIN log : Drawn(i) \subseteq DOMAIN edges
  /\ \A edge \in DOMAIN edges : edge[1] \in DOMAIN nodes /\ edge[3] \in DOMAIN nodes
  /\ \A edge \in DOMAIN edges : edge[2] \in AccessRelation =>
       edges[edge].count = Cardinality(Accesses(edge))

LEMMA EdgesTold ==
  ASSUME NEW id, NEW event, NEW edge \in EdgesOf(id, event)
  PROVE  /\ edge[2] \in AccessRelation <=> edge = EntityToApp(id, event)
         /\ edge[2] = "EXERCISES" <=> \E c \in InferCapabilities(event) :
              edge = <<Entity(id), "EXERCISES", <<"capability", c>>>>
<1> DEFINE endpoint == <<"endpoint", event.app, event.action.endpoint>>
<1>1. \/ edge = EntityToApp(id, event)
      \/ edge \in {<<Entity(id), "PROBED", endpoint>>, <<Entity(id), "CALLS", endpoint>>,
                   <<Application(event.app), "EXPOSES", endpoint>>,
                   <<Entity(id), "TARGETS", <<"resource", event.resource.id>>>>}
      \/ \E c \in InferCapabilities(event) : edge = <<Entity(id), "EXERCISES", <<"capability", c>>>>
      \/ \E ip \in {event.ip} : edge = <<Entity(id), "ORIGINATES_FROM", <<"host", ip>>>>
  BY DEF EdgesOf
<1>2. EntityToApp(id, event)[2] \in AccessRelation /\ EntityToApp(id, event)[2] # "EXERCISES"
  BY DEF EntityToApp, AccessRelation
<1>3. CASE edge = EntityToApp(id, event)
  <2>1. ~\E c \in InferCapabilities(event) : edge = <<Entity(id), "EXERCISES", <<"capability", c>>>>
    BY <1>2, <1>3
  <2> QED BY <1>2, <1>3, <2>1
<1>4. CASE edge \in {<<Entity(id), "PROBED", endpoint>>, <<Entity(id), "CALLS", endpoint>>,
                     <<Application(event.app), "EXPOSES", endpoint>>,
                     <<Entity(id), "TARGETS", <<"resource", event.resource.id>>>>}
  <2>1. edge[2] \in {"PROBED", "CALLS", "EXPOSES", "TARGETS"}
    BY <1>4
  <2>2. edge[2] \notin AccessRelation /\ edge[2] # "EXERCISES"
    BY <2>1 DEF AccessRelation
  <2> QED BY <1>2, <2>2
<1>5. CASE \E c \in InferCapabilities(event) : edge = <<Entity(id), "EXERCISES", <<"capability", c>>>>
  <2>1. edge[2] = "EXERCISES"
    BY <1>5
  <2>2. edge[2] \notin AccessRelation
    BY <2>1 DEF AccessRelation
  <2> QED BY <1>2, <1>5, <2>1, <2>2
<1>6. CASE \E ip \in {event.ip} : edge = <<Entity(id), "ORIGINATES_FROM", <<"host", ip>>>>
  <2>1. edge[2] = "ORIGINATES_FROM"
    BY <1>6
  <2>2. edge[2] \notin AccessRelation /\ edge[2] # "EXERCISES"
    BY <2>1 DEF AccessRelation
  <2> QED BY <1>2, <2>2
<1> QED BY <1>1, <1>3, <1>4, <1>5, <1>6

LEMMA GraphedStep ==
  ASSUME Anchored, Inhabited, LogTyped, Graphed, NEW event \in Event, ProcessEvent(event)
  PROVE  Graphed'
<1>1. PICK id, M, A : Outcome(event, id, M, A)
  BY Processing
<1>2. PICK new, ends : new = EdgesOf(id, event) /\ ends = NodesOf(id, event)
  OBVIOUS
<1>3. PICK ts : ts = event.ts
  OBVIOUS
<1>4. edges' = [edge \in DOMAIN edges \cup new |->
                  IF edge \notin DOMAIN edges THEN Fresh(ts)
                  ELSE IF edge \notin new THEN edges[edge] ELSE Again(edges[edge], ts)]
  BY <1>1, <1>2, <1>3 DEF Outcome, ProcessEvent, RecordInGraph, RecordEdges
<1>5. DOMAIN nodes' = DOMAIN nodes \cup ends
  BY <1>1, <1>2 DEF Outcome, ProcessEvent, RecordInGraph, EnsureNodes
<1>6. \A edge \in new : edge[1] \in ends /\ edge[3] \in ends
  BY <1>2 DEF NodesOf
<1>7. PICK n : n = Len(log) + 1
  OBVIOUS
<1>8. /\ DOMAIN log' = DOMAIN log \cup {n} /\ n \notin DOMAIN log
      /\ \A i \in DOMAIN log : Drawn(i)' = Drawn(i) /\ Access(i)' = Access(i)
      /\ Drawn(n)' = new /\ Access(n)' = EntityToApp(id, event)
  <2>1. /\ DOMAIN log' = DOMAIN log \cup {n} /\ n \notin DOMAIN log
        /\ log'[n].event = event /\ log'[n].id = id
        /\ \A i \in DOMAIN log : log'[i] = log[i]
    BY <1>1, <1>7, LogStep
  <2> QED BY <1>2, <2>1 DEF Drawn, Access
<1>9. ASSUME NEW edge \in DOMAIN edges'
      PROVE  IsSeen(edges'[edge]) /\ \E i \in DOMAIN log' : edge \in Drawn(i)'
  <2>1. CASE edge \in DOMAIN edges
    <3>1. IsSeen(edges[edge]) /\ \E i \in DOMAIN log : edge \in Drawn(i)
      BY <2>1 DEF Graphed
    <3>2. edges'[edge] = edges[edge] \/ edges'[edge] = Again(edges[edge], ts)
      BY <1>4, <2>1
    <3>3. IsSeen(Again(edges[edge], ts))
      <4>1. PICK c, f, l : edges[edge] = [count |-> c, first_seen |-> f, last_seen |-> l]
        BY <3>1 DEF IsSeen
      <4>2. PICK y : y = Again(edges[edge], ts)
        OBVIOUS
      <4>3. y = [count |-> y.count, first_seen |-> y.first_seen, last_seen |-> y.last_seen]
        BY <4>1, <4>2 DEF Again
      <4> QED BY <4>2, <4>3 DEF IsSeen
    <3> QED BY <1>8, <3>1, <3>2, <3>3
  <2>2. CASE edge \notin DOMAIN edges
    <3>1. edge \in new /\ edges'[edge] = Fresh(ts)
      BY <1>4, <2>2
    <3>2. IsSeen(Fresh(ts))
      BY DEF IsSeen, Fresh
    <3> QED BY <1>8, <3>1, <3>2
  <2> QED BY <2>1, <2>2
<1>10. \A i \in DOMAIN log' : Drawn(i)' \subseteq DOMAIN edges'
  <2>1. DOMAIN edges' = DOMAIN edges \cup new
    BY <1>4
  <2>2. \A i \in DOMAIN log : Drawn(i) \subseteq DOMAIN edges
    BY DEF Graphed
  <2> QED BY <1>8, <2>1, <2>2
<1>11. \A edge \in DOMAIN edges' : edge[1] \in DOMAIN nodes' /\ edge[3] \in DOMAIN nodes'
  <2>1. DOMAIN edges' = DOMAIN edges \cup new
    BY <1>4
  <2> QED BY <1>5, <1>6, <2>1 DEF Graphed
<1>12. ASSUME NEW edge \in DOMAIN edges', edge[2] \in AccessRelation
       PROVE  edges'[edge].count = Cardinality(Accesses(edge)')
  <2>1. Accesses(edge)' = IF edge = EntityToApp(id, event) THEN Accesses(edge) \cup {n} ELSE Accesses(edge)
    <3>1. Accesses(edge)' = {i \in DOMAIN log' : Access(i)' = edge}
      BY DEF Accesses
    <3> QED BY <1>8, <3>1 DEF Accesses
  <2>2. edge \in new <=> edge = EntityToApp(id, event)
    <3>1. EntityToApp(id, event) \in new
      BY <1>2 DEF EdgesOf
    <3> QED BY <1>2, <1>12, <3>1, EdgesTold
  <2>3. IsFiniteSet(Accesses(edge)) /\ n \notin Accesses(edge)
    <3>1. IsFiniteSet(DOMAIN log)
      BY EventsFinite
    <3>2. Accesses(edge) \subseteq DOMAIN log
      BY DEF Accesses
    <3> QED BY <1>8, <3>1, <3>2, FS_Subset
  <2>4. CASE edge \in DOMAIN edges
    <3>1. edges[edge].count = Cardinality(Accesses(edge)) /\ IsSeen(edges[edge])
      BY <1>12, <2>4 DEF Graphed
    <3>2. edges'[edge].count = IF edge \in new THEN edges[edge].count + 1 ELSE edges[edge].count
      <4>1. Again(edges[edge], ts).count = edges[edge].count + 1
        BY <3>1 DEF IsSeen, Again
      <4> QED BY <1>4, <2>4, <4>1
    <3>3. Cardinality(Accesses(edge) \cup {n}) = Cardinality(Accesses(edge)) + 1
      BY <2>3, FS_AddElement
    <3> QED BY <2>1, <2>2, <3>1, <3>2, <3>3
  <2>5. CASE edge \notin DOMAIN edges
    <3>1. edge \in new /\ edges'[edge].count = 1
      BY <1>4, <2>5 DEF Fresh
    <3>2. Accesses(edge) = {}
      <4>1. \A i \in DOMAIN log : Access(i) \in DOMAIN edges
        BY DEF Graphed, Drawn, Access, EdgesOf
      <4> QED BY <2>5, <4>1 DEF Accesses
    <3>3. Accesses(edge)' = {n}
      BY <2>1, <2>2, <3>1, <3>2
    <3> QED BY <3>1, <3>3, FS_Singleton
  <2> QED BY <2>4, <2>5
<1> QED BY <1>9, <1>10, <1>11, <1>12 DEF Graphed, IsSeen

\* The accesses of an entity's former ids are its events, one edge for each
\* application and relation.
LEMMA AccessesAdd ==
  ASSUME LogTyped, Graphed, NEW id, NEW accesses,
         accesses = {edge \in DOMAIN edges : /\ \E former \in FormerIds(id) : edge[1] = Entity(former)
                                             /\ edge[2] \in AccessRelation}
  PROVE  SumOver([edge \in accesses |-> edges[edge].count], accesses) = Cardinality(EventsOf(id))
<1> DEFINE value == [edge \in accesses |-> edges[edge].count]
           F == [edge \in accesses |-> Accesses(edge)]
<1>1. /\ \A i : Access(i)[1] = Entity(log[i].id) /\ Access(i)[2] \in AccessRelation
      /\ \A x, y : Entity(x) = Entity(y) => x = y
  BY DEF Access, EntityToApp, Entity, AccessRelation
<1>2. \A i \in DOMAIN log : Access(i) \in DOMAIN edges
  BY DEF Graphed, Drawn, Access, EdgesOf
<1>3. IsFiniteSet(accesses)
  <2>1. \A edge \in accesses : \E i \in DOMAIN log : edge = Access(i)
    BY EdgesTold DEF Graphed, Drawn, Access
  <2> DEFINE f == [i \in DOMAIN log |-> Access(i)]
  <2>2. accesses \subseteq {f[i] : i \in DOMAIN log}
    BY <2>1
  <2>3. IsFiniteSet({f[i] : i \in DOMAIN log})
    <3> HIDE DEF f
    <3> QED BY EventsFinite, ImageFinite
  <2> QED BY <2>2, <2>3, FS_Subset
<1>4. \A edge \in accesses : IsFiniteSet(F[edge]) /\ value[edge] = Cardinality(F[edge])
  <2> TAKE edge \in accesses
  <2>1. Accesses(edge) \subseteq DOMAIN log /\ IsFiniteSet(DOMAIN log)
    BY EventsFinite DEF Accesses
  <2>2. IsFiniteSet(Accesses(edge))
    BY <2>1, FS_Subset
  <2> QED BY <2>2 DEF Graphed
<1>5. \A x, y \in accesses : x # y => F[x] \cap F[y] = {}
  BY DEF Accesses
<1>6. UNION {F[edge] : edge \in accesses} = EventsOf(id)
  <2>1. ASSUME NEW i \in EventsOf(id) PROVE \E edge \in accesses : i \in F[edge]
    <3>1. Access(i) \in accesses
      BY <1>1, <1>2 DEF EventsOf
    <3>2. i \in F[Access(i)]
      BY <3>1 DEF Accesses, EventsOf
    <3> QED BY <3>1, <3>2
  <2>2. ASSUME NEW edge \in accesses, NEW i \in F[edge] PROVE i \in EventsOf(id)
    <3>1. i \in DOMAIN log /\ Access(i) = edge
      BY <2>2 DEF Accesses
    <3>2. PICK former \in FormerIds(id) : edge[1] = Entity(former)
      OBVIOUS
    <3> QED BY <1>1, <3>1, <3>2 DEF EventsOf
  <2> QED BY <2>1, <2>2
<1> HIDE DEF value, F
<1>7. SumOver(value, accesses) = Cardinality(UNION {F[edge] : edge \in accesses})
  BY <1>3, <1>4, <1>5, SumOfSizes
<1> QED BY <1>6, <1>7 DEF value

\* The capabilities its former ids exercise are those of its events.
LEMMA CapabilitiesAdd ==
  ASSUME LogTyped, Graphed, NEW id
  PROVE  {edge[3][2] : edge \in {x \in DOMAIN edges : /\ \E former \in FormerIds(id) : x[1] = Entity(former)
                                                      /\ x[2] = "EXERCISES"}}
           = UNION {InferCapabilities(log[i].event) : i \in EventsOf(id)}
<1> DEFINE own == {x \in DOMAIN edges : /\ \E former \in FormerIds(id) : x[1] = Entity(former)
                                        /\ x[2] = "EXERCISES"}
<1>1. \A x, y : Entity(x) = Entity(y) => x = y
  BY DEF Entity
<1>2. ASSUME NEW edge \in own
      PROVE  \E i \in EventsOf(id) : edge[3][2] \in InferCapabilities(log[i].event)
  <2>1. PICK i \in DOMAIN log : edge \in Drawn(i)
    BY DEF Graphed
  <2>2. PICK c \in InferCapabilities(log[i].event) :
          edge = <<Entity(log[i].id), "EXERCISES", <<"capability", c>>>>
    BY <2>1, EdgesTold DEF Drawn
  <2>3. PICK former \in FormerIds(id) : edge[1] = Entity(former)
    OBVIOUS
  <2>4. log[i].id \in FormerIds(id)
    BY <1>1, <2>2, <2>3
  <2> QED BY <2>2, <2>4 DEF EventsOf
<1>3. ASSUME NEW i \in EventsOf(id), NEW c \in InferCapabilities(log[i].event)
      PROVE  \E edge \in own : c = edge[3][2]
  <2>1. PICK edge : edge = <<Entity(log[i].id), "EXERCISES", <<"capability", c>>>>
    OBVIOUS
  <2>2. i \in DOMAIN log /\ log[i].id \in FormerIds(id)
    BY DEF EventsOf
  <2>3. edge \in Drawn(i)
    BY <2>1 DEF Drawn, EdgesOf
  <2>4. edge \in DOMAIN edges
    BY <2>2, <2>3 DEF Graphed
  <2>5. edge[1] = Entity(log[i].id) /\ edge[2] = "EXERCISES" /\ edge[3][2] = c
    BY <2>1
  <2>6. edge \in own
    BY <2>2, <2>4, <2>5
  <2> QED BY <2>5, <2>6
<1> HIDE DEF own
<1>4. {edge[3][2] : edge \in own} = UNION {InferCapabilities(log[i].event) : i \in EventsOf(id)}
  BY <1>2, <1>3
<1> QED BY <1>4 DEF own

GraphInv == IdentityInv /\ Recorded /\ Tallied /\ Graphed

LEMMA GraphInitial == Init => GraphInv
<1> SUFFICES ASSUME Init PROVE GraphInv
  OBVIOUS
<1>1. IdentityInv
  BY IdentityInitial
<1>2. entities = <<>> /\ log = <<>> /\ edges = <<>>
  BY DEF Init, IdentityInit, GraphInit
<1>3. DOMAIN entities = {} /\ DOMAIN log = {} /\ DOMAIN edges = {}
  BY <1>2
<1> QED BY <1>1, <1>3 DEF GraphInv, Recorded, Tallied, Graphed

LEMMA GraphStep == GraphInv /\ [Next]_vars => GraphInv'
<1> SUFFICES ASSUME GraphInv, [Next]_vars PROVE GraphInv'
  OBVIOUS
<1>1. IdentityInv'
  BY IdentityStep DEF GraphInv
<1>2. CASE Next
  <2>1. PICK event \in Event : ProcessEvent(event)
    BY <1>2 DEF Next
  <2> QED BY <1>1, <2>1, RecordedStep, TalliedStep, GraphedStep DEF GraphInv, IdentityInv
<1>3. CASE UNCHANGED vars
  <2>1. canonical' = canonical /\ entities' = entities /\ log' = log /\ edges' = edges /\ nodes' = nodes
    BY <1>3 DEF vars, identityVars, graphVars
  <2>2. Recorded'
    BY <2>1 DEF GraphInv, Recorded
  <2>3. Tallied'
    <3>1. \A id : EventsOf(id)' = EventsOf(id)
      BY <2>1 DEF EventsOf, FormerIds, Group
    <3> QED BY <2>1, <3>1 DEF GraphInv, Tallied
  <2>4. Graphed'
    <3>1. /\ \A i : Drawn(i)' = Drawn(i)
          /\ \A edge : Accesses(edge)' = Accesses(edge)
      BY <2>1 DEF Drawn, Accesses, Access
    <3> QED BY <2>1, <3>1 DEF GraphInv, Graphed, IsSeen
  <2> QED BY <1>1, <2>2, <2>3, <2>4 DEF GraphInv
<1> QED BY <1>2, <1>3

LEMMA GraphInvariant == Spec => []GraphInv
BY GraphInitial, GraphStep, PTL DEF Spec

\* The graph stays split by former ids and the identity is merged, and yet they
\* tell the same of an entity: how many events it has and which capabilities it
\* exercised, after any number of merges (graph.rs:121-249, identity.rs:55-71).
THEOREM GraphAgrees == SensorSpec => []GraphAgreesWithIdentity
<1>1. ASSUME GraphInv PROVE GraphAgreesWithIdentity
  <2>1. LogTyped /\ Graphed /\ Tallied
    BY <1>1 DEF GraphInv, IdentityInv
  <2>2. ASSUME NEW id \in DOMAIN entities, NEW own,
               own = {edge \in DOMAIN edges : \E former \in FormerIds(id) : edge[1] = Entity(former)},
               NEW accesses, accesses = {edge \in own : edge[2] \in {"ACCESSES", "AUTHENTICATES_ON"}}
        PROVE  /\ entities[id].count = SumOver([edge \in accesses |-> edges[edge].count], accesses)
               /\ entities[id].capabilities = {edge[3][2] : edge \in {x \in own : x[2] = "EXERCISES"}}
    <3>1. accesses = {edge \in DOMAIN edges : /\ \E former \in FormerIds(id) : edge[1] = Entity(former)
                                              /\ edge[2] \in AccessRelation}
      BY <2>2 DEF AccessRelation
    <3>2. {x \in own : x[2] = "EXERCISES"} =
            {x \in DOMAIN edges : /\ \E former \in FormerIds(id) : x[1] = Entity(former)
                                  /\ x[2] = "EXERCISES"}
      BY <2>2
    <3>3. SumOver([edge \in accesses |-> edges[edge].count], accesses) = Cardinality(EventsOf(id))
      BY <2>1, <3>1, AccessesAdd
    <3>4. {edge[3][2] : edge \in {x \in own : x[2] = "EXERCISES"}}
            = UNION {InferCapabilities(log[i].event) : i \in EventsOf(id)}
      BY <2>1, <3>2, CapabilitiesAdd
    <3> QED BY <2>1, <3>3, <3>4 DEF Tallied
  <2>3. ASSUME NEW former
        PROVE  {<<x[1], x[3]>> : x \in SubGraph(Entity(former)).edges}
                 \subseteq SubGraph(Entity(former)).nodes \X DOMAIN nodes
    <3>1. \A x \in SubGraph(Entity(former)).edges :
            x[1] \in SubGraph(Entity(former)).nodes /\ x[3] \in DOMAIN nodes
      BY <2>1 DEF SubGraph, Graphed
    <3> QED BY <3>1
  <2> QED BY <2>2, <2>3 DEF GraphAgreesWithIdentity
<1> QED BY <1>1, GraphInvariant, SensorsAreEvents, PTL

-----------------------------------------------------------------------------
(* When an entity was seen.                                                *)

\* What the sight of an entity begins with and ends with, as its events tell.
Begins(id) == {log[i].event.ts : i \in EventsOf(id) \cap Founding}
Ends(id) == {log[i].event.ts : i \in EventsOf(id)} \cup {i - 1 : i \in EventsOf(id) \cap Founding}

\* Every entity is the one some event resolved to; the graph has a node for each
\* id of the log, since its founding event.
Sighted ==
  /\ \A id \in DOMAIN entities : \E i \in DOMAIN log : log[i].id = id
  /\ \A id : Entity(id) \in DOMAIN nodes => \E i \in DOMAIN log : log[i].id = id
  /\ \A node \in DOMAIN nodes : IsSeen(nodes[node])
  /\ \A i \in DOMAIN log : Entity(log[i].id) \in DOMAIN nodes
  /\ \A i \in Founding : nodes[Entity(log[i].id)].first_seen = log[i].event.ts
  /\ \A id \in DOMAIN entities \ App :
       IsLeast(entities[id].first, Begins(id)) /\ IsGreatest(entities[id].last, Ends(id))

\* The source of most edges is an entity node: the one of the id.
LEMMA EntityNodes ==
  ASSUME NEW id, NEW event, NEW other
  PROVE  Entity(other) \in NodesOf(id, event) <=> other = id
<1>1. /\ \A x, y : Entity(x) = Entity(y) => x = y
      /\ \A x : Entity(x)[1] = "entity" /\ Application(x)[1] = "app"
  BY DEF Entity, Application
<1>2. ASSUME NEW edge \in EdgesOf(id, event)
      PROVE  edge[1] \in {Entity(id), Application(event.app)} /\ edge[3][1] # "entity"
  <2> DEFINE endpoint == <<"endpoint", event.app, event.action.endpoint>>
  <2>1. \/ edge = EntityToApp(id, event)
        \/ edge = <<Entity(id), "PROBED", endpoint>> \/ edge = <<Entity(id), "CALLS", endpoint>>
        \/ edge = <<Application(event.app), "EXPOSES", endpoint>>
        \/ edge = <<Entity(id), "TARGETS", <<"resource", event.resource.id>>>>
        \/ \E c \in InferCapabilities(event) : edge = <<Entity(id), "EXERCISES", <<"capability", c>>>>
        \/ \E ip \in {event.ip} : edge = <<Entity(id), "ORIGINATES_FROM", <<"host", ip>>>>
    BY DEF EdgesOf
  <2>2. /\ EntityToApp(id, event)[1] = Entity(id) /\ EntityToApp(id, event)[3] = Application(event.app)
        /\ endpoint[1] = "endpoint" /\ "endpoint" # "entity" /\ "app" # "entity"
        /\ "resource" # "entity" /\ "capability" # "entity" /\ "host" # "entity"
    BY DEF EntityToApp
  <2> HIDE DEF endpoint
  <2> QED BY <1>1, <2>1, <2>2
<1>3. \A edge \in EdgesOf(id, event) : Entity(other) \in {edge[1], edge[3]} => other = id
  <2> TAKE edge \in EdgesOf(id, event)
  <2>1. edge[3] # Entity(other) /\ Application(event.app) # Entity(other)
    BY <1>1, <1>2
  <2> QED BY <1>1, <1>2, <2>1
<1>4. Entity(id) \in NodesOf(id, event)
  <2>1. EntityToApp(id, event) \in EdgesOf(id, event) /\ EntityToApp(id, event)[1] = Entity(id)
    BY DEF EdgesOf, EntityToApp
  <2> QED BY <2>1 DEF NodesOf
<1>5. Entity(other) \in NodesOf(id, event) =>
        \E edge \in EdgesOf(id, event) : Entity(other) \in {edge[1], edge[3]}
  BY DEF NodesOf
<1> QED BY <1>3, <1>4, <1>5

\* A new id founds its entity; events of old ids found nothing.
LEMMA FoundingStep ==
  ASSUME LogTyped, NEW event, NEW id, NEW M, NEW A, Outcome(event, id, M, A), NEW n, n = Len(log) + 1
  PROVE  Founding' = IF \E i \in DOMAIN log : log[i].id = id THEN Founding ELSE Founding \cup {n}
<1>1. /\ Len(log) \in Nat /\ DOMAIN log = 1..Len(log) /\ DOMAIN log' = DOMAIN log \cup {n}
      /\ log'[n].id = id /\ \A i \in DOMAIN log : log'[i] = log[i]
  BY LogStep
<1>2. \A i \in DOMAIN log : 1..(i - 1) \subseteq DOMAIN log
  BY <1>1
<1>3. \A i \in DOMAIN log : i \in Founding' <=> i \in Founding
  BY <1>1, <1>2 DEF Founding
<1>4. 1..(n - 1) = DOMAIN log /\ n \notin DOMAIN log
  BY <1>1
<1>5. n \in Founding' <=> ~\E i \in DOMAIN log : log[i].id = id
  BY <1>1, <1>4 DEF Founding
<1>6. Founding \subseteq DOMAIN log /\ Founding' \subseteq DOMAIN log'
  BY DEF Founding
<1>7. PICK old, new : old = Founding /\ new = Founding'
  OBVIOUS
<1>8. /\ old \subseteq DOMAIN log /\ new \subseteq DOMAIN log \cup {n} /\ n \notin DOMAIN log
      /\ \A i \in DOMAIN log : i \in new <=> i \in old
  BY <1>1, <1>3, <1>4, <1>6, <1>7
<1>9. CASE \E i \in DOMAIN log : log[i].id = id
  <2>1. n \notin new
    BY <1>5, <1>7, <1>9
  <2>2. new = old
    BY <1>8, <2>1
  <2> QED BY <1>7, <1>9, <2>2
<1>10. CASE ~\E i \in DOMAIN log : log[i].id = id
  <2>1. n \in new
    BY <1>5, <1>7, <1>10
  <2>2. new = old \cup {n}
    BY <1>8, <2>1
  <2> QED BY <1>7, <1>10, <2>2
<1> QED BY <1>9, <1>10

\* Every id of the log has a founding event.
LEMMA Founded ==
  ASSUME LogTyped, NEW j \in DOMAIN log
  PROVE  \E i \in Founding : log[i].id = log[j].id
<1>1. DOMAIN log = 1..Len(log) /\ Len(log) \in Nat
  BY LenProperties DEF LogTyped
<1> DEFINE same == {i \in DOMAIN log : log[i].id = log[j].id}
<1>2. PICK i \in same : \A k \in same : i <= k
  <2>1. same \subseteq Nat /\ same # {}
    BY <1>1
  <2> HIDE DEF same
  <2> QED BY <2>1, LeastExists
<1>3. ASSUME NEW k \in 1..(i - 1) PROVE log[k].id # log[i].id
  <2>1. k \in DOMAIN log /\ ~(i <= k)
    BY <1>1
  <2> QED BY <1>2, <2>1
<1> QED BY <1>3 DEF Founding

\* What the interval of the entity becomes: its own or that of a new one, with those
\* of the absorbed ones and the event.
LEMMA SightsStep ==
  ASSUME Anchored, Inhabited, LogTyped, Recorded, Sighted, NEW event,
         NEW id, NEW M, NEW A, Outcome(event, id, M, A), A # {}, NEW n, n = Len(log) + 1
  PROVE  /\ (\E i \in DOMAIN log : log[i].id = id) <=> id \in DOMAIN entities
         /\ Begins(id)' = (IF id \in DOMAIN entities THEN Begins(id) ELSE {event.ts})
              \cup UNION {Begins(m) : m \in M \ {id}}
         /\ Ends(id)' = {event.ts} \cup (IF id \in DOMAIN entities THEN Ends(id) ELSE {n - 1})
              \cup UNION {Ends(m) : m \in M \ {id}}
<1>1. /\ DOMAIN log' = DOMAIN log \cup {n} /\ n \notin DOMAIN log
      /\ log'[n].event = event /\ \A i \in DOMAIN log : log'[i] = log[i]
  BY LogStep
<1>2. (\E i \in DOMAIN log : log[i].id = id) <=> id \in DOMAIN entities
  <2>1. ASSUME NEW i \in DOMAIN log, log[i].id = id PROVE id \in DOMAIN entities
    <3>1. CASE M = {}
      <4>1. id \in A /\ id \in Alias /\ id \notin DOMAIN canonical
        BY <3>1 DEF Outcome
      <4>2. id \notin App
        BY <4>1, CorrelatorAssumption
      <4> QED BY <2>1, <4>1, <4>2 DEF Recorded
    <3>2. CASE M # {}
      BY <3>2 DEF Outcome
    <3> QED BY <3>1, <3>2
  <2> QED BY <2>1 DEF Sighted
<1>3. PICK N, own, ids, fnd, new, fndNew :
        /\ N = M \ {id}
        /\ own = IF id \in DOMAIN entities THEN EventsOf(id) ELSE {}
        /\ ids = own \cup UNION {EventsOf(m) : m \in N}
        /\ fnd = Founding /\ new = EventsOf(id)' /\ fndNew = Founding'
  OBVIOUS
<1>4. new = {n} \cup ids
  BY <1>3, EventsStep
<1>5. fndNew = IF id \in DOMAIN entities THEN fnd ELSE fnd \cup {n}
  BY <1>2, <1>3, FoundingStep
<1>6. ids \subseteq DOMAIN log /\ fnd \subseteq DOMAIN log
  BY <1>3 DEF EventsOf, Founding
<1>7. /\ Begins(id)' = {log'[i].event.ts : i \in new \cap fndNew}
      /\ Ends(id)' = {log'[i].event.ts : i \in new} \cup {i - 1 : i \in new \cap fndNew}
  BY <1>3 DEF Begins, Ends
<1>8. \A m : /\ Begins(m) = {log[i].event.ts : i \in EventsOf(m) \cap fnd}
             /\ Ends(m) = {log[i].event.ts : i \in EventsOf(m)} \cup {i - 1 : i \in EventsOf(m) \cap fnd}
  BY <1>3 DEF Begins, Ends
<1>9. /\ {log'[i].event.ts : i \in ids} = {log[i].event.ts : i \in ids}
      /\ {log'[i].event.ts : i \in ids \cap fnd} = {log[i].event.ts : i \in ids \cap fnd}
  BY <1>1, <1>6
<1>10. /\ {log[i].event.ts : i \in ids} = {log[i].event.ts : i \in own}
            \cup UNION {{log[i].event.ts : i \in EventsOf(m)} : m \in N}
       /\ {log[i].event.ts : i \in ids \cap fnd} = {log[i].event.ts : i \in own \cap fnd}
            \cup UNION {{log[i].event.ts : i \in EventsOf(m) \cap fnd} : m \in N}
       /\ {i - 1 : i \in ids \cap fnd} = {i - 1 : i \in own \cap fnd}
            \cup UNION {{i - 1 : i \in EventsOf(m) \cap fnd} : m \in N}
  BY <1>3
<1>11. {log'[i].event.ts : i \in new} = {event.ts} \cup {log[i].event.ts : i \in ids}
  BY <1>1, <1>4, <1>9
<1>15. PICK times, turns :
         /\ {log[i].event.ts : i \in ids} = {log[i].event.ts : i \in own} \cup times
         /\ {i - 1 : i \in ids \cap fnd} = {i - 1 : i \in own \cap fnd} \cup turns
         /\ UNION {Ends(m) : m \in N} = times \cup turns
  <2> DEFINE T == [m \in N |-> {log[i].event.ts : i \in EventsOf(m)}]
             U == [m \in N |-> {i - 1 : i \in EventsOf(m) \cap fnd}]
  <2>1. \A m \in N : Ends(m) = T[m] \cup U[m]
    BY <1>8
  <2>2. UNION {T[m] : m \in N} = UNION {{log[i].event.ts : i \in EventsOf(m)} : m \in N}
    OBVIOUS
  <2>3. UNION {U[m] : m \in N} = UNION {{i - 1 : i \in EventsOf(m) \cap fnd} : m \in N}
    OBVIOUS
  <2> HIDE DEF T, U
  <2>4. UNION {Ends(m) : m \in N} = (UNION {T[m] : m \in N}) \cup (UNION {U[m] : m \in N})
    BY <2>1
  <2>5. PICK times, turns : times = UNION {T[m] : m \in N} /\ turns = UNION {U[m] : m \in N}
    OBVIOUS
  <2>6. /\ {log[i].event.ts : i \in ids} = {log[i].event.ts : i \in own} \cup times
        /\ {i - 1 : i \in ids \cap fnd} = {i - 1 : i \in own \cap fnd} \cup turns
    BY <1>10, <2>2, <2>3, <2>5
  <2>7. UNION {Ends(m) : m \in N} = times \cup turns
    BY <2>4, <2>5
  <2> QED BY <2>6, <2>7
<1>12. CASE id \in DOMAIN entities
  <2>1. new \cap fndNew = ids \cap fnd
    BY <1>1, <1>4, <1>5, <1>6, <1>12
  <2>2. Begins(id)' = Begins(id) \cup UNION {Begins(m) : m \in N}
    <3>1. Begins(id)' = {log[i].event.ts : i \in ids \cap fnd}
      BY <1>7, <1>9, <2>1
    <3>2. Begins(id) = {log[i].event.ts : i \in own \cap fnd}
      BY <1>3, <1>8, <1>12
    <3>3. UNION {Begins(m) : m \in N} = UNION {{log[i].event.ts : i \in EventsOf(m) \cap fnd} : m \in N}
      BY <1>8
    <3> QED BY <1>10, <3>1, <3>2, <3>3
  <2>3. Ends(id)' = {event.ts} \cup Ends(id) \cup UNION {Ends(m) : m \in N}
    <3>1. Ends(id)' = {event.ts} \cup {log[i].event.ts : i \in ids} \cup {i - 1 : i \in ids \cap fnd}
      BY <1>7, <1>11, <2>1
    <3>2. Ends(id) = {log[i].event.ts : i \in own} \cup {i - 1 : i \in own \cap fnd}
      BY <1>3, <1>8, <1>12
    <3> QED BY <1>15, <3>1, <3>2
  <2> QED BY <1>2, <1>3, <1>12, <2>2, <2>3
<1>13. CASE id \notin DOMAIN entities
  <2>1. new \cap fndNew = {n} \cup (ids \cap fnd) /\ own = {}
    BY <1>1, <1>3, <1>4, <1>5, <1>6, <1>13
  <2>2. Begins(id)' = {event.ts} \cup UNION {Begins(m) : m \in N}
    <3>1. Begins(id)' = {event.ts} \cup {log[i].event.ts : i \in ids \cap fnd}
      BY <1>1, <1>7, <1>9, <2>1
    <3>2. {log[i].event.ts : i \in own \cap fnd} = {}
      BY <2>1
    <3>3. UNION {Begins(m) : m \in N} = UNION {{log[i].event.ts : i \in EventsOf(m) \cap fnd} : m \in N}
      BY <1>8
    <3> QED BY <1>10, <3>1, <3>2, <3>3
  <2>3. Ends(id)' = {event.ts} \cup {n - 1} \cup UNION {Ends(m) : m \in N}
    <3>1. Ends(id)' = {event.ts} \cup {log[i].event.ts : i \in ids} \cup {n - 1} \cup {i - 1 : i \in ids \cap fnd}
      BY <1>7, <1>11, <2>1
    <3>2. {log[i].event.ts : i \in own} = {} /\ {i - 1 : i \in own \cap fnd} = {}
      BY <2>1
    <3> QED BY <1>15, <3>1, <3>2
  <2> QED BY <1>2, <1>3, <1>13, <2>2, <2>3
<1> QED BY <1>12, <1>13

\* Other entities keep their interval.
LEMMA SightsStay ==
  ASSUME Anchored, Inhabited, LogTyped, Recorded, NEW event, NEW id, NEW M, NEW A,
         Outcome(event, id, M, A), NEW x \in DOMAIN entities \ M, x # id
  PROVE  Begins(x)' = Begins(x) /\ Ends(x)' = Ends(x)
<1>1. EventsOf(x)' = EventsOf(x)
  <2>1. \A y \in DOMAIN entities \ M : y # id => EventsOf(y)' = EventsOf(y)
    BY EventsStep
  <2> QED BY <2>1
<1>2. PICK n : n = Len(log) + 1
  OBVIOUS
<1>3. n \notin DOMAIN log /\ \A i \in DOMAIN log : log'[i] = log[i]
  BY <1>2, LogStep
<1>4. EventsOf(x) \subseteq DOMAIN log
  BY DEF EventsOf
<1>5. Founding' = Founding \/ Founding' = Founding \cup {n}
  BY <1>2, FoundingStep
<1>6. EventsOf(x) \cap Founding' = EventsOf(x) \cap Founding
  BY <1>3, <1>4, <1>5
<1>7. /\ Begins(x)' = {log'[i].event.ts : i \in EventsOf(x)' \cap Founding'}
      /\ Ends(x)' = {log'[i].event.ts : i \in EventsOf(x)'} \cup {i - 1 : i \in EventsOf(x)' \cap Founding'}
  BY DEF Begins, Ends
<1>8. /\ {log'[i].event.ts : i \in EventsOf(x)} = {log[i].event.ts : i \in EventsOf(x)}
      /\ {log'[i].event.ts : i \in EventsOf(x) \cap Founding} = {log[i].event.ts : i \in EventsOf(x) \cap Founding}
  BY <1>3, <1>4
<1> QED BY <1>1, <1>6, <1>7, <1>8 DEF Begins, Ends

LEMMA SightsTyped ==
  ASSUME LogTyped, NEW x
  PROVE  Begins(x) \subseteq Int /\ Ends(x) \subseteq Int
<1>1. DOMAIN log = 1..Len(log) /\ Len(log) \in Nat /\ \A i \in DOMAIN log : log[i].event \in Event
  <2>1. PICK S : log \in Seq(S) /\ S = [event : Event, id : App \cup Alias]
    BY DEF LogTyped
  <2>2. DOMAIN log = 1..Len(log) /\ Len(log) \in Nat /\ \A i \in DOMAIN log : log[i] \in S
    BY <2>1, LenProperties, ElementOfSeq
  <2> QED BY <2>1, <2>2
<1>2. \A i \in DOMAIN log : log[i].event.ts \in Int /\ i - 1 \in Int
  BY <1>1, CorrelatorAssumption
<1>3. EventsOf(x) \subseteq DOMAIN log
  BY DEF EventsOf
<1> QED BY <1>2, <1>3 DEF Begins, Ends

LEMMA SightedStep ==
  ASSUME Anchored, Inhabited, LogTyped, Recorded, Sighted, NEW event \in Event, ProcessEvent(event)
  PROVE  Sighted'
<1>1. PICK id, M, A : Outcome(event, id, M, A)
  BY Processing
<1>2. PICK n, ts, N, k, ends : /\ n = Len(log) + 1 /\ ts = event.ts /\ N = M \ {id}
                               /\ k = Known(id, event) /\ ends = NodesOf(id, event)
  OBVIOUS
<1>3. /\ DOMAIN log' = DOMAIN log \cup {n} /\ n \notin DOMAIN log
      /\ log'[n].event = event /\ log'[n].id = id
      /\ \A i \in DOMAIN log : log'[i] = log[i]
  BY <1>1, <1>2, LogStep
<1>4. nodes' = [node \in DOMAIN nodes \cup ends |->
                  IF node \notin DOMAIN nodes THEN Fresh(ts)
                  ELSE IF node \notin ends THEN nodes[node] ELSE Again(nodes[node], ts)]
  BY <1>1, <1>2 DEF Outcome, ProcessEvent, RecordInGraph, EnsureNodes
<1>5. \A x : Entity(x) \in ends <=> x = id
  BY <1>2, EntityNodes
<1>6. DOMAIN nodes' = DOMAIN nodes \cup ends
  BY <1>4
<1>7. ASSUME NEW x \in DOMAIN entities' PROVE \E i \in DOMAIN log' : log'[i].id = x
  <2>1. CASE x = id
    BY <1>3, <2>1
  <2>2. CASE x # id
    <3>1. x \in DOMAIN entities
      BY <1>1, <2>2 DEF Outcome
    <3> QED BY <1>3, <3>1 DEF Sighted
  <2> QED BY <2>1, <2>2
<1>8. ASSUME NEW x, Entity(x) \in DOMAIN nodes' PROVE \E i \in DOMAIN log' : log'[i].id = x
  <2>1. CASE x = id
    BY <1>3, <2>1
  <2>2. CASE x # id
    <3>1. Entity(x) \in DOMAIN nodes
      BY <1>5, <1>6, <1>8, <2>2
    <3> QED BY <1>3, <3>1 DEF Sighted
  <2> QED BY <2>1, <2>2
<1>9. ASSUME NEW node \in DOMAIN nodes
      PROVE  nodes'[node].first_seen = nodes[node].first_seen /\ IsSeen(nodes'[node])
  <2>1. PICK c, f, l : nodes[node] = [count |-> c, first_seen |-> f, last_seen |-> l]
    BY DEF Sighted, IsSeen
  <2>2. PICK y : y = Again(nodes[node], ts)
    OBVIOUS
  <2>3. /\ y = [count |-> y.count, first_seen |-> y.first_seen, last_seen |-> y.last_seen]
        /\ y.first_seen = nodes[node].first_seen
    BY <2>1, <2>2 DEF Again
  <2>4. nodes'[node] = nodes[node] \/ nodes'[node] = y
    BY <1>4, <2>2
  <2>5. IsSeen(y) /\ IsSeen(nodes[node])
    BY <2>3 DEF IsSeen, Sighted
  <2> QED BY <2>3, <2>4, <2>5
<1>10. ASSUME NEW node \in DOMAIN nodes' PROVE IsSeen(nodes'[node])
  <2>1. CASE node \in DOMAIN nodes
    BY <1>9, <2>1
  <2>2. CASE node \notin DOMAIN nodes
    <3>1. nodes'[node] = Fresh(ts)
      BY <1>4, <1>6, <2>2
    <3> QED BY <3>1 DEF IsSeen, Fresh
  <2> QED BY <2>1, <2>2
<1>11. \A i \in DOMAIN log' : Entity(log'[i].id) \in DOMAIN nodes'
  <2>1. \A i \in DOMAIN log : Entity(log[i].id) \in DOMAIN nodes
    BY DEF Sighted
  <2> QED BY <1>3, <1>5, <1>6, <2>1
<1>12. ASSUME NEW i \in Founding' PROVE nodes'[Entity(log'[i].id)].first_seen = log'[i].event.ts
  <2>1. Founding' = IF \E j \in DOMAIN log : log[j].id = id THEN Founding ELSE Founding \cup {n}
    BY <1>1, <1>2, FoundingStep
  <2>2. CASE i \in Founding
    <3>1. i \in DOMAIN log
      BY <2>2 DEF Founding
    <3>2. Entity(log[i].id) \in DOMAIN nodes /\ nodes[Entity(log[i].id)].first_seen = log[i].event.ts
      BY <2>2, <3>1 DEF Sighted
    <3>3. nodes'[Entity(log[i].id)].first_seen = nodes[Entity(log[i].id)].first_seen
      BY <1>9, <3>2
    <3> QED BY <1>3, <3>1, <3>2, <3>3
  <2>3. CASE i \notin Founding
    <3>1. i = n /\ ~\E j \in DOMAIN log : log[j].id = id
      BY <2>1, <2>3
    <3>2. Entity(id) \notin DOMAIN nodes /\ Entity(id) \in DOMAIN nodes'
      BY <1>5, <1>6, <3>1 DEF Sighted
    <3>3. nodes'[Entity(id)] = Fresh(ts)
      BY <1>4, <1>6, <3>2
    <3> QED BY <1>2, <1>3, <3>1, <3>3 DEF Fresh
  <2> QED BY <2>2, <2>3
<1>13. \A m \in N : m \in DOMAIN entities \ App /\ m # id
  <2>1. App \cap Alias = {} /\ DOMAIN canonical \subseteq Alias
    BY CorrelatorAssumption DEF Anchored
  <2> QED BY <1>1, <1>2, <2>1 DEF Outcome
<1>14. ASSUME A # {}
       PROVE  IsLeast(entities'[id].first, Begins(id)') /\ IsGreatest(entities'[id].last, Ends(id)')
  <2>1. PICK x, B, E, begin, end :
          /\ x = entities'[id]
          /\ B = [m \in N |-> Begins(m)] /\ E = [m \in N |-> Ends(m)]
          /\ begin = IF id \in DOMAIN entities THEN Begins(id) ELSE {ts}
          /\ end = IF id \in DOMAIN entities THEN Ends(id) ELSE {n - 1}
    OBVIOUS
  <2>2. /\ Begins(id)' = begin \cup UNION {B[m] : m \in N}
        /\ Ends(id)' = {ts} \cup end \cup UNION {E[m] : m \in N}
    <3>1. /\ Begins(id)' = (IF id \in DOMAIN entities THEN Begins(id) ELSE {event.ts})
               \cup UNION {Begins(m) : m \in M \ {id}}
          /\ Ends(id)' = {event.ts} \cup (IF id \in DOMAIN entities THEN Ends(id) ELSE {n - 1})
               \cup UNION {Ends(m) : m \in M \ {id}}
      BY <1>1, <1>2, <1>14, SightsStep
    <3>2. UNION {B[m] : m \in N} = UNION {Begins(m) : m \in M \ {id}}
      BY <1>2, <2>1
    <3>3. UNION {E[m] : m \in N} = UNION {Ends(m) : m \in M \ {id}}
      BY <1>2, <2>1
    <3> QED BY <1>2, <2>1, <3>1, <3>2, <3>3
  <2>3. PICK firsts, lasts : /\ firsts = [m \in N |-> entities[m].first]
                             /\ lasts = [m \in N |-> entities[m].last]
    OBVIOUS
  <2>4. /\ IsLeast(x.first, {k.first} \cup {firsts[m] : m \in N})
        /\ IsGreatest(x.last, {ts, k.last} \cup {lasts[m] : m \in N})
    <3>1. id = Resolve(event) /\ M = Matched(event.aliases) /\ A = event.aliases
      BY <1>1 DEF Outcome
    <3>2. /\ IsLeast(entities'[id].first, {Known(id, event).first} \cup {entities[i].first : i \in M \ {id}})
          /\ IsGreatest(entities'[id].last,
                        {event.ts, Known(id, event).last} \cup {entities[i].last : i \in M \ {id}})
      BY <1>14, <3>1, EntityStep
    <3>3. {firsts[m] : m \in N} = {entities[i].first : i \in M \ {id}}
      BY <1>2, <2>3
    <3>4. {lasts[m] : m \in N} = {entities[i].last : i \in M \ {id}}
      BY <1>2, <2>3
    <3> QED BY <1>2, <2>1, <3>2, <3>3, <3>4
  <2>5. \A m \in N : /\ B[m] \subseteq Int /\ IsLeast(firsts[m], B[m])
                     /\ E[m] \subseteq Int /\ IsGreatest(lasts[m], E[m])
    <3> TAKE m \in N
    <3>1. IsLeast(entities[m].first, Begins(m)) /\ IsGreatest(entities[m].last, Ends(m))
      BY <1>13 DEF Sighted
    <3>2. Begins(m) \subseteq Int /\ Ends(m) \subseteq Int
      BY SightsTyped
    <3> QED BY <2>1, <2>3, <3>1, <3>2
  <2>6. /\ begin \subseteq Int /\ IsLeast(k.first, begin)
        /\ end \subseteq Int /\ IsGreatest(k.last, end)
    <3>1. CASE id \in DOMAIN entities
      <4>1. id \notin App
        <5>1. App \cap Alias = {} /\ DOMAIN canonical \subseteq Alias
          BY CorrelatorAssumption DEF Anchored
        <5>2. id \in A \/ id \in M
          BY <1>1, <1>14 DEF Outcome
        <5> QED BY <1>1, <5>1, <5>2 DEF Outcome
      <4>2. IsLeast(entities[id].first, Begins(id)) /\ IsGreatest(entities[id].last, Ends(id))
        BY <3>1, <4>1 DEF Sighted
      <4>3. Begins(id) \subseteq Int /\ Ends(id) \subseteq Int
        BY SightsTyped
      <4> QED BY <1>2, <2>1, <3>1, <4>2, <4>3 DEF Known
    <3>2. CASE id \notin DOMAIN entities
      <4>1. k = NewEntity(id, event, Now)
        BY <1>2, <3>2 DEF Known
      <4>2. Len(log) \in Nat /\ Now = n - 1 /\ ts \in Int
        BY <1>2, CorrelatorAssumption, LenProperties DEF Now, LogTyped
      <4>3. event.aliases # {}
        BY <1>1, <1>14 DEF Outcome
      <4>4. k.first = ts /\ k.last = n - 1
        BY <1>2, <4>1, <4>2, <4>3 DEF NewEntity
      <4>5. n - 1 \in Int
        BY <1>2, <4>2
      <4> QED BY <2>1, <3>2, <4>2, <4>4, <4>5 DEF IsLeast, IsGreatest
    <3> QED BY <3>1, <3>2
  <2>7. ts \in Int
    BY <1>2, CorrelatorAssumption
  <2>8. PICK S, T : S = begin \cup UNION {B[m] : m \in N} /\ T = {ts} \cup end \cup UNION {E[m] : m \in N}
    OBVIOUS
  <2>9. IsLeast(x.first, S)
    <3>1. PICK v, w : v = k.first /\ w = x.first
      OBVIOUS
    <3>2. v \in Int /\ v \in begin /\ \A y \in begin : v <= y
      BY <2>6, <3>1 DEF IsLeast
    <3>3. \A m \in N : firsts[m] \in Int /\ firsts[m] \in B[m] /\ \A y \in B[m] : y \in Int /\ firsts[m] <= y
      BY <2>5 DEF IsLeast
    <3>4. w \in {v} \cup {firsts[m] : m \in N} /\ w <= v /\ \A m \in N : w <= firsts[m]
      BY <2>4, <3>1 DEF IsLeast
    <3>5. w \in Int /\ w \in S
      BY <2>8, <3>2, <3>3, <3>4
    <3>6. \A y \in begin : w <= y
      BY <2>6, <3>2, <3>4, <3>5
    <3>7. ASSUME NEW m \in N, NEW y \in B[m] PROVE w <= y
      <4>1. y \in Int /\ firsts[m] \in Int /\ firsts[m] <= y /\ w <= firsts[m]
        BY <3>3, <3>4
      <4> QED BY <3>5, <4>1
    <3> QED BY <2>8, <3>1, <3>5, <3>6, <3>7 DEF IsLeast
  <2>10. IsGreatest(x.last, T)
    <3>1. PICK v, w : v = k.last /\ w = x.last
      OBVIOUS
    <3>2. v \in Int /\ v \in end /\ \A y \in end : v >= y
      BY <2>6, <3>1 DEF IsGreatest
    <3>3. \A m \in N : lasts[m] \in Int /\ lasts[m] \in E[m] /\ \A y \in E[m] : y \in Int /\ lasts[m] >= y
      BY <2>5 DEF IsGreatest
    <3>4. w \in {ts, v} \cup {lasts[m] : m \in N} /\ w >= ts /\ w >= v /\ \A m \in N : w >= lasts[m]
      BY <2>4, <3>1 DEF IsGreatest
    <3>5. w \in Int /\ w \in T
      BY <2>7, <2>8, <3>2, <3>3, <3>4
    <3>6. \A y \in end : w >= y
      BY <2>6, <3>2, <3>4, <3>5
    <3>7. ASSUME NEW m \in N, NEW y \in E[m] PROVE w >= y
      <4>1. y \in Int /\ lasts[m] \in Int /\ lasts[m] >= y /\ w >= lasts[m]
        BY <3>3, <3>4
      <4> QED BY <3>5, <4>1
    <3> QED BY <2>8, <3>1, <3>4, <3>5, <3>6, <3>7 DEF IsGreatest
  <2> QED BY <2>1, <2>2, <2>8, <2>9, <2>10
<1>15. ASSUME NEW x \in DOMAIN entities' \ App
       PROVE  IsLeast(entities'[x].first, Begins(x)') /\ IsGreatest(entities'[x].last, Ends(x)')
  <2>1. CASE x = id
    <3>1. A # {}
      BY <1>1, <2>1 DEF Outcome
    <3> QED BY <1>14, <2>1, <3>1
  <2>2. CASE x # id
    <3>1. x \in DOMAIN entities \ M /\ entities'[x] = entities[x]
      BY <1>1, <2>2 DEF Outcome
    <3>2. Begins(x)' = Begins(x) /\ Ends(x)' = Ends(x)
      BY <1>1, <2>2, <3>1, SightsStay
    <3>3. IsLeast(entities[x].first, Begins(x)) /\ IsGreatest(entities[x].last, Ends(x))
      BY <3>1 DEF Sighted
    <3> QED BY <3>1, <3>2, <3>3
  <2> QED BY <2>1, <2>2
<1> QED BY <1>7, <1>8, <1>10, <1>11, <1>12, <1>15 DEF Sighted, IsSeen, IsLeast, IsGreatest

SightInv == GraphInv /\ Sighted

LEMMA SightInvariant == Spec => []SightInv
<1>1. Init => SightInv
  <2> SUFFICES ASSUME Init PROVE SightInv
    OBVIOUS
  <2>1. GraphInv
    BY GraphInitial
  <2>2. entities = <<>> /\ log = <<>> /\ nodes = <<>>
    BY DEF Init, IdentityInit, GraphInit
  <2>3. DOMAIN entities = {} /\ DOMAIN log = {} /\ DOMAIN nodes = {}
    BY <2>2
  <2> QED BY <2>1, <2>3 DEF SightInv, Sighted, Founding
<1>2. SightInv /\ [Next]_vars => SightInv'
  <2> SUFFICES ASSUME SightInv, [Next]_vars PROVE SightInv'
    OBVIOUS
  <2>1. GraphInv'
    BY GraphStep DEF SightInv
  <2>2. CASE Next
    <3>1. PICK event \in Event : ProcessEvent(event)
      BY <2>2 DEF Next
    <3> QED BY <2>1, <3>1, SightedStep DEF SightInv, GraphInv, IdentityInv
  <2>3. CASE UNCHANGED vars
    <3>1. canonical' = canonical /\ entities' = entities /\ log' = log /\ nodes' = nodes
      BY <2>3 DEF vars, identityVars, graphVars
    <3>2. Founding' = Founding /\ \A x : EventsOf(x)' = EventsOf(x)
      BY <3>1 DEF Founding, EventsOf, FormerIds, Group
    <3>3. \A x : Begins(x)' = Begins(x) /\ Ends(x)' = Ends(x)
      BY <3>1, <3>2 DEF Begins, Ends
    <3>4. Sighted'
      BY <3>1, <3>2, <3>3 DEF SightInv, Sighted, IsSeen, IsLeast, IsGreatest
    <3> QED BY <2>1, <3>4 DEF SightInv
  <2> QED BY <2>2, <2>3
<1> QED BY <1>1, <1>2, PTL DEF Spec

\* Merges keep the interval in which an entity was seen, for any order of the
\* events and of their times: it begins where the graph first saw one of its former
\* ids, and ends with its latest event or the founding of one of its parts
\* (identity.rs:36-50, 65-70, 229-231; graph.rs:67-87).
THEOREM SightsSurvive == SensorSpec => []SightsSurviveMerges
<1>1. ASSUME SightInv PROVE SightsSurviveMerges
  <2>1. LogTyped /\ Sighted /\ Recorded /\ Anchored
    BY <1>1 DEF SightInv, GraphInv, IdentityInv
  <2>2. ASSUME NEW id \in DOMAIN entities \ App,
               NEW parts, parts = {Entity(former) : former \in FormerIds(id)} \cap DOMAIN nodes,
               NEW mine, mine = {i \in DOMAIN log : log[i].event.aliases # {} /\ log[i].event.aliases \subseteq Group(id)}
        PROVE  /\ entities[id].first = Min({nodes[part].first_seen : part \in parts})
               /\ entities[id].last = Max({log[i].event.ts : i \in mine} \cup {i - 1 : i \in mine \cap Founding})
    <3>1. IsLeast(entities[id].first, Begins(id)) /\ IsGreatest(entities[id].last, Ends(id))
      BY <2>1 DEF Sighted
    <3>2. Begins(id) \subseteq Int /\ Ends(id) \subseteq Int
      BY <2>1, SightsTyped
    <3>3. {nodes[part].first_seen : part \in parts} = Begins(id)
      <4>1. ASSUME NEW former \in FormerIds(id), Entity(former) \in DOMAIN nodes
            PROVE  nodes[Entity(former)].first_seen \in Begins(id)
        <5>1. PICK j \in DOMAIN log : log[j].id = former
          BY <2>1, <4>1 DEF Sighted
        <5>2. PICK i \in Founding : log[i].id = former
          BY <2>1, <5>1, Founded
        <5>3. i \in EventsOf(id) /\ nodes[Entity(former)].first_seen = log[i].event.ts
          BY <2>1, <5>2 DEF EventsOf, Founding, Sighted
        <5> QED BY <5>3 DEF Begins
      <4>2. ASSUME NEW i \in EventsOf(id) \cap Founding
            PROVE  \E part \in parts : log[i].event.ts = nodes[part].first_seen
        <5>1. log[i].id \in FormerIds(id) /\ i \in DOMAIN log
          BY DEF EventsOf
        <5>2. Entity(log[i].id) \in parts /\ nodes[Entity(log[i].id)].first_seen = log[i].event.ts
          BY <2>1, <2>2, <5>1 DEF Sighted
        <5> QED BY <5>2
      <4> QED BY <2>2, <4>1, <4>2 DEF Begins
    <3>4. mine = EventsOf(id)
      <4>1. FormerIds(id) = Group(id)
        BY DEF FormerIds
      <4>2. ASSUME NEW i \in DOMAIN log
            PROVE  i \in mine <=> log[i].id \in Group(id)
        <5>1. PICK x, B : x = log[i].id /\ B = log[i].event.aliases
          OBVIOUS
        <5>2. /\ B = {} => x \in App
              /\ x \in App => B = {}
              /\ x \notin App => x \in DOMAIN canonical
              /\ \A a \in B : a \in DOMAIN canonical /\ canonical[a] = canonical[x]
          BY <2>1, <5>1 DEF Recorded
        <5>3. DOMAIN canonical \cap App = {}
          BY <2>1, CorrelatorAssumption DEF Anchored
        <5>4. i \in mine <=> B # {} /\ B \subseteq Group(id)
          BY <2>2, <5>1
        <5> QED BY <5>1, <5>2, <5>3, <5>4 DEF Group
      <4> QED BY <2>2, <4>1, <4>2 DEF EventsOf
    <3>5. {log[i].event.ts : i \in mine} \cup {i - 1 : i \in mine \cap Founding} = Ends(id)
      BY <3>4 DEF Ends
    <3> QED BY <3>1, <3>2, <3>3, <3>5, ExtremesAre
  <2> QED BY <2>2 DEF SightsSurviveMerges
<1> QED BY <1>1, SightInvariant, SensorsAreEvents, PTL

-----------------------------------------------------------------------------
(* Kept: the recursion is well-founded, and what it computes.              *)

\* f is what Kept computes, up to the m-th observation.
Keeps(f, stages, now, m) ==
  f = [i \in 0..m |->
         IF i = 0 THEN <<>>
         ELSE IF stages[i].ts >= now - Window THEN Append(f[i - 1], stages[i]) ELSE f[i - 1]]

LEMMA Keepable ==
  ASSUME NEW stages, NEW now, NEW n \in Nat
  PROVE  \E f : Keeps(f, stages, now, n)
<1> DEFINE Stuck == {m \in Nat : ~\E f : Keeps(f, stages, now, m)}
<1>1. SUFFICES ASSUME Stuck # {} PROVE FALSE
  OBVIOUS
<1>2. PICK m \in Stuck : \A k \in Stuck : m <= k
  <2>1. Stuck \subseteq Nat
    OBVIOUS
  <2> HIDE DEF Stuck
  <2> QED BY <1>1, <2>1, LeastExists
<1>3. m # 0
  <2>1. Keeps([i \in 0..0 |-> <<>>], stages, now, 0)
    BY DEF Keeps
  <2> QED BY <2>1
<1>4. PICK f : Keeps(f, stages, now, m - 1)
  <2>1. m - 1 \in Nat /\ ~(m <= m - 1)
    BY <1>3
  <2> QED BY <1>2, <2>1
<1> DEFINE g == [i \in 0..m |->
                   IF i = m THEN (IF stages[m].ts >= now - Window THEN Append(f[m - 1], stages[m])
                                  ELSE f[m - 1])
                   ELSE f[i]]
<1>5. Keeps(g, stages, now, m)
  <2>1. \A i \in 0..(m - 1) :
          f[i] = IF i = 0 THEN <<>>
                 ELSE IF stages[i].ts >= now - Window THEN Append(f[i - 1], stages[i]) ELSE f[i - 1]
    BY <1>4, Zenon DEF Keeps
  <2>2. \A i \in 0..(m - 1) : g[i] = f[i]
    BY <1>3
  <2>3. \A i \in 1..m : i - 1 \in 0..(m - 1)
    OBVIOUS
  <2>4. ASSUME NEW i \in 0..m
        PROVE  g[i] = IF i = 0 THEN <<>>
                      ELSE IF stages[i].ts >= now - Window THEN Append(g[i - 1], stages[i]) ELSE g[i - 1]
    <3>1. CASE i = m
      BY <1>3, <2>2, <2>3, <3>1
    <3>2. CASE i # m
      <4>1. i \in 0..(m - 1) /\ (i # 0 => i - 1 \in 0..(m - 1))
        BY <3>2
      <4>2. g[i] = f[i] /\ (i # 0 => g[i - 1] = f[i - 1])
        BY <2>2, <4>1
      <4> QED BY <2>1, <4>1, <4>2
    <3> QED BY <3>1, <3>2
  <2>5. g = [i \in 0..m |-> g[i]]
    OBVIOUS
  <2> HIDE DEF g
  <2> QED BY <2>4, <2>5, Zenon DEF Keeps
<1> QED BY <1>5

\* f has what is kept of the first observations.
Computes(f, stages, now) ==
  /\ Kept(stages, now) = f[Len(stages)] /\ f[0] = <<>>
  /\ \A i \in 1..Len(stages) :
       f[i] = IF stages[i].ts >= now - Window THEN Append(f[i - 1], stages[i]) ELSE f[i - 1]

LEMMA KeptComputes ==
  ASSUME NEW stages, NEW now, Len(stages) \in Nat
  PROVE  \E f : Computes(f, stages, now)
<1> DEFINE f == CHOOSE f : f = [i \in 0..Len(stages) |->
                                  IF i = 0 THEN <<>>
                                  ELSE IF stages[i].ts >= now - Window THEN Append(f[i - 1], stages[i])
                                  ELSE f[i - 1]]
<1>1. Kept(stages, now) = f[Len(stages)]
  BY DEF Kept
<1>2. Keeps(f, stages, now, Len(stages))
  <2>1. \E h : h = [i \in 0..Len(stages) |->
                      IF i = 0 THEN <<>>
                      ELSE IF stages[i].ts >= now - Window THEN Append(h[i - 1], stages[i])
                      ELSE h[i - 1]]
    <3>1. PICK h : Keeps(h, stages, now, Len(stages))
      BY Keepable
    <3> QED BY <3>1, Zenon DEF Keeps
  <2> QED BY <2>1, Zenon DEF Keeps
<1>3. \A i \in 0..Len(stages) :
        f[i] = IF i = 0 THEN <<>>
               ELSE IF stages[i].ts >= now - Window THEN Append(f[i - 1], stages[i]) ELSE f[i - 1]
  BY <1>2, Zenon DEF Keeps
<1> HIDE DEF f
<1>4. /\ f[0] = <<>>
      /\ \A i \in 1..Len(stages) :
           f[i] = IF stages[i].ts >= now - Window THEN Append(f[i - 1], stages[i]) ELSE f[i - 1]
  BY <1>3
<1> QED BY <1>1, <1>4 DEF Computes

\* The observations within the window each have a place of their own.
Places(place, stages, kept, now) ==
  /\ \A j \in DOMAIN stages : stages[j].ts >= now - Window =>
       place[j] \in DOMAIN kept /\ kept[place[j]] = stages[j]
  /\ \A j, l \in DOMAIN stages :
       /\ stages[j].ts >= now - Window /\ stages[l].ts >= now - Window
       /\ place[j] = place[l]
       => j = l

\* What is kept are the observations within the window.
LEMMA KeptObservations ==
  ASSUME NEW X, NEW stages \in Seq(X), NEW now \in Int
  PROVE  /\ Kept(stages, now) \in Seq(X)
         /\ \A j \in DOMAIN Kept(stages, now) : Kept(stages, now)[j].ts >= now - Window
         /\ \E place : Places(place, stages, Kept(stages, now), now)
<1>1. Len(stages) \in Nat /\ DOMAIN stages = 1..Len(stages) /\ \A i \in 1..Len(stages) : stages[i] \in X
  BY LenProperties, ElementOfSeq
<1>2. PICK f : /\ Kept(stages, now) = f[Len(stages)] /\ f[0] = <<>>
               /\ \A i \in 1..Len(stages) :
                    f[i] = IF stages[i].ts >= now - Window THEN Append(f[i - 1], stages[i]) ELSE f[i - 1]
  <2>1. \E f : Computes(f, stages, now)
    BY <1>1, KeptComputes
  <2> QED BY <2>1 DEF Computes
<1>3. PICK In : In = {j \in 1..Len(stages) : stages[j].ts >= now - Window}
  OBVIOUS
<1> DEFINE Right(i) ==
             /\ f[i] \in Seq(X)
             /\ \A j \in 1..Len(f[i]) : f[i][j].ts >= now - Window
             /\ \A j \in In : j <= i =>
                  /\ Len(f[j]) \in 1..Len(f[i]) /\ f[i][Len(f[j])] = stages[j]
                  /\ \A l \in In : l < j => Len(f[l]) < Len(f[j])
           Wrong == {i \in 0..Len(stages) : ~Right(i)}
<1>4. Wrong = {}
  <2>1. SUFFICES ASSUME Wrong # {} PROVE FALSE
    OBVIOUS
  <2>2. Wrong \subseteq Nat
    BY <1>1
  <2>3. PICK i \in Wrong : \A j \in Wrong : i <= j
    <3> HIDE DEF Wrong
    <3> QED BY <2>1, <2>2, LeastExists
  <2>4. i # 0
    <3>1. Right(0)
      <4>1. f[0] \in Seq(X) /\ Len(f[0]) = 0
        BY <1>2
      <4>2. \A j \in In : ~(j <= 0)
        BY <1>1, <1>3
      <4> QED BY <4>1, <4>2
    <3> QED BY <2>3, <3>1
  <2>5. i \in 1..Len(stages) /\ i - 1 \in 0..Len(stages) /\ ~(i <= i - 1)
    BY <1>1, <2>2, <2>4
  <2>6. Right(i - 1)
    BY <2>3, <2>5
  <2>7. \A j \in In : j <= i /\ j # i => j <= i - 1
    BY <1>1, <1>3, <2>5
  <2>8. Len(f[i - 1]) \in Nat
    BY <2>6, LenProperties
  <2>9. CASE i \in In
    <3>1. f[i] = Append(f[i - 1], stages[i]) /\ stages[i] \in X
      BY <1>1, <1>2, <1>3, <2>5, <2>9
    <3>2. /\ f[i] \in Seq(X) /\ Len(f[i]) = Len(f[i - 1]) + 1
          /\ f[i][Len(f[i])] = stages[i]
          /\ \A j \in 1..Len(f[i - 1]) : f[i][j] = f[i - 1][j]
      BY <2>6, <3>1, AppendProperties
    <3>3. \A j \in 1..Len(f[i]) : f[i][j].ts >= now - Window
      <4> TAKE j \in 1..Len(f[i])
      <4>1. CASE j = Len(f[i])
        BY <1>3, <2>9, <3>2, <4>1
      <4>2. CASE j # Len(f[i])
        <5>1. j \in 1..Len(f[i - 1])
          BY <2>8, <3>2, <4>2
        <5> QED BY <2>6, <3>2, <5>1
      <4> QED BY <4>1, <4>2
    <3>4. ASSUME NEW j \in In, j <= i
          PROVE  /\ Len(f[j]) \in 1..Len(f[i]) /\ f[i][Len(f[j])] = stages[j]
                 /\ \A l \in In : l < j => Len(f[l]) < Len(f[j])
      <4>1. CASE j = i
        <5>1. Len(f[j]) \in 1..Len(f[i]) /\ f[i][Len(f[j])] = stages[j]
          BY <2>8, <3>2, <4>1
        <5>2. ASSUME NEW l \in In, l < j PROVE Len(f[l]) < Len(f[j])
          <6>1. l <= i - 1
            BY <1>1, <1>3, <2>5, <4>1, <5>2
          <6>2. Len(f[l]) \in 1..Len(f[i - 1])
            BY <2>6, <6>1
          <6> QED BY <2>8, <3>2, <4>1, <6>2
        <5> QED BY <5>1, <5>2
      <4>2. CASE j # i
        <5>1. j <= i - 1
          BY <2>7, <3>4, <4>2
        <5>2. /\ Len(f[j]) \in 1..Len(f[i - 1]) /\ f[i - 1][Len(f[j])] = stages[j]
              /\ \A l \in In : l < j => Len(f[l]) < Len(f[j])
          BY <2>6, <5>1
        <5> QED BY <2>8, <3>2, <5>2
      <4> QED BY <4>1, <4>2
    <3> QED BY <2>3, <3>2, <3>3, <3>4
  <2>10. CASE i \notin In
    <3>1. f[i] = f[i - 1]
      BY <1>2, <1>3, <2>5, <2>10
    <3>2. \A j \in In : j <= i => j <= i - 1
      BY <2>7, <2>10
    <3> QED BY <2>3, <2>6, <3>1, <3>2
  <2> QED BY <2>9, <2>10
<1>5. Right(Len(stages))
  BY <1>1, <1>4
<1>6. PICK place : place = [j \in 1..Len(stages) |-> Len(f[j])]
  OBVIOUS
<1>7. DOMAIN f[Len(stages)] = 1..Len(f[Len(stages)])
  BY <1>5, LenProperties
<1>8. \A j \in In : /\ place[j] = Len(f[j]) /\ place[j] \in DOMAIN f[Len(stages)]
                    /\ f[Len(stages)][place[j]] = stages[j]
  BY <1>1, <1>3, <1>5, <1>6, <1>7
<1>9. \A j, l \in In : place[j] = place[l] => j = l
  <2> TAKE j, l \in In
  <2>1. j <= Len(stages) /\ l <= Len(stages) /\ j \in Int /\ l \in Int
    BY <1>1, <1>3
  <2>2. l < j => Len(f[l]) < Len(f[j])
    BY <1>5, <2>1
  <2>3. j < l => Len(f[j]) < Len(f[l])
    BY <1>5, <2>1
  <2>4. Len(f[j]) \in Int /\ Len(f[l]) \in Int
    BY <1>5, <2>1
  <2> QED BY <1>8, <2>1, <2>2, <2>3, <2>4
<1>10. \A j \in DOMAIN stages : stages[j].ts >= now - Window <=> j \in In
  BY <1>1, <1>3
<1>11. Places(place, stages, Kept(stages, now), now)
  BY <1>2, <1>8, <1>9, <1>10 DEF Places
<1>12. /\ Kept(stages, now) \in Seq(X)
       /\ \A j \in DOMAIN Kept(stages, now) : Kept(stages, now)[j].ts >= now - Window
  BY <1>2, <1>5, <1>7
<1> QED BY <1>11, <1>12

-----------------------------------------------------------------------------
(* What the detector remembers of an id.                                   *)

Observation == [stage : {Recon, Lateral, HighImpact}, app : App, ts : Int]

ProgressOf(id) == IF id \in DOMAIN progress THEN progress[id] ELSE NewProgress

IsProgress(p) ==
  /\ p = [stages |-> p.stages, highest |-> p.highest, fired |-> p.fired]
  /\ p.stages \in Seq(Observation) /\ p.highest \in {Recon, Lateral, HighImpact} /\ p.fired \in BOOLEAN

Impact(event) == HighImpactAction(event) /\ ~Failed(event)

\* One event: observations within the window keep a place, a telling event gets
\* the last one; the highest stage and the alert stay.
Advances(p, q, event) ==
  /\ IsProgress(q)
  /\ \E place :
       /\ \A j \in DOMAIN p.stages : p.stages[j].ts >= event.ts - Window =>
            /\ place[j] \in DOMAIN q.stages /\ q.stages[place[j]] = p.stages[j]
            /\ Telling(event) => place[j] # Len(q.stages)
       /\ \A j, l \in DOMAIN p.stages :
            /\ p.stages[j].ts >= event.ts - Window /\ p.stages[l].ts >= event.ts - Window
            /\ place[j] = place[l]
            => j = l
  /\ Telling(event) =>
       /\ Len(q.stages) \in DOMAIN q.stages
       /\ q.stages[Len(q.stages)].app = event.app /\ q.stages[Len(q.stages)].ts = event.ts
  /\ p.highest = HighImpact \/ Impact(event) => q.highest = HighImpact
  /\ p.fired => q.fired
  /\ Telling(event) /\ q.highest = HighImpact /\ IsChain(q.stages) => q.fired
  /\ q.fired /\ ~p.fired =>
       IsChain(q.stages) /\ \A j \in DOMAIN q.stages : q.stages[j].ts >= q.stages[Len(q.stages)].ts - Window

LEMMA EventAdvances ==
  ASSUME NEW id, NEW event \in Event, IsProgress(ProgressOf(id))
  PROVE  Advances(ProgressOf(id), Progressed(id, event), event)
<1>1. PICK p : p = ProgressOf(id) /\ IsProgress(p)
  OBVIOUS
<1>2. PICK kept : kept = Kept(p.stages, event.ts)
  OBVIOUS
<1>3. PICK stage : stage = StageOf(event, AppsOf(kept))
  OBVIOUS
<1>4. event.ts \in Int /\ event.app \in App /\ Window \in Nat
  BY CorrelatorAssumption, ChainAssumption
<1>5. /\ kept \in Seq(Observation)
      /\ \A j \in DOMAIN kept : kept[j].ts >= event.ts - Window
  BY <1>1, <1>2, <1>4, KeptObservations DEF IsProgress
<1>6. PICK place :
         /\ \A j \in DOMAIN p.stages : p.stages[j].ts >= event.ts - Window =>
              place[j] \in DOMAIN kept /\ kept[place[j]] = p.stages[j]
         /\ \A j, l \in DOMAIN p.stages :
              /\ p.stages[j].ts >= event.ts - Window /\ p.stages[l].ts >= event.ts - Window
              /\ place[j] = place[l]
              => j = l
  <2>1. p.stages \in Seq(Observation)
    BY <1>1 DEF IsProgress
  <2>2. \E place : Places(place, p.stages, Kept(p.stages, event.ts), event.ts)
    BY <1>4, <2>1, KeptObservations
  <2> QED BY <1>2, <2>2 DEF Places
<1>7. /\ stage \in {0, Recon, Lateral, HighImpact}
      /\ Telling(event) => stage \in {Recon, HighImpact}
      /\ Impact(event) => stage = HighImpact
  BY <1>3 DEF StageOf, Telling, Impact
<1>8. Recon = 1 /\ Lateral = 2 /\ HighImpact = 3
  BY DEF Recon, Lateral, HighImpact
<1>9. Len(kept) \in Nat /\ DOMAIN kept = 1..Len(kept)
  BY <1>5, LenProperties
<1>10. CASE stage = 0
  <2>1. Progressed(id, event) = [p EXCEPT !.stages = kept]
    BY <1>1, <1>2, <1>3, <1>10 DEF Progressed, ProgressOf
  <2>2. p = [stages |-> p.stages, highest |-> p.highest, fired |-> p.fired]
    BY <1>1 DEF IsProgress
  <2>3. PICK q : q = [p EXCEPT !.stages = kept]
    OBVIOUS
  <2>4. q = [stages |-> kept, highest |-> p.highest, fired |-> p.fired]
    BY <2>2, <2>3
  <2>5. q.stages = kept /\ q.highest = p.highest /\ q.fired = p.fired
    BY <2>4
  <2>6. IsProgress(q)
    BY <1>1, <1>5, <2>4, <2>5 DEF IsProgress
  <2>7. ~Telling(event) /\ ~Impact(event)
    BY <1>7, <1>8, <1>10
  <2>8. Advances(p, q, event)
    BY <1>6, <2>5, <2>6, <2>7 DEF Advances
  <2> QED BY <1>1, <2>1, <2>3, <2>8
<1>11. CASE stage # 0
  <2>1. PICK stages, highest, fired :
          /\ stages = Append(kept, [stage |-> stage, app |-> event.app, ts |-> event.ts])
          /\ highest = (IF stage > p.highest THEN stage ELSE p.highest)
          /\ fired = (p.fired \/ (highest = HighImpact /\ IsChain(stages)))
    OBVIOUS
  <2>2. PICK q : q = [stages |-> stages, highest |-> highest, fired |-> fired]
    OBVIOUS
  <2>3. Progressed(id, event) = q
    BY <1>1, <1>2, <1>3, <1>11, <2>1, <2>2, Zenon DEF Progressed, ProgressOf
  <2>4. q.stages = stages /\ q.highest = highest /\ q.fired = fired
    BY <2>2
  <2>5. PICK o : o = [stage |-> stage, app |-> event.app, ts |-> event.ts]
    OBVIOUS
  <2>6. o \in Observation /\ o.app = event.app /\ o.ts = event.ts
    BY <1>4, <1>7, <1>11, <2>5 DEF Observation
  <2>7. /\ stages \in Seq(Observation) /\ Len(stages) = Len(kept) + 1
        /\ stages[Len(stages)] = o /\ \A j \in 1..Len(kept) : stages[j] = kept[j]
    BY <1>5, <2>1, <2>5, <2>6, AppendProperties
  <2>8. DOMAIN stages = 1..(Len(kept) + 1) /\ Len(stages) \in DOMAIN stages
    BY <1>9, <2>7, LenProperties
  <2>9. p.highest \in {1, 2, 3} /\ stage \in {1, 2, 3} /\ p.fired \in BOOLEAN
    BY <1>1, <1>7, <1>8, <1>11 DEF IsProgress
  <2>10. /\ highest \in {Recon, Lateral, HighImpact} /\ fired \in BOOLEAN
         /\ p.highest = HighImpact \/ Impact(event) => highest = HighImpact
    BY <1>7, <1>8, <2>1, <2>9
  <2>11. IsProgress(q)
    BY <2>2, <2>4, <2>7, <2>10 DEF IsProgress
  <2>12. \A j \in DOMAIN kept : /\ j \in DOMAIN stages /\ stages[j] = kept[j] /\ j # Len(stages)
    BY <1>9, <2>7, <2>8
  <2>13. \A j \in DOMAIN stages : stages[j].ts >= stages[Len(stages)].ts - Window
    <3> TAKE j \in DOMAIN stages
    <3>1. CASE j \in DOMAIN kept
      BY <1>5, <2>6, <2>7, <2>12, <3>1
    <3>2. CASE j \notin DOMAIN kept
      <4>1. j = Len(stages)
        BY <1>9, <2>7, <2>8, <3>2
      <4> QED BY <1>4, <2>6, <2>7, <4>1
    <3> QED BY <3>1, <3>2
  <2>14. /\ p.fired => fired
         /\ highest = HighImpact /\ IsChain(stages) => fired
         /\ fired /\ ~p.fired => IsChain(stages)
    BY <2>1
  <2>15. \A j \in DOMAIN p.stages : p.stages[j].ts >= event.ts - Window =>
           place[j] \in DOMAIN stages /\ stages[place[j]] = p.stages[j] /\ place[j] # Len(stages)
    BY <1>6, <2>12
  <2>16. Advances(p, q, event)
    BY <1>6, <2>4, <2>6, <2>7, <2>8, <2>10, <2>11, <2>13, <2>14, <2>15 DEF Advances
  <2> QED BY <1>1, <2>3, <2>16
<1> QED BY <1>10, <1>11

\* The events that resolved to an id, and those of them that tell the detector
\* something and are within the window of all the others.
Trail(id) == {i \in DOMAIN log : log[i].id = id}
Timely(id) ==
  {i \in Trail(id) : /\ Telling(log[i].event)
                     /\ \A k \in Trail(id) : log[i].event.ts >= log[k].event.ts - Window}

\* Each timely event has a place of its own among the observations.
Remembered(p, id) ==
  \E place : /\ \A i \in Timely(id) : /\ place[i] \in DOMAIN p.stages
                                     /\ p.stages[place[i]].app = log[i].event.app
                                     /\ p.stages[place[i]].ts = log[i].event.ts
             /\ \A i, j \in Timely(id) : place[i] = place[j] => i = j

Watched ==
  \A id \in App \cup Alias :
    /\ IsProgress(ProgressOf(id)) /\ Remembered(ProgressOf(id), id)
    /\ (\E i \in Trail(id) : Impact(log[i].event)) => ProgressOf(id).highest = HighImpact

\* What an event adds to the log, the trails and the progress: it is the n-th.
Tracks(event, id, n) ==
  /\ id \in App \cup Alias /\ n \in Nat \ {0} /\ n \notin DOMAIN log
  /\ DOMAIN log = 1..(n - 1) /\ DOMAIN log' = 1..n /\ DOMAIN log' = DOMAIN log \cup {n}
  /\ log'[n].event = event /\ log'[n].id = id
  /\ \A i \in DOMAIN log : log'[i] = log[i]
  /\ ProgressOf(id)' = Progressed(id, event)
  /\ \A x : x # id => ProgressOf(x)' = ProgressOf(x)
  /\ Trail(id)' = Trail(id) \cup {n}
  /\ \A x : x # id => Trail(x)' = Trail(x)

LEMMA Tracking ==
  ASSUME Anchored, Inhabited, LogTyped, NEW event \in Event, ProcessEvent(event)
  PROVE  \E id, n : Tracks(event, id, n)
<1>1. PICK id, M, A : Outcome(event, id, M, A)
  BY Processing
<1>2. PICK n : n = Len(log) + 1
  OBVIOUS
<1>3. /\ Len(log) \in Nat /\ DOMAIN log = 1..Len(log)
      /\ DOMAIN log' = 1..(Len(log) + 1)
      /\ DOMAIN log' = DOMAIN log \cup {Len(log) + 1} /\ Len(log) + 1 \notin DOMAIN log
      /\ log'[Len(log) + 1].event = event /\ log'[Len(log) + 1].id = id
      /\ \A i \in DOMAIN log : log'[i] = log[i]
  BY <1>1, LogStep
<1>4. /\ n \in Nat \ {0} /\ n \notin DOMAIN log
      /\ DOMAIN log = 1..(n - 1) /\ DOMAIN log' = 1..n /\ DOMAIN log' = DOMAIN log \cup {n}
      /\ log'[n].event = event /\ log'[n].id = id
      /\ \A i \in DOMAIN log : log'[i] = log[i]
  BY <1>2, <1>3
<1>5. id \in App \cup Alias
  <2>1. A = {} => id \in App
    BY <1>1 DEF Outcome
  <2>2. A # {} => id \in A \cup M
    BY <1>1 DEF Outcome
  <2>3. A \subseteq Alias /\ M \subseteq Alias
    BY <1>1 DEF Outcome, Anchored
  <2> QED BY <2>1, <2>2, <2>3
<1>6. progress' = [i \in DOMAIN progress \cup {id} |->
                     IF i = id THEN Progressed(id, event) ELSE progress[i]]
  <2>1. id = Resolve(event)
    BY <1>1 DEF Outcome
  <2> QED BY <2>1 DEF ProcessEvent, EvaluateChain
<1>7. ProgressOf(id)' = Progressed(id, event)
  BY <1>6 DEF ProgressOf
<1>8. ASSUME NEW x, x # id PROVE ProgressOf(x)' = ProgressOf(x)
  BY <1>6, <1>8 DEF ProgressOf
<1>9. Trail(id)' = Trail(id) \cup {n}
  BY <1>4 DEF Trail
<1>10. ASSUME NEW x, x # id PROVE Trail(x)' = Trail(x)
  BY <1>4, <1>10 DEF Trail
<1>11. Tracks(event, id, n)
  BY <1>4, <1>5, <1>7, <1>8, <1>9, <1>10 DEF Tracks
<1> QED BY <1>11

LEMMA WatchedStep ==
  ASSUME Anchored, Inhabited, LogTyped, Watched, NEW event \in Event, ProcessEvent(event)
  PROVE  Watched'
<1>1. PICK id, n : Tracks(event, id, n)
  BY Tracking
<1>2. PICK p, q : p = ProgressOf(id) /\ q = Progressed(id, event)
  OBVIOUS
<1>3. Advances(p, q, event)
  <2>1. IsProgress(ProgressOf(id))
    BY <1>1 DEF Tracks, Watched
  <2> QED BY <1>2, <2>1, EventAdvances
<1>4. ProgressOf(id)' = q
  BY <1>1, <1>2 DEF Tracks
<1>5. Remembered(q, id)'
  <2>1. Remembered(p, id)
    BY <1>1, <1>2 DEF Tracks, Watched
  <2>2. PICK place : /\ \A i \in Timely(id) : /\ place[i] \in DOMAIN p.stages
                                             /\ p.stages[place[i]].app = log[i].event.app
                                             /\ p.stages[place[i]].ts = log[i].event.ts
                     /\ \A i, j \in Timely(id) : place[i] = place[j] => i = j
    BY <2>1 DEF Remembered
  <2>3. PICK moved :
          /\ \A j \in DOMAIN p.stages : p.stages[j].ts >= event.ts - Window =>
               /\ moved[j] \in DOMAIN q.stages /\ q.stages[moved[j]] = p.stages[j]
               /\ Telling(event) => moved[j] # Len(q.stages)
          /\ \A j, l \in DOMAIN p.stages :
               /\ p.stages[j].ts >= event.ts - Window /\ p.stages[l].ts >= event.ts - Window
               /\ moved[j] = moved[l]
               => j = l
    BY <1>3 DEF Advances
  <2>4. PICK F : F = Timely(id)'
    OBVIOUS
  <2>5. \A i \in F : i # n => /\ i \in Timely(id) /\ log[i].event.ts >= event.ts - Window
                              /\ log'[i] = log[i]
    <3> TAKE i \in F
    <3> HAVE i # n
    <3>1. /\ i \in Trail(id)' /\ Telling(log'[i].event)
          /\ \A k \in Trail(id)' : log'[i].event.ts >= log'[k].event.ts - Window
      BY <2>4 DEF Timely
    <3>2. i \in Trail(id) /\ n \in Trail(id)' /\ \A k \in Trail(id) : k \in Trail(id)'
      BY <1>1, <3>1 DEF Tracks
    <3>3. log'[n].event = event /\ \A k \in Trail(id) : log'[k] = log[k]
      BY <1>1 DEF Tracks, Trail
    <3>4. \A k \in Trail(id) : log[i].event.ts >= log[k].event.ts - Window
      BY <3>1, <3>2, <3>3
    <3>5. Telling(log[i].event) /\ log[i].event.ts >= event.ts - Window
      BY <3>1, <3>2, <3>3
    <3> QED BY <3>2, <3>3, <3>4, <3>5 DEF Timely
  <2>6. n \in F => Telling(event)
    BY <1>1, <2>4 DEF Timely, Tracks
  <2>7. PICK g : g = [i \in F |-> IF i = n THEN Len(q.stages) ELSE moved[place[i]]]
    OBVIOUS
  <2>8. n \in F => /\ g[n] \in DOMAIN q.stages /\ g[n] = Len(q.stages)
                   /\ q.stages[g[n]].app = event.app /\ q.stages[g[n]].ts = event.ts
    BY <1>3, <2>6, <2>7 DEF Advances
  <2>9. \A i \in F : i # n => /\ g[i] = moved[place[i]] /\ g[i] \in DOMAIN q.stages
                              /\ q.stages[g[i]] = p.stages[place[i]]
                              /\ n \in F => g[i] # g[n]
    <3> TAKE i \in F
    <3> HAVE i # n
    <3>1. /\ place[i] \in DOMAIN p.stages /\ p.stages[place[i]].ts = log[i].event.ts
          /\ log[i].event.ts >= event.ts - Window
      BY <2>2, <2>5
    <3>2. g[i] = moved[place[i]]
      BY <2>7
    <3> QED BY <2>3, <2>6, <2>8, <3>1, <3>2
  <2>10. \A i \in F : /\ g[i] \in DOMAIN q.stages
                      /\ q.stages[g[i]].app = log'[i].event.app
                      /\ q.stages[g[i]].ts = log'[i].event.ts
    <3> TAKE i \in F
    <3>1. CASE i = n
      <4>1. log'[n].event = event
        BY <1>1 DEF Tracks
      <4> QED BY <2>8, <3>1, <4>1
    <3>2. CASE i # n
      BY <2>2, <2>5, <2>9, <3>2
    <3> QED BY <3>1, <3>2
  <2>11. ASSUME NEW i \in F, NEW j \in F, g[i] = g[j] PROVE i = j
    <3>1. CASE i # n /\ j # n
      <4>1. /\ place[i] \in DOMAIN p.stages /\ p.stages[place[i]].ts >= event.ts - Window
            /\ place[j] \in DOMAIN p.stages /\ p.stages[place[j]].ts >= event.ts - Window
        BY <2>2, <2>5, <3>1
      <4>2. moved[place[i]] = moved[place[j]]
        BY <2>9, <2>11, <3>1
      <4>3. place[i] = place[j]
        BY <2>3, <4>1, <4>2
      <4> QED BY <2>2, <2>5, <3>1, <4>3
    <3>2. CASE i = n \/ j = n
      BY <2>9, <2>11, <3>2
    <3> QED BY <3>1, <3>2
  <2>12. \E h : /\ \A i \in F : /\ h[i] \in DOMAIN q.stages
                                /\ q.stages[h[i]].app = log'[i].event.app
                                /\ q.stages[h[i]].ts = log'[i].event.ts
                /\ \A i, j \in F : h[i] = h[j] => i = j
    BY <2>10, <2>11
  <2> QED BY <2>4, <2>12 DEF Remembered
<1>6. IsProgress(q)
  BY <1>3 DEF Advances
<1>7. ASSUME NEW i \in Trail(id)', Impact(log'[i].event) PROVE q.highest = HighImpact
  <2>1. CASE i = n
    <3>1. Impact(event)
      BY <1>1, <1>7, <2>1 DEF Tracks
    <3> QED BY <1>3, <3>1 DEF Advances
  <2>2. CASE i # n
    <3>1. i \in Trail(id) /\ log'[i] = log[i] /\ id \in App \cup Alias
      BY <1>1, <2>2 DEF Tracks, Trail
    <3>2. Impact(log[i].event)
      BY <1>7, <3>1
    <3>3. p.highest = HighImpact
      BY <1>2, <3>1, <3>2 DEF Watched
    <3> QED BY <1>3, <3>3 DEF Advances
  <2> QED BY <2>1, <2>2
<1>8. ASSUME NEW x \in App \cup Alias
      PROVE  /\ IsProgress(ProgressOf(x))' /\ Remembered(ProgressOf(x), x)'
             /\ (\E i \in Trail(x)' : Impact(log'[i].event)) => ProgressOf(x)'.highest = HighImpact
  <2>1. CASE x = id
    <3>1. IsProgress(ProgressOf(x))'
      BY <1>4, <1>6, <2>1 DEF IsProgress
    <3>2. Remembered(ProgressOf(x), x)'
      BY <1>4, <1>5, <2>1 DEF Remembered
    <3> QED BY <1>4, <1>7, <2>1, <3>1, <3>2
  <2>2. CASE x # id
    <3>1. ProgressOf(x)' = ProgressOf(x) /\ Trail(x)' = Trail(x) /\ \A i \in Trail(x) : log'[i] = log[i]
      BY <1>1, <2>2 DEF Tracks, Trail
    <3>2. Timely(x)' = Timely(x) /\ \A i \in Timely(x) : log'[i] = log[i]
      BY <3>1 DEF Timely
    <3>3. /\ IsProgress(ProgressOf(x)) /\ Remembered(ProgressOf(x), x)
          /\ (\E i \in Trail(x) : Impact(log[i].event)) => ProgressOf(x).highest = HighImpact
      BY DEF Watched
    <3>4. IsProgress(ProgressOf(x))'
      BY <3>1, <3>3 DEF IsProgress
    <3>5. Remembered(ProgressOf(x), x)'
      BY <3>1, <3>2, <3>3 DEF Remembered
    <3> QED BY <3>1, <3>3, <3>4, <3>5
  <2> QED BY <2>1, <2>2
<1> QED BY <1>8 DEF Watched

\* A signal shows a chain within the window.
Shows(stages) ==
  IsChain(stages) /\ \A j \in DOMAIN stages : stages[j].ts >= stages[Len(stages)].ts - Window

Signalled ==
  /\ signals \in Seq([id : App \cup Alias, stages : Seq(Observation)])
  /\ \A i \in DOMAIN signals : Shows(signals[i].stages)

LEMMA SignalledStep ==
  ASSUME Anchored, Inhabited, LogTyped, Watched, Signalled, NEW event \in Event, ProcessEvent(event)
  PROVE  Signalled'
<1>1. PICK id, n : Tracks(event, id, n)
  BY Tracking
<1>2. PICK q : q = Progressed(id, event)
  OBVIOUS
<1>3. Advances(ProgressOf(id), q, event)
  <2>1. IsProgress(ProgressOf(id))
    BY <1>1 DEF Tracks, Watched
  <2> QED BY <1>2, <2>1, EventAdvances
<1>4. id = Resolve(event)
  <2>1. log' = Append(log, [event |-> event, id |-> Resolve(event)])
    BY DEF ProcessEvent
  <2>2. log'[Len(log) + 1].id = Resolve(event) /\ Len(log) \in Nat /\ DOMAIN log = 1..Len(log)
    BY <2>1 DEF LogTyped
  <2>3. n = Len(log) + 1
    BY <1>1, <2>2 DEF Tracks
  <2> QED BY <1>1, <2>2, <2>3 DEF Tracks
<1>5. signals' = IF q.fired /\ ~(id \in DOMAIN progress /\ progress[id].fired)
                   THEN Append(signals, [id |-> id, stages |-> q.stages]) ELSE signals
  BY <1>2, <1>4, Zenon DEF ProcessEvent, EvaluateChain
<1>6. CASE q.fired /\ ~(id \in DOMAIN progress /\ progress[id].fired)
  <2>1. ~ProgressOf(id).fired
    BY <1>6 DEF ProgressOf, NewProgress
  <2>2. Shows(q.stages) /\ q.stages \in Seq(Observation)
    BY <1>3, <1>6, <2>1 DEF Advances, IsProgress, Shows
  <2>3. PICK new, Signal : /\ new = [id |-> id, stages |-> q.stages]
                           /\ Signal = [id : App \cup Alias, stages : Seq(Observation)]
    OBVIOUS
  <2>4. new \in Signal /\ new.stages = q.stages
    BY <1>1, <2>2, <2>3 DEF Tracks
  <2>5. signals \in Seq(Signal) /\ signals' = Append(signals, new)
    BY <1>5, <1>6, <2>3 DEF Signalled
  <2>6. /\ signals' \in Seq(Signal) /\ Len(signals) \in Nat /\ DOMAIN signals = 1..Len(signals)
        /\ DOMAIN signals' = 1..(Len(signals) + 1)
        /\ signals'[Len(signals) + 1] = new /\ \A i \in 1..Len(signals) : signals'[i] = signals[i]
    BY <2>4, <2>5
  <2>7. ASSUME NEW i \in DOMAIN signals' PROVE Shows(signals'[i].stages)
    <3>1. CASE i \in DOMAIN signals
      BY <2>6, <3>1 DEF Signalled
    <3>2. CASE i \notin DOMAIN signals
      BY <2>2, <2>4, <2>6, <3>2
    <3> QED BY <3>1, <3>2
  <2>8. (\A i \in DOMAIN signals : Shows(signals[i].stages))'
    BY <2>7 DEF Shows
  <2> QED BY <2>3, <2>6, <2>8 DEF Signalled
<1>7. CASE ~(q.fired /\ ~(id \in DOMAIN progress /\ progress[id].fired))
  <2>1. signals' = signals
    BY <1>5, <1>7
  <2> QED BY <2>1 DEF Signalled, Shows
<1> QED BY <1>6, <1>7

\* Events that make a chain within the window.
Complete(S) ==
  /\ Cardinality(S) = MinStages
  /\ \A i \in S : Telling(log[i].event)
  /\ \E i \in S : Impact(log[i].event)
  /\ Cardinality({log[i].event.app : i \in S}) >= 2
  /\ \A i, j \in S : log[j].event.ts - log[i].event.ts <= Window

Alerted ==
  InOrder => \A id \in App \cup Alias : \A S \in SUBSET Trail(id) : Complete(S) => ProgressOf(id).fired

\* Events of a chain that each have a place among the observations make them one.
Represents(stages, S, place, app) ==
  /\ stages \in Seq(Observation) /\ IsFiniteSet(S)
  /\ \A i \in S : place[i] \in DOMAIN stages /\ stages[place[i]].app = app[i]
  /\ \A i, j \in S : place[i] = place[j] => i = j
  /\ Cardinality(S) = MinStages /\ Cardinality({app[i] : i \in S}) >= 2

LEMMA PlacedChain ==
  ASSUME NEW stages, NEW S, NEW place, NEW app, Represents(stages, S, place, app)
  PROVE  IsChain(stages)
<1> USE DEF Represents
<1>1. Len(stages) \in Nat /\ DOMAIN stages = 1..Len(stages)
  BY LenProperties
<1>3. IsFiniteSet(1..Len(stages)) /\ Cardinality(1..Len(stages)) = Len(stages)
  <2>1. PICK k \in Nat : k = Len(stages)
    BY <1>1
  <2>2. IsFiniteSet(1..k) /\ Cardinality(1..k) = IF 1 > k THEN 0 ELSE k - 1 + 1
    BY FS_Interval
  <2> QED BY <2>1, <2>2
<1>4. MinStages <= Len(stages)
  <2>1. PICK g : g = [i \in S |-> place[i]]
    OBVIOUS
  <2>2. g \in Injection(S, 1..Len(stages))
    BY <1>1, <2>1 DEF Injection, IsInjective
  <2>3. Cardinality(S) <= Cardinality(1..Len(stages))
    BY <1>3, <2>2, FS_Injection
  <2> QED BY <1>3, <2>3
<1>5. Cardinality(AppsOf(stages)) >= 2
  <2>1. {app[i] : i \in S} \subseteq AppsOf(stages)
    BY DEF AppsOf
  <2>2. IsFiniteSet(AppsOf(stages))
    <3>1. PICK f : f = [i \in 1..Len(stages) |-> stages[i].app]
      OBVIOUS
    <3>2. AppsOf(stages) = {f[i] : i \in 1..Len(stages)}
      BY <1>1, <3>1 DEF AppsOf
    <3> QED BY <1>3, <3>2, ImageFinite
  <2>3. PICK B, C : B = {app[i] : i \in S} /\ C = AppsOf(stages)
    OBVIOUS
  <2>4. IsFiniteSet(B) /\ Cardinality(B) <= Cardinality(C)
    BY <2>1, <2>2, <2>3, FS_Subset
  <2>5. Cardinality(B) \in Nat /\ Cardinality(C) \in Nat
    BY <2>2, <2>3, <2>4, FS_CardinalityType
  <2>6. Cardinality(B) >= 2
    BY <2>3
  <2> QED BY <2>3, <2>4, <2>5, <2>6
<1>6. MinStages \in Nat
  BY ChainAssumption
<1> QED BY <1>1, <1>4, <1>5, <1>6 DEF IsChain

LEMMA AlertedStep ==
  ASSUME Anchored, Inhabited, LogTyped, Watched, Alerted, NEW event \in Event, ProcessEvent(event)
  PROVE  Alerted'
<1>1. PICK id, n : Tracks(event, id, n)
  BY Tracking
<1>2. PICK p, q : p = ProgressOf(id) /\ q = Progressed(id, event)
  OBVIOUS
<1>3. Advances(p, q, event)
  <2>1. IsProgress(ProgressOf(id))
    BY <1>1 DEF Tracks, Watched
  <2> QED BY <1>2, <2>1, EventAdvances
<1>4. ProgressOf(id)' = q /\ \A x : x # id => ProgressOf(x)' = ProgressOf(x)
  BY <1>1, <1>2 DEF Tracks
<1>5. SUFFICES ASSUME InOrder', NEW x \in App \cup Alias, NEW S \in SUBSET Trail(x)', Complete(S)'
               PROVE  ProgressOf(x)'.fired
  BY DEF Alerted
<1>6. n \in Nat \ {0} /\ DOMAIN log = 1..(n - 1) /\ DOMAIN log' = 1..n /\ n \notin DOMAIN log
      /\ log'[n].event = event /\ log'[n].id = id /\ \A i \in DOMAIN log : log'[i] = log[i]
  BY <1>1 DEF Tracks
<1>7. InOrder
  <2>1. \A i, j \in DOMAIN log' : i < j => log'[i].event.ts <= log'[j].event.ts
    BY <1>5 DEF InOrder
  <2> QED BY <1>6, <2>1 DEF InOrder
<1>8. CASE n \in S
  <2>1. x = id
    BY <1>6, <1>8 DEF Trail
  <2>2. Telling(event)
    BY <1>5, <1>6, <1>8 DEF Complete
  <2>3. S \subseteq Timely(id)'
    <3> SUFFICES ASSUME NEW i \in S PROVE i \in Timely(id)'
      OBVIOUS
    <3>1. i \in Trail(id)' /\ Telling(log'[i].event) /\ log'[n].event.ts - log'[i].event.ts <= Window
      BY <1>5, <1>8, <2>1 DEF Complete
    <3>2. ASSUME NEW k \in Trail(id)' PROVE log'[i].event.ts >= log'[k].event.ts - Window
      <4>1. k \in 1..n /\ i \in 1..n
        BY <1>6, <3>1, <3>2 DEF Trail
      <4>2. log'[k].event.ts <= log'[n].event.ts
        <5>1. CASE k = n
          <6>1. log'[n].event.ts \in Int
            BY <1>6, CorrelatorAssumption
          <6> QED BY <5>1, <6>1
        <5>2. CASE k # n
          BY <1>5, <1>6, <4>1, <5>2 DEF InOrder
        <5> QED BY <5>1, <5>2
      <4>3. \A j \in 1..n : log'[j].event.ts \in Int
        <5> TAKE j \in 1..n
        <5>1. log'[j].event \in Event
          <6>1. CASE j = n
            BY <1>6, <6>1
          <6>2. CASE j # n
            <7>1. j \in DOMAIN log /\ log'[j] = log[j]
              BY <1>6, <6>2
            <7>2. log[j] \in [event : Event, id : App \cup Alias]
              BY <7>1, ElementOfSeq, LenProperties DEF LogTyped
            <7> QED BY <7>1, <7>2
          <6> QED BY <6>1, <6>2
        <5> QED BY <5>1, CorrelatorAssumption
      <4>4. n \in 1..n /\ Window \in Nat
        BY <1>6, ChainAssumption
      <4> QED BY <3>1, <4>1, <4>2, <4>3, <4>4
    <3> QED BY <3>1, <3>2 DEF Timely
  <2>4. Watched'
    BY WatchedStep
  <2>5. IsProgress(q) /\ Remembered(q, id)'
    <3>1. Remembered(ProgressOf(id), id)'
      BY <1>1, <2>4 DEF Watched, Tracks
    <3> QED BY <1>3, <1>4, <3>1 DEF Advances, Remembered
  <2>6. IsFiniteSet(S)
    <3>1. S \subseteq 1..n /\ IsFiniteSet(1..n)
      BY <1>6, FS_Interval DEF Trail
    <3> QED BY <3>1, FS_Subset
  <2>7. IsChain(q.stages)
    <3>1. PICK place :
            /\ \A i \in Timely(id)' : /\ place[i] \in DOMAIN q.stages
                                     /\ q.stages[place[i]].app = log'[i].event.app
            /\ \A i, j \in Timely(id)' : place[i] = place[j] => i = j
      BY <2>5 DEF Remembered
    <3>2. PICK app : app = [i \in S |-> log'[i].event.app]
      OBVIOUS
    <3>3. Cardinality(S) = MinStages /\ Cardinality({log'[i].event.app : i \in S}) >= 2
      BY <1>5 DEF Complete
    <3>4. {log'[i].event.app : i \in S} = {app[i] : i \in S}
      BY <3>2
    <3>5. PICK B : B = {log'[i].event.app : i \in S} /\ B = {app[i] : i \in S}
      BY <3>4
    <3>6. Cardinality({app[i] : i \in S}) >= 2
      BY <3>3, <3>5
    <3>7. /\ \A i \in S : place[i] \in DOMAIN q.stages /\ q.stages[place[i]].app = app[i]
          /\ \A i, j \in S : place[i] = place[j] => i = j
      BY <2>3, <3>1, <3>2
    <3>8. q.stages \in Seq(Observation)
      BY <2>5 DEF IsProgress
    <3>9. Represents(q.stages, S, place, app)
      BY <2>6, <3>3, <3>6, <3>7, <3>8 DEF Represents
    <3> QED BY <3>9, PlacedChain
  <2>8. q.highest = HighImpact
    <3>1. PICK i \in S : Impact(log'[i].event)
      BY <1>5 DEF Complete
    <3>2. i \in Trail(id)' /\ id \in App \cup Alias
      BY <1>1, <2>1, <3>1 DEF Tracks
    <3> QED BY <1>4, <2>4, <3>1, <3>2 DEF Watched
  <2> QED BY <1>3, <1>4, <2>1, <2>2, <2>7, <2>8 DEF Advances
<1>9. CASE n \notin S
  <2>1. S \subseteq Trail(x) /\ \A i \in S : log'[i] = log[i]
    BY <1>6, <1>9 DEF Trail
  <2>2. Complete(S)
    <3>1. {log'[i].event.app : i \in S} = {log[i].event.app : i \in S}
      BY <2>1
    <3> QED BY <1>5, <2>1, <3>1 DEF Complete
  <2>3. ProgressOf(x).fired
    BY <1>7, <2>1, <2>2 DEF Alerted
  <2>4. CASE x = id
    BY <1>2, <1>3, <1>4, <2>3, <2>4 DEF Advances
  <2>5. CASE x # id
    BY <1>4, <2>3, <2>5
  <2> QED BY <2>4, <2>5
<1> QED BY <1>8, <1>9

\* The inductive invariant of the attack chains.
ChainInv == IdentityInv /\ Watched /\ Signalled /\ Alerted

LEMMA ChainInitial == Init => ChainInv
<1> SUFFICES ASSUME Init PROVE ChainInv
  OBVIOUS
<1>1. progress = <<>> /\ signals = <<>> /\ log = <<>>
  BY DEF Init, ChainInit
<1>2. DOMAIN progress = {} /\ DOMAIN log = {}
  BY <1>1
<1>3. \A id : Trail(id) = {} /\ Timely(id) = {} /\ ProgressOf(id) = NewProgress
  BY <1>2 DEF Trail, Timely, ProgressOf
<1>4. IsProgress(NewProgress)
  BY DEF IsProgress, NewProgress, Recon
<1>5. Watched
  <2>1. \A id : Remembered(NewProgress, id)
    BY <1>3 DEF Remembered
  <2> QED BY <1>3, <1>4, <2>1 DEF Watched
<1>6. Signalled
  BY <1>1 DEF Signalled
<1>7. Alerted
  <2>1. \A S \in SUBSET {} : ~Complete(S)
    BY DEF Complete
  <2> QED BY <1>3, <2>1 DEF Alerted
<1> QED BY <1>5, <1>6, <1>7, IdentityInitial DEF ChainInv

LEMMA ChainStep == ChainInv /\ [Next]_vars => ChainInv'
<1> SUFFICES ASSUME ChainInv, [Next]_vars PROVE ChainInv'
  OBVIOUS
<1>1. IdentityInv'
  BY IdentityStep DEF ChainInv
<1>2. CASE Next
  <2>1. PICK event \in Event : ProcessEvent(event)
    BY <1>2 DEF Next
  <2>2. Anchored /\ Inhabited /\ LogTyped
    BY DEF ChainInv, IdentityInv
  <2> QED BY <1>1, <2>1, <2>2, WatchedStep, SignalledStep, AlertedStep DEF ChainInv
<1>3. CASE UNCHANGED vars
  <2>1. progress' = progress /\ signals' = signals /\ log' = log
    BY <1>3 DEF vars, chainVars
  <2>2. \A id : Trail(id)' = Trail(id) /\ ProgressOf(id)' = ProgressOf(id)
    BY <2>1 DEF Trail, ProgressOf
  <2>3. \A id : Timely(id)' = Timely(id)
    BY <2>1, <2>2 DEF Timely
  <2>4. ASSUME NEW id \in App \cup Alias
        PROVE  /\ IsProgress(ProgressOf(id))' /\ Remembered(ProgressOf(id), id)'
               /\ (\E i \in Trail(id)' : Impact(log'[i].event)) => ProgressOf(id)'.highest = HighImpact
    <3>1. /\ IsProgress(ProgressOf(id)) /\ Remembered(ProgressOf(id), id)
          /\ (\E i \in Trail(id) : Impact(log[i].event)) => ProgressOf(id).highest = HighImpact
      BY DEF ChainInv, Watched
    <3>2. IsProgress(ProgressOf(id))'
      BY <2>2, <3>1 DEF IsProgress
    <3>3. Remembered(ProgressOf(id), id)'
      BY <2>1, <2>2, <2>3, <3>1 DEF Remembered
    <3> QED BY <2>1, <2>2, <3>1, <3>2, <3>3
  <2>5. Watched'
    BY <2>4 DEF Watched
  <2>6. Signalled'
    BY <2>1 DEF ChainInv, Signalled, Shows
  <2>7. Alerted'
    <3>1. InOrder' => InOrder
      BY <2>1 DEF InOrder
    <3>2. \A S : Complete(S)' => Complete(S)
      BY <2>1 DEF Complete
    <3> QED BY <2>2, <3>1, <3>2 DEF ChainInv, Alerted
  <2> QED BY <1>1, <2>5, <2>6, <2>7 DEF ChainInv
<1> QED BY <1>2, <1>3

LEMMA ChainInvariant == Spec => []ChainInv
BY ChainInitial, ChainStep, PTL DEF Spec

\* What a signal shows is a chain within the window, and events in the order of
\* their times that make a chain within the window, all resolved to one id, raise
\* the alert, whatever other events lie between them (sequence.rs:63-139).
THEOREM ChainsReported == SensorSpec => []ChainsAreReported
<1>1. ChainInv => ChainsAreReported
  <2> SUFFICES ASSUME ChainInv PROVE ChainsAreReported
    OBVIOUS
  <2>1. \A i \in DOMAIN signals :
          LET stages == signals[i].stages IN
            IsChain(stages) /\ \A j \in DOMAIN stages : stages[j].ts >= stages[Len(stages)].ts - Window
    BY DEF ChainInv, Signalled, Shows
  <2>2. ASSUME InOrder, NEW S \in SUBSET DOMAIN log,
               /\ Cardinality(S) = MinStages
               /\ \A i \in S : Telling(log[i].event)
               /\ \E i \in S : HighImpactAction(log[i].event) /\ ~Failed(log[i].event)
               /\ Cardinality({log[i].event.app : i \in S}) >= 2
               /\ \A i, j \in S : log[i].id = log[j].id /\ log[j].event.ts - log[i].event.ts <= Window
        PROVE  \E i \in S : progress[log[i].id].fired
    <3>1. PICK i \in S : HighImpactAction(log[i].event) /\ ~Failed(log[i].event)
      BY <2>2
    <3>2. log[i].id \in App \cup Alias
      <4>1. log[i] \in [event : Event, id : App \cup Alias]
        BY <3>1, ElementOfSeq, LenProperties DEF ChainInv, IdentityInv, LogTyped
      <4> QED BY <4>1
    <3>3. S \in SUBSET Trail(log[i].id)
      BY <2>2, <3>1 DEF Trail
    <3>4. Complete(S)
      BY <2>2 DEF Complete, Impact
    <3>5. ProgressOf(log[i].id).fired
      BY <2>2, <3>2, <3>3, <3>4 DEF ChainInv, Alerted
    <3>6. progress[log[i].id].fired
      BY <3>5 DEF ProgressOf, NewProgress
    <3> QED BY <3>1, <3>6
  <2> QED BY <2>1, <2>2 DEF ChainsAreReported
<1> QED BY <1>1, ChainInvariant, SensorsAreEvents, PTL

-----------------------------------------------------------------------------
(* Shells in containers.                                                   *)

\* Each event of the log was made of its report, or is an application's.
Rendered ==
  /\ reports \in Seq(Report \cup {[sensor |-> "agent", body |-> "telemetry"]})
  /\ DOMAIN reports = DOMAIN log
  /\ \A i \in DOMAIN reports :
       reports[i] = [sensor |-> "agent", body |-> "telemetry"] \/ log[i].event = EventOf(reports[i])

LEMMA RenderedInvariant == SensorSpec => [](ChainInv /\ GraphInv /\ Rendered)
<1>1. SensorInit => Rendered
  BY DEF SensorInit, Init, Rendered
<1>2. IdentityInv /\ Rendered /\ [SensorNext]_sensorVars => Rendered'
  <2> SUFFICES ASSUME IdentityInv, Rendered, [SensorNext]_sensorVars PROVE Rendered'
    OBVIOUS
  <2>1. ASSUME NEW r, r \in Report \cup {[sensor |-> "agent", body |-> "telemetry"]},
               reports' = Append(reports, r), NEW event \in Event, ProcessEvent(event),
               r = [sensor |-> "agent", body |-> "telemetry"] \/ event = EventOf(r)
        PROVE  Rendered'
    <3>1. PICK id, n : Tracks(event, id, n)
      BY <2>1, Tracking DEF IdentityInv
    <3>2. /\ n \in Nat \ {0} /\ DOMAIN log = 1..(n - 1) /\ DOMAIN log' = 1..n
          /\ log'[n].event = event /\ \A i \in DOMAIN log : log'[i] = log[i]
      BY <3>1 DEF Tracks
    <3>3. PICK T : T = Report \cup {[sensor |-> "agent", body |-> "telemetry"]}
      OBVIOUS
    <3>4. reports \in Seq(T) /\ r \in T
      BY <2>1, <3>3 DEF Rendered
    <3>5. /\ Len(reports) \in Nat /\ DOMAIN reports = 1..Len(reports) /\ reports' \in Seq(T)
          /\ DOMAIN reports' = 1..(Len(reports) + 1) /\ reports'[Len(reports) + 1] = r
          /\ \A i \in 1..Len(reports) : reports'[i] = reports[i]
      BY <2>1, <3>4
    <3>6. Len(reports) = n - 1
      <4>1. 1..Len(reports) = 1..(n - 1)
        BY <3>2, <3>5 DEF Rendered
      <4>2. n - 1 \in Nat /\ Len(reports) \in Nat
        BY <3>2, <3>5
      <4>3. \A k, l \in Nat : 1..k = 1..l => k = l
        <5> TAKE k, l \in Nat
        <5> HAVE 1..k = 1..l
        <5>1. k \in 1..k \/ k = 0
          OBVIOUS
        <5>2. l \in 1..l \/ l = 0
          OBVIOUS
        <5>3. k \in 1..l \/ k = 0
          BY <5>1
        <5>4. l \in 1..k \/ l = 0
          BY <5>2
        <5> QED BY <5>3, <5>4
      <4> QED BY <4>1, <4>2, <4>3
    <3>7. /\ DOMAIN reports' = 1..n /\ reports'[n] = r /\ DOMAIN reports = 1..(n - 1)
          /\ \A i \in 1..(n - 1) : reports'[i] = reports[i]
      BY <3>2, <3>5, <3>6
    <3>8. ASSUME NEW i \in DOMAIN reports'
          PROVE  reports'[i] = [sensor |-> "agent", body |-> "telemetry"] \/ log'[i].event = EventOf(reports'[i])
      <4>1. CASE i = n
        BY <2>1, <3>2, <3>7, <4>1
      <4>2. CASE i # n
        <5>1. i \in DOMAIN reports /\ i \in DOMAIN log
          BY <3>2, <3>7, <4>2
        <5> QED BY <3>2, <3>7, <5>1 DEF Rendered
      <4> QED BY <4>1, <4>2
    <3> QED BY <3>2, <3>3, <3>5, <3>7, <3>8 DEF Rendered
  <2>2. ASSUME NEW r \in Report, Detect(r) PROVE Rendered'
    <3>1. EventOf(r) \in Event
      BY <2>2, SensorAssumption DEF Detect
    <3> QED BY <2>1, <2>2, <3>1 DEF Detect
  <2>3. ASSUME NEW event \in Telemetry, Observe(event) PROVE Rendered'
    <3>1. event \in Event
      BY SensorAssumption
    <3> QED BY <2>1, <2>3, <3>1 DEF Observe
  <2>4. ASSUME UNCHANGED sensorVars PROVE Rendered'
    BY <2>4 DEF sensorVars, vars, Rendered
  <2> QED BY <2>2, <2>3, <2>4 DEF SensorNext
<1>3. ChainInv => IdentityInv
  BY DEF ChainInv
<1> QED BY <1>1, <1>2, <1>3, ChainInvariant, GraphInvariant, SensorsAreEvents, PTL DEF SensorSpec

\* What the adapter makes of such a report.
LEMMA ShellEvent ==
  ASSUME NEW r, StartsKnownShell(r), NEW event, event = EventOf(r)
  PROVE  /\ event.kernel /\ event.process /\ event.severity = "critical" /\ event.significant
         /\ event.action.success /\ event.action.status = None
<1>1. event = TetragonExec(r)
  BY DEF EventOf, StartsKnownShell
<1>2. ClassifyBinary(r.dir, r.binary, r.container # None) = [severity |-> "critical", significant |-> r.container # None]
  BY DEF ClassifyBinary, KnownShell, StartsKnownShell
<1>3. \E name, keys, weight :
        /\ event = [Basic(r, name, keys, weight) EXCEPT !.type = @ \cup {"exec"}]
        /\ weight = ClassifyBinary(r.dir, r.binary, r.container # None)
  BY <1>1, Zenon DEF TetragonExec
<1>4. PICK name, keys, weight :
        /\ event = [Basic(r, name, keys, weight) EXCEPT !.type = @ \cup {"exec"}]
        /\ weight = [severity |-> "critical", significant |-> r.container # None]
  BY <1>2, <1>3
<1>5. weight.severity = "critical" /\ weight.significant
  BY <1>4 DEF StartsKnownShell
<1> QED BY <1>4, <1>5 DEF Basic

\* A shell that the adapter knows, by a path that ends in sh, bash or zsh or by the
\* bare name sh or bash, is alarmed and kept when it starts in a container, and
\* leaves its trace in the entity it belongs to by now and in the chain of the id
\* it resolved to (tetragon.rs:283-299, identity.rs:169-197, sequence.rs:92-107).
THEOREM KnownShellsAreTraced == SensorSpec => []KnownShellsLeaveATrace
<1>1. ChainInv /\ GraphInv /\ Rendered => KnownShellsLeaveATrace
  <2> SUFFICES ASSUME ChainInv, GraphInv, Rendered, NEW i \in DOMAIN reports, StartsKnownShell(reports[i])
               PROVE  /\ Alarmed(log[i].event) /\ ShouldPersist(log[i].event)
                      /\ log[i].event.app \in entities[EntityOf(i)].apps
                      /\ "process.execute" \in entities[EntityOf(i)].capabilities
                      /\ progress[log[i].id].highest = HighImpact
    BY DEF KnownShellsLeaveATrace, StartsKnownShell
  <2>1. i \in DOMAIN log
    BY DEF Rendered
  <2>2. PICK event : event = log[i].event
    OBVIOUS
  <2>3. event = EventOf(reports[i])
    <3>1. reports[i] # [sensor |-> "agent", body |-> "telemetry"]
      BY DEF StartsKnownShell
    <3> QED BY <2>2, <3>1 DEF Rendered
  <2>4. /\ event.kernel /\ event.process /\ event.severity = "critical" /\ event.significant
        /\ event.action.success /\ event.action.status = None
    BY <2>3, ShellEvent
  <2>5. Alarmed(event) /\ ShouldPersist(event)
    BY <2>4 DEF Alarmed, Rules!Concerns, Rules!KernelAnomaly, ShouldPersist
  <2>6. "process.execute" \in InferCapabilities(event)
    BY <2>4 DEF InferCapabilities, CapabilityType, Exercises
  <2>7. Impact(event)
    <3>1. ~Failed(event)
      BY <2>4, ChainAssumption DEF Failed
    <3> QED BY <2>6, <3>1 DEF Impact, HighImpactAction
  <2>8. progress[log[i].id].highest = HighImpact
    <3>1. log[i].id \in App \cup Alias
      <4>1. log[i] \in [event : Event, id : App \cup Alias]
        BY <2>1, ElementOfSeq, LenProperties DEF ChainInv, IdentityInv, LogTyped
      <4> QED BY <4>1
    <3>2. i \in Trail(log[i].id)
      BY <2>1 DEF Trail
    <3>3. ProgressOf(log[i].id).highest = HighImpact
      BY <2>2, <2>7, <3>1, <3>2 DEF ChainInv, Watched
    <3> QED BY <3>3 DEF ProgressOf, NewProgress, Recon, HighImpact
  <2>9. EntityOf(i) \in DOMAIN entities /\ i \in EventsOf(EntityOf(i))
    <3>1. /\ log[i].event.aliases = {} => log[i].id \in App
          /\ log[i].id \in App => log[i].id \in DOMAIN entities /\ log[i].event.aliases = {}
          /\ log[i].id \notin App => log[i].id \in DOMAIN canonical
          /\ \A a \in log[i].event.aliases :
               a \in DOMAIN canonical /\ canonical[a] = canonical[log[i].id]
      BY <2>1 DEF GraphInv, Recorded
    <3>2. CASE log[i].event.aliases = {}
      BY <2>1, <3>1, <3>2 DEF EntityOf, EventsOf, FormerIds
    <3>3. CASE log[i].event.aliases # {}
      <4>1. PICK a \in log[i].event.aliases : EntityOf(i) = canonical[a]
        BY <3>3 DEF EntityOf
      <4>2. a \in DOMAIN canonical /\ canonical[a] = canonical[log[i].id] /\ log[i].id \in DOMAIN canonical
        BY <3>1, <3>3, <4>1
      <4>3. canonical[a] \in DOMAIN entities /\ canonical[a] \notin App
        BY <4>2, CorrelatorAssumption DEF ChainInv, IdentityInv, Inhabited, Anchored
      <4> QED BY <2>1, <4>1, <4>2, <4>3 DEF EventsOf, FormerIds, Group
    <3> QED BY <3>2, <3>3
  <2>10. /\ entities[EntityOf(i)].apps = {log[j].event.app : j \in EventsOf(EntityOf(i))}
         /\ entities[EntityOf(i)].capabilities =
              UNION {InferCapabilities(log[j].event) : j \in EventsOf(EntityOf(i))}
    BY <2>9 DEF GraphInv, Tallied
  <2> QED BY <2>2, <2>5, <2>6, <2>8, <2>9, <2>10
<1> QED BY <1>1, RenderedInvariant, PTL
=============================================================================
