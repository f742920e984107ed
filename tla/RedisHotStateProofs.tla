------------------------ MODULE RedisHotStateProofs ------------------------
(***************************************************************************)
(* Proofs about RedisHotState, for any clients, keys, items, entities,     *)
(* timestamps, window, lifetimes, weights and number of calls and cuts.    *)
(***************************************************************************)
EXTENDS RedisHotState, SequenceTheorems, FiniteSetTheorems, NaturalsInduction,
        WellFoundedInduction, TLAPS

CallRecord ==
  [op : {"hit", "item", "risk"}, name : Name, arg : Timestamp \cup Item \cup Points,
   age : Nat, on : BOOLEAN, renewed : BOOLEAN]

\* A call is on a key of its kind.
Suited(call) ==
  /\ call.op = "hit" => call.name \in Key /\ call.arg \in Timestamp
  /\ call.op = "item" => call.name \in SetKey /\ call.arg \in Item
  /\ call.op = "risk" => call.name \in Entity /\ call.arg \in Points

Typed ==
  /\ windows \in [Key -> SUBSET [ts : Timestamp, id : Nat]]
  /\ items \in [SetKey -> SUBSET Item]
  /\ scores \in [Entity -> Nat]
  /\ ttl \in [Name -> (Nat \ {0}) \cup {Forever}]
  /\ \A n \in Name : ~Exists(n) => ttl[n] = Forever
  /\ cutAt \subseteq Name

CallsTyped ==
  /\ calls \in Seq(CallRecord)
  /\ \A i \in 1..Len(calls) : Suited(calls[i])

\* A client is in a call it began, and adds hits to windows only.
ClientsTyped ==
  /\ doing \in [Client -> Nat]
  /\ next \in [Client -> {"none", "zadd", "expire", "count", "fail"}]
  /\ \A c \in Client : next[c] # "none" => doing[c] \in 1..Len(calls)
  /\ \A c \in Client : doing[c] = Idle => next[c] = "none"
  /\ \A c \in Client : next[c] = "zadd" => Call(c).op = "hit"

\* As long as its own time to live lasts, the key that a call renewed does: it was
\* there then, and what was left of its time has not run out since.
Lasting ==
  \A i \in 1..Len(calls) :
    calls[i].renewed /\ calls[i].age < TtlOf(calls[i].op) =>
      /\ calls[i].on
      /\ \/ ttl[calls[i].name] = Forever
         \/ ttl[calls[i].name] + calls[i].age >= TtlOf(calls[i].op)

\* No call on the key of call i is a window or more later than it.
Newest(i) ==
  \A j \in 1..Len(calls) : calls[j].name = calls[i].name => calls[i].arg > calls[j].arg - Window

\* What a call wrote to a key that has not been deleted since is still in it.
Written ==
  \A i \in 1..Len(calls) : calls[i].on =>
    /\ calls[i].op = "hit" /\ Newest(i) =>
         [ts |-> calls[i].arg, id |-> i] \in windows[calls[i].name]
    /\ calls[i].op = "item" => calls[i].arg \in items[calls[i].name]

On(n) == {i \in Calls : calls[i].name = n /\ calls[i].on}

\* A score is what was added since its key exists.
Added == \A e \in Entity : scores[e] = SumOf(On(e))

IInv == Typed /\ CallsTyped /\ ClientsTyped /\ Lasting /\ Written /\ Added /\ LeakNeedsACut
-----------------------------------------------------------------------------
(* Sums: the recursion is well-founded, and what it computes.              *)

LEMMA LeastExists ==
  ASSUME NEW T, T \subseteq Nat, T # {}
  PROVE  \E m \in T : \A n \in T : m <= n
<1>1. PICK m \in T : \A n \in T : ~(<<n, m>> \in OpToRel(<, Nat))
  BY NatLessThanWellFounded, WFMin
<1>2. \A n \in T : n \in Nat /\ m \in Nat /\ ~(n < m)
  BY <1>1 DEF OpToRel
<1>3. \A n \in T : m <= n
  BY <1>2
<1> QED BY <1>3

\* f has the sums of the first values, up to n of them.
Adds(f, value, n) ==
  f = [i \in 0..n |-> IF i = 0 THEN 0 ELSE f[i - 1] + value[i]]

LEMMA AddsStep ==
  ASSUME NEW f, NEW value, NEW n \in Nat, Adds(f, value, n)
  PROVE  f[0] = 0 /\ \A i \in 1..n : f[i] = f[i - 1] + value[i]
<1>1. \A i \in 0..n : f[i] = IF i = 0 THEN 0 ELSE f[i - 1] + value[i]
  BY Zenon DEF Adds
<1> QED BY <1>1

LEMMA Addable ==
  ASSUME NEW value, NEW n \in Nat
  PROVE  \E f : Adds(f, value, n)
<1> DEFINE Stuck == {m \in Nat : ~\E f : Adds(f, value, m)}
<1>1. SUFFICES ASSUME Stuck # {} PROVE FALSE
  OBVIOUS
<1>2. PICK m \in Stuck : \A k \in Stuck : m <= k
  <2>1. Stuck \subseteq Nat
    OBVIOUS
  <2> HIDE DEF Stuck
  <2> QED BY <1>1, <2>1, LeastExists
<1>3. m # 0
  <2>1. Adds([i \in 0..0 |-> 0], value, 0)
    BY DEF Adds
  <2> QED BY <2>1
<1>4. PICK f : Adds(f, value, m - 1)
  <2>1. m - 1 \in Nat /\ ~(m <= m - 1)
    BY <1>3
  <2> QED BY <1>2, <2>1
<1> DEFINE g == [i \in 0..m |-> IF i = m THEN f[m - 1] + value[m] ELSE f[i]]
<1>5. Adds(g, value, m)
  <2>1. \A i \in 0..(m - 1) : f[i] = IF i = 0 THEN 0 ELSE f[i - 1] + value[i]
    BY <1>4, Zenon DEF Adds
  <2>2. \A i \in 0..(m - 1) : g[i] = f[i]
    BY <1>3
  <2>3. ASSUME NEW i \in 0..m PROVE g[i] = IF i = 0 THEN 0 ELSE g[i - 1] + value[i]
    <3>1. CASE i = m
      <4>1. m - 1 \in 0..(m - 1) /\ m \in 0..m
        BY <1>3
      <4>2. g[m - 1] = f[m - 1] /\ g[m] = f[m - 1] + value[m]
        BY <2>2, <4>1
      <4> QED BY <1>3, <3>1, <4>2
    <3>2. CASE i # m
      <4>1. i \in 0..(m - 1) /\ (i # 0 => i - 1 \in 0..(m - 1))
        BY <1>3, <3>2
      <4>2. g[i] = f[i] /\ (i # 0 => g[i - 1] = f[i - 1])
        BY <2>2, <4>1
      <4> QED BY <2>1, <4>1, <4>2
    <3> QED BY <3>1, <3>2
  <2>4. g = [i \in 0..m |-> g[i]]
    OBVIOUS
  <2> HIDE DEF g
  <2> QED BY <2>3, <2>4, Zenon DEF Adds
<1> QED BY <1>5

LEMMA SumAdds ==
  ASSUME NEW value, NEW n \in Nat
  PROVE  \E f : Adds(f, value, n) /\ Sum(value, n) = f[n]
<1> DEFINE f == CHOOSE f : f = [i \in 0..n |-> IF i = 0 THEN 0 ELSE f[i - 1] + value[i]]
<1>1. Sum(value, n) = f[n]
  BY DEF Sum
<1>2. Adds(f, value, n)
  <2>1. \E h : h = [i \in 0..n |-> IF i = 0 THEN 0 ELSE h[i - 1] + value[i]]
    BY Addable DEF Adds
  <2> QED BY <2>1, Zenon DEF Adds
<1> QED BY <1>1, <1>2

\* Two sums are equal as far as their values are.
LEMMA AddsAgree ==
  ASSUME NEW v, NEW w, NEW n \in Nat, NEW f, NEW g,
         \A i \in 1..n : v[i] = w[i],
         f[0] = 0 /\ \A i \in 1..n : f[i] = f[i - 1] + v[i],
         g[0] = 0 /\ \A i \in 1..n : g[i] = g[i - 1] + w[i]
  PROVE  f[n] = g[n]
<1> DEFINE Apart == {i \in 0..n : f[i] # g[i]}
<1>1. SUFFICES ASSUME Apart # {} PROVE FALSE
  OBVIOUS
<1>2. PICK i \in Apart : \A j \in Apart : i <= j
  <2>1. Apart \subseteq Nat
    OBVIOUS
  <2> HIDE DEF Apart
  <2> QED BY <1>1, <2>1, LeastExists
<1>3. i \in 1..n /\ i - 1 \in 0..n /\ ~(i <= i - 1)
  OBVIOUS
<1>4. f[i - 1] = g[i - 1]
  BY <1>2, <1>3
<1>5. f[i] = g[i]
  BY <1>3, <1>4
<1> QED BY <1>5

LEMMA SumOfNone ==
  ASSUME NEW value
  PROVE  Sum(value, 0) = 0
BY SumAdds, AddsStep

LEMMA SumEqual ==
  ASSUME NEW v, NEW w, NEW n \in Nat, \A i \in 1..n : v[i] = w[i]
  PROVE  Sum(v, n) = Sum(w, n)
<1>1. PICK f : Adds(f, v, n) /\ Sum(v, n) = f[n]
  BY SumAdds
<1>2. PICK g : Adds(g, w, n) /\ Sum(w, n) = g[n]
  BY SumAdds
<1>3. /\ f[0] = 0 /\ \A i \in 1..n : f[i] = f[i - 1] + v[i]
      /\ g[0] = 0 /\ \A i \in 1..n : g[i] = g[i - 1] + w[i]
  BY <1>1, <1>2, AddsStep
<1>4. f[n] = g[n]
  BY <1>3, AddsAgree
<1> QED BY <1>1, <1>2, <1>4

\* One value more.
LEMMA SumNext ==
  ASSUME NEW value, NEW n \in Nat
  PROVE  Sum(value, n + 1) = Sum(value, n) + value[n + 1]
<1>1. PICK f : Adds(f, value, n) /\ Sum(value, n) = f[n]
  BY SumAdds
<1>2. PICK g : Adds(g, value, n + 1) /\ Sum(value, n + 1) = g[n + 1]
  BY SumAdds
<1>3. /\ f[0] = 0 /\ \A i \in 1..n : f[i] = f[i - 1] + value[i]
      /\ g[0] = 0 /\ \A i \in 1..(n + 1) : g[i] = g[i - 1] + value[i]
  BY <1>1, <1>2, AddsStep
<1>4. \A i \in 1..n : g[i] = g[i - 1] + value[i]
  BY <1>3
<1>5. f[n] = g[n]
  BY <1>3, <1>4, AddsAgree
<1>6. n + 1 \in 1..(n + 1) /\ (n + 1) - 1 = n
  OBVIOUS
<1> QED BY <1>1, <1>2, <1>3, <1>5, <1>6

\* The sum of natural numbers is one, and grows with its values.
LEMMA SumGrows ==
  ASSUME NEW v, NEW w, NEW n \in Nat, \A i \in 1..n : v[i] \in Nat /\ w[i] \in Nat /\ v[i] <= w[i]
  PROVE  Sum(v, n) \in Nat /\ Sum(w, n) \in Nat /\ Sum(v, n) <= Sum(w, n)
<1> DEFINE Right(i) == Sum(v, i) \in Nat /\ Sum(w, i) \in Nat /\ Sum(v, i) <= Sum(w, i)
           Wrong == {i \in 0..n : ~Right(i)}
<1>1. SUFFICES ASSUME Wrong # {} PROVE FALSE
  OBVIOUS
<1>2. PICK i \in Wrong : \A j \in Wrong : i <= j
  <2>1. Wrong \subseteq Nat
    OBVIOUS
  <2> HIDE DEF Wrong
  <2> QED BY <1>1, <2>1, LeastExists
<1>3. i # 0
  BY SumOfNone
<1>4. PICK m \in Nat : i = m + 1 /\ m \in 0..n /\ ~(i <= m) /\ i \in 1..n
  <2>1. i - 1 \in Nat /\ i = (i - 1) + 1 /\ i - 1 \in 0..n /\ ~(i <= i - 1) /\ i \in 1..n
    BY <1>3
  <2> QED BY <2>1
<1>5. Right(m)
  BY <1>2, <1>4
<1>6. Sum(v, i) = Sum(v, m) + v[i] /\ Sum(w, i) = Sum(w, m) + w[i]
  BY <1>4, SumNext
<1>7. v[i] \in Nat /\ w[i] \in Nat /\ v[i] <= w[i]
  BY <1>4
<1>8. Right(i)
  <2> HIDE DEF Wrong
  <2> QED BY <1>5, <1>6, <1>7
<1> QED BY <1>8

\* A sum in which each of the first n values is 0.
LEMMA SumOfZeros ==
  ASSUME NEW w, NEW n \in Nat, \A i \in 1..n : w[i] = 0
  PROVE  Sum(w, n) = 0
<1> DEFINE Wrong == {i \in 0..n : Sum(w, i) # 0}
<1>1. SUFFICES ASSUME Wrong # {} PROVE FALSE
  OBVIOUS
<1>2. PICK i \in Wrong : \A j \in Wrong : i <= j
  <2>1. Wrong \subseteq Nat
    OBVIOUS
  <2> HIDE DEF Wrong
  <2> QED BY <1>1, <2>1, LeastExists
<1>3. i # 0
  BY SumOfNone
<1>4. i - 1 \in Nat /\ i = (i - 1) + 1 /\ i - 1 \in 0..n /\ ~(i <= i - 1) /\ i \in 1..n
  BY <1>3
<1>5. Sum(w, i - 1) = 0 /\ w[i] = 0
  BY <1>2, <1>4
<1>6. Sum(w, (i - 1) + 1) = Sum(w, i - 1) + w[(i - 1) + 1]
  BY <1>4, SumNext
<1> QED BY <1>4, <1>5, <1>6

-----------------------------------------------------------------------------
(* The largest of finitely many integers, and of two the smaller.          *)

LEMMA MinOfTwo ==
  ASSUME NEW a \in Int, NEW b \in Int
  PROVE  Min({a, b}) = IF a <= b THEN a ELSE b
BY DEF Min

LEMMA MaxOfSome ==
  ASSUME NEW n \in Nat, NEW J, J \subseteq 1..n, J # {}, NEW f, \A i \in J : f[i] \in Int
  PROVE  /\ \E j \in J : Max({f[i] : i \in J}) = f[j]
         /\ \A j \in J : f[j] <= Max({f[i] : i \in J})
<1> DEFINE Above(k) == {j \in J : f[j] >= f[k]}
           Sizes == {Cardinality(Above(k)) : k \in J}
<1>1. IsFiniteSet(J)
  <2>1. IsFiniteSet(1..n)
    BY FS_Interval
  <2> QED BY <2>1, FS_Subset
<1>2. \A k \in J : IsFiniteSet(Above(k)) /\ Cardinality(Above(k)) \in Nat
  <2> TAKE k \in J
  <2>1. Above(k) \subseteq J
    OBVIOUS
  <2> HIDE DEF Above
  <2> QED BY <1>1, <2>1, FS_Subset, FS_CardinalityType
<1>3. PICK k \in J : \A j \in J : Cardinality(Above(k)) <= Cardinality(Above(j))
  <2>1. Sizes \subseteq Nat /\ Sizes # {}
    BY <1>2
  <2>2. PICK m \in Sizes : \A s \in Sizes : m <= s
    <3> HIDE DEF Sizes
    <3> QED BY <2>1, LeastExists
  <2>3. PICK k \in J : m = Cardinality(Above(k))
    OBVIOUS
  <2>4. \A j \in J : Cardinality(Above(j)) \in Sizes
    OBVIOUS
  <2> HIDE DEF Sizes, Above
  <2> QED BY <2>2, <2>3, <2>4
<1>4. \A j \in J : f[j] <= f[k]
  <2> SUFFICES ASSUME NEW j \in J, f[j] > f[k] PROVE FALSE
    OBVIOUS
  <2>0. f[j] \in Int /\ f[k] \in Int /\ \A x \in J : f[x] \in Int
    OBVIOUS
  <2>1. Above(j) \subseteq Above(k) /\ k \in Above(k) /\ k \notin Above(j)
    <3>1. \A x \in J : f[x] >= f[j] => f[x] >= f[k]
      BY <2>0
    <3>2. f[k] >= f[k] /\ ~(f[k] >= f[j])
      BY <2>0
    <3> QED BY <3>1, <3>2
  <2> HIDE DEF Above
  <2>2. Cardinality(Above(j)) <= Cardinality(Above(k))
        /\ (Cardinality(Above(j)) = Cardinality(Above(k)) => Above(j) = Above(k))
    BY <1>2, <2>1, FS_Subset
  <2>3. Cardinality(Above(k)) <= Cardinality(Above(j))
    BY <1>3
  <2>4. Cardinality(Above(k)) \in Nat /\ Cardinality(Above(j)) \in Nat
    BY <1>2
  <2> QED BY <2>1, <2>2, <2>3, <2>4
<1> DEFINE S == {f[i] : i \in J}
<1>5. f[k] \in S /\ \A y \in S : f[k] >= y
  BY <1>4
<1>6. Max(S) \in S /\ \A y \in S : Max(S) >= y
  <2> HIDE DEF S
  <2> QED BY <1>5 DEF Max
<1> QED BY <1>6

-----------------------------------------------------------------------------
(* Calls and clients.                                                      *)

\* A key is of one kind: so are the calls on it, and they give it one time to live.
LEMMA Kinds ==
  ASSUME CallsTyped, NEW i \in 1..Len(calls)
  PROVE  /\ calls[i] \in CallRecord /\ calls[i].name \in Name
         /\ TtlOf(calls[i].op) \in Nat \ {0} /\ calls[i].age \in Nat
         /\ calls[i].op = "hit" <=> calls[i].name \in Key
         /\ calls[i].op = "item" <=> calls[i].name \in SetKey
         /\ calls[i].op = "risk" <=> calls[i].name \in Entity
<1>1. calls[i] \in CallRecord /\ Suited(calls[i])
  BY ElementOfSeq DEF CallsTyped
<1>2. calls[i].op \in {"hit", "item", "risk"} /\ calls[i].name \in Name /\ calls[i].age \in Nat
  BY <1>1 DEF CallRecord
<1>3. TtlOf(calls[i].op) \in Nat \ {0}
  BY <1>2, RedisAssumption DEF TtlOf
<1> QED BY <1>1, <1>2, <1>3, RedisAssumption DEF Suited

LEMMA OneTtl ==
  ASSUME CallsTyped, NEW i \in 1..Len(calls), NEW j \in 1..Len(calls), calls[i].name = calls[j].name
  PROVE  calls[i].op = calls[j].op
<1>1. calls[i].op \in {"hit", "item", "risk"} /\ calls[j].op \in {"hit", "item", "risk"}
  BY Kinds DEF CallRecord
<1>2. /\ calls[i].op = "hit" <=> calls[i].name \in Key
      /\ calls[i].op = "item" <=> calls[i].name \in SetKey
      /\ calls[j].op = "hit" <=> calls[j].name \in Key
      /\ calls[j].op = "item" <=> calls[j].name \in SetKey
  BY Kinds
<1> QED BY <1>1, <1>2

\* What a call that begins adds to the history.
LEMMA Begins ==
  ASSUME IInv, NEW c \in Client, NEW op \in {"hit", "item", "risk"}, NEW name \in Name,
         NEW arg \in Timestamp \cup Item \cup Points, NEW on \in BOOLEAN,
         Begin(c, op, name, arg, on),
         op = "hit" => name \in Key /\ arg \in Timestamp,
         op = "item" => name \in SetKey /\ arg \in Item,
         op = "risk" => name \in Entity /\ arg \in Points
  PROVE  /\ CallsTyped'
         /\ Len(calls) \in Nat /\ Len(calls') = Len(calls) + 1
         /\ \A i \in 1..Len(calls) : calls'[i] = calls[i]
         /\ calls'[Len(calls) + 1].op = op /\ calls'[Len(calls) + 1].name = name
         /\ calls'[Len(calls) + 1].arg = arg /\ calls'[Len(calls) + 1].on = on
         /\ calls'[Len(calls) + 1].renewed = FALSE
         /\ doing' = [doing EXCEPT ![c] = Len(calls) + 1]
         /\ doing[c] = Idle /\ next[c] = "none"
<1>1. PICK x : x = [op |-> op, name |-> name, arg |-> arg, age |-> 0, on |-> on, renewed |-> FALSE]
  OBVIOUS
<1>2. /\ x.op = op /\ x.name = name /\ x.arg = arg /\ x.on = on /\ x.renewed = FALSE
      /\ x \in CallRecord
  BY <1>1 DEF CallRecord
<1>3. calls' = Append(calls, x) /\ doing' = [doing EXCEPT ![c] = Len(calls) + 1] /\ doing[c] = Idle
  BY <1>1 DEF Begin
<1>4. calls \in Seq(CallRecord) /\ \A i \in 1..Len(calls) : Suited(calls[i])
  BY DEF IInv, CallsTyped
<1>5. /\ calls' \in Seq(CallRecord) /\ Len(calls) \in Nat /\ Len(calls') = Len(calls) + 1
      /\ \A i \in 1..Len(calls) : calls'[i] = calls[i]
      /\ calls'[Len(calls) + 1] = x
  BY <1>2, <1>3, <1>4, AppendProperties, LenProperties
<1>6. Suited(x)
  BY <1>2 DEF Suited
<1>7. \A i \in 1..(Len(calls) + 1) : i \in 1..Len(calls) \/ i = Len(calls) + 1
  BY <1>5
<1>8. CallsTyped'
  BY <1>4, <1>5, <1>6, <1>7 DEF CallsTyped
<1>9. next[c] = "none"
  BY <1>3 DEF IInv, ClientsTyped
<1> QED BY <1>2, <1>3, <1>5, <1>8, <1>9

\* A client moves: the others stay where they are.
LEMMA ClientMoves ==
  ASSUME ClientsTyped, CallsTyped, NEW c \in Client, NEW d \in Nat,
         NEW m \in {"none", "zadd", "expire", "count", "fail"},
         doing' = [doing EXCEPT ![c] = d], next' = [next EXCEPT ![c] = m],
         Len(calls') \in Nat, Len(calls') >= Len(calls),
         \A i \in 1..Len(calls) : calls'[i].op = calls[i].op,
         m # "none" => d \in 1..Len(calls'), d = Idle => m = "none",
         m = "zadd" => calls'[d].op = "hit"
  PROVE  ClientsTyped'
<1>1. Len(calls) \in Nat
  BY LenProperties DEF CallsTyped
<1>2. /\ doing' \in [Client -> Nat]
      /\ next' \in [Client -> {"none", "zadd", "expire", "count", "fail"}]
  BY DEF ClientsTyped
<1>3. ASSUME NEW b \in Client
      PROVE  /\ next'[b] # "none" => doing'[b] \in 1..Len(calls')
             /\ doing'[b] = Idle => next'[b] = "none"
             /\ next'[b] = "zadd" => calls'[doing'[b]].op = "hit"
  <2>1. CASE b = c
    BY <2>1 DEF ClientsTyped
  <2>2. CASE b # c
    <3>1. doing'[b] = doing[b] /\ next'[b] = next[b]
      BY <2>2 DEF ClientsTyped
    <3>2. /\ next[b] # "none" => doing[b] \in 1..Len(calls)
          /\ doing[b] = Idle => next[b] = "none"
          /\ next[b] = "zadd" => calls[doing[b]].op = "hit"
      BY DEF ClientsTyped, Call
    <3>3. 1..Len(calls) \subseteq 1..Len(calls')
      BY <1>1
    <3> QED BY <3>1, <3>2, <3>3
  <2> QED BY <2>1, <2>2
<1> QED BY <1>2, <1>3 DEF ClientsTyped, Call

\* No key is left without expiry by what client c does, if it gives an expiry to the
\* key it was about to give one to.
LEMMA LeakKept ==
  ASSUME LeakNeedsACut, ClientsTyped, CallsTyped, NEW c \in Client, NEW d \in Nat, NEW m,
         doing' = [doing EXCEPT ![c] = d], next' = [next EXCEPT ![c] = m],
         \A i \in 1..Len(calls) : calls'[i].name = calls[i].name,
         cutAt \subseteq cutAt',
         \A n \in Name : Exists(n)' /\ ttl'[n] = Forever =>
           \/ Exists(n) /\ ttl[n] = Forever /\ ~(next[c] = "expire" /\ calls[doing[c]].name = n)
           \/ n \in cutAt'
           \/ m = "expire" /\ calls'[d].name = n
  PROVE  LeakNeedsACut'
<1> SUFFICES ASSUME NEW n \in Name, Exists(n)', ttl'[n] = Forever, n \notin cutAt'
             PROVE  \E b \in Client : next'[b] = "expire" /\ calls'[doing'[b]].name = n
  BY DEF LeakNeedsACut, Call
<1>1. /\ doing'[c] = d /\ next'[c] = m
      /\ \A b \in Client \ {c} : doing'[b] = doing[b] /\ next'[b] = next[b]
  BY DEF ClientsTyped
<1>2. CASE m = "expire" /\ calls'[d].name = n
  BY <1>1, <1>2
<1>3. CASE Exists(n) /\ ttl[n] = Forever /\ ~(next[c] = "expire" /\ calls[doing[c]].name = n)
  <2>1. PICK b \in Client : next[b] = "expire" /\ calls[doing[b]].name = n
    BY <1>3 DEF LeakNeedsACut, Call
  <2>2. b # c /\ doing[b] \in 1..Len(calls)
    BY <1>3, <2>1 DEF ClientsTyped
  <2>3. next'[b] = "expire" /\ calls'[doing'[b]].name = n
    BY <1>1, <2>1, <2>2
  <2> QED BY <2>3
<1> QED BY <1>2, <1>3

-----------------------------------------------------------------------------
(* What the calls that count add up to.                                    *)

LEMMA SumIsCount ==
  ASSUME CallsTyped, NEW e \in Entity
  PROVE  /\ Len(calls) \in Nat /\ Calls = 1..Len(calls)
         /\ SumOf(On(e)) = Sum([i \in 1..Len(calls) |->
                                 IF calls[i].name = e /\ calls[i].on THEN calls[i].arg ELSE 0],
                               Len(calls))
<1>1. Len(calls) \in Nat /\ Calls = 1..Len(calls)
  BY LenProperties DEF CallsTyped, Calls
<1>2. [i \in Calls |-> IF i \in On(e) THEN calls[i].arg ELSE 0]
        = [i \in 1..Len(calls) |-> IF calls[i].name = e /\ calls[i].on THEN calls[i].arg ELSE 0]
  BY <1>1 DEF On
<1> QED BY <1>1, <1>2 DEF SumOf

LEMMA SumRests ==
  ASSUME CallsTyped, CallsTyped', NEW e \in Entity, Len(calls') = Len(calls),
         \A i \in 1..Len(calls) :
           /\ calls'[i].name = calls[i].name /\ calls'[i].arg = calls[i].arg
           /\ calls[i].name = e => calls'[i].on = calls[i].on
  PROVE  SumOf(On(e))' = SumOf(On(e))
<1>1. PICK n \in Nat : n = Len(calls)
  BY SumIsCount
<1>2. PICK v : v = [i \in 1..n |-> IF calls[i].name = e /\ calls[i].on THEN calls[i].arg ELSE 0]
  OBVIOUS
<1>3. PICK w : w = [i \in 1..n |-> IF calls'[i].name = e /\ calls'[i].on THEN calls'[i].arg ELSE 0]
  OBVIOUS
<1>4. SumOf(On(e)) = Sum(v, n)
  BY <1>1, <1>2, SumIsCount
<1>5. (CallsTyped => SumOf(On(e)) = Sum([i \in 1..Len(calls) |->
                                 IF calls[i].name = e /\ calls[i].on THEN calls[i].arg ELSE 0],
                               Len(calls)))'
  BY SumIsCount, PTL
<1>6. SumOf(On(e))' = Sum(w, n)
  BY <1>1, <1>3, <1>5
<1>7. \A i \in 1..n : v[i] = w[i]
  BY <1>1, <1>2, <1>3
<1>8. Sum(v, n) = Sum(w, n)
  BY <1>7, SumEqual
<1> QED BY <1>4, <1>6, <1>8

\* One call more counts with what it adds, if it is on this entity and writes at once.
LEMMA SumGains ==
  ASSUME CallsTyped, CallsTyped', NEW e \in Entity, Len(calls') = Len(calls) + 1,
         \A i \in 1..Len(calls) : calls'[i] = calls[i]
  PROVE  SumOf(On(e))' = SumOf(On(e)) +
           (IF calls'[Len(calls) + 1].name = e /\ calls'[Len(calls) + 1].on
              THEN calls'[Len(calls) + 1].arg ELSE 0)
<1>1. PICK n \in Nat : n = Len(calls)
  BY SumIsCount
<1>2. PICK v : v = [i \in 1..n |-> IF calls[i].name = e /\ calls[i].on THEN calls[i].arg ELSE 0]
  OBVIOUS
<1>3. PICK w : w = [i \in 1..(n + 1) |->
                      IF calls'[i].name = e /\ calls'[i].on THEN calls'[i].arg ELSE 0]
  OBVIOUS
<1>4. SumOf(On(e)) = Sum(v, n)
  BY <1>1, <1>2, SumIsCount
<1>5. (CallsTyped => SumOf(On(e)) = Sum([i \in 1..Len(calls) |->
                                 IF calls[i].name = e /\ calls[i].on THEN calls[i].arg ELSE 0],
                               Len(calls)))'
  BY SumIsCount, PTL
<1>6. SumOf(On(e))' = Sum(w, n + 1)
  BY <1>1, <1>3, <1>5
<1>7. \A i \in 1..n : v[i] = w[i]
  BY <1>1, <1>2, <1>3
<1>8. Sum(v, n) = Sum(w, n)
  BY <1>7, SumEqual
<1>9. Sum(w, n + 1) = Sum(w, n) + w[n + 1]
  BY SumNext
<1>10. w[n + 1] = IF calls'[n + 1].name = e /\ calls'[n + 1].on THEN calls'[n + 1].arg ELSE 0
  BY <1>3
<1> QED BY <1>1, <1>4, <1>6, <1>8, <1>9, <1>10

\* Nothing is added when no call on the entity counts any more.
LEMMA SumGone ==
  ASSUME CallsTyped', NEW e \in Entity,
         \A i \in 1..Len(calls') : calls'[i].name = e => ~calls'[i].on
  PROVE  SumOf(On(e))' = 0
<1>1. (CallsTyped => /\ Len(calls) \in Nat
                     /\ SumOf(On(e)) = Sum([i \in 1..Len(calls) |->
                                 IF calls[i].name = e /\ calls[i].on THEN calls[i].arg ELSE 0],
                               Len(calls)))'
  BY SumIsCount, PTL
<1>2. PICK n \in Nat : n = Len(calls')
  BY <1>1
<1>3. PICK w : w = [i \in 1..n |-> IF calls'[i].name = e /\ calls'[i].on THEN calls'[i].arg ELSE 0]
  OBVIOUS
<1>4. SumOf(On(e))' = Sum(w, n)
  BY <1>1, <1>2, <1>3
<1>5. \A i \in 1..n : w[i] = 0
  BY <1>2, <1>3
<1> QED BY <1>4, <1>5, SumOfZeros

-----------------------------------------------------------------------------
(* The first commands of the calls.                                        *)

\* A call that begins has renewed nothing yet, and gives no key an expiry.
LEMMA LastingGains ==
  ASSUME CallsTyped, Lasting, Len(calls) \in Nat, Len(calls') = Len(calls) + 1,
         \A i \in 1..Len(calls) : calls'[i] = calls[i],
         calls'[Len(calls) + 1].renewed = FALSE,
         \A n \in Name : ttl'[n] = ttl[n] \/ ttl'[n] = Forever
  PROVE  Lasting'
<1> SUFFICES ASSUME NEW i \in 1..(Len(calls) + 1), calls'[i].renewed,
                    calls'[i].age < TtlOf(calls'[i].op)
             PROVE  /\ calls'[i].on
                    /\ \/ ttl'[calls'[i].name] = Forever
                       \/ ttl'[calls'[i].name] + calls'[i].age >= TtlOf(calls'[i].op)
  BY DEF Lasting, TtlOf
<1>1. i \in 1..Len(calls) /\ calls'[i] = calls[i]
  OBVIOUS
<1>2. calls[i].name \in Name
  BY <1>1, Kinds
<1>3. /\ calls[i].on
      /\ \/ ttl[calls[i].name] = Forever
         \/ ttl[calls[i].name] + calls[i].age >= TtlOf(calls[i].op)
  BY <1>1 DEF Lasting
<1> QED BY <1>1, <1>2, <1>3

LEMMA TrimKeeps ==
  ASSUME IInv, NEW c \in Client, NEW k \in Key, NEW ts \in Timestamp, TrimWindow(c, k, ts)
  PROVE  IInv'
<1>1. /\ Begin(c, "hit", k, ts, FALSE) /\ next' = [next EXCEPT ![c] = "zadd"]
      /\ windows' = [windows EXCEPT ![k] = Without(@, ts - Window)]
      /\ ttl' = [ttl EXCEPT ![k] = IF windows'[k] = {} THEN Forever ELSE @]
      /\ UNCHANGED <<items, scores, cutAt, cuts>>
  BY DEF TrimWindow, Then
<1>2. Typed /\ CallsTyped /\ ClientsTyped /\ Lasting /\ Written /\ Added /\ LeakNeedsACut
  BY DEF IInv
<1>3. k \in Name /\ Key \subseteq Name
  BY DEF Name
<1>4. /\ CallsTyped'
      /\ Len(calls) \in Nat /\ Len(calls') = Len(calls) + 1
      /\ \A i \in 1..Len(calls) : calls'[i] = calls[i]
      /\ calls'[Len(calls) + 1].op = "hit" /\ calls'[Len(calls) + 1].name = k
      /\ calls'[Len(calls) + 1].arg = ts /\ calls'[Len(calls) + 1].on = FALSE
      /\ calls'[Len(calls) + 1].renewed = FALSE
      /\ doing' = [doing EXCEPT ![c] = Len(calls) + 1]
      /\ doing[c] = Idle /\ next[c] = "none"
  <2>1. ts \in Timestamp \cup Item \cup Points
    OBVIOUS
  <2> QED BY <1>1, <1>3, <2>1, Begins
<1>5. /\ windows \in [Key -> SUBSET [ts : Timestamp, id : Nat]]
      /\ ttl \in [Name -> (Nat \ {0}) \cup {Forever}]
  BY <1>2 DEF Typed
<1>6. /\ windows'[k] = Without(windows[k], ts - Window) /\ windows'[k] \subseteq windows[k]
      /\ \A q \in Key \ {k} : windows'[q] = windows[q]
      /\ windows' \in [Key -> SUBSET [ts : Timestamp, id : Nat]]
  BY <1>1, <1>5 DEF Without
<1>7. /\ ttl'[k] = IF windows'[k] = {} THEN Forever ELSE ttl[k]
      /\ \A n \in Name \ {k} : ttl'[n] = ttl[n]
      /\ ttl' \in [Name -> (Nat \ {0}) \cup {Forever}]
  BY <1>1, <1>3, <1>5
<1>8. \A n \in Name \ {k} : Exists(n)' <=> Exists(n)
  BY <1>1, <1>6 DEF Exists
<1>9. Typed'
  <2>1. \A n \in Name : ~Exists(n)' => ttl'[n] = Forever
    BY <1>2, <1>7, <1>8 DEF Typed, Exists
  <2> QED BY <1>1, <1>2, <1>6, <1>7, <2>1 DEF Typed
<1>10. ClientsTyped'
  <2>1. \A i \in 1..Len(calls) : calls'[i].op = calls[i].op
    BY <1>4
  <2>2. Len(calls) + 1 \in Nat /\ Len(calls) + 1 \in 1..Len(calls') /\ Len(calls') \in Nat
        /\ Len(calls') >= Len(calls) /\ Len(calls) + 1 # Idle
    BY <1>4 DEF Idle
  <2> QED BY <1>1, <1>2, <1>4, <2>1, <2>2, ClientMoves
<1>11. Lasting'
  <2>1. \A n \in Name : ttl'[n] = ttl[n] \/ ttl'[n] = Forever
    BY <1>7
  <2> QED BY <1>2, <1>4, <2>1, LastingGains
<1>12. Written'
  <2> SUFFICES ASSUME NEW i \in 1..(Len(calls) + 1), calls'[i].on
               PROVE  /\ calls'[i].op = "hit" /\ Newest(i)' =>
                           [ts |-> calls'[i].arg, id |-> i] \in windows'[calls'[i].name]
                      /\ calls'[i].op = "item" => calls'[i].arg \in items'[calls'[i].name]
    BY <1>4 DEF Written
  <2>1. i \in 1..Len(calls) /\ calls'[i] = calls[i]
    BY <1>4
  <2>2. CASE calls[i].op = "hit" /\ Newest(i)'
    <3>1. Newest(i)
      BY <1>4, <2>1, <2>2 DEF Newest
    <3>2. [ts |-> calls[i].arg, id |-> i] \in windows[calls[i].name]
      BY <1>2, <2>1, <2>2, <3>1 DEF Written
    <3>3. calls[i].name \in Key
      BY <1>2, <2>1, <2>2, Kinds
    <3>4. calls[i].name = k => calls[i].arg > ts - Window
      <4>1. Len(calls) + 1 \in 1..Len(calls')
        BY <1>4
      <4> QED BY <1>4, <2>1, <2>2, <4>1 DEF Newest
    <3> QED BY <1>6, <2>1, <2>2, <3>2, <3>3, <3>4 DEF Without
  <2>3. calls[i].op = "item" => calls[i].arg \in items[calls[i].name]
    BY <1>2, <2>1 DEF Written
  <2> QED BY <1>1, <2>1, <2>2, <2>3
<1>13. Added'
  <2> SUFFICES ASSUME NEW e \in Entity PROVE scores'[e] = SumOf(On(e))'
    BY DEF Added
  <2>1. SumOf(On(e))' = SumOf(On(e)) + 0
    BY <1>2, <1>4, SumGains
  <2>2. scores[e] \in Nat /\ scores[e] = SumOf(On(e)) /\ scores' = scores
    BY <1>1, <1>2 DEF Typed, Added
  <2> QED BY <2>1, <2>2
<1>14. LeakNeedsACut'
  <2>1. \A n \in Name : Exists(n)' /\ ttl'[n] = Forever =>
           Exists(n) /\ ttl[n] = Forever /\ ~(next[c] = "expire" /\ calls[doing[c]].name = n)
    <3>1. Exists(k)' => windows'[k] # {} /\ Exists(k)
      BY <1>6 DEF Exists
    <3> QED BY <1>4, <1>7, <1>8, <3>1
  <2>2. Len(calls) + 1 \in Nat /\ \A i \in 1..Len(calls) : calls'[i].name = calls[i].name
    BY <1>4
  <2> QED BY <1>1, <1>2, <1>4, <2>1, <2>2, LeakKept
<1> QED BY <1>4, <1>9, <1>10, <1>11, <1>12, <1>13, <1>14 DEF IInv

\* What stays of the history when only the marks of the calls change.
LEMMA MarksChange ==
  ASSUME CallsTyped, calls' \in [1..Len(calls) -> CallRecord],
         \A i \in 1..Len(calls) : /\ calls'[i].op = calls[i].op /\ calls'[i].name = calls[i].name
                                  /\ calls'[i].arg = calls[i].arg
  PROVE  CallsTyped' /\ Len(calls) \in Nat /\ Len(calls') = Len(calls)
<1>1. PICK n \in Nat : n = Len(calls)
  BY LenProperties DEF CallsTyped
<1>2. calls' \in Seq(CallRecord) /\ Len(calls') = n
  BY <1>1
<1>3. \A i \in 1..n : Suited(calls'[i])
  BY <1>1 DEF CallsTyped, Suited
<1> QED BY <1>1, <1>2, <1>3 DEF CallsTyped

\* One call of the history is marked.
LEMMA OneMark ==
  ASSUME CallsTyped, NEW d \in 1..Len(calls), NEW x \in CallRecord,
         x.op = calls[d].op, x.name = calls[d].name, x.arg = calls[d].arg,
         calls' = [calls EXCEPT ![d] = x]
  PROVE  /\ CallsTyped' /\ Len(calls) \in Nat /\ Len(calls') = Len(calls)
         /\ calls'[d] = x /\ \A i \in 1..Len(calls) : i # d => calls'[i] = calls[i]
         /\ \A i \in 1..Len(calls) : /\ calls'[i].op = calls[i].op /\ calls'[i].name = calls[i].name
                                     /\ calls'[i].arg = calls[i].arg
<1>1. PICK n \in Nat : n = Len(calls) /\ DOMAIN calls = 1..n
  BY LenProperties DEF CallsTyped
<1>2. calls \in [1..n -> CallRecord]
  BY <1>1, SeqDef DEF CallsTyped
<1>3. /\ calls' \in [1..n -> CallRecord] /\ calls'[d] = x
      /\ \A i \in 1..n : i # d => calls'[i] = calls[i]
  BY <1>1, <1>2
<1>4. \A i \in 1..n : /\ calls'[i].op = calls[i].op /\ calls'[i].name = calls[i].name
                      /\ calls'[i].arg = calls[i].arg
  BY <1>3
<1> QED BY <1>1, <1>3, <1>4, MarksChange

LEMMA AddHitKeeps ==
  ASSUME IInv, NEW c \in Client, AddHit(c)
  PROVE  IInv'
<1>1. Typed /\ CallsTyped /\ ClientsTyped /\ Lasting /\ Written /\ Added /\ LeakNeedsACut
  BY DEF IInv
<1>2. PICK d : d = doing[c] /\ d \in 1..Len(calls) /\ d \in Nat /\ next[c] = "zadd"
               /\ calls[d].op = "hit"
  BY <1>1 DEF AddHit, ClientsTyped, Call
<1>3. PICK k \in Key : k = calls[d].name /\ calls[d].arg \in Timestamp /\ calls[d] \in CallRecord
  BY <1>1, <1>2, ElementOfSeq DEF CallsTyped, Suited
<1>4. PICK x : x = [calls[d] EXCEPT !.on = TRUE]
  OBVIOUS
<1>5. PICK h : h = [ts |-> calls[d].arg, id |-> d]
  OBVIOUS
<1>6. /\ next' = [next EXCEPT ![c] = "expire"] /\ calls' = [calls EXCEPT ![d] = x]
      /\ windows' = [windows EXCEPT ![k] = @ \cup {h}]
      /\ UNCHANGED <<items, scores, ttl, doing, cutAt, cuts>>
  BY <1>2, <1>3, <1>4, <1>5 DEF AddHit, Then, Call
<1>7. /\ x \in CallRecord /\ x.op = calls[d].op /\ x.name = calls[d].name /\ x.arg = calls[d].arg
      /\ x.age = calls[d].age /\ x.renewed = calls[d].renewed /\ x.on
  BY <1>3, <1>4 DEF CallRecord
<1>8. /\ CallsTyped' /\ Len(calls) \in Nat /\ Len(calls') = Len(calls)
      /\ calls'[d] = x /\ \A i \in 1..Len(calls) : i # d => calls'[i] = calls[i]
      /\ \A i \in 1..Len(calls) : /\ calls'[i].op = calls[i].op /\ calls'[i].name = calls[i].name
                                  /\ calls'[i].arg = calls[i].arg
  BY <1>1, <1>2, <1>6, <1>7, OneMark
<1>9. /\ windows'[k] = windows[k] \cup {h}
      /\ \A q \in Key \ {k} : windows'[q] = windows[q]
      /\ windows' \in [Key -> SUBSET [ts : Timestamp, id : Nat]]
  <2>1. h \in [ts : Timestamp, id : Nat] /\ windows \in [Key -> SUBSET [ts : Timestamp, id : Nat]]
    BY <1>1, <1>2, <1>3, <1>5 DEF Typed
  <2> QED BY <1>6, <2>1
<1>10. \A n \in Name : (Exists(n) => Exists(n)') /\ (n # k => (Exists(n)' <=> Exists(n)))
  BY <1>6, <1>9 DEF Exists
<1>11. Typed'
  BY <1>1, <1>6, <1>9, <1>10 DEF Typed
<1>12. ClientsTyped'
  <2>1. doing' = [doing EXCEPT ![c] = d]
    BY <1>1, <1>2, <1>6 DEF ClientsTyped
  <2>2. d # Idle /\ d \in 1..Len(calls') /\ Len(calls') \in Nat /\ Len(calls') >= Len(calls)
    BY <1>2, <1>8 DEF Idle
  <2>3. \A i \in 1..Len(calls) : calls'[i].op = calls[i].op
    BY <1>8
  <2> QED BY <1>1, <1>2, <1>6, <1>8, <2>1, <2>2, <2>3, ClientMoves
<1>13. Lasting'
  <2> SUFFICES ASSUME NEW i \in 1..Len(calls), calls'[i].renewed,
                      calls'[i].age < TtlOf(calls'[i].op)
               PROVE  /\ calls'[i].on
                      /\ \/ ttl'[calls'[i].name] = Forever
                         \/ ttl'[calls'[i].name] + calls'[i].age >= TtlOf(calls'[i].op)
    BY <1>8 DEF Lasting, TtlOf
  <2>1. calls[i].renewed /\ calls'[i].age = calls[i].age /\ calls'[i].op = calls[i].op
        /\ calls'[i].name = calls[i].name /\ (calls[i].on => calls'[i].on)
    BY <1>7, <1>8
  <2> QED BY <1>1, <1>6, <2>1 DEF Lasting
<1>14. Written'
  <2> SUFFICES ASSUME NEW i \in 1..Len(calls), calls'[i].on
               PROVE  /\ calls'[i].op = "hit" /\ Newest(i)' =>
                           [ts |-> calls'[i].arg, id |-> i] \in windows'[calls'[i].name]
                      /\ calls'[i].op = "item" => calls'[i].arg \in items'[calls'[i].name]
    BY <1>8 DEF Written
  <2>1. Newest(i)' => Newest(i)
    BY <1>8 DEF Newest
  <2>2. CASE i = d
    BY <1>2, <1>3, <1>5, <1>8, <1>9, <2>2
  <2>3. CASE i # d
    <3>1. calls'[i] = calls[i]
      BY <1>8, <2>3
    <3>2. /\ calls[i].op = "hit" /\ Newest(i) =>
              [ts |-> calls[i].arg, id |-> i] \in windows[calls[i].name]
          /\ calls[i].op = "item" => calls[i].arg \in items[calls[i].name]
      BY <1>1, <3>1 DEF Written
    <3>3. calls[i].op = "hit" => calls[i].name \in Key
      BY <1>1, Kinds
    <3> QED BY <1>6, <1>9, <2>1, <3>1, <3>2, <3>3
  <2> QED BY <2>2, <2>3
<1>15. Added'
  <2> SUFFICES ASSUME NEW e \in Entity PROVE scores'[e] = SumOf(On(e))'
    BY DEF Added
  <2>1. calls[d].name # e
    BY <1>3, RedisAssumption
  <2>2. \A i \in 1..Len(calls) : calls[i].name = e => calls'[i].on = calls[i].on
    BY <1>8, <2>1
  <2>3. SumOf(On(e))' = SumOf(On(e))
    BY <1>1, <1>8, <2>2, SumRests
  <2> QED BY <1>1, <1>6, <2>3 DEF Added
<1>16. LeakNeedsACut'
  <2>1. doing' = [doing EXCEPT ![c] = d]
    BY <1>1, <1>2, <1>6 DEF ClientsTyped
  <2>2. \A n \in Name : Exists(n)' /\ ttl'[n] = Forever =>
          \/ Exists(n) /\ ttl[n] = Forever /\ ~(next[c] = "expire" /\ calls[doing[c]].name = n)
          \/ calls'[d].name = n
    BY <1>2, <1>3, <1>6, <1>8, <1>10
  <2> QED BY <1>1, <1>2, <1>6, <1>8, <2>1, <2>2, LeakKept
<1> QED BY <1>8, <1>11, <1>12, <1>13, <1>14, <1>15, <1>16 DEF IInv

LEMMA AddItemKeeps ==
  ASSUME IInv, NEW c \in Client, NEW s \in SetKey, NEW item \in Item, AddItem(c, s, item)
  PROVE  IInv'
<1>1. /\ Begin(c, "item", s, item, TRUE) /\ next' = [next EXCEPT ![c] = "expire"]
      /\ items' = [items EXCEPT ![s] = @ \cup {item}]
      /\ UNCHANGED <<windows, scores, ttl, cutAt, cuts>>
  BY DEF AddItem, Then
<1>2. Typed /\ CallsTyped /\ ClientsTyped /\ Lasting /\ Written /\ Added /\ LeakNeedsACut
  BY DEF IInv
<1>3. s \in Name
  BY DEF Name
<1>4. /\ CallsTyped'
      /\ Len(calls) \in Nat /\ Len(calls') = Len(calls) + 1
      /\ \A i \in 1..Len(calls) : calls'[i] = calls[i]
      /\ calls'[Len(calls) + 1].op = "item" /\ calls'[Len(calls) + 1].name = s
      /\ calls'[Len(calls) + 1].arg = item
      /\ calls'[Len(calls) + 1].renewed = FALSE
      /\ doing' = [doing EXCEPT ![c] = Len(calls) + 1]
      /\ doing[c] = Idle /\ next[c] = "none"
  <2>1. item \in Timestamp \cup Item \cup Points
    OBVIOUS
  <2> QED BY ZenonT(30), <1>1, <1>3, <2>1, Begins
<1>5. /\ items'[s] = items[s] \cup {item}
      /\ \A q \in SetKey \ {s} : items'[q] = items[q]
      /\ items' \in [SetKey -> SUBSET Item]
  BY <1>1, <1>2 DEF Typed
<1>6. \A n \in Name : (Exists(n) => Exists(n)') /\ (n # s => (Exists(n)' <=> Exists(n)))
  BY <1>1, <1>5 DEF Exists
<1>7. Typed'
  BY <1>1, <1>2, <1>5, <1>6 DEF Typed
<1>8. ClientsTyped'
  <2>1. \A i \in 1..Len(calls) : calls'[i].op = calls[i].op
    BY <1>4
  <2>2. Len(calls) + 1 \in Nat /\ Len(calls) + 1 \in 1..Len(calls') /\ Len(calls') \in Nat
        /\ Len(calls') >= Len(calls) /\ Len(calls) + 1 # Idle
    BY <1>4 DEF Idle
  <2> QED BY <1>1, <1>2, <1>4, <2>1, <2>2, ClientMoves
<1>9. Lasting'
  BY <1>1, <1>2, <1>4, LastingGains
<1>10. Written'
  <2> SUFFICES ASSUME NEW i \in 1..(Len(calls) + 1), calls'[i].on
               PROVE  /\ calls'[i].op = "hit" /\ Newest(i)' =>
                           [ts |-> calls'[i].arg, id |-> i] \in windows'[calls'[i].name]
                      /\ calls'[i].op = "item" => calls'[i].arg \in items'[calls'[i].name]
    BY <1>4 DEF Written
  <2>1. CASE i = Len(calls) + 1
    BY <1>4, <1>5, <2>1
  <2>2. CASE i # Len(calls) + 1
    <3>1. i \in 1..Len(calls) /\ calls'[i] = calls[i]
      BY <1>4, <2>2
    <3>2. Newest(i)' => Newest(i)
      BY <1>4, <3>1 DEF Newest
    <3>3. /\ calls[i].op = "hit" /\ Newest(i) =>
              [ts |-> calls[i].arg, id |-> i] \in windows[calls[i].name]
          /\ calls[i].op = "item" => calls[i].arg \in items[calls[i].name]
      BY <1>2, <3>1 DEF Written
    <3>4. calls[i].op = "item" => calls[i].name \in SetKey
      BY <1>2, <3>1, Kinds
    <3> QED BY <1>1, <1>5, <3>1, <3>2, <3>3, <3>4
  <2> QED BY <2>1, <2>2
<1>11. Added'
  <2> SUFFICES ASSUME NEW e \in Entity PROVE scores'[e] = SumOf(On(e))'
    BY DEF Added
  <2>1. s # e
    BY RedisAssumption
  <2>2. SumOf(On(e))' = SumOf(On(e)) + 0
    BY <1>2, <1>4, <2>1, SumGains
  <2>3. scores[e] \in Nat /\ scores[e] = SumOf(On(e)) /\ scores' = scores
    BY <1>1, <1>2 DEF Typed, Added
  <2> QED BY <2>2, <2>3
<1>12. LeakNeedsACut'
  <2>1. \A n \in Name : Exists(n)' /\ ttl'[n] = Forever =>
          \/ Exists(n) /\ ttl[n] = Forever /\ ~(next[c] = "expire" /\ calls[doing[c]].name = n)
          \/ calls'[Len(calls) + 1].name = n
    BY <1>1, <1>4, <1>6
  <2>2. Len(calls) + 1 \in Nat /\ \A i \in 1..Len(calls) : calls'[i].name = calls[i].name
    BY <1>4
  <2> QED BY <1>1, <1>2, <1>4, <2>1, <2>2, LeakKept
<1> QED BY <1>4, <1>7, <1>8, <1>9, <1>10, <1>11, <1>12 DEF IInv

LEMMA IncrRiskKeeps ==
  ASSUME IInv, NEW c \in Client, NEW e \in Entity, NEW p \in Points, IncrRisk(c, e, p)
  PROVE  IInv'
<1>1. PICK m : m = IF scores[e] + p > MaxScore THEN "fail" ELSE "expire"
  OBVIOUS
<1>2. /\ Begin(c, "risk", e, p, TRUE) /\ next' = [next EXCEPT ![c] = m]
      /\ scores' = [scores EXCEPT ![e] = @ + p]
      /\ UNCHANGED <<windows, items, ttl, cutAt, cuts>>
  BY <1>1 DEF IncrRisk, Then
<1>3. Typed /\ CallsTyped /\ ClientsTyped /\ Lasting /\ Written /\ Added /\ LeakNeedsACut
  BY DEF IInv
<1>4. e \in Name /\ p \in Nat /\ p > 0 /\ p <= MaxScore /\ MaxScore \in Nat
  BY RedisAssumption DEF Name
<1>5. /\ CallsTyped'
      /\ Len(calls) \in Nat /\ Len(calls') = Len(calls) + 1
      /\ \A i \in 1..Len(calls) : calls'[i] = calls[i]
      /\ calls'[Len(calls) + 1].op = "risk" /\ calls'[Len(calls) + 1].name = e
      /\ calls'[Len(calls) + 1].arg = p /\ calls'[Len(calls) + 1].on = TRUE
      /\ calls'[Len(calls) + 1].renewed = FALSE
      /\ doing' = [doing EXCEPT ![c] = Len(calls) + 1]
      /\ doing[c] = Idle /\ next[c] = "none"
  <2>1. p \in Timestamp \cup Item \cup Points
    OBVIOUS
  <2> QED BY <1>2, <1>4, <2>1, Begins
<1>6. /\ scores[e] \in Nat /\ scores'[e] = scores[e] + p
      /\ \A f \in Entity \ {e} : scores'[f] = scores[f]
      /\ scores' \in [Entity -> Nat]
  BY <1>2, <1>3, <1>4 DEF Typed
<1>7. \A n \in Name : (Exists(n) => Exists(n)') /\ (n # e => (Exists(n)' <=> Exists(n)))
  <2>1. Exists(e) <=> scores[e] > 0
    BY RedisAssumption DEF Exists
  <2>2. Exists(e)' <=> scores'[e] > 0
    BY RedisAssumption DEF Exists
  <2>3. Exists(e) => Exists(e)'
    BY <1>4, <1>6, <2>1, <2>2
  <2>4. \A n \in Name \ {e} : Exists(n)' <=> Exists(n)
    BY <1>2, <1>6 DEF Exists, Name
  <2> QED BY <2>3, <2>4
<1>8. Typed'
  BY <1>2, <1>3, <1>6, <1>7 DEF Typed
<1>9. ClientsTyped'
  <2>1. \A i \in 1..Len(calls) : calls'[i].op = calls[i].op
    BY <1>5
  <2>2. Len(calls) + 1 \in Nat /\ Len(calls) + 1 \in 1..Len(calls') /\ Len(calls') \in Nat
        /\ Len(calls') >= Len(calls) /\ Len(calls) + 1 # Idle
    BY <1>5 DEF Idle
  <2>3. m \in {"none", "zadd", "expire", "count", "fail"} /\ m # "zadd"
    BY <1>1
  <2> QED BY <1>2, <1>3, <1>5, <2>1, <2>2, <2>3, ClientMoves
<1>10. Lasting'
  BY <1>2, <1>3, <1>5, LastingGains
<1>11. Written'
  <2> SUFFICES ASSUME NEW i \in 1..(Len(calls) + 1), calls'[i].on
               PROVE  /\ calls'[i].op = "hit" /\ Newest(i)' =>
                           [ts |-> calls'[i].arg, id |-> i] \in windows'[calls'[i].name]
                      /\ calls'[i].op = "item" => calls'[i].arg \in items'[calls'[i].name]
    BY <1>5 DEF Written
  <2>1. CASE i = Len(calls) + 1
    BY <1>5, <2>1
  <2>2. CASE i # Len(calls) + 1
    <3>1. i \in 1..Len(calls) /\ calls'[i] = calls[i]
      BY <1>5, <2>2
    <3>2. Newest(i)' => Newest(i)
      BY <1>5, <3>1 DEF Newest
    <3>3. /\ calls[i].op = "hit" /\ Newest(i) =>
              [ts |-> calls[i].arg, id |-> i] \in windows[calls[i].name]
          /\ calls[i].op = "item" => calls[i].arg \in items[calls[i].name]
      BY <1>3, <3>1 DEF Written
    <3> QED BY <1>2, <3>1, <3>2, <3>3
  <2> QED BY <2>1, <2>2
<1>12. Added'
  <2> SUFFICES ASSUME NEW f \in Entity PROVE scores'[f] = SumOf(On(f))'
    BY DEF Added
  <2>1. SumOf(On(f))' = SumOf(On(f)) + (IF e = f THEN p ELSE 0)
    BY <1>3, <1>5, SumGains
  <2>2. scores[f] \in Nat /\ scores[f] = SumOf(On(f))
    BY <1>3 DEF Typed, Added
  <2> QED BY <1>6, <2>1, <2>2
<1>13. LeakNeedsACut'
  <2>1. m # "expire" => Exists(e)
    <3>1. m # "expire" => scores[e] > 0
      BY <1>1, <1>4, <1>6
    <3> QED BY <3>1, RedisAssumption DEF Exists
  <2>2. \A n \in Name : Exists(n)' /\ ttl'[n] = Forever =>
          \/ Exists(n) /\ ttl[n] = Forever /\ ~(next[c] = "expire" /\ calls[doing[c]].name = n)
          \/ m = "expire" /\ calls'[Len(calls) + 1].name = n
    BY <1>2, <1>5, <1>7, <2>1
  <2>3. Len(calls) + 1 \in Nat /\ \A i \in 1..Len(calls) : calls'[i].name = calls[i].name
    BY <1>5
  <2>4. CASE m = "expire"
    <3>1. \A n \in Name : Exists(n)' /\ ttl'[n] = Forever =>
            \/ Exists(n) /\ ttl[n] = Forever /\ ~(next[c] = "expire" /\ calls[doing[c]].name = n)
            \/ calls'[Len(calls) + 1].name = n
      BY <2>2
    <3>2. next' = [next EXCEPT ![c] = "expire"]
      BY <1>2, <2>4
    <3> QED BY <1>2, <1>3, <1>5, <2>3, <3>1, <3>2, LeakKept
  <2>5. CASE m = "fail"
    <3>1. \A n \in Name : Exists(n)' /\ ttl'[n] = Forever =>
            Exists(n) /\ ttl[n] = Forever /\ ~(next[c] = "expire" /\ calls[doing[c]].name = n)
      BY <2>2, <2>5
    <3> QED BY <1>2, <1>3, <1>5, <2>3, <2>5, <3>1, LeakKept
  <2> QED BY <1>1, <2>4, <2>5
<1> QED BY <1>5, <1>8, <1>9, <1>10, <1>11, <1>12, <1>13 DEF IInv

-----------------------------------------------------------------------------
(* The commands that follow.                                               *)

\* An expiry is given to a key that exists: every call on the key gives it the same.
LEMMA RenewKeeps ==
  ASSUME IInv, NEW c \in Client, Renew(c)
  PROVE  IInv'
<1>1. Typed /\ CallsTyped /\ ClientsTyped /\ Lasting /\ Written /\ Added /\ LeakNeedsACut
  BY DEF IInv
<1>2. PICK d \in Nat : d = doing[c] /\ d \in 1..Len(calls) /\ next[c] = "expire"
  BY <1>1 DEF Renew, ClientsTyped
<1>3. /\ calls[d] \in CallRecord /\ calls[d].name \in Name
      /\ TtlOf(calls[d].op) \in Nat \ {0} /\ calls[d].age \in Nat
      /\ calls[d].op \in {"hit", "item", "risk"} /\ calls[d].on \in BOOLEAN
  BY <1>1, <1>2, Kinds DEF CallRecord
<1>4. PICK k \in Name : k = calls[d].name
  BY <1>3
<1>5. PICK x : x = [calls[d] EXCEPT !.renewed = calls[d].on]
  OBVIOUS
<1>6. /\ calls' = [calls EXCEPT ![d] = x]
      /\ ttl' = [ttl EXCEPT ![k] = IF Exists(k) THEN TtlOf(calls[d].op) ELSE @]
      /\ UNCHANGED <<windows, items, scores, cutAt, cuts>>
  BY <1>2, <1>4, <1>5 DEF Renew, Call
<1>7. /\ x \in CallRecord /\ x.op = calls[d].op /\ x.name = calls[d].name /\ x.arg = calls[d].arg
      /\ x.age = calls[d].age /\ (x.renewed <=> calls[d].on) /\ (x.on <=> calls[d].on)
  <2>1. x.on = calls[d].on /\ x.renewed = calls[d].on
    BY <1>3, <1>5 DEF CallRecord
  <2>2. x \in CallRecord /\ x.op = calls[d].op /\ x.name = calls[d].name
        /\ x.arg = calls[d].arg /\ x.age = calls[d].age
    BY <1>3, <1>5 DEF CallRecord
  <2> QED BY <2>1, <2>2
<1>8. /\ CallsTyped' /\ Len(calls) \in Nat /\ Len(calls') = Len(calls)
      /\ calls'[d] = x /\ \A i \in 1..Len(calls) : i # d => calls'[i] = calls[i]
      /\ \A i \in 1..Len(calls) : /\ calls'[i].op = calls[i].op /\ calls'[i].name = calls[i].name
                                  /\ calls'[i].arg = calls[i].arg
  BY <1>1, <1>2, <1>6, <1>7, OneMark
<1>9. \A i \in 1..Len(calls) : (calls'[i].on <=> calls[i].on) /\ calls'[i].age = calls[i].age
  BY <1>7, <1>8
<1>10. \A n \in Name : Exists(n)' <=> Exists(n)
  BY <1>6 DEF Exists
<1>11. /\ ttl \in [Name -> (Nat \ {0}) \cup {Forever}]
       /\ \A n \in Name : ~Exists(n) => ttl[n] = Forever
  BY <1>1 DEF Typed
<1>12. /\ ttl'[k] = IF Exists(k) THEN TtlOf(calls[d].op) ELSE Forever
       /\ \A n \in Name \ {k} : ttl'[n] = ttl[n]
       /\ ttl' \in [Name -> (Nat \ {0}) \cup {Forever}]
  BY <1>3, <1>6, <1>11
<1>13. Typed'
  <2>1. \A n \in Name : ~Exists(n)' => ttl'[n] = Forever
    BY <1>10, <1>11, <1>12
  <2> QED BY <1>1, <1>6, <1>12, <2>1 DEF Typed
<1>14. PICK m \in {"none", "count"}, b \in Nat :
         /\ doing' = [doing EXCEPT ![c] = b] /\ next' = [next EXCEPT ![c] = m]
         /\ m # "none" => b = d
  <2>1. CASE calls[d].op = "risk"
    BY <1>2, <2>1 DEF Renew, Return, Then, Call, Idle
  <2>2. CASE calls[d].op # "risk"
    <3>1. doing' = [doing EXCEPT ![c] = d]
      BY <1>1, <1>2, <2>2 DEF Renew, Call, ClientsTyped
    <3> QED BY <1>2, <2>2, <3>1 DEF Renew, Then, Call
  <2> QED BY <2>1, <2>2
<1>15. ClientsTyped'
  <2>1. Len(calls') \in Nat /\ Len(calls') >= Len(calls)
        /\ \A i \in 1..Len(calls) : calls'[i].op = calls[i].op
    BY <1>8
  <2>2. m \in {"none", "zadd", "expire", "count", "fail"} /\ m # "zadd"
        /\ (m # "none" => b \in 1..Len(calls')) /\ (b = Idle => m = "none")
    BY <1>2, <1>8, <1>14 DEF Idle
  <2> QED BY <1>1, <1>14, <2>1, <2>2, ClientMoves
<1>16. Lasting'
  <2> SUFFICES ASSUME NEW i \in 1..Len(calls), calls'[i].renewed,
                      calls'[i].age < TtlOf(calls'[i].op)
               PROVE  /\ calls'[i].on
                      /\ \/ ttl'[calls'[i].name] = Forever
                         \/ ttl'[calls'[i].name] + calls'[i].age >= TtlOf(calls'[i].op)
    BY <1>8 DEF Lasting, TtlOf
  <2>1. /\ calls'[i].op = calls[i].op /\ calls'[i].name = calls[i].name
        /\ calls'[i].age = calls[i].age /\ calls[i].age \in Nat /\ calls[i].name \in Name
        /\ TtlOf(calls[i].op) \in Nat
    BY <1>1, <1>8, <1>9, Kinds
  <2>2. calls'[i].on
    <3>1. CASE i = d
      BY <1>7, <1>8, <3>1
    <3>2. CASE i # d
      BY <1>1, <1>8, <2>1, <3>2 DEF Lasting
    <3> QED BY <3>1, <3>2
  <2>3. CASE calls[i].name = k
    <3>1. calls[i].op = calls[d].op
      BY <1>1, <1>2, <1>4, <2>3, OneTtl
    <3> QED BY <1>12, <2>1, <2>2, <2>3, <3>1
  <2>4. CASE calls[i].name # k
    <3>1. calls'[i] = calls[i]
      BY <1>4, <1>8, <2>4
    <3>2. \/ ttl[calls[i].name] = Forever
          \/ ttl[calls[i].name] + calls[i].age >= TtlOf(calls[i].op)
      BY <1>1, <3>1 DEF Lasting
    <3> QED BY <1>12, <2>1, <2>2, <2>4, <3>2
  <2> QED BY <2>3, <2>4
<1>17. Written'
  <2> SUFFICES ASSUME NEW i \in 1..Len(calls), calls'[i].on
               PROVE  /\ calls'[i].op = "hit" /\ Newest(i)' =>
                           [ts |-> calls'[i].arg, id |-> i] \in windows'[calls'[i].name]
                      /\ calls'[i].op = "item" => calls'[i].arg \in items'[calls'[i].name]
    BY <1>8 DEF Written
  <2>1. Newest(i)' => Newest(i)
    BY <1>8 DEF Newest
  <2>2. calls[i].on
    BY <1>9
  <2> QED BY <1>1, <1>6, <1>8, <2>1, <2>2 DEF Written
<1>18. Added'
  <2> SUFFICES ASSUME NEW e \in Entity PROVE scores'[e] = SumOf(On(e))'
    BY DEF Added
  <2>1. \A i \in 1..Len(calls) : calls'[i].on = calls[i].on
    <3>1. \A i \in 1..Len(calls) : calls[i].on \in BOOLEAN
      BY <1>1, Kinds DEF CallRecord
    <3>2. x.on = calls[d].on
      BY <1>3, <1>5 DEF CallRecord
    <3> QED BY <1>8, <3>2
  <2>2. SumOf(On(e))' = SumOf(On(e))
    BY <1>1, <1>8, <2>1, SumRests
  <2> QED BY <1>1, <1>6, <2>2 DEF Added
<1>19. LeakNeedsACut'
  <2>1. \A n \in Name : Exists(n)' /\ ttl'[n] = Forever =>
          Exists(n) /\ ttl[n] = Forever /\ ~(next[c] = "expire" /\ calls[doing[c]].name = n)
    <3>1. TtlOf(calls[d].op) # Forever
      BY <1>3, RedisAssumption
    <3> QED BY <1>2, <1>4, <1>10, <1>12, <3>1
  <2>2. \A i \in 1..Len(calls) : calls'[i].name = calls[i].name
    BY <1>8
  <2> QED BY <1>1, <1>6, <1>14, <2>1, <2>2, LeakKept
<1> QED BY <1>8, <1>13, <1>15, <1>16, <1>17, <1>18, <1>19 DEF IInv

\* A call that ends, in whichever way, leaves the store alone.
LEMMA ReturnKeeps ==
  ASSUME IInv, NEW c \in Client, Return(c), UNCHANGED <<store, calls>>,
         \/ next[c] # "expire" /\ cutAt' = cutAt
         \/ next[c] # "none" /\ cutAt' = cutAt \cup {Call(c).name}
  PROVE  IInv'
<1>1. Typed /\ CallsTyped /\ ClientsTyped /\ Lasting /\ Written /\ Added /\ LeakNeedsACut
  BY DEF IInv
<1>2. /\ UNCHANGED <<windows, items, scores, ttl, calls>>
      /\ doing' = [doing EXCEPT ![c] = Idle] /\ next' = [next EXCEPT ![c] = "none"]
  BY DEF store, Return, Then
<1>3. \A n \in Name : Exists(n)' <=> Exists(n)
  BY <1>2 DEF Exists
<1>4. cutAt \subseteq cutAt' /\ cutAt' \subseteq Name
  <2>1. next[c] # "none" => Call(c).name \in Name
    BY <1>1, Kinds DEF ClientsTyped, Call
  <2> QED BY <1>1, <2>1 DEF Typed
<1>5. Typed'
  BY <1>1, <1>2, <1>3, <1>4 DEF Typed
<1>6. CallsTyped'
  BY <1>1, <1>2 DEF CallsTyped, Suited
<1>7. Len(calls) \in Nat
  BY <1>1, LenProperties DEF CallsTyped
<1>8. ClientsTyped'
  <2>1. Idle \in Nat /\ Len(calls') \in Nat /\ Len(calls') >= Len(calls)
    BY <1>2, <1>7 DEF Idle
  <2> QED BY <1>1, <1>2, <2>1, ClientMoves
<1>9. Lasting'
  BY <1>1, <1>2 DEF Lasting, TtlOf
<1>10. Written'
  BY <1>1, <1>2 DEF Written, Newest
<1>11. Added'
  <2>1. \A e \in Entity : SumOf(On(e))' = SumOf(On(e))
    BY <1>1, <1>2, <1>6, SumRests
  <2> QED BY <1>1, <1>2, <2>1 DEF Added
<1>12. LeakNeedsACut'
  <2>1. \A n \in Name : Exists(n)' /\ ttl'[n] = Forever =>
          \/ Exists(n) /\ ttl[n] = Forever /\ ~(next[c] = "expire" /\ calls[doing[c]].name = n)
          \/ n \in cutAt'
    BY <1>2, <1>3 DEF Call
  <2>2. Idle \in Nat
    BY DEF Idle
  <2> QED BY <1>1, <1>2, <1>4, <2>1, <2>2, LeakKept
<1> QED BY <1>5, <1>6, <1>8, <1>9, <1>10, <1>11, <1>12 DEF IInv

-----------------------------------------------------------------------------
(* Keys that go.                                                           *)

\* Keys are deleted: what was written to them is no longer on, and the rest stays.
LEMMA DeleteKeeps ==
  ASSUME IInv, NEW names \in SUBSET Name, Delete(names), UNCHANGED <<doing, next, cutAt>>,
         calls' \in [1..Len(calls) -> CallRecord],
         \A i \in 1..Len(calls) :
           /\ calls'[i].op = calls[i].op /\ calls'[i].name = calls[i].name
           /\ calls'[i].arg = calls[i].arg
           /\ calls'[i].on <=> calls[i].on /\ calls[i].name \notin names,
         ttl' \in [Name -> (Nat \ {0}) \cup {Forever}],
         \A n \in Name : ttl'[n] = Forever <=> n \in names \/ ttl[n] = Forever,
         Lasting'
  PROVE  IInv'
<1>1. Typed /\ CallsTyped /\ ClientsTyped /\ Written /\ Added /\ LeakNeedsACut
  BY DEF IInv
<1>2. CallsTyped' /\ Len(calls) \in Nat /\ Len(calls') = Len(calls)
  BY <1>1, MarksChange
<1>3. /\ \A k \in Key : windows'[k] = IF k \in names THEN {} ELSE windows[k]
      /\ \A s \in SetKey : items'[s] = IF s \in names THEN {} ELSE items[s]
      /\ \A e \in Entity : scores'[e] = IF e \in names THEN 0 ELSE scores[e]
  BY DEF Delete
<1>4. /\ windows' \in [Key -> SUBSET [ts : Timestamp, id : Nat]]
      /\ items' \in [SetKey -> SUBSET Item]
      /\ scores' \in [Entity -> Nat]
  BY <1>1 DEF Delete, Typed
<1>5. \A n \in Name : Exists(n)' <=> Exists(n) /\ n \notin names
  <2> SUFFICES ASSUME NEW n \in Name PROVE Exists(n)' <=> Exists(n) /\ n \notin names
    OBVIOUS
  <2>1. CASE n \in Key
    BY <1>3, <2>1 DEF Exists
  <2>2. CASE n \in SetKey /\ n \notin Key
    BY <1>3, <2>2 DEF Exists
  <2>3. CASE n \in Entity /\ n \notin Key /\ n \notin SetKey
    BY <1>3, <2>3 DEF Exists
  <2> QED BY <2>1, <2>2, <2>3 DEF Name
<1>6. Typed'
  BY <1>1, <1>4, <1>5 DEF Typed
<1>7. ClientsTyped'
  BY <1>1, <1>2 DEF ClientsTyped, Call
<1>8. Written'
  <2> SUFFICES ASSUME NEW i \in 1..Len(calls), calls'[i].on
               PROVE  /\ calls'[i].op = "hit" /\ Newest(i)' =>
                           [ts |-> calls'[i].arg, id |-> i] \in windows'[calls'[i].name]
                      /\ calls'[i].op = "item" => calls'[i].arg \in items'[calls'[i].name]
    BY <1>2 DEF Written
  <2>1. Newest(i)' => Newest(i)
    BY <1>2 DEF Newest
  <2>2. /\ calls[i].op = "hit" => calls[i].name \in Key
        /\ calls[i].op = "item" => calls[i].name \in SetKey
    BY <1>1, Kinds
  <2>3. /\ calls[i].op = "hit" /\ Newest(i) =>
            [ts |-> calls[i].arg, id |-> i] \in windows[calls[i].name]
        /\ calls[i].op = "item" => calls[i].arg \in items[calls[i].name]
    BY <1>1 DEF Written
  <2> QED BY <1>3, <2>1, <2>2, <2>3
<1>9. Added'
  <2> SUFFICES ASSUME NEW e \in Entity PROVE scores'[e] = SumOf(On(e))'
    BY DEF Added
  <2>1. CASE e \in names
    <3>1. SumOf(On(e))' = 0
      BY <1>2, <2>1, SumGone
    <3> QED BY <1>3, <2>1, <3>1
  <2>2. CASE e \notin names
    <3>1. \A i \in 1..Len(calls) : calls[i].on \in BOOLEAN /\ calls'[i].on \in BOOLEAN
      BY <1>1, Kinds DEF CallRecord
    <3>2. \A i \in 1..Len(calls) : calls[i].name = e => calls'[i].on = calls[i].on
      BY <2>2, <3>1
    <3>3. SumOf(On(e))' = SumOf(On(e))
      BY <1>1, <1>2, <3>2, SumRests
    <3> QED BY <1>1, <1>3, <2>2, <3>3 DEF Added
  <2> QED BY <2>1, <2>2
<1>10. LeakNeedsACut'
  <2> SUFFICES ASSUME NEW n \in Name, Exists(n)', ttl'[n] = Forever
               PROVE  \/ n \in cutAt'
                      \/ \E c \in Client : next'[c] = "expire" /\ calls'[doing'[c]].name = n
    BY DEF LeakNeedsACut, Call
  <2>1. Exists(n) /\ ttl[n] = Forever
    BY <1>5
  <2>2. CASE n \in cutAt
    BY <2>2
  <2>3. ASSUME NEW c \in Client, next[c] = "expire", Call(c).name = n
        PROVE  next'[c] = "expire" /\ calls'[doing'[c]].name = n
    BY <1>1, <2>3 DEF ClientsTyped, Call
  <2> QED BY <1>1, <2>1, <2>2, <2>3 DEF LeakNeedsACut
<1> QED BY <1>2, <1>6, <1>7, <1>8, <1>9, <1>10 DEF IInv

LEMMA ResetKeyKeeps ==
  ASSUME IInv, NEW n \in Resettable, ResetKey(n)
  PROVE  IInv'
<1>1. Typed /\ CallsTyped /\ Lasting
  BY DEF IInv
<1>2. n \in Name /\ {n} \in SUBSET Name
  BY RedisAssumption DEF Name
<1>3. PICK m \in Nat : m = Len(calls) /\ Calls = 1..m
  BY <1>1, LenProperties DEF CallsTyped, Calls
<1>4. calls' = [i \in 1..m |-> IF calls[i].name = n
                                  THEN [calls[i] EXCEPT !.on = FALSE, !.renewed = FALSE] ELSE calls[i]]
  BY <1>3 DEF ResetKey
<1>5. ASSUME NEW i \in 1..m
      PROVE  /\ calls'[i] \in CallRecord
             /\ calls'[i].op = calls[i].op /\ calls'[i].name = calls[i].name
             /\ calls'[i].arg = calls[i].arg /\ calls'[i].age = calls[i].age
             /\ calls'[i].on <=> calls[i].on /\ calls[i].name \notin {n}
             /\ calls'[i].renewed <=> calls[i].renewed /\ calls[i].name # n
  <2>1. calls[i] \in CallRecord
    BY <1>1, <1>3, Kinds
  <2>2. CASE calls[i].name = n
    <3>1. calls'[i] = [calls[i] EXCEPT !.on = FALSE, !.renewed = FALSE]
      BY <1>4, <2>2
    <3> QED BY <2>1, <2>2, <3>1 DEF CallRecord
  <2>3. CASE calls[i].name # n
    BY <1>4, <2>1, <2>3
  <2> QED BY <2>2, <2>3
<1>6. calls' \in [1..Len(calls) -> CallRecord]
  BY <1>3, <1>4, <1>5
<1>7. /\ Delete({n}) /\ ttl' = [ttl EXCEPT ![n] = Forever] /\ UNCHANGED <<doing, next, cutAt>>
  BY DEF ResetKey
<1>8. /\ ttl'[n] = Forever /\ \A q \in Name \ {n} : ttl'[q] = ttl[q]
      /\ ttl' \in [Name -> (Nat \ {0}) \cup {Forever}]
  BY <1>1, <1>2, <1>7 DEF Typed
<1>9. Lasting'
  <2>1. Len(calls') = m
    BY <1>1, <1>3, <1>5, <1>6, MarksChange
  <2> SUFFICES ASSUME NEW i \in 1..m, calls'[i].renewed,
                      calls'[i].age < TtlOf(calls'[i].op)
               PROVE  /\ calls'[i].on
                      /\ \/ ttl'[calls'[i].name] = Forever
                         \/ ttl'[calls'[i].name] + calls'[i].age >= TtlOf(calls'[i].op)
    BY <2>1 DEF Lasting, TtlOf
  <2>2. /\ calls[i].renewed /\ calls[i].name # n /\ calls[i].name \in Name
        /\ calls[i].age < TtlOf(calls[i].op)
    BY <1>1, <1>3, <1>5, Kinds
  <2>3. /\ calls[i].on
        /\ \/ ttl[calls[i].name] = Forever
           \/ ttl[calls[i].name] + calls[i].age >= TtlOf(calls[i].op)
    BY <1>1, <1>3, <2>2 DEF Lasting
  <2> QED BY <1>5, <1>8, <2>2, <2>3
<1>10. \A q \in Name : ttl'[q] = Forever <=> q \in {n} \/ ttl[q] = Forever
  BY <1>8
<1> QED BY <1>2, <1>3, <1>5, <1>6, <1>7, <1>8, <1>9, <1>10, DeleteKeeps

\* As the key of a call that lasts counts down, its call ages.
LEMMA PassKeeps ==
  ASSUME IInv, Pass
  PROVE  IInv'
<1>1. Typed /\ CallsTyped /\ Lasting
  BY DEF IInv
<1>2. PICK over : over = {n \in Name : ttl[n] = 1}
  OBVIOUS
<1>3. PICK m \in Nat : m = Len(calls) /\ Calls = 1..m
  BY <1>1, LenProperties DEF CallsTyped, Calls
<1>4. /\ Delete(over) /\ UNCHANGED <<doing, next, cutAt>>
      /\ ttl' = [n \in Name |-> IF n \in over \/ ttl[n] = Forever THEN Forever ELSE ttl[n] - 1]
      /\ calls' = [i \in 1..m |-> [calls[i] EXCEPT !.on = @ /\ calls[i].name \notin over,
                                        !.age = Min({@ + 1, TtlOf(calls[i].op)})]]
  BY <1>2, <1>3 DEF Pass
<1>5. ASSUME NEW i \in 1..m
      PROVE  /\ calls'[i] \in CallRecord
             /\ calls'[i].op = calls[i].op /\ calls'[i].name = calls[i].name
             /\ calls'[i].arg = calls[i].arg
             /\ calls'[i].age = IF calls[i].age + 1 <= TtlOf(calls[i].op)
                                  THEN calls[i].age + 1 ELSE TtlOf(calls[i].op)
             /\ calls'[i].on <=> calls[i].on /\ calls[i].name \notin over
             /\ calls'[i].renewed <=> calls[i].renewed
  <2>1. /\ calls[i] \in CallRecord /\ calls[i].age \in Nat /\ TtlOf(calls[i].op) \in Nat
        /\ calls[i].on \in BOOLEAN
    BY <1>1, <1>3, Kinds DEF CallRecord
  <2>2. PICK a : a = Min({calls[i].age + 1, TtlOf(calls[i].op)})
    OBVIOUS
  <2>3. a = (IF calls[i].age + 1 <= TtlOf(calls[i].op)
               THEN calls[i].age + 1 ELSE TtlOf(calls[i].op)) /\ a \in Nat
    BY <2>1, <2>2, MinOfTwo
  <2>4. PICK o \in BOOLEAN : o = (calls[i].on /\ calls[i].name \notin over)
    OBVIOUS
  <2>5. calls'[i] = [calls[i] EXCEPT !.on = o, !.age = a]
    BY <1>4, <2>2, <2>4
  <2>6. /\ calls'[i] \in CallRecord
        /\ calls'[i].op = calls[i].op /\ calls'[i].name = calls[i].name
        /\ calls'[i].arg = calls[i].arg /\ calls'[i].age = a
        /\ calls'[i].on = o /\ calls'[i].renewed = calls[i].renewed
    BY <2>1, <2>3, <2>4, <2>5 DEF CallRecord
  <2> QED BY <2>3, <2>4, <2>6
<1>6. calls' \in [1..Len(calls) -> CallRecord]
  BY <1>3, <1>4, <1>5
<1>7. \A n \in Name :
        /\ ttl[n] \in (Nat \ {0}) \cup {Forever}
        /\ ttl'[n] = IF n \in over \/ ttl[n] = Forever THEN Forever ELSE ttl[n] - 1
        /\ n \in over <=> ttl[n] = 1
  BY <1>1, <1>2, <1>4 DEF Typed
<1>8. \A n \in Name : /\ ttl'[n] \in (Nat \ {0}) \cup {Forever}
                      /\ ttl'[n] = Forever <=> n \in over \/ ttl[n] = Forever
  BY <1>7, RedisAssumption
<1>9. ttl' \in [Name -> (Nat \ {0}) \cup {Forever}]
  BY <1>4, <1>8
<1>10. Lasting'
  <2>1. Len(calls') = m
    BY <1>1, <1>3, <1>5, <1>6, MarksChange
  <2> SUFFICES ASSUME NEW i \in 1..m, calls'[i].renewed,
                      calls'[i].age < TtlOf(calls'[i].op)
               PROVE  /\ calls'[i].on
                      /\ \/ ttl'[calls'[i].name] = Forever
                         \/ ttl'[calls'[i].name] + calls'[i].age >= TtlOf(calls'[i].op)
    BY <2>1 DEF Lasting, TtlOf
  <2>2. /\ calls[i].age \in Nat /\ TtlOf(calls[i].op) \in Nat /\ calls[i].name \in Name
        /\ calls[i].renewed
    BY <1>1, <1>3, <1>5, Kinds
  <2>3. calls'[i].op = calls[i].op /\ calls'[i].name = calls[i].name
        /\ calls'[i].age = calls[i].age + 1 /\ calls[i].age + 1 < TtlOf(calls[i].op)
    BY <1>5, <2>2
  <2>4. /\ calls[i].on
        /\ \/ ttl[calls[i].name] = Forever
           \/ ttl[calls[i].name] + calls[i].age >= TtlOf(calls[i].op)
    BY <1>1, <1>3, <2>2, <2>3 DEF Lasting
  <2>5. calls[i].name \notin over
    <3>1. 1 # Forever
      BY RedisAssumption
    <3> QED BY <1>7, <2>2, <2>3, <2>4, <3>1
  <2> QED BY <1>5, <1>7, <2>2, <2>3, <2>4, <2>5
<1> QED BY <1>2, <1>3, <1>4, <1>5, <1>6, <1>8, <1>9, <1>10, DeleteKeeps

-----------------------------------------------------------------------------
LEMMA InitHolds == Init => IInv
<1> SUFFICES ASSUME Init PROVE IInv
  OBVIOUS
<1>1. /\ windows = [k \in Key |-> {}] /\ items = [s \in SetKey |-> {}]
      /\ scores = [e \in Entity |-> 0] /\ ttl = [n \in Name |-> Forever]
      /\ doing = [c \in Client |-> Idle] /\ next = [c \in Client |-> "none"]
      /\ calls = <<>> /\ cutAt = {}
  BY DEF Init
<1>2. calls \in Seq(CallRecord) /\ Len(calls) = 0 /\ 1..Len(calls) = {}
  BY <1>1
<1>3. Typed
  BY <1>1 DEF Typed
<1>4. CallsTyped
  BY <1>2 DEF CallsTyped
<1>5. ClientsTyped
  BY <1>1 DEF ClientsTyped, Idle
<1>6. Lasting /\ Written
  BY <1>2 DEF Lasting, Written
<1>7. Added
  <2>1. \A e \in Entity : SumOf(On(e)) = 0
    BY <1>2, SumOfNone DEF SumOf
  <2> QED BY <1>1, <2>1 DEF Added
<1>8. LeakNeedsACut
  <2>1. \A n \in Name : ~Exists(n)
    BY <1>1 DEF Exists, Name
  <2> QED BY <2>1 DEF LeakNeedsACut
<1> QED BY <1>3, <1>4, <1>5, <1>6, <1>7, <1>8 DEF IInv

LEMMA StutterKeeps ==
  ASSUME IInv, UNCHANGED vars
  PROVE  IInv'
<1>1. Typed /\ CallsTyped /\ ClientsTyped /\ Lasting /\ Written /\ Added /\ LeakNeedsACut
  BY DEF IInv
<1>2. UNCHANGED <<windows, items, scores, ttl, doing, next, calls, cutAt>>
  BY DEF vars, store
<1>3. Typed' /\ CallsTyped' /\ ClientsTyped'
  BY <1>1, <1>2 DEF Typed, Exists, CallsTyped, Suited, ClientsTyped, Call
<1>4. Lasting' /\ Written' /\ LeakNeedsACut'
  BY <1>1, <1>2 DEF Lasting, TtlOf, Written, Newest, LeakNeedsACut, Exists, Call
<1>5. Added'
  <2>1. \A e \in Entity : SumOf(On(e))' = SumOf(On(e))
    BY <1>1, <1>2, <1>3, SumRests
  <2> QED BY <1>1, <1>2, <2>1 DEF Added
<1> QED BY <1>3, <1>4, <1>5 DEF IInv

LEMMA StepKeeps == IInv /\ [Next]_vars => IInv'
<1> SUFFICES ASSUME IInv, [Next]_vars PROVE IInv'
  OBVIOUS
<1>1. CASE Pass
  BY <1>1, PassKeeps
<1>2. ASSUME NEW n \in Resettable, ResetKey(n) PROVE IInv'
  BY <1>2, ResetKeyKeeps
<1>3. ASSUME NEW c \in Client, NEW k \in Key, NEW ts \in Timestamp, TrimWindow(c, k, ts) PROVE IInv'
  BY <1>3, TrimKeeps
<1>4. ASSUME NEW c \in Client, NEW s \in SetKey, NEW item \in Item, AddItem(c, s, item) PROVE IInv'
  BY <1>4, AddItemKeeps
<1>5. ASSUME NEW c \in Client, NEW e \in Entity, NEW p \in Points, IncrRisk(c, e, p) PROVE IInv'
  BY <1>5, IncrRiskKeeps
<1>6. ASSUME NEW c \in Client, AddHit(c) PROVE IInv'
  BY <1>6, AddHitKeeps
<1>7. ASSUME NEW c \in Client, Renew(c) PROVE IInv'
  BY <1>7, RenewKeeps
<1>8. ASSUME NEW c \in Client, Count(c) \/ Fail(c) PROVE IInv'
  <2>1. Return(c) /\ UNCHANGED <<store, calls>> /\ next[c] # "expire" /\ cutAt' = cutAt
    BY <1>8 DEF Count, Fail
  <2> QED BY <2>1, ReturnKeeps
<1>9. ASSUME NEW c \in Client, CutOff(c) PROVE IInv'
  <2>1. /\ Return(c) /\ UNCHANGED <<store, calls>>
        /\ next[c] # "none" /\ cutAt' = cutAt \cup {Call(c).name}
    BY <1>9 DEF CutOff
  <2> QED BY <2>1, ReturnKeeps
<1>10. CASE UNCHANGED vars
  BY <1>10, StutterKeeps
<1> QED BY <1>1, <1>2, <1>3, <1>4, <1>5, <1>6, <1>7, <1>8, <1>9, <1>10 DEF Next

\* The inductive invariant of RedisHotState.
THEOREM RedisInv == Spec => []IInv
BY InitHolds, StepKeeps, PTL DEF Spec

-----------------------------------------------------------------------------
(* What the invariant says of what is counted.                             *)

\* A call that is due is still on, as its key has lasted.
LEMMA DueIsOn ==
  ASSUME IInv
  PROVE  /\ Len(calls) \in Nat /\ Calls = 1..Len(calls)
         /\ \A n \in Name : \A i \in Due(n) :
              i \in 1..Len(calls) /\ calls[i].on /\ calls[i].name = n
<1>1. Len(calls) \in Nat /\ Calls = 1..Len(calls)
  BY LenProperties DEF IInv, CallsTyped, Calls
<1> QED BY <1>1 DEF IInv, Lasting, Due, Recent

LEMMA CountedHolds == IInv => RecentIsCounted
<1> SUFFICES ASSUME IInv PROVE RecentIsCounted
  OBVIOUS
<1>1. CallsTyped /\ Written
  BY DEF IInv
<1>2. PICK n \in Nat : n = Len(calls) /\ Calls = 1..n
  BY DueIsOn
<1>3. ASSUME NEW k \in Key, NEW i \in Due(k), calls[i].arg > Cutoff(k)
      PROVE  [ts |-> calls[i].arg, id |-> i] \in windows[k]
  <2>1. i \in 1..n /\ calls[i].on /\ calls[i].name = k
    BY <1>2, DueIsOn DEF Name
  <2>2. PICK J : J = {j \in 1..n : calls[j].name = k}
    OBVIOUS
  <2>3. \A j \in J : calls[j].op = "hit" /\ calls[j].arg \in Int
    BY <1>1, <1>2, <2>2, Kinds, RedisAssumption DEF CallsTyped, Suited
  <2>4. PICK f : f = [j \in 1..n |-> calls[j].arg]
    OBVIOUS
  <2>5. J \subseteq 1..n /\ J # {} /\ i \in J /\ \A j \in J : f[j] = calls[j].arg /\ f[j] \in Int
    BY <2>1, <2>2, <2>3, <2>4
  <2>6. /\ \E j \in J : Max({f[x] : x \in J}) = f[j]
        /\ \A j \in J : f[j] <= Max({f[x] : x \in J})
    BY ZenonT(30), <2>5, MaxOfSome
  <2>7. {f[x] : x \in J} = {calls[x].arg : x \in {j \in Calls : calls[j].name = k}}
    BY <1>2, <2>2, <2>5
  <2>8. PICK latest \in Int : latest = Max({f[x] : x \in J})
    BY <2>5, <2>6
  <2>9. calls[i].arg > latest - Window
    BY <1>3, <2>7, <2>8 DEF Cutoff
  <2>10. Newest(i)
    <3> SUFFICES ASSUME NEW j \in 1..n, calls[j].name = calls[i].name
                 PROVE  calls[i].arg > calls[j].arg - Window
      BY <1>2 DEF Newest
    <3>1. j \in J
      BY <2>1, <2>2
    <3>2. calls[j].arg \in Int /\ calls[i].arg \in Int /\ calls[j].arg <= latest /\ Window \in Int
      BY <2>5, <2>6, <2>8, <3>1, RedisAssumption
    <3> QED BY <2>8, <2>9, <3>2
  <2>11. calls[i].op = "hit"
    BY <2>3, <2>5
  <2> QED BY <1>1, <1>2, <2>1, <2>10, <2>11 DEF Written
<1>4. ASSUME NEW s \in SetKey, NEW i \in Due(s)
      PROVE  calls[i].arg \in items[s]
  <2>1. i \in 1..n /\ calls[i].on /\ calls[i].name = s
    BY <1>2, DueIsOn DEF Name
  <2>2. calls[i].op = "item"
    BY <1>1, <1>2, <2>1, Kinds
  <2> QED BY <1>1, <1>2, <2>1, <2>2 DEF Written
<1> QED BY <1>3, <1>4 DEF RecentIsCounted

LEMMA RiskHolds == IInv => RecentRiskCounts
<1> SUFFICES ASSUME IInv, NEW e \in Entity
             PROVE  scores[e] \in SumOf(Due(e))..SumOf({i \in Calls : calls[i].name = e})
  BY DEF RecentRiskCounts
<1>1. CallsTyped /\ scores[e] \in Nat /\ scores[e] = SumOf(On(e)) /\ e \in Name
  BY DEF IInv, Typed, Added, Name
<1>2. PICK n \in Nat : n = Len(calls) /\ Calls = 1..n
  BY DueIsOn
<1>3. PICK All : All = {i \in Calls : calls[i].name = e}
  OBVIOUS
<1>4. Due(e) \subseteq On(e) /\ On(e) \subseteq All
  BY <1>1, <1>2, <1>3, DueIsOn DEF On
<1>5. \A i \in All : calls[i].arg \in Nat
  <2> TAKE i \in All
  <2>1. i \in 1..Len(calls) /\ calls[i].name \in Entity
    BY <1>2, <1>3
  <2>2. calls[i].op = "risk"
    BY <1>1, <2>1, Kinds
  <2>3. calls[i].arg \in Points
    BY <1>1, <2>1, <2>2 DEF CallsTyped, Suited
  <2>4. Points \subseteq Nat
    BY RedisAssumption
  <2> QED BY <2>3, <2>4
<1>6. PICK u : u = [i \in Calls |-> IF i \in Due(e) THEN calls[i].arg ELSE 0]
  OBVIOUS
<1>7. PICK v : v = [i \in Calls |-> IF i \in On(e) THEN calls[i].arg ELSE 0]
  OBVIOUS
<1>8. PICK w : w = [i \in Calls |-> IF i \in All THEN calls[i].arg ELSE 0]
  OBVIOUS
<1>9. SumOf(Due(e)) = Sum(u, n) /\ SumOf(On(e)) = Sum(v, n) /\ SumOf(All) = Sum(w, n)
  BY <1>2, <1>6, <1>7, <1>8 DEF SumOf
<1>10. \A i \in 1..n : u[i] \in Nat /\ v[i] \in Nat /\ u[i] <= v[i]
  BY <1>2, <1>4, <1>5, <1>6, <1>7
<1>11. \A i \in 1..n : v[i] \in Nat /\ w[i] \in Nat /\ v[i] <= w[i]
  BY <1>2, <1>4, <1>5, <1>7, <1>8
<1>12. Sum(u, n) \in Nat /\ Sum(u, n) <= Sum(v, n)
  BY <1>10, SumGrows
<1>13. Sum(v, n) \in Nat /\ Sum(w, n) \in Nat /\ Sum(v, n) <= Sum(w, n)
  BY <1>11, SumGrows
<1> QED BY <1>1, <1>3, <1>9, <1>12, <1>13

\* What a client recorded and gave an expiry is there for a whole time to live, although
\* the commands of other control planes come in between, their calls fail or are cut
\* off half-way, and the keys they share end and begin anew (state/mod.rs:232-273).
THEOREM RecentStaysCounted == Spec => []RecentIsCounted
BY RedisInv, CountedHolds, PTL

\* The score of an entity is at least what was added and given an expiry less than
\* a time to live ago, and at most all that was ever added to it, by however many
\* control planes (state/mod.rs:288-299).
THEOREM RiskStaysCounted == Spec => []RecentRiskCounts
BY RedisInv, RiskHolds, PTL

\* Only a call cut off between its commands leaves a key behind that has no expiry
\* and is given none (state/mod.rs:232-299).
THEOREM LeaksNeedACut == Spec => []LeakNeedsACut
<1>1. IInv => LeakNeedsACut
  BY DEF IInv
<1> QED BY <1>1, RedisInv, PTL
=============================================================================
