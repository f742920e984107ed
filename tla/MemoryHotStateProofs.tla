------------------------ MODULE MemoryHotStateProofs ------------------------
(***************************************************************************)
(* Proofs about MemoryHotState, for any keys, items, entities, timestamps, *)
(* lateness, window, lifetimes and number of operations, and about the     *)
(* rules that count over it (DetectionWindows), for any events, thresholds *)
(* and number of evaluations.                                              *)
(***************************************************************************)
EXTENDS DetectionWindows, SequenceTheorems, FiniteSetTheorems, NaturalsInduction,
        WellFoundedInduction, TLAPS

\* Deque w is what is left of history h.  Hits that went were a window older
\* than some hit; the front is within the window of the newest arrival.
Sound(w, h) ==
  /\ Len(w) <= Len(h)
  /\ h # <<>> => w # <<>> /\ w[1] >= h[Len(h)] - Window
  /\ \A i \in 1..Len(w) : w[i] = h[Len(h) - Len(w) + i]
  /\ \A j \in 1..Len(h) : \A i \in 1..(j - 1) : h[j] >= h[i] - Lateness
  /\ \A i \in 1..(Len(h) - Len(w)) : \E j \in 1..Len(h) : h[i] < h[j] - Window

\* The items d of a key, the history s of their sightings, at time now: an
\* item that was removed is one whose time is over.
Kept(d, s, now) ==
  /\ s \in [DOMAIN s -> Nat] /\ DOMAIN s \subseteq Item
  /\ DOMAIN d \subseteq DOMAIN s /\ d \in [DOMAIN d -> Nat]
  /\ \A i \in DOMAIN d : d[i] = s[i] + ItemTtl
  /\ \A i \in DOMAIN s \ DOMAIN d : s[i] + ItemTtl <= now

WindowsSound ==
  /\ windows \in [Key -> Seq(Timestamp)] /\ hits \in [Key -> Seq(Timestamp)]
  /\ \A k \in Key : Sound(windows[k], hits[k])

ItemsKept ==
  /\ DOMAIN distinct = Key /\ DOMAIN seenAt = Key
  /\ \A k \in Key : Kept(distinct[k], seenAt[k], clock)

RisksTyped ==
  /\ DOMAIN risks \subseteq Entity
  /\ risks \in [DOMAIN risks -> [score : 0..MaxScore, expiry : Nat]]

\* The additions of a that no gap of a TTL follows, and what they add up to.
Run(a) ==
  {i \in DOMAIN a : \A j \in i..(Len(a) - 1) : a[j + 1].at < a[j].at + RiskTtl}

RunSum(a) == Sum([i \in DOMAIN a |-> IF i \in Run(a) THEN a[i].points ELSE 0], Len(a))

Capped(x) == IF x > MaxScore THEN MaxScore ELSE x

\* The score of e, its time over or not, is that of its last run of additions.
Founded(e) ==
  IF added[e] = <<>> THEN e \notin DOMAIN risks
  ELSE /\ e \in DOMAIN risks
       /\ risks[e].expiry = Last(added[e]).at + RiskTtl
       /\ risks[e].score = Capped(RunSum(added[e]))

Addition == [points : 0..MaxScore, at : Nat]

RisksFounded ==
  /\ added \in [Entity -> Seq(Addition)]
  /\ \A e \in Entity : Founded(e)

IInv == clock \in Nat /\ WindowsSound /\ ItemsKept /\ RisksTyped /\ RisksFounded

-----------------------------------------------------------------------------
(* The eviction loop.                                                      *)

\* The loop that pops hits older than the cutoff stops, and where it stops is
\* what Drop chooses (mod.rs:89-95).
LEMMA DropStops ==
  ASSUME NEW d \in Seq(Timestamp), NEW cutoff \in Int
  PROVE  /\ Drop(d, cutoff) \in 0..Len(d)
         /\ \A i \in 1..Drop(d, cutoff) : d[i] < cutoff
         /\ Drop(d, cutoff) < Len(d) => d[Drop(d, cutoff) + 1] >= cutoff
<1>1. Len(d) \in Nat /\ \A i \in 1..Len(d) : d[i] \in Int
  BY LenProperties, ElementOfSeq, HotStateAssumption
<1> DEFINE old == {n \in 1..Len(d) : \A i \in 1..n : d[i] < cutoff}
<1>2. /\ IsFiniteSet(old) /\ Cardinality(old) \in 0..Len(d)
  <2>1. IsFiniteSet(1..Len(d)) /\ Cardinality(1..Len(d)) = Len(d)
    <3>1. 1 \in Int /\ Len(d) \in Int /\ Len(d) >= 0
      BY <1>1
    <3>2. /\ IsFiniteSet(1..Len(d))
          /\ Cardinality(1..Len(d)) = IF 1 > Len(d) THEN 0 ELSE Len(d) - 1 + 1
      BY <3>1, FS_Interval
    <3> QED BY <1>1, <3>2
  <2>2. old \subseteq 1..Len(d)
    OBVIOUS
  <2> HIDE DEF old
  <2>3. IsFiniteSet(old) /\ Cardinality(old) <= Len(d)
    BY <2>1, <2>2, FS_Subset
  <2>4. Cardinality(old) \in Nat
    BY <2>3, FS_CardinalityType
  <2> QED BY <1>1, <2>3, <2>4
<1>3. PICK n \in 0..Len(d) : n = Cardinality(old)
  BY <1>2
<1>4. n \in Nat /\ IsFiniteSet(1..n) /\ Cardinality(1..n) = n
  <2>1. n \in Nat
    BY <1>1
  <2> QED BY <2>1, FS_Interval
<1>5. old \subseteq 1..n
  <2> SUFFICES ASSUME NEW x \in old PROVE x \in 1..n
    OBVIOUS
  <2>1. x \in 1..Len(d) /\ x \in Nat /\ 1..x \subseteq old
    BY <1>1
  <2>2. Cardinality(1..x) = x
    BY <2>1, FS_Interval
  <2> HIDE DEF old
  <2>3. Cardinality(1..x) <= Cardinality(old)
    BY <1>2, <2>1, FS_Subset
  <2> QED BY <1>3, <1>4, <2>1, <2>2, <2>3
<1>6. old = 1..n
  <2> HIDE DEF old
  <2> QED BY <1>3, <1>4, <1>5, FS_Subset
<1>7. \A i \in 1..n : d[i] < cutoff
  <2>1. \A i \in 1..n : i \in old /\ i \in 1..i
    BY <1>4, <1>6
  <2> QED BY <2>1
<1>8. ASSUME n < Len(d) PROVE d[n + 1] >= cutoff
  <2>1. n + 1 \in 1..Len(d) /\ n + 1 \notin 1..n /\ \A i \in 1..(n + 1) : i \in 1..n \/ i = n + 1
    BY <1>1, <1>4, <1>8
  <2>2. n + 1 \notin old
    BY <1>6, <2>1
  <2>3. ~(d[n + 1] < cutoff)
    BY <1>7, <2>1, <2>2
  <2> QED BY <1>1, <2>1, <2>3
<1>9. \E m \in 0..Len(d) : /\ \A i \in 1..m : d[i] < cutoff
                           /\ m < Len(d) => d[m + 1] >= cutoff
  BY <1>7, <1>8
<1> QED BY <1>9 DEF Drop

\* What record_hit makes of the deque of a key and of its history.
LEMMA HitKeepsSound ==
  ASSUME NEW w \in Seq(Timestamp), NEW h \in Seq(Timestamp), Sound(w, h),
         NEW ts \in Timestamp, \A i \in 1..Len(h) : ts >= h[i] - Lateness,
         NEW n \in 0..Len(w), \A i \in 1..n : w[i] < ts - Window,
         n < Len(w) => w[n + 1] >= ts - Window,
         NEW v, v = Append(SubSeq(w, n + 1, Len(w)), ts),
         NEW g, g = Append(h, ts)
  PROVE  v \in Seq(Timestamp) /\ g \in Seq(Timestamp) /\ Sound(v, g)
<1>1. /\ Len(w) \in Nat /\ Len(h) \in Nat /\ n \in Nat /\ n <= Len(w)
      /\ \A i \in 1..Len(w) : w[i] \in Timestamp /\ w[i] \in Int
      /\ \A i \in 1..Len(h) : h[i] \in Timestamp /\ h[i] \in Int
      /\ ts \in Int /\ Window \in Nat /\ Lateness \in Nat
  <2>1. Len(w) \in Nat /\ Len(h) \in Nat
    BY LenProperties
  <2>2. \A i \in 1..Len(w) : w[i] \in Timestamp
    BY ElementOfSeq
  <2>3. \A i \in 1..Len(h) : h[i] \in Timestamp
    BY ElementOfSeq
  <2>4. n \in Nat /\ n <= Len(w)
    BY <2>1
  <2>5. Timestamp \subseteq Int /\ Window \in Nat /\ Lateness \in Nat
    BY HotStateAssumption
  <2>6. ts \in Int /\ (\A i \in 1..Len(w) : w[i] \in Int) /\ (\A i \in 1..Len(h) : h[i] \in Int)
    BY <2>2, <2>3, <2>5
  <2> QED BY <2>1, <2>2, <2>3, <2>4, <2>5, <2>6
<1> DEFINE r == SubSeq(w, n + 1, Len(w))
<1>2. /\ r \in Seq(Timestamp) /\ Len(r) = Len(w) - n
      /\ \A i \in 1..(Len(w) - n) : r[i] = w[n + i]
  <2>1. \A i \in (n + 1)..Len(w) : w[i] \in Timestamp
    BY <1>1
  <2>2. /\ r \in Seq(Timestamp)
        /\ Len(r) = IF n + 1 <= Len(w) THEN Len(w) - (n + 1) + 1 ELSE 0
        /\ \A i \in 1..(Len(w) - (n + 1) + 1) : r[i] = w[(n + 1) + i - 1]
    BY <1>1, <2>1, SubSeqProperties
  <2> HIDE DEF r
  <2> QED BY <1>1, <2>2
<1>3. v = Append(r, ts)
  OBVIOUS
<1> HIDE DEF r
<1>4. /\ v \in Seq(Timestamp) /\ Len(v) = Len(w) - n + 1 /\ v # <<>>
      /\ \A i \in 1..(Len(w) - n) : v[i] = w[n + i]
      /\ v[Len(w) - n + 1] = ts
  <2>1. Len(r) + 1 = Len(w) - n + 1 /\ Len(r) = Len(w) - n
    BY <1>2
  <2>2. /\ v \in Seq(Timestamp) /\ Len(v) = Len(r) + 1 /\ v # <<>>
        /\ \A i \in 1..Len(r) : v[i] = r[i]
        /\ v[Len(r) + 1] = ts
    <3>1. r \in Seq(Timestamp)
      BY <1>2
    <3>2. /\ Append(r, ts) \in Seq(Timestamp) /\ Len(Append(r, ts)) = Len(r) + 1
          /\ Append(r, ts) # <<>>
          /\ \A i \in 1..Len(r) : Append(r, ts)[i] = r[i]
          /\ Append(r, ts)[Len(r) + 1] = ts
      BY <3>1, AppendProperties
    <3> QED BY <1>3, <3>2
  <2> QED BY <1>2, <2>1, <2>2
<1>5. /\ g \in Seq(Timestamp) /\ Len(g) = Len(h) + 1 /\ g # <<>>
      /\ \A i \in 1..Len(h) : g[i] = h[i]
      /\ g[Len(h) + 1] = ts
  BY AppendProperties
<1>6. /\ Len(w) <= Len(h)
      /\ \A i \in 1..Len(w) : w[i] = h[Len(h) - Len(w) + i]
      /\ \A j \in 1..Len(h) : \A i \in 1..(j - 1) : h[j] >= h[i] - Lateness
      /\ \A i \in 1..(Len(h) - Len(w)) : \E j \in 1..Len(h) : h[i] < h[j] - Window
  BY DEF Sound
<1> DEFINE m == Len(w)
           l == Len(h)
<1>7. m \in Nat /\ l \in Nat /\ m <= l /\ n <= m
  BY <1>1, <1>6
<1>8. Len(v) <= Len(g)
  BY <1>1, <1>4, <1>5, <1>6
<1>9. v[1] >= g[Len(g)] - Window
  <2>1. CASE n < m
    <3>1. v[1] = w[n + 1]
      BY <1>7, <1>4, <2>1
    <3> QED BY <1>5, <2>1, <3>1
  <2>2. CASE n = m
    <3>1. v[1] = ts
      BY <1>7, <1>4, <2>2
    <3> QED BY <1>1, <1>5, <3>1
  <2> QED BY <1>7, <2>1, <2>2
<1>10. ASSUME NEW i \in 1..Len(v) PROVE v[i] = g[Len(g) - Len(v) + i]
  <2>1. Len(g) - Len(v) + i = l - m + (n + i) /\ i \in 1..(m - n + 1)
    <3>1. Len(v) = m - n + 1 /\ Len(g) = l + 1
      BY <1>4, <1>5
    <3>2. i \in 1..(m - n + 1) /\ i \in Int
      BY <3>1, <1>7
    <3>3. m \in Int /\ n \in Int /\ l \in Int
      BY <1>7
    <3> HIDE DEF m, l
    <3>4. (l + 1) - (m - n + 1) + i = l - m + (n + i)
      BY <3>2, <3>3
    <3> QED BY <3>1, <3>2, <3>4
  <2>2. CASE i = m - n + 1
    <3>1. l - m + (n + i) = l + 1
      BY <1>7, <2>2
    <3> QED BY <1>4, <1>5, <2>1, <2>2, <3>1
  <2>3. CASE i # m - n + 1
    <3>1. i \in 1..(m - n) /\ n + i \in 1..m /\ l - m + (n + i) \in 1..l
      <4> HIDE DEF m, l
      <4> QED BY <1>7, <2>1, <2>3
    <3>2. v[i] = w[n + i]
      BY <1>4, <3>1
    <3>3. w[n + i] = h[l - m + (n + i)]
      BY <1>6, <3>1
    <3>4. g[l - m + (n + i)] = h[l - m + (n + i)]
      BY <1>5, <3>1
    <3> QED BY <2>1, <3>2, <3>3, <3>4
  <2> QED BY <2>2, <2>3
<1>11. ASSUME NEW j \in 1..Len(g), NEW i \in 1..(j - 1) PROVE g[j] >= g[i] - Lateness
  <2>1. i \in 1..l
    BY <1>7, <1>5
  <2>2. CASE j = l + 1
    BY <1>5, <2>1, <2>2
  <2>3. CASE j # l + 1
    <3>1. j \in 1..l
      <4>1. Len(g) = l + 1
        BY <1>5
      <4> HIDE DEF l
      <4> QED BY <1>7, <2>3, <4>1
    <3> QED BY <1>5, <1>6, <2>1, <3>1
  <2> QED BY <2>2, <2>3
<1>12. ASSUME NEW i \in 1..(Len(g) - Len(v))
       PROVE  \E j \in 1..Len(g) : g[i] < g[j] - Window
  <2>1. i \in 1..(l - m + n) /\ i \in 1..l /\ l + 1 \in 1..Len(g)
    BY <1>7, <1>4, <1>5
  <2>2. CASE i <= l - m
    <3>1. i \in 1..(l - m)
      BY <1>7, <2>1, <2>2
    <3>2. PICK j \in 1..l : h[i] < h[j] - Window
      BY <1>6, <3>1
    <3>3. j \in 1..Len(g)
      BY <1>7, <1>5
    <3> QED BY <1>5, <2>1, <3>2, <3>3
  <2>3. CASE ~(i <= l - m)
    <3>1. /\ i - (l - m) \in 1..n /\ i - (l - m) \in 1..m
          /\ l - m + (i - (l - m)) = i
      BY <1>7, <2>1, <2>3
    <3>2. w[i - (l - m)] = h[i]
      BY <1>6, <3>1
    <3>3. h[i] < ts - Window
      BY <3>1, <3>2
    <3> QED BY <1>5, <2>1, <3>3
  <2> QED BY <2>2, <2>3
<1> QED BY <1>4, <1>5, <1>8, <1>9, <1>10, <1>11, <1>12 DEF Sound

LEMMA NothingIsSound == <<>> \in Seq(Timestamp) /\ Sound(<<>>, <<>>)
BY EmptySeq DEF Sound

-----------------------------------------------------------------------------
(* Sums: the recursion is well-founded, and what it computes.              *)

LEMMA LeastExists ==
  ASSUME NEW T, T \subseteq Nat, T # {}
  PROVE  \E m \in T : \A n \in T : m <= n
<1>1. PICK m \in T : \A n \in T : ~(<<n, m>> \in OpToRel(<, Nat))
  BY NatLessThanWellFounded, WFMin
<1>2. \A n \in T : n \in Nat /\ m \in Nat /\ ~(n < m)
  BY <1>1 DEF OpToRel
<1>3. \A n \in T : m <= n
  BY <1>2
<1> QED BY <1>3

\* f has the sums of the first values, up to n of them.
Adds(f, value, n) ==
  f = [i \in 0..n |-> IF i = 0 THEN 0 ELSE f[i - 1] + value[i]]

LEMMA AddsStep ==
  ASSUME NEW f, NEW value, NEW n \in Nat, Adds(f, value, n)
  PROVE  f[0] = 0 /\ \A i \in 1..n : f[i] = f[i - 1] + value[i]
<1>1. \A i \in 0..n : f[i] = IF i = 0 THEN 0 ELSE f[i - 1] + value[i]
  BY Zenon DEF Adds
<1> QED BY <1>1

LEMMA Addable ==
  ASSUME NEW value, NEW n \in Nat
  PROVE  \E f : Adds(f, value, n)
<1> DEFINE Without == {m \in Nat : ~\E f : Adds(f, value, m)}
<1>1. SUFFICES ASSUME Without # {} PROVE FALSE
  OBVIOUS
<1>2. PICK m \in Without : \A k \in Without : m <= k
  <2>1. Without \subseteq Nat
    OBVIOUS
  <2> HIDE DEF Without
  <2> QED BY <1>1, <2>1, LeastExists
<1>3. m # 0
  <2>1. Adds([i \in 0..0 |-> 0], value, 0)
    BY DEF Adds
  <2> QED BY <2>1
<1>4. PICK f : Adds(f, value, m - 1)
  <2>1. m - 1 \in Nat /\ ~(m <= m - 1)
    BY <1>3
  <2> QED BY <1>2, <2>1
<1> DEFINE g == [i \in 0..m |-> IF i = m THEN f[m - 1] + value[m] ELSE f[i]]
<1>5. Adds(g, value, m)
  <2>1. \A i \in 0..(m - 1) : f[i] = IF i = 0 THEN 0 ELSE f[i - 1] + value[i]
    BY <1>4, Zenon DEF Adds
  <2>2. \A i \in 0..(m - 1) : g[i] = f[i]
    BY <1>3
  <2>3. ASSUME NEW i \in 0..m PROVE g[i] = IF i = 0 THEN 0 ELSE g[i - 1] + value[i]
    <3>1. CASE i = m
      <4>1. m - 1 \in 0..(m - 1) /\ m \in 0..m
        BY <1>3
      <4>2. g[m - 1] = f[m - 1] /\ g[m] = f[m - 1] + value[m]
        BY <2>2, <4>1
      <4> QED BY <1>3, <3>1, <4>2
    <3>2. CASE i # m
      <4>1. i \in 0..(m - 1) /\ (i # 0 => i - 1 \in 0..(m - 1))
        BY <1>3, <3>2
      <4>2. g[i] = f[i] /\ (i # 0 => g[i - 1] = f[i - 1])
        BY <2>2, <4>1
      <4> QED BY <2>1, <4>1, <4>2
    <3> QED BY <3>1, <3>2
  <2>4. g = [i \in 0..m |-> g[i]]
    OBVIOUS
  <2> HIDE DEF g
  <2> QED BY <2>3, <2>4, Zenon DEF Adds
<1> QED BY <1>5

LEMMA SumAdds ==
  ASSUME NEW value, NEW n \in Nat
  PROVE  \E f : Adds(f, value, n) /\ Sum(value, n) = f[n]
<1> DEFINE f == CHOOSE f : f = [i \in 0..n |-> IF i = 0 THEN 0 ELSE f[i - 1] + value[i]]
<1>1. Sum(value, n) = f[n]
  BY DEF Sum
<1>2. Adds(f, value, n)
  <2>1. \E h : h = [i \in 0..n |-> IF i = 0 THEN 0 ELSE h[i - 1] + value[i]]
    BY Addable DEF Adds
  <2> QED BY <2>1, Zenon DEF Adds
<1> QED BY <1>1, <1>2

\* Two sums are equal as far as their values are.
LEMMA AddsAgree ==
  ASSUME NEW v, NEW w, NEW n \in Nat, NEW f, NEW g,
         \A i \in 1..n : v[i] = w[i],
         f[0] = 0 /\ \A i \in 1..n : f[i] = f[i - 1] + v[i],
         g[0] = 0 /\ \A i \in 1..n : g[i] = g[i - 1] + w[i]
  PROVE  f[n] = g[n]
<1> DEFINE Apart == {i \in 0..n : f[i] # g[i]}
<1>1. SUFFICES ASSUME Apart # {} PROVE FALSE
  OBVIOUS
<1>2. PICK i \in Apart : \A j \in Apart : i <= j
  <2>1. Apart \subseteq Nat
    OBVIOUS
  <2> HIDE DEF Apart
  <2> QED BY <1>1, <2>1, LeastExists
<1>3. i \in 1..n /\ i - 1 \in 0..n /\ ~(i <= i - 1)
  OBVIOUS
<1>4. f[i - 1] = g[i - 1]
  BY <1>2, <1>3
<1>5. f[i] = g[i]
  BY <1>3, <1>4
<1> QED BY <1>5

LEMMA SumOfNone ==
  ASSUME NEW value
  PROVE  Sum(value, 0) = 0
BY SumAdds, AddsStep

LEMMA SumEqual ==
  ASSUME NEW v, NEW w, NEW n \in Nat, \A i \in 1..n : v[i] = w[i]
  PROVE  Sum(v, n) = Sum(w, n)
<1>1. PICK f : Adds(f, v, n) /\ Sum(v, n) = f[n]
  BY SumAdds
<1>2. PICK g : Adds(g, w, n) /\ Sum(w, n) = g[n]
  BY SumAdds
<1>3. /\ f[0] = 0 /\ \A i \in 1..n : f[i] = f[i - 1] + v[i]
      /\ g[0] = 0 /\ \A i \in 1..n : g[i] = g[i - 1] + w[i]
  BY <1>1, <1>2, AddsStep
<1>4. f[n] = g[n]
  BY <1>3, AddsAgree
<1> QED BY <1>1, <1>2, <1>4

\* One value more.
LEMMA SumNext ==
  ASSUME NEW value, NEW n \in Nat
  PROVE  Sum(value, n + 1) = Sum(value, n) + value[n + 1]
<1>1. PICK f : Adds(f, value, n) /\ Sum(value, n) = f[n]
  BY SumAdds
<1>2. PICK g : Adds(g, value, n + 1) /\ Sum(value, n + 1) = g[n + 1]
  BY SumAdds
<1>3. /\ f[0] = 0 /\ \A i \in 1..n : f[i] = f[i - 1] + value[i]
      /\ g[0] = 0 /\ \A i \in 1..(n + 1) : g[i] = g[i - 1] + value[i]
  BY <1>1, <1>2, AddsStep
<1>4. \A i \in 1..n : g[i] = g[i - 1] + value[i]
  BY <1>3
<1>5. f[n] = g[n]
  BY <1>3, <1>4, AddsAgree
<1>6. n + 1 \in 1..(n + 1) /\ (n + 1) - 1 = n
  OBVIOUS
<1> QED BY <1>1, <1>2, <1>3, <1>5, <1>6

\* The sum of natural numbers is one, and grows with its values.
LEMMA SumGrows ==
  ASSUME NEW v, NEW w, NEW n \in Nat, \A i \in 1..n : v[i] \in Nat /\ w[i] \in Nat /\ v[i] <= w[i]
  PROVE  Sum(v, n) \in Nat /\ Sum(w, n) \in Nat /\ Sum(v, n) <= Sum(w, n)
<1> DEFINE Right(i) == Sum(v, i) \in Nat /\ Sum(w, i) \in Nat /\ Sum(v, i) <= Sum(w, i)
           Wrong == {i \in 0..n : ~Right(i)}
<1>1. SUFFICES ASSUME Wrong # {} PROVE FALSE
  OBVIOUS
<1>2. PICK i \in Wrong : \A j \in Wrong : i <= j
  <2>1. Wrong \subseteq Nat
    OBVIOUS
  <2> HIDE DEF Wrong
  <2> QED BY <1>1, <2>1, LeastExists
<1>3. i # 0
  BY SumOfNone
<1>4. PICK m \in Nat : i = m + 1 /\ m \in 0..n /\ ~(i <= m) /\ i \in 1..n
  <2>1. i - 1 \in Nat /\ i = (i - 1) + 1 /\ i - 1 \in 0..n /\ ~(i <= i - 1) /\ i \in 1..n
    BY <1>3
  <2> QED BY <2>1
<1>5. Right(m)
  BY <1>2, <1>4
<1>6. Sum(v, i) = Sum(v, m) + v[i] /\ Sum(w, i) = Sum(w, m) + w[i]
  BY <1>4, SumNext
<1>7. v[i] \in Nat /\ w[i] \in Nat /\ v[i] <= w[i]
  BY <1>4
<1>8. Right(i)
  <2> HIDE DEF Wrong
  <2> QED BY <1>5, <1>6, <1>7
<1> QED BY <1>8

LEMMA SumOfZeros ==
  ASSUME NEW w, NEW n \in Nat, \A i \in 1..n : w[i] = 0
  PROVE  Sum(w, n) = 0
<1> DEFINE Wrong == {i \in 0..n : Sum(w, i) # 0}
<1>1. SUFFICES ASSUME Wrong # {} PROVE FALSE
  OBVIOUS
<1>2. PICK i \in Wrong : \A j \in Wrong : i <= j
  <2>1. Wrong \subseteq Nat
    OBVIOUS
  <2> HIDE DEF Wrong
  <2> QED BY <1>1, <2>1, LeastExists
<1>3. i # 0
  BY SumOfNone
<1>4. i - 1 \in Nat /\ i = (i - 1) + 1 /\ i - 1 \in 0..n /\ ~(i <= i - 1) /\ i \in 1..n
  BY <1>3
<1>5. Sum(w, i - 1) = 0 /\ w[i] = 0
  BY <1>2, <1>4
<1>6. Sum(w, (i - 1) + 1) = Sum(w, i - 1) + w[(i - 1) + 1]
  BY <1>4, SumNext
<1> QED BY <1>4, <1>5, <1>6

-----------------------------------------------------------------------------
(* Runs of additions.                                                      *)

LEMMA RunCounts ==
  ASSUME NEW a \in Seq(Addition)
  PROVE  RunSum(a) \in Nat
<1>1. Len(a) \in Nat /\ DOMAIN a = 1..Len(a) /\ \A i \in 1..Len(a) : a[i] \in Addition
  BY LenProperties, ElementOfSeq
<1>2. \A i \in 1..Len(a) : a[i].points \in Nat
  BY <1>1, HotStateAssumption DEF Addition
<1> DEFINE v == [i \in DOMAIN a |-> IF i \in Run(a) THEN a[i].points ELSE 0]
<1>3. \A i \in 1..Len(a) : v[i] \in Nat /\ v[i] <= v[i]
  BY <1>1, <1>2
<1>4. RunSum(a) = Sum(v, Len(a))
  BY DEF RunSum
<1> HIDE DEF v
<1> QED BY <1>1, <1>3, <1>4, SumGrows

\* An addition goes on with the run before it, or starts anew.
LEMMA RunGrows ==
  ASSUME NEW a \in Seq(Addition), NEW x \in Addition
  PROVE  RunSum(Append(a, x)) =
           (IF a # <<>> /\ x.at < Last(a).at + RiskTtl THEN RunSum(a) ELSE 0) + x.points
<1> DEFINE b == Append(a, x)
           n == Len(a)
           on == a # <<>> /\ x.at < Last(a).at + RiskTtl
           v == [i \in DOMAIN a |-> IF i \in Run(a) THEN a[i].points ELSE 0]
           w == [i \in DOMAIN b |-> IF i \in Run(b) THEN b[i].points ELSE 0]
           zero == [i \in DOMAIN a |-> 0]
<1>1. /\ n \in Nat /\ DOMAIN a = 1..n /\ \A i \in 1..n : a[i] \in Addition
      /\ b \in Seq(Addition) /\ Len(b) = n + 1 /\ DOMAIN b = 1..(n + 1)
      /\ b[n + 1] = x /\ \A i \in 1..n : b[i] = a[i]
  BY LenProperties, ElementOfSeq, AppendProperties
<1>2. a # <<>> <=> n # 0
  BY <1>1, EmptySeq
<1> HIDE DEF b, n
<1>3. n + 1 \in Run(b)
  BY <1>1 DEF Run
<1>4. ASSUME NEW i \in 1..n PROVE i \in Run(b) <=> on /\ i \in Run(a)
  <2>1. n # 0 /\ on = (b[n + 1].at < b[n].at + RiskTtl)
    BY <1>1, <1>2 DEF Last, n
  <2>2. i..n = i..(n - 1) \cup {n}
    BY <1>1
  <2>3. i \in Run(b) <=> \A j \in i..n : b[j + 1].at < b[j].at + RiskTtl
    <3>1. i \in 1..(n + 1) /\ (n + 1) - 1 = n
      BY <1>1
    <3> QED BY <1>1, <3>1 DEF Run
  <2>4. i \in Run(a) <=> \A j \in i..(n - 1) : a[j + 1].at < a[j].at + RiskTtl
    BY <1>1 DEF Run, n
  <2>5. \A j \in i..(n - 1) : a[j + 1] = b[j + 1] /\ a[j] = b[j]
    BY <1>1
  <2> HIDE DEF on
  <2> QED BY <2>1, <2>2, <2>3, <2>4, <2>5
<1>5. Sum(w, n + 1) = Sum(w, n) + x.points
  <2>1. w[n + 1] = x.points
    BY <1>1, <1>3
  <2> HIDE DEF w
  <2> QED BY <1>1, <2>1, SumNext
<1>6. CASE on
  <2>1. \A i \in 1..n : w[i] = v[i]
    BY <1>1, <1>4, <1>6
  <2>2. Sum(w, n) = Sum(v, n)
    <3> HIDE DEF v, w
    <3> QED BY <1>1, <2>1, SumEqual
  <2>3. RunSum(a) = Sum(v, n) /\ RunSum(b) = Sum(w, n + 1)
    BY <1>1 DEF RunSum, n
  <2> HIDE DEF v, w
  <2> QED BY <1>5, <1>6, <2>2, <2>3 DEF b
<1>7. CASE ~on
  <2>1. \A i \in 1..n : w[i] = 0
    BY <1>1, <1>4, <1>7
  <2>2. Sum(w, n) = 0
    <3> HIDE DEF w
    <3> QED BY <1>1, <2>1, SumOfZeros
  <2>3. RunSum(b) = Sum(w, n + 1)
    BY <1>1 DEF RunSum
  <2> HIDE DEF w
  <2> QED BY <1>5, <1>7, <2>2, <2>3 DEF b
<1> QED BY <1>6, <1>7

-----------------------------------------------------------------------------
(* The invariant.                                                          *)

LEMMA HotStateInit == Init => IInv
<1> SUFFICES ASSUME Init PROVE IInv
  OBVIOUS
<1>1. WindowsSound
  BY NothingIsSound DEF Init, WindowsSound
<1>2. ItemsKept
  BY DEF Init, ItemsKept, Kept
<1>3. RisksTyped
  BY DEF Init, RisksTyped
<1>4. RisksFounded
  <2>1. <<>> \in Seq(Addition)
    BY EmptySeq
  <2> QED BY <2>1 DEF Init, RisksFounded, Founded
<1> QED BY <1>1, <1>2, <1>3, <1>4 DEF Init, IInv

LEMMA RecordHitKeeps ==
  ASSUME IInv, NEW k \in Key, NEW ts \in Timestamp, RecordHit(k, ts)
  PROVE  IInv'
<1> PICK n : n = Drop(windows[k], ts - Window)
  OBVIOUS
<1>1. /\ windows \in [Key -> Seq(Timestamp)] /\ hits \in [Key -> Seq(Timestamp)]
      /\ \A q \in Key : Sound(windows[q], hits[q])
  BY DEF IInv, WindowsSound
<1>2. ts - Window \in Int
  BY HotStateAssumption
<1>3. /\ n \in 0..Len(windows[k])
      /\ \A i \in 1..n : windows[k][i] < ts - Window
      /\ n < Len(windows[k]) => windows[k][n + 1] >= ts - Window
  BY <1>1, <1>2, DropStops
<1>4. /\ windows' = [windows EXCEPT ![k] = Append(SubSeq(windows[k], n + 1, Len(windows[k])), ts)]
      /\ hits' = [hits EXCEPT ![k] = Append(hits[k], ts)]
      /\ \A i \in DOMAIN hits[k] : ts >= hits[k][i] - Lateness
      /\ UNCHANGED <<clock, distinct, risks, seenAt, added>>
  BY DEF RecordHit
<1>5. PICK v : v = Append(SubSeq(windows[k], n + 1, Len(windows[k])), ts)
  OBVIOUS
<1>6. PICK g : g = Append(hits[k], ts)
  OBVIOUS
<1>7. v \in Seq(Timestamp) /\ g \in Seq(Timestamp) /\ Sound(v, g)
  <2>1. windows[k] \in Seq(Timestamp) /\ hits[k] \in Seq(Timestamp) /\ Sound(windows[k], hits[k])
    BY <1>1
  <2>2. \A i \in 1..Len(hits[k]) : ts >= hits[k][i] - Lateness
    BY <1>4, <2>1, LenProperties
  <2> QED BY <1>3, <1>5, <1>6, <2>1, <2>2, HitKeepsSound
<1>8. windows' = [windows EXCEPT ![k] = v] /\ hits' = [hits EXCEPT ![k] = g]
  BY <1>4, <1>5, <1>6
<1>9. WindowsSound'
  <2>1. windows' \in [Key -> Seq(Timestamp)] /\ hits' \in [Key -> Seq(Timestamp)]
    BY <1>1, <1>7, <1>8
  <2>2. ASSUME NEW q \in Key PROVE Sound(windows'[q], hits'[q])
    <3>1. CASE q = k
      BY <1>1, <1>7, <1>8, <3>1
    <3>2. CASE q # k
      <4>1. windows'[q] = windows[q] /\ hits'[q] = hits[q]
        BY <1>1, <1>8, <3>2
      <4> QED BY <1>1, <4>1
    <3> QED BY <3>1, <3>2
  <2>3. \A q \in Key : Sound(windows[q], hits[q])'
    BY <2>2 DEF Sound
  <2> QED BY <2>1, <2>3 DEF WindowsSound
<1>10. clock' \in Nat /\ ItemsKept' /\ RisksTyped' /\ RisksFounded'
  BY <1>4 DEF IInv, ItemsKept, RisksTyped, Kept, RisksFounded, Founded
<1> QED BY <1>9, <1>10 DEF IInv

LEMMA RecordDistinctKeeps ==
  ASSUME IInv, NEW k \in Key, NEW item \in Item, RecordDistinct(k, item)
  PROVE  IInv'
<1>1. /\ clock \in Nat /\ DOMAIN distinct = Key /\ DOMAIN seenAt = Key
      /\ \A q \in Key : Kept(distinct[q], seenAt[q], clock)
  BY DEF IInv, ItemsKept
<1>2. PICK d : d = distinct[k]
  OBVIOUS
<1>3. PICK s : s = seenAt[k]
  OBVIOUS
<1>4. PICK live : live = {i \in DOMAIN d : d[i] > clock}
  OBVIOUS
<1>5. PICK d1 : d1 = [i \in live \cup {item} |-> IF i = item THEN clock + ItemTtl ELSE d[i]]
  OBVIOUS
<1>6. PICK s1 : s1 = [i \in DOMAIN s \cup {item} |-> IF i = item THEN clock ELSE s[i]]
  OBVIOUS
<1>7. /\ distinct' = [distinct EXCEPT ![k] = d1]
      /\ seenAt' = [seenAt EXCEPT ![k] = s1]
      /\ UNCHANGED <<clock, windows, risks, hits, added>>
  BY <1>2, <1>3, <1>4, <1>5, <1>6 DEF RecordDistinct
<1>8. Kept(d1, s1, clock)
  <2>1. Kept(d, s, clock)
    BY <1>1, <1>2, <1>3
  <2>2. DOMAIN d1 = live \cup {item} /\ DOMAIN s1 = DOMAIN s \cup {item}
    BY <1>5, <1>6
  <2>3. ItemTtl \in Nat /\ clock + ItemTtl \in Nat
    BY <1>1, HotStateAssumption
  <2>4. s1 \in [DOMAIN s1 -> Nat]
    BY <1>1, <1>6, <2>1, <2>2 DEF Kept
  <2>5. d1 \in [DOMAIN d1 -> Nat]
    BY <1>4, <1>5, <2>1, <2>2, <2>3 DEF Kept
  <2>6. DOMAIN s1 \subseteq Item /\ DOMAIN d1 \subseteq DOMAIN s1
    BY <1>4, <2>1, <2>2 DEF Kept
  <2>7. \A i \in DOMAIN d1 : d1[i] = s1[i] + ItemTtl
    BY <1>4, <1>5, <1>6, <2>1, <2>2 DEF Kept
  <2>8. ASSUME NEW i \in DOMAIN s1 \ DOMAIN d1 PROVE s1[i] + ItemTtl <= clock
    <3>1. i \in DOMAIN s /\ i # item /\ i \notin live /\ s1[i] = s[i] /\ s[i] \in Nat
      BY <1>6, <2>1, <2>2 DEF Kept
    <3>2. CASE i \in DOMAIN d
      <4>1. d[i] = s[i] + ItemTtl /\ ~(d[i] > clock)
        BY <1>4, <2>1, <3>1, <3>2 DEF Kept
      <4> QED BY <1>1, <2>3, <3>1, <4>1
    <3>3. CASE i \notin DOMAIN d
      BY <2>1, <3>1, <3>3 DEF Kept
    <3> QED BY <3>2, <3>3
  <2> QED BY <2>4, <2>5, <2>6, <2>7, <2>8 DEF Kept
<1>9. ItemsKept'
  <2>1. DOMAIN distinct' = Key /\ DOMAIN seenAt' = Key
    BY <1>1, <1>7
  <2>2. ASSUME NEW q \in Key PROVE Kept(distinct[q], seenAt[q], clock)'
    <3>1. CASE q = k
      <4>1. distinct'[q] = d1 /\ seenAt'[q] = s1 /\ clock' = clock
        BY <1>1, <1>7, <3>1
      <4> QED BY <1>8, <4>1 DEF Kept
    <3>2. CASE q # k
      <4>1. distinct'[q] = distinct[q] /\ seenAt'[q] = seenAt[q] /\ clock' = clock
        BY <1>1, <1>7, <3>2
      <4>2. Kept(distinct[q], seenAt[q], clock)
        BY <1>1
      <4> QED BY <4>1, <4>2 DEF Kept
    <3> QED BY <3>1, <3>2
  <2> QED BY <2>1, <2>2 DEF ItemsKept
<1>10. clock' \in Nat /\ WindowsSound' /\ RisksTyped' /\ RisksFounded'
  BY <1>7 DEF IInv, WindowsSound, Sound, RisksTyped, RisksFounded, Founded, RecordDistinct
<1> QED BY <1>9, <1>10 DEF IInv

LEMMA ResetKeyKeeps ==
  ASSUME IInv, NEW k \in Key, ResetKey(k)
  PROVE  IInv'
<1>1. /\ windows \in [Key -> Seq(Timestamp)] /\ hits \in [Key -> Seq(Timestamp)]
      /\ DOMAIN distinct = Key /\ DOMAIN seenAt = Key
      /\ \A q \in Key : Sound(windows[q], hits[q]) /\ Kept(distinct[q], seenAt[q], clock)
  BY DEF IInv, WindowsSound, ItemsKept
<1>2. /\ windows' = [windows EXCEPT ![k] = <<>>] /\ hits' = [hits EXCEPT ![k] = <<>>]
      /\ distinct' = [distinct EXCEPT ![k] = <<>>] /\ seenAt' = [seenAt EXCEPT ![k] = <<>>]
      /\ UNCHANGED <<clock, risks, added>>
  BY DEF ResetKey
<1>3. Kept(<<>>, <<>>, clock)
  BY DEF Kept
<1>4. ASSUME NEW q \in Key PROVE (Sound(windows[q], hits[q]) /\ Kept(distinct[q], seenAt[q], clock))'
  <2>1. CASE q = k
    <3>1. windows'[q] = <<>> /\ hits'[q] = <<>> /\ distinct'[q] = <<>> /\ seenAt'[q] = <<>>
      BY <1>1, <1>2, <2>1
    <3> QED BY <1>2, <1>3, <3>1, NothingIsSound DEF Sound, Kept
  <2>2. CASE q # k
    <3>1. /\ windows'[q] = windows[q] /\ hits'[q] = hits[q]
          /\ distinct'[q] = distinct[q] /\ seenAt'[q] = seenAt[q] /\ clock' = clock
      BY <1>1, <1>2, <2>2
    <3>2. Sound(windows[q], hits[q]) /\ Kept(distinct[q], seenAt[q], clock)
      BY <1>1
    <3> QED BY <3>1, <3>2 DEF Sound, Kept
  <2> QED BY <2>1, <2>2
<1>5. WindowsSound'
  <2>1. windows' \in [Key -> Seq(Timestamp)] /\ hits' \in [Key -> Seq(Timestamp)]
    BY <1>1, <1>2, NothingIsSound
  <2> QED BY <1>4, <2>1 DEF WindowsSound
<1>6. ItemsKept'
  <2>1. DOMAIN distinct' = Key /\ DOMAIN seenAt' = Key
    BY <1>1, <1>2
  <2> QED BY <1>4, <2>1 DEF ItemsKept
<1>7. clock' \in Nat /\ RisksTyped' /\ RisksFounded'
  BY <1>2 DEF IInv, RisksTyped, RisksFounded, Founded
<1> QED BY <1>5, <1>6, <1>7 DEF IInv

LEMMA AddEntityRiskKeeps ==
  ASSUME IInv, NEW e \in Entity, NEW p \in Points, AddEntityRisk(e, p)
  PROVE  IInv'
<1>1. DOMAIN risks \subseteq Entity /\ risks \in [DOMAIN risks -> [score : 0..MaxScore, expiry : Nat]]
      /\ clock \in Nat
  BY DEF IInv, RisksTyped
<1>2. EntityRisk(e) \in 0..MaxScore
  BY <1>1, HotStateAssumption DEF EntityRisk
<1>3. SaturatingAdd(EntityRisk(e), p) \in 0..MaxScore
  BY <1>2, HotStateAssumption DEF SaturatingAdd
<1>4. clock + RiskTtl \in Nat
  BY <1>1, HotStateAssumption
<1>5. PICK r : r = [score |-> SaturatingAdd(EntityRisk(e), p), expiry |-> clock + RiskTtl]
  OBVIOUS
<1>6. r \in [score : 0..MaxScore, expiry : Nat]
  BY <1>3, <1>4, <1>5
<1>7. risks' = [x \in DOMAIN risks \cup {e} |-> IF x = e THEN r ELSE risks[x]]
  BY <1>5 DEF AddEntityRisk
<1>8. RisksTyped'
  BY <1>1, <1>6, <1>7 DEF RisksTyped
<1>9. UNCHANGED <<clock, windows, distinct, hits, seenAt>>
  BY DEF AddEntityRisk
<1>10. PICK x : x = [points |-> p, at |-> clock]
  OBVIOUS
<1>11. x \in Addition /\ x.points = p /\ x.at = clock /\ p \in Nat
  BY <1>1, <1>10, HotStateAssumption DEF Addition
<1>12. added' = [added EXCEPT ![e] = Append(@, x)] /\ added \in [Entity -> Seq(Addition)]
  BY <1>10 DEF AddEntityRisk, IInv, RisksFounded
<1>13. PICK a \in Seq(Addition) : a = added[e]
  BY <1>12
<1>14. added' \in [Entity -> Seq(Addition)]
  BY <1>11, <1>12, AppendProperties
<1>15. RunSum(a) \in Nat /\ MaxScore \in Nat /\ RiskTtl \in Nat /\ 0 < RiskTtl
  BY RunCounts, HotStateAssumption
<1>16. SaturatingAdd(EntityRisk(e), p) = Capped(RunSum(Append(a, x)))
  <2>1. Founded(e)
    BY DEF IInv, RisksFounded
  <2>2. RunSum(Append(a, x)) = (IF a # <<>> /\ clock < Last(a).at + RiskTtl THEN RunSum(a) ELSE 0) + p
    BY <1>11, RunGrows
  <2>3. CASE a = <<>>
    <3>1. EntityRisk(e) = 0
      BY <1>13, <2>1, <2>3 DEF Founded, EntityRisk
    <3> QED BY <1>11, <2>2, <2>3, <3>1 DEF SaturatingAdd, Capped
  <2>4. CASE a # <<>>
    <3>1. /\ EntityRisk(e) = IF Last(a).at + RiskTtl > clock THEN Capped(RunSum(a)) ELSE 0
      BY <1>13, <2>1, <2>4 DEF Founded, EntityRisk
    <3>2. Last(a).at \in Nat
      <4>1. Len(a) \in 1..Len(a)
        BY <2>4, EmptySeq, LenProperties
      <4>2. a[Len(a)] \in Addition
        BY <4>1, ElementOfSeq
      <4> QED BY <4>2 DEF Last, Addition
    <3>3. CASE clock < Last(a).at + RiskTtl
      <4>1. EntityRisk(e) = Capped(RunSum(a)) /\ RunSum(Append(a, x)) = RunSum(a) + p
        BY <1>1, <1>15, <2>2, <2>4, <3>1, <3>2, <3>3
      <4> QED BY <1>11, <1>15, <4>1 DEF SaturatingAdd, Capped
    <3>4. CASE ~(clock < Last(a).at + RiskTtl)
      <4>1. EntityRisk(e) = 0 /\ RunSum(Append(a, x)) = p
        BY <1>1, <1>11, <1>15, <2>2, <3>1, <3>2, <3>4
      <4> QED BY <1>11, <1>15, <4>1 DEF SaturatingAdd, Capped
    <3> QED BY <3>3, <3>4
  <2> QED BY <2>3, <2>4
<1>17. ASSUME NEW y \in Entity PROVE Founded(y)'
  <2>1. Founded(y)
    BY DEF IInv, RisksFounded
  <2>2. CASE y = e
    <3>1. added'[y] = Append(a, x) /\ Append(a, x) # <<>> /\ Last(Append(a, x)) = x
      BY <1>11, <1>12, <1>13, <2>2, AppendProperties DEF Last
    <3>2. y \in DOMAIN risks' /\ risks'[y] = r
      BY <1>7, <2>2
    <3> QED BY <1>5, <1>11, <1>16, <3>1, <3>2 DEF Founded
  <2>3. CASE y # e
    <3>1. /\ added'[y] = added[y] /\ (y \in DOMAIN risks' <=> y \in DOMAIN risks)
          /\ y \in DOMAIN risks => risks'[y] = risks[y]
      BY <1>7, <1>12, <2>3
    <3> QED BY <2>1, <3>1 DEF Founded
  <2> QED BY <2>2, <2>3
<1> QED BY <1>8, <1>9, <1>14, <1>17 DEF IInv, WindowsSound, Sound, ItemsKept, Kept, RisksFounded

LEMMA ResetEntityKeeps ==
  ASSUME IInv, NEW e \in Entity, ResetEntity(e)
  PROVE  IInv'
<1>1. /\ risks' = [x \in DOMAIN risks \ {e} |-> risks[x]]
      /\ UNCHANGED <<clock, windows, distinct, hits, seenAt>>
  BY DEF ResetEntity, Restrict
<1>2. RisksTyped'
  BY <1>1 DEF IInv, RisksTyped
<1>3. added' = [added EXCEPT ![e] = <<>>] /\ <<>> \in Seq(Addition)
  BY EmptySeq DEF ResetEntity
<1>4. added' \in [Entity -> Seq(Addition)]
  BY <1>3 DEF IInv, RisksFounded
<1>5. ASSUME NEW x \in Entity PROVE Founded(x)'
  <2>1. Founded(x) /\ added \in [Entity -> Seq(Addition)]
    BY DEF IInv, RisksFounded
  <2>2. CASE x = e
    <3>1. added'[x] = <<>> /\ x \notin DOMAIN risks'
      BY <1>1, <1>3, <2>1, <2>2
    <3> QED BY <3>1 DEF Founded
  <2>3. CASE x # e
    <3>1. /\ added'[x] = added[x] /\ (x \in DOMAIN risks' <=> x \in DOMAIN risks)
          /\ x \in DOMAIN risks => risks'[x] = risks[x]
      BY <1>1, <1>3, <2>1, <2>3
    <3> QED BY <2>1, <3>1 DEF Founded
  <2> QED BY <2>2, <2>3
<1> QED BY <1>1, <1>2, <1>4, <1>5 DEF IInv, WindowsSound, Sound, ItemsKept, Kept, RisksFounded

LEMMA TickKeeps ==
  ASSUME IInv, Tick
  PROVE  IInv'
<1>1. /\ clock \in Nat /\ clock' = clock + 1
      /\ UNCHANGED <<windows, distinct, risks, hits, seenAt, added>>
  BY DEF IInv, Tick
<1>2. ASSUME NEW k \in Key PROVE Kept(distinct[k], seenAt[k], clock)'
  <2>1. Kept(distinct[k], seenAt[k], clock) /\ distinct'[k] = distinct[k] /\ seenAt'[k] = seenAt[k]
    BY <1>1 DEF IInv, ItemsKept
  <2>2. \A i \in DOMAIN seenAt[k] : seenAt[k][i] \in Nat
    BY <2>1 DEF Kept
  <2>3. \A i \in DOMAIN seenAt[k] \ DOMAIN distinct[k] : seenAt[k][i] + ItemTtl <= clock + 1
    <3> TAKE i \in DOMAIN seenAt[k] \ DOMAIN distinct[k]
    <3>1. seenAt[k][i] + ItemTtl <= clock /\ seenAt[k][i] \in Nat
      BY <2>1, <2>2 DEF Kept
    <3> QED BY <1>1, <3>1, HotStateAssumption
  <2> QED BY <1>1, <2>1, <2>3 DEF Kept
<1>3. ItemsKept'
  BY <1>1, <1>2 DEF IInv, ItemsKept
<1>4. clock' \in Nat /\ WindowsSound' /\ RisksTyped' /\ RisksFounded'
  BY <1>1 DEF IInv, WindowsSound, Sound, RisksTyped, RisksFounded, Founded
<1> QED BY <1>3, <1>4 DEF IInv

LEMMA HotStateNext == IInv /\ [Next]_vars => IInv'
<1> SUFFICES ASSUME IInv, [Next]_vars PROVE IInv'
  OBVIOUS
<1>1. CASE Tick
  BY <1>1, TickKeeps
<1>2. ASSUME NEW k \in Key, NEW ts \in Timestamp, RecordHit(k, ts) PROVE IInv'
  BY <1>2, RecordHitKeeps
<1>3. ASSUME NEW k \in Key, NEW item \in Item, RecordDistinct(k, item) PROVE IInv'
  BY <1>3, RecordDistinctKeeps
<1>4. ASSUME NEW k \in Key, ResetKey(k) PROVE IInv'
  BY <1>4, ResetKeyKeeps
<1>5. ASSUME NEW e \in Entity, NEW p \in Points, AddEntityRisk(e, p) PROVE IInv'
  BY <1>5, AddEntityRiskKeeps
<1>6. ASSUME NEW e \in Entity, ResetEntity(e) PROVE IInv'
  BY <1>6, ResetEntityKeeps
<1>7. CASE UNCHANGED vars
  BY <1>7 DEF vars, IInv, WindowsSound, Sound, ItemsKept, Kept, RisksTyped, RisksFounded, Founded
<1> QED BY <1>1, <1>2, <1>3, <1>4, <1>5, <1>6, <1>7 DEF Next

LEMMA HotStateInvariant == Spec => []IInv
BY HotStateInit, HotStateNext, PTL DEF Spec

-----------------------------------------------------------------------------
(* What the invariant shows.                                               *)

LEMMA SoundCountsWithinLateness ==
  ASSUME NEW w \in Seq(Timestamp), NEW h \in Seq(Timestamp), Sound(w, h), h # <<>>,
         NEW i \in 1..Len(h), NEW ts, ts = h[Len(h)]
  PROVE  /\ h[i] \in (ts - Window + Lateness)..ts => i > Len(h) - Len(w)
         /\ i > Len(h) - Len(w) => h[i] \in (ts - Window - Lateness)..(ts + Lateness)
<1>1. /\ Len(w) \in Nat /\ Len(h) \in Nat /\ Len(w) <= Len(h)
      /\ \A j \in 1..Len(h) : h[j] \in Int
      /\ Window \in Nat /\ Lateness \in Nat
  <2>1. Len(w) \in Nat /\ Len(h) \in Nat
    BY LenProperties
  <2>2. \A j \in 1..Len(h) : h[j] \in Timestamp
    BY ElementOfSeq
  <2> QED BY <2>1, <2>2, HotStateAssumption DEF Sound
<1>2. Len(h) \in 1..Len(h) /\ h[i] \in Int /\ ts \in Int
  BY <1>1
<1>3. \A j \in 1..Len(h) : ts >= h[j] - Lateness
  <2> SUFFICES ASSUME NEW j \in 1..Len(h) PROVE ts >= h[j] - Lateness
    OBVIOUS
  <2>1. CASE j = Len(h)
    BY <1>1, <1>2, <2>1
  <2>2. CASE j # Len(h)
    <3>1. j \in 1..(Len(h) - 1)
      BY <1>1, <2>2
    <3> QED BY <1>2, <3>1 DEF Sound
  <2> QED BY <2>1, <2>2
<1>4. ASSUME ~(i > Len(h) - Len(w)) PROVE h[i] < ts - Window + Lateness
  <2>1. i \in 1..(Len(h) - Len(w))
    BY <1>1, <1>4
  <2>2. PICK j \in 1..Len(h) : h[i] < h[j] - Window
    BY <2>1 DEF Sound
  <2>3. h[j] \in Int /\ ts >= h[j] - Lateness
    BY <1>1, <1>3
  <2>4. \A a, b, t, l, d \in Int : a < b - d /\ t >= b - l => a < t - d + l
    OBVIOUS
  <2>5. Window \in Int /\ Lateness \in Int
    BY <1>1
  <2> QED BY <1>2, <2>2, <2>3, <2>4, <2>5
<1>5. ASSUME i > Len(h) - Len(w) PROVE h[i] >= ts - Window - Lateness /\ h[i] <= ts + Lateness
  <2>1. PICK first : first = Len(h) - Len(w) + 1
    OBVIOUS
  <2>2. first \in 1..Len(h) /\ first <= i /\ 1 \in 1..Len(w)
    BY <1>1, <1>5, <2>1
  <2>3. h[first] = w[1]
    BY <1>1, <2>1, <2>2 DEF Sound
  <2>4. h[first] >= ts - Window /\ h[first] \in Int
    BY <1>1, <2>2, <2>3 DEF Sound
  <2>5. h[i] >= h[first] - Lateness
    <3>1. CASE i = first
      BY <1>1, <2>4, <3>1
    <3>2. CASE i # first
      <4>1. first \in 1..(i - 1)
        BY <1>1, <2>2, <3>2
      <4> QED BY <4>1 DEF Sound
    <3> QED BY <3>1, <3>2
  <2>6. ts >= h[i] - Lateness
    BY <1>3
  <2>7. \A a, b, t, l, d \in Int : b >= t - d /\ a >= b - l /\ t >= a - l => a >= t - d - l /\ a <= t + l
    OBVIOUS
  <2>8. Window \in Int /\ Lateness \in Int
    BY <1>1
  <2> QED BY <1>2, <2>4, <2>5, <2>6, <2>7, <2>8
<1> QED BY <1>1, <1>2, <1>4, <1>5

LEMMA RiskIsRun ==
  ASSUME IInv, NEW e \in Entity
  PROVE  EntityRisk(e) = Capped(SumOfStreak(e))
<1>1. Founded(e) /\ clock \in Nat /\ added[e] \in Seq(Addition)
  BY DEF IInv, RisksFounded
<1>2. PICK a \in Seq(Addition) : a = added[e]
  BY <1>1
<1> DEFINE v == [i \in DOMAIN a |-> IF i \in Streak(e) THEN a[i].points ELSE 0]
<1>3. SumOfStreak(e) = Sum(v, Len(a))
  BY <1>2 DEF SumOfStreak
<1>4. Len(a) \in Nat /\ DOMAIN a = 1..Len(a) /\ MaxScore \in Nat /\ RiskTtl \in Nat
  BY LenProperties, HotStateAssumption
<1>5. CASE a = <<>>
  <2>1. EntityRisk(e) = 0
    BY <1>1, <1>2, <1>5 DEF Founded, EntityRisk
  <2>2. Len(a) = 0
    BY <1>5
  <2> HIDE DEF v
  <2>3. SumOfStreak(e) = 0
    BY <1>3, <2>2, SumOfNone
  <2> QED BY <1>4, <2>1, <2>3 DEF Capped
<1>6. CASE a # <<>> /\ clock < Last(a).at + RiskTtl
  <2>1. Streak(e) = Run(a)
    BY <1>2, <1>6 DEF Streak, Run
  <2>2. SumOfStreak(e) = RunSum(a)
    BY <1>2, <2>1 DEF SumOfStreak, RunSum
  <2>3. EntityRisk(e) = risks[e].score
    BY <1>1, <1>2, <1>6 DEF Founded, EntityRisk
  <2> QED BY <1>1, <1>2, <1>6, <2>2, <2>3 DEF Founded
<1>7. CASE a # <<>> /\ ~(clock < Last(a).at + RiskTtl)
  <2>1. \A i \in 1..Len(a) : v[i] = 0
    BY <1>2, <1>4, <1>7 DEF Streak
  <2>2. SumOfStreak(e) = 0
    <3> HIDE DEF v
    <3> QED BY <1>3, <1>4, <2>1, SumOfZeros
  <2>3. EntityRisk(e) = 0
    BY <1>1, <1>2, <1>7 DEF Founded, EntityRisk
  <2> QED BY <1>4, <2>2, <2>3 DEF Capped
<1> QED BY <1>5, <1>6, <1>7

LEMMA IInvShows == IInv => TypeOK /\ WindowOffByLateness /\ DistinctExact /\ RiskIsStreak
<1> SUFFICES ASSUME IInv PROVE TypeOK /\ WindowOffByLateness /\ DistinctExact /\ RiskIsStreak
  OBVIOUS
<1>1. TypeOK
  BY DEF TypeOK, IInv, WindowsSound, Sound, ItemsKept, Kept, RisksTyped
<1>2. WindowOffByLateness
  <2> SUFFICES ASSUME NEW k \in Key, hits[k] # <<>>, NEW i \in DOMAIN hits[k]
               PROVE /\ hits[k][i] \in (Last(hits[k]) - Window + Lateness)..Last(hits[k])
                           => i > Evicted(k)
                     /\ i > Evicted(k) => hits[k][i] \in
                          (Last(hits[k]) - Window - Lateness)..(Last(hits[k]) + Lateness)
    BY DEF WindowOffByLateness
  <2>1. windows[k] \in Seq(Timestamp) /\ hits[k] \in Seq(Timestamp) /\ Sound(windows[k], hits[k])
    BY DEF IInv, WindowsSound
  <2>2. i \in 1..Len(hits[k])
    BY <2>1, LenProperties
  <2> QED BY <2>1, <2>2, SoundCountsWithinLateness DEF Last, Evicted
<1>3. DistinctExact
  <2> SUFFICES ASSUME NEW k \in Key
               PROVE {i \in DOMAIN distinct[k] : distinct[k][i] > clock}
                       = {i \in DOMAIN seenAt[k] : clock < seenAt[k][i] + ItemTtl}
    BY DEF DistinctExact, CountDistinct
  <2>1. Kept(distinct[k], seenAt[k], clock) /\ clock \in Nat
    BY DEF IInv, ItemsKept
  <2>2. /\ DOMAIN distinct[k] \subseteq DOMAIN seenAt[k]
        /\ \A i \in DOMAIN distinct[k] : distinct[k][i] = seenAt[k][i] + ItemTtl
        /\ \A i \in DOMAIN seenAt[k] : seenAt[k][i] \in Nat
        /\ \A i \in DOMAIN seenAt[k] \ DOMAIN distinct[k] : seenAt[k][i] + ItemTtl <= clock
    BY <2>1 DEF Kept
  <2>3. \A i \in DOMAIN seenAt[k] : seenAt[k][i] + ItemTtl \in Nat
    BY <2>2, HotStateAssumption
  <2> QED BY <2>1, <2>2, <2>3
<1>4. RiskIsStreak
  BY RiskIsRun DEF RiskIsStreak, Capped
<1> QED BY <1>1, <1>2, <1>3, <1>4

\* The maps hold what their types say, a window never more than its history
\* and a score never more than u32::MAX (mod.rs:41-76).
THEOREM HotStateTypeCorrect == Spec => []TypeOK
BY HotStateInvariant, IInvShows, PTL

\* However late hits arrive, within the lateness that bounds them, a window
\* misses no hit of the shortened window and counts none outside the widened
\* one (record_hit, mod.rs:81-103).
THEOREM WindowIsOffByLateness == Spec => []WindowOffByLateness
BY HotStateInvariant, IInvShows, PTL

\* Lazy removal never changes what count_distinct answers (mod.rs:127-159).
THEOREM DistinctIsExact == Spec => []DistinctExact
BY HotStateInvariant, IInvShows, PTL

\* Whatever the order of additions, gaps, resets and readings, the risk of an entity
\* is the sum of its last unbroken streak, cut at u32::MAX, and nothing one TTL after
\* the streak's end (add_entity_risk, get_entity_risk, mod.rs:161-202).
THEOREM RiskIsOfStreak == Spec => []RiskIsStreak
BY HotStateInvariant, IInvShows, PTL

-----------------------------------------------------------------------------
(* What one event does to a window and to a set of routes.                 *)

\* The deque w after a hit, and the items d and their sightings s after a recording.
Slid(w, ts) == Append(SubSeq(w, Drop(w, ts - Window) + 1, Len(w)), ts)
Renewed(d, item, now) ==
  [i \in {x \in DOMAIN d : d[x] > now} \cup {item} |-> IF i = item THEN now + ItemTtl ELSE d[i]]
Sighted(s, item, now) == [i \in DOMAIN s \cup {item} |-> IF i = item THEN now ELSE s[i]]

LEMMA HitSlides ==
  ASSUME NEW w \in Seq(Timestamp), NEW h \in Seq(Timestamp), Sound(w, h),
         NEW ts \in Timestamp, \A i \in 1..Len(h) : ts >= h[i] - Lateness
  PROVE  /\ Slid(w, ts) \in Seq(Timestamp) /\ Append(h, ts) \in Seq(Timestamp)
         /\ Sound(Slid(w, ts), Append(h, ts))
<1>1. PICK n : n = Drop(w, ts - Window)
  OBVIOUS
<1>2. ts - Window \in Int
  BY HotStateAssumption
<1>3. /\ n \in 0..Len(w)
      /\ \A i \in 1..n : w[i] < ts - Window
      /\ n < Len(w) => w[n + 1] >= ts - Window
  BY <1>1, <1>2, DropStops
<1>4. PICK v, g : v = Append(SubSeq(w, n + 1, Len(w)), ts) /\ g = Append(h, ts)
  OBVIOUS
<1>5. v \in Seq(Timestamp) /\ g \in Seq(Timestamp) /\ Sound(v, g)
  BY <1>3, <1>4, HitKeepsSound
<1>6. v = Slid(w, ts)
  BY <1>1, <1>4 DEF Slid
<1> QED BY <1>4, <1>5, <1>6

\* A recording leaves the items whose time is not over, and no others.
LEMMA Renewal ==
  ASSUME NEW d, NEW s, NEW now \in Nat, Kept(d, s, now), NEW item \in Item
  PROVE  /\ Kept(Renewed(d, item, now), Sighted(s, item, now), now)
         /\ \A i \in DOMAIN Renewed(d, item, now) : Renewed(d, item, now)[i] > now
<1>1. PICK live : live = {i \in DOMAIN d : d[i] > now}
  OBVIOUS
<1>2. PICK d1, s1 : /\ d1 = [i \in live \cup {item} |-> IF i = item THEN now + ItemTtl ELSE d[i]]
                    /\ s1 = [i \in DOMAIN s \cup {item} |-> IF i = item THEN now ELSE s[i]]
  OBVIOUS
<1>3. d1 = Renewed(d, item, now) /\ s1 = Sighted(s, item, now)
  BY <1>1, <1>2 DEF Renewed, Sighted
<1>4. ItemTtl \in Nat \ {0} /\ now + ItemTtl \in Nat /\ now + ItemTtl > now
  BY HotStateAssumption
<1>5. DOMAIN d1 = live \cup {item} /\ DOMAIN s1 = DOMAIN s \cup {item}
  BY <1>2
<1>6. s1 \in [DOMAIN s1 -> Nat] /\ d1 \in [DOMAIN d1 -> Nat]
  BY <1>1, <1>2, <1>4, <1>5 DEF Kept
<1>7. DOMAIN s1 \subseteq Item /\ DOMAIN d1 \subseteq DOMAIN s1
  BY <1>1, <1>5 DEF Kept
<1>8. \A i \in DOMAIN d1 : d1[i] = s1[i] + ItemTtl
  BY <1>1, <1>2, <1>5 DEF Kept
<1>9. ASSUME NEW i \in DOMAIN s1 \ DOMAIN d1 PROVE s1[i] + ItemTtl <= now
  <2>1. i \in DOMAIN s /\ i # item /\ i \notin live /\ s1[i] = s[i] /\ s[i] \in Nat
    BY <1>2, <1>5 DEF Kept
  <2>2. CASE i \in DOMAIN d
    <3>1. d[i] = s[i] + ItemTtl /\ ~(d[i] > now)
      BY <1>1, <2>1, <2>2 DEF Kept
    <3> QED BY <1>4, <2>1, <3>1
  <2>3. CASE i \notin DOMAIN d
    BY <2>1, <2>3 DEF Kept
  <2> QED BY <2>2, <2>3
<1>10. Kept(d1, s1, now)
  BY <1>6, <1>7, <1>8, <1>9 DEF Kept
<1>11. \A i \in DOMAIN d1 : d1[i] > now
  BY <1>1, <1>2, <1>4, <1>5
<1> QED BY <1>3, <1>10, <1>11

\* Routes whose time is not over are those sighted within the lifetime.
LEMMA LiveItems ==
  ASSUME NEW d, NEW s, NEW now \in Nat, Kept(d, s, now), \A i \in DOMAIN d : d[i] > now
  PROVE  DOMAIN d = {i \in DOMAIN s : now < s[i] + ItemTtl}
<1>1. ItemTtl \in Nat
  BY HotStateAssumption
<1>2. \A i \in DOMAIN d : i \in DOMAIN s /\ now < s[i] + ItemTtl
  <2> TAKE i \in DOMAIN d
  <2>1. i \in DOMAIN s /\ d[i] = s[i] + ItemTtl /\ d[i] > now /\ s[i] \in Nat
    BY DEF Kept
  <2> QED BY <1>1, <2>1
<1>3. \A i \in DOMAIN s : i \notin DOMAIN d => ~(now < s[i] + ItemTtl)
  <2> TAKE i \in DOMAIN s
  <2> HAVE i \notin DOMAIN d
  <2>1. s[i] + ItemTtl <= now /\ s[i] \in Nat
    BY DEF Kept
  <2> QED BY <1>1, <2>1
<1> QED BY <1>2, <1>3

-----------------------------------------------------------------------------
(* Windows and the events they count.                                      *)

\* g numbers the elements of H in the order of h, by their times at.
Orders(g, h, H, at) ==
  /\ \A j \in 1..Len(h) : g[j] \in H /\ at[g[j]] = h[j]
  /\ \A j, l \in 1..Len(h) : g[j] = g[l] => j = l
  /\ \A i \in H : \E j \in 1..Len(h) : g[j] = i

\* The elements of H from times lo to hi.
Within(H, at, lo, hi) == {i \in H : at[i] \in lo..hi}

\* A window counts no fewer than are in the narrow interval, and no more than are
\* in the wide one.
LEMMA WindowCounts ==
  ASSUME NEW w \in Seq(Timestamp), NEW h \in Seq(Timestamp), Sound(w, h), h # <<>>,
         NEW H, IsFiniteSet(H), NEW at, NEW g, Orders(g, h, H, at), NEW ts, ts = h[Len(h)]
  PROVE  /\ Len(w) <= Cardinality(Within(H, at, ts - Window - Lateness, ts + Lateness))
         /\ Cardinality(Within(H, at, ts - Window + Lateness, ts)) <= Len(w)
<1>1. Len(w) \in Nat /\ Len(h) \in Nat /\ Len(w) <= Len(h)
  BY LenProperties DEF Sound
<1>2. \A i \in 1..Len(h) :
        /\ h[i] \in (ts - Window + Lateness)..ts => i > Len(h) - Len(w)
        /\ i > Len(h) - Len(w) => h[i] \in (ts - Window - Lateness)..(ts + Lateness)
  BY SoundCountsWithinLateness
<1>3. IsFiniteSet(1..Len(w)) /\ Cardinality(1..Len(w)) = Len(w)
  <2>1. 1 \in Int /\ Len(w) \in Int /\ Len(w) >= 0
    BY <1>1
  <2>2. /\ IsFiniteSet(1..Len(w))
        /\ Cardinality(1..Len(w)) = IF 1 > Len(w) THEN 0 ELSE Len(w) - 1 + 1
    BY <2>1, FS_Interval
  <2> QED BY <1>1, <2>2
<1>4. PICK gone : gone = Len(h) - Len(w) /\ gone \in Nat
  BY <1>1
<1>5. PICK wide, narrow : /\ wide = Within(H, at, ts - Window - Lateness, ts + Lateness)
                          /\ narrow = Within(H, at, ts - Window + Lateness, ts)
  OBVIOUS
<1>6. IsFiniteSet(wide) /\ IsFiniteSet(narrow)
  BY <1>5, FS_Subset DEF Within
<1>7. Len(w) <= Cardinality(wide)
  <2>1. PICK f : f = [j \in 1..Len(w) |-> g[gone + j]]
    OBVIOUS
  <2>2. \A j \in 1..Len(w) : gone + j \in 1..Len(h) /\ gone + j > gone
    BY <1>1, <1>4
  <2>3. \A j \in 1..Len(w) : f[j] \in wide
    <3> TAKE j \in 1..Len(w)
    <3>1. f[j] = g[gone + j] /\ g[gone + j] \in H /\ at[g[gone + j]] = h[gone + j]
      BY <2>1, <2>2 DEF Orders
    <3>2. h[gone + j] \in (ts - Window - Lateness)..(ts + Lateness)
      BY <1>2, <1>4, <2>2
    <3> QED BY <1>5, <3>1, <3>2 DEF Within
  <2>4. \A j, l \in 1..Len(w) : f[j] = f[l] => j = l
    <3> TAKE j, l \in 1..Len(w)
    <3> HAVE f[j] = f[l]
    <3>1. g[gone + j] = g[gone + l]
      BY <2>1
    <3>2. gone + j = gone + l
      BY <2>2, <3>1 DEF Orders
    <3> QED BY <1>4, <3>2
  <2>5. f \in Injection(1..Len(w), wide)
    BY <2>1, <2>3, <2>4 DEF Injection, IsInjective
  <2>6. Cardinality(1..Len(w)) <= Cardinality(wide)
    BY <1>6, <2>5, FS_Injection
  <2> QED BY <1>3, <2>6
<1>8. Cardinality(narrow) <= Len(w)
  <2>1. PICK f : f = [i \in narrow |-> (CHOOSE j \in 1..Len(h) : g[j] = i) - gone]
    OBVIOUS
  <2>2. \A i \in narrow : \E j \in 1..Len(h) : g[j] = i /\ f[i] = j - gone /\ j > gone
    <3> TAKE i \in narrow
    <3>1. PICK j : j = CHOOSE l \in 1..Len(h) : g[l] = i
      OBVIOUS
    <3>2. i \in H /\ at[i] \in (ts - Window + Lateness)..ts
      BY <1>5 DEF Within
    <3>3. j \in 1..Len(h) /\ g[j] = i
      BY <3>1, <3>2 DEF Orders
    <3>4. at[i] = h[j]
      BY <3>3 DEF Orders
    <3>5. j > gone
      BY <1>2, <1>4, <3>2, <3>3, <3>4
    <3> QED BY <2>1, <3>1, <3>3, <3>5
  <2>3. \A i \in narrow : f[i] \in 1..Len(w)
    <3> TAKE i \in narrow
    <3>1. PICK j \in 1..Len(h) : f[i] = j - gone /\ j > gone
      BY <2>2
    <3> QED BY <1>1, <1>4, <3>1
  <2>4. \A i, l \in narrow : f[i] = f[l] => i = l
    <3> TAKE i, l \in narrow
    <3> HAVE f[i] = f[l]
    <3>1. PICK j \in 1..Len(h) : g[j] = i /\ f[i] = j - gone
      BY <2>2
    <3>2. PICK m \in 1..Len(h) : g[m] = l /\ f[l] = m - gone
      BY <2>2
    <3>3. j = m
      <4>1. j - gone = m - gone
        BY <3>1, <3>2, Zenon
      <4>2. j \in Int /\ m \in Int /\ gone \in Int
        BY <1>4
      <4> QED BY <4>1, <4>2
    <3> QED BY <3>1, <3>2, <3>3
  <2>5. f \in Injection(narrow, 1..Len(w))
    BY <2>1, <2>3, <2>4 DEF Injection, IsInjective
  <2>6. Cardinality(narrow) <= Cardinality(1..Len(w))
    BY <1>3, <2>5, FS_Injection
  <2> QED BY <1>3, <2>6
<1> QED BY <1>5, <1>7, <1>8

-----------------------------------------------------------------------------
(* What the hot state knows of the events evaluated.                       *)

LEMMA CountingRules ==
  /\ \A r \in Counting : r \in Rules /\ r.counts
  /\ \A r, q \in Counting : r.name = q.name => r = q
  /\ ApiEnumeration \in Counting
  /\ \A kind : Concerns(ApiEnumeration, kind) <=> kind.status = 404
<1>1. DOMAIN DefaultRules = 1..6
  BY DEF DefaultRules
<1>2. /\ DefaultRules[1] = BruteForce /\ DefaultRules[2] = ApiEnumeration
      /\ DefaultRules[3] = UnauthorizedBurst /\ DefaultRules[4] = DataScraping
      /\ DefaultRules[5] = KernelAnomaly /\ DefaultRules[6] = PrivilegeCreep
  BY DEF DefaultRules
<1>3. Rules = {BruteForce, ApiEnumeration, UnauthorizedBurst, DataScraping, KernelAnomaly, PrivilegeCreep}
  BY <1>1, <1>2 DEF Rules
<1>4. /\ BruteForce.name = "brute_force" /\ ApiEnumeration.name = "api_enumeration"
      /\ UnauthorizedBurst.name = "unauthorized_burst" /\ DataScraping.name = "data_scraping"
      /\ KernelAnomaly.name = "kernel_anomaly" /\ PrivilegeCreep.name = "privilege_creep"
      /\ ApiEnumeration.counts
  BY DEF BruteForce, ApiEnumeration, UnauthorizedBurst, DataScraping, KernelAnomaly, PrivilegeCreep
<1>5. \A r, q \in Rules : r.name = q.name => r = q
  BY <1>3, <1>4
<1>6. ApiEnumeration \in Counting
  BY <1>3, <1>4 DEF Counting
<1>7. \A kind : Concerns(ApiEnumeration, kind) <=> kind.status = 404
  BY <1>4 DEF Concerns
<1> QED BY <1>5, <1>6, <1>7 DEF Counting

\* A rule's key is one of those of another event if the rule concerns it too and it
\* is of the same source; likewise for routes.
LEMMA KeysTell ==
  ASSUME NEW kind, NEW other
  PROVE  /\ \A rule \in Counting :
              HitKey(rule, kind) \in HitKeys(other) <=>
                Concerns(rule, other) /\ Source(other) = Source(kind)
         /\ PathKey(kind) \in PathKeys(other) <=> other.status = 404 /\ Source(other) = Source(kind)
<1>1. ASSUME NEW rule \in Counting
      PROVE  HitKey(rule, kind) \in HitKeys(other) <=>
               Concerns(rule, other) /\ Source(other) = Source(kind)
  <2>1. ASSUME NEW r \in Counting, HitKey(rule, kind) = HitKey(r, other)
        PROVE  r = rule /\ Source(other) = Source(kind)
    <3>1. r.name = rule.name /\ Source(other) = Source(kind)
      BY <2>1 DEF HitKey
    <3> QED BY <3>1, CountingRules
  <2>2. Source(other) = Source(kind) => HitKey(rule, kind) = HitKey(rule, other)
    BY DEF HitKey
  <2> QED BY <2>1, <2>2 DEF HitKeys
<1>2. PathKey(kind) = PathKey(other) <=> Source(kind) = Source(other)
  BY DEF PathKey
<1> QED BY <1>1, <1>2 DEF PathKeys

Evaluation == [kind : EventKind, at : Timestamp, now : Nat, signals : SUBSET Rules]

\* The events recorded under a key, and their times.
Heard(k) == {i \in DOMAIN evaluated : k \in HitKeys(evaluated[i].kind)}
Asked(k) == {i \in DOMAIN evaluated : k \in PathKeys(evaluated[i].kind)}
Ats == [i \in DOMAIN evaluated |-> evaluated[i].at]

\* A key's routes were last seen when the latest of its events asked for them.
Routed(k) ==
  /\ \A i \in Asked(k) : /\ evaluated[i].kind.route \in DOMAIN seenAt[k]
                         /\ evaluated[i].now <= seenAt[k][evaluated[i].kind.route]
  /\ \A x \in DOMAIN seenAt[k] :
       \E i \in Asked(k) : evaluated[i].kind.route = x /\ evaluated[i].now = seenAt[k][x]

Noted ==
  /\ clock \in Nat /\ evaluated \in Seq(Evaluation)
  /\ \A i \in DOMAIN evaluated : evaluated[i].now <= clock
  /\ WindowsSound /\ ItemsKept
  /\ \A k \in Key : Routed(k) /\ \E g : Orders(g, hits[k], Heard(k), Ats)

\* What an evaluation adds to the history: it is the n-th, with signals S.
Notes(kind, at, n, S) ==
  /\ n \in Nat \ {0} /\ n \notin DOMAIN evaluated
  /\ DOMAIN evaluated = 1..(n - 1) /\ DOMAIN evaluated' = 1..n
  /\ DOMAIN evaluated' = DOMAIN evaluated \cup {n}
  /\ evaluated' \in Seq(Evaluation)
  /\ evaluated'[n].kind = kind /\ evaluated'[n].at = at /\ evaluated'[n].now = clock
  /\ evaluated'[n].signals = S /\ S = {rule \in Rules : Fires(rule, kind)}
  /\ \A i \in DOMAIN evaluated : evaluated'[i] = evaluated[i] /\ evaluated[i] \in Evaluation
  /\ \A k : /\ Heard(k)' = Heard(k) \cup (IF k \in HitKeys(kind) THEN {n} ELSE {})
            /\ Asked(k)' = Asked(k) \cup (IF k \in PathKeys(kind) THEN {n} ELSE {})

LEMMA Adding ==
  ASSUME Noted, NEW kind \in EventKind, NEW at \in Timestamp, Evaluate(kind, at)
  PROVE  \E n, S : Notes(kind, at, n, S)
<1>1. PICK n, S, e : /\ n = Len(evaluated) + 1 /\ S = {rule \in Rules : Fires(rule, kind)}
                     /\ e = [kind |-> kind, at |-> at, now |-> clock, signals |-> S]
  OBVIOUS
<1>2. evaluated' = Append(evaluated, e)
  BY <1>1 DEF Evaluate
<1>3. e \in Evaluation /\ e.kind = kind /\ e.at = at /\ e.now = clock /\ e.signals = S
  BY <1>1 DEF Noted, Evaluation
<1>4. evaluated \in Seq(Evaluation)
  BY DEF Noted
<1>5. /\ Len(evaluated) \in Nat /\ DOMAIN evaluated = 1..Len(evaluated)
      /\ evaluated' \in Seq(Evaluation) /\ DOMAIN evaluated' = 1..(Len(evaluated) + 1)
      /\ evaluated'[Len(evaluated) + 1] = e
      /\ \A i \in 1..Len(evaluated) : evaluated'[i] = evaluated[i] /\ evaluated[i] \in Evaluation
  BY <1>2, <1>3, <1>4
<1>6. /\ n \in Nat \ {0} /\ n \notin DOMAIN evaluated
      /\ DOMAIN evaluated = 1..(n - 1) /\ DOMAIN evaluated' = 1..n
      /\ DOMAIN evaluated' = DOMAIN evaluated \cup {n}
      /\ evaluated' \in Seq(Evaluation) /\ evaluated'[n] = e
      /\ \A i \in DOMAIN evaluated : evaluated'[i] = evaluated[i] /\ evaluated[i] \in Evaluation
  BY <1>1, <1>5
<1>7. ASSUME NEW k
      PROVE  /\ Heard(k)' = Heard(k) \cup (IF k \in HitKeys(kind) THEN {n} ELSE {})
             /\ Asked(k)' = Asked(k) \cup (IF k \in PathKeys(kind) THEN {n} ELSE {})
  <2>1. /\ Heard(k)' = {i \in DOMAIN evaluated' : k \in HitKeys(evaluated'[i].kind)}
        /\ Asked(k)' = {i \in DOMAIN evaluated' : k \in PathKeys(evaluated'[i].kind)}
    BY DEF Heard, Asked
  <2> QED BY <1>3, <1>6, <2>1 DEF Heard, Asked
<1>8. Notes(kind, at, n, S)
  BY <1>1, <1>3, <1>6, <1>7 DEF Notes
<1> QED BY <1>8

\* What it does to the maps.
LEMMA Recording ==
  ASSUME Noted, NEW kind \in EventKind, NEW at \in Timestamp, Evaluate(kind, at)
  PROVE  /\ windows' = [k \in Key |-> IF k \in HitKeys(kind) THEN Slid(windows[k], at) ELSE windows[k]]
         /\ hits' = [k \in Key |-> IF k \in HitKeys(kind) THEN Append(hits[k], at) ELSE hits[k]]
         /\ distinct' = [k \in Key |-> IF k \in PathKeys(kind) THEN Renewed(distinct[k], kind.route, clock)
                                       ELSE distinct[k]]
         /\ seenAt' = [k \in Key |-> IF k \in PathKeys(kind) THEN Sighted(seenAt[k], kind.route, clock)
                                     ELSE seenAt[k]]
         /\ clock' = clock
<1>1. windows' = [k \in Key |-> IF k \in HitKeys(kind) THEN Slid(windows[k], at) ELSE windows[k]]
  BY DEF Evaluate, RecordHits, Slid
<1>2. ASSUME NEW d
      PROVE  LET map == Restrict(d, {i \in DOMAIN d : d[i] > clock}) IN
               [i \in DOMAIN map \cup {kind.route} |-> IF i = kind.route THEN clock + ItemTtl ELSE map[i]]
                 = Renewed(d, kind.route, clock)
  BY DEF Restrict, Renewed
<1>3. distinct' = [k \in Key |-> IF k \in PathKeys(kind) THEN Renewed(distinct[k], kind.route, clock)
                                 ELSE distinct[k]]
  BY <1>2 DEF Evaluate, RecordPath
<1>4. seenAt' = [k \in Key |-> IF k \in PathKeys(kind) THEN Sighted(seenAt[k], kind.route, clock)
                               ELSE seenAt[k]]
  BY DEF Evaluate, RecordPath, Sighted
<1> QED BY <1>1, <1>3, <1>4 DEF Evaluate, RecordHits

LEMMA WindowsFollow ==
  ASSUME Noted, NEW kind \in EventKind, NEW at \in Timestamp, Evaluate(kind, at)
  PROVE  WindowsSound' /\ \A k \in Key : \E g : Orders(g, hits'[k], Heard(k)', Ats')
<1>1. PICK n, S : Notes(kind, at, n, S)
  BY Adding
<1>2. /\ windows \in [Key -> Seq(Timestamp)] /\ hits \in [Key -> Seq(Timestamp)]
      /\ \A k \in Key : Sound(windows[k], hits[k])
  BY DEF Noted, WindowsSound
<1>3. /\ windows' = [k \in Key |-> IF k \in HitKeys(kind) THEN Slid(windows[k], at) ELSE windows[k]]
      /\ hits' = [k \in Key |-> IF k \in HitKeys(kind) THEN Append(hits[k], at) ELSE hits[k]]
  BY Recording
<1>0. PICK old : old = Ats
  OBVIOUS
<1>4. PICK new : new = Ats' /\ old = Ats
  BY <1>0
<1>5. /\ \A i \in DOMAIN evaluated : new[i] = old[i] /\ old[i] = evaluated[i].at
      /\ new[n] = at
  BY <1>1, <1>4 DEF Notes, Ats
<1>6. \A i \in DOMAIN evaluated : at >= evaluated[i].at - Lateness
  BY DEF Evaluate
<1>7. ASSUME NEW k \in Key
      PROVE  /\ windows'[k] \in Seq(Timestamp) /\ hits'[k] \in Seq(Timestamp)
             /\ Sound(windows'[k], hits'[k])
             /\ \E g : Orders(g, hits'[k], Heard(k)', new)
  <2>1. PICK w, h, H : w = windows[k] /\ h = hits[k] /\ H = Heard(k)
    OBVIOUS
  <2>2. w \in Seq(Timestamp) /\ h \in Seq(Timestamp) /\ Sound(w, h)
    BY <1>2, <2>1
  <2>3. PICK g : Orders(g, h, H, old)
    BY <1>4, <2>1 DEF Noted
  <2>4. H \subseteq DOMAIN evaluated
    BY <2>1 DEF Heard
  <2>5. CASE k \notin HitKeys(kind)
    <3>1. windows'[k] = w /\ hits'[k] = h /\ Heard(k)' = H
      BY <1>1, <1>3, <2>1, <2>5 DEF Notes
    <3>2. \A i \in H : new[i] = old[i]
      BY <1>5, <2>4
    <3>3. Orders(g, h, H, new)
      BY <2>3, <3>2 DEF Orders
    <3> QED BY <2>2, <3>1, <3>3
  <2>6. CASE k \in HitKeys(kind)
    <3>1. windows'[k] = Slid(w, at) /\ hits'[k] = Append(h, at) /\ Heard(k)' = H \cup {n}
      BY <1>1, <1>3, <2>1, <2>6 DEF Notes
    <3>2. \A j \in 1..Len(h) : at >= h[j] - Lateness
      <4> TAKE j \in 1..Len(h)
      <4>1. g[j] \in H /\ old[g[j]] = h[j]
        BY <2>3 DEF Orders
      <4> QED BY <1>5, <1>6, <2>4, <4>1
    <3>3. /\ Slid(w, at) \in Seq(Timestamp) /\ Append(h, at) \in Seq(Timestamp)
          /\ Sound(Slid(w, at), Append(h, at))
      BY <2>2, <3>2, HitSlides
    <3>0. PICK l : l = Len(h) + 1
      OBVIOUS
    <3>4. PICK f : f = [j \in 1..l |-> IF j = l THEN n ELSE g[j]]
      OBVIOUS
    <3>5. /\ Len(h) \in Nat /\ l \in Nat /\ l \in 1..l /\ Len(Append(h, at)) = l
          /\ Append(h, at)[l] = at /\ \A j \in 1..Len(h) : Append(h, at)[j] = h[j]
          /\ \A j \in 1..Len(h) : j \in 1..l /\ j # l
          /\ \A j \in 1..l : j # l => j \in 1..Len(h)
      BY <2>2, <3>0
    <3>6. n \notin H
      BY <1>1, <2>4 DEF Notes
    <3>7. f[l] = n /\ \A j \in 1..Len(h) : f[j] = g[j]
      BY <3>4, <3>5
    <3>8. \A j \in 1..l : f[j] \in H \cup {n} /\ new[f[j]] = Append(h, at)[j]
      <4> TAKE j \in 1..l
      <4>1. CASE j = l
        BY <1>5, <3>5, <3>7, <4>1
      <4>2. CASE j # l
        <5>1. j \in 1..Len(h) /\ g[j] \in H /\ old[g[j]] = h[j]
          BY <2>3, <3>5, <4>2 DEF Orders
        <5> QED BY <1>5, <2>4, <3>5, <3>7, <5>1
      <4> QED BY <4>1, <4>2
    <3>9. \A i, j \in 1..l : f[i] = f[j] => i = j
      <4> TAKE i, j \in 1..l
      <4> HAVE f[i] = f[j]
      <4>1. CASE i # l /\ j # l
        BY <2>3, <3>5, <3>7, <4>1 DEF Orders
      <4>2. CASE i = l \/ j = l
        <5>1. \A m \in 1..Len(h) : f[m] # n
          BY <2>3, <3>6, <3>7 DEF Orders
        <5> QED BY <3>5, <3>7, <4>2, <5>1
      <4> QED BY <4>1, <4>2
    <3>10. \A i \in H \cup {n} : \E j \in 1..l : f[j] = i
      <4> TAKE i \in H \cup {n}
      <4>1. CASE i = n
        BY <3>5, <3>7, <4>1
      <4>2. CASE i # n
        <5>1. PICK j \in 1..Len(h) : g[j] = i
          BY <2>3, <4>2 DEF Orders
        <5> QED BY <3>5, <3>7, <5>1
      <4> QED BY <4>1, <4>2
    <3>11. Orders(f, Append(h, at), H \cup {n}, new)
      BY <3>5, <3>8, <3>9, <3>10 DEF Orders
    <3> QED BY <3>1, <3>3, <3>11
  <2> QED BY <2>5, <2>6
<1>8. WindowsSound'
  <2>1. windows' \in [Key -> Seq(Timestamp)] /\ hits' \in [Key -> Seq(Timestamp)]
    BY <1>3, <1>7
  <2>2. (\A k \in Key : Sound(windows[k], hits[k]))'
    BY <1>7 DEF Sound
  <2> QED BY <2>1, <2>2 DEF WindowsSound
<1> QED BY <1>4, <1>7, <1>8

LEMMA RoutesFollow ==
  ASSUME Noted, NEW kind \in EventKind, NEW at \in Timestamp, Evaluate(kind, at)
  PROVE  /\ ItemsKept' /\ \A k \in Key : Routed(k)'
         /\ \A k \in PathKeys(kind) : \A i \in DOMAIN distinct'[k] : distinct'[k][i] > clock
<1>1. PICK n, S : Notes(kind, at, n, S)
  BY Adding
<1>2. /\ clock \in Nat /\ DOMAIN distinct = Key /\ DOMAIN seenAt = Key
      /\ \A k \in Key : Kept(distinct[k], seenAt[k], clock)
  BY DEF Noted, ItemsKept
<1>3. /\ distinct' = [k \in Key |-> IF k \in PathKeys(kind) THEN Renewed(distinct[k], kind.route, clock)
                                    ELSE distinct[k]]
      /\ seenAt' = [k \in Key |-> IF k \in PathKeys(kind) THEN Sighted(seenAt[k], kind.route, clock)
                                  ELSE seenAt[k]]
      /\ clock' = clock
  BY Recording
<1>4. kind.route \in Item /\ PathKeys(kind) \subseteq Key
  BY WindowsAssumption DEF PathKeys
<1>5. ASSUME NEW k \in Key
      PROVE  /\ Kept(distinct'[k], seenAt'[k], clock)
             /\ k \in PathKeys(kind) => \A i \in DOMAIN distinct'[k] : distinct'[k][i] > clock
  <2>1. PICK d, s : d = distinct[k] /\ s = seenAt[k] /\ Kept(d, s, clock)
    BY <1>2
  <2>2. CASE k \in PathKeys(kind)
    <3>1. distinct'[k] = Renewed(d, kind.route, clock) /\ seenAt'[k] = Sighted(s, kind.route, clock)
      BY <1>3, <2>1, <2>2
    <3>2. /\ Kept(Renewed(d, kind.route, clock), Sighted(s, kind.route, clock), clock)
          /\ \A i \in DOMAIN Renewed(d, kind.route, clock) : Renewed(d, kind.route, clock)[i] > clock
      BY <1>2, <1>4, <2>1, Renewal
    <3> QED BY <3>1, <3>2
  <2>3. CASE k \notin PathKeys(kind)
    <3>1. distinct'[k] = d /\ seenAt'[k] = s
      BY <1>3, <2>1, <2>3
    <3> QED BY <2>1, <2>3, <3>1
  <2> QED BY <2>2, <2>3
<1>6. ItemsKept'
  <2>1. (\A k \in Key : Kept(distinct[k], seenAt[k], clock))'
    BY <1>3, <1>5 DEF Kept
  <2> QED BY <1>3, <2>1 DEF ItemsKept
<1>7. ASSUME NEW k \in Key PROVE Routed(k)'
  <2>1. PICK s, A : s = seenAt[k] /\ A = Asked(k)
    OBVIOUS
  <2>2. /\ A \subseteq DOMAIN evaluated
        /\ \A i \in A : evaluated[i].kind.route \in DOMAIN s /\ evaluated[i].now <= s[evaluated[i].kind.route]
        /\ \A x \in DOMAIN s : \E i \in A : evaluated[i].kind.route = x /\ evaluated[i].now = s[x]
    BY <2>1 DEF Noted, Routed, Asked
  <2>3. \A i \in A : evaluated'[i] = evaluated[i] /\ evaluated[i].now <= clock
    BY <1>1, <2>2 DEF Notes, Noted
  <2>4. CASE k \notin PathKeys(kind)
    <3>1. seenAt'[k] = s /\ Asked(k)' = A
      BY <1>1, <1>3, <2>1, <2>4 DEF Notes
    <3> QED BY <2>2, <2>3, <3>1 DEF Routed
  <2>5. CASE k \in PathKeys(kind)
    <3>1. Asked(k)' = A \cup {n} /\ evaluated'[n].kind = kind /\ evaluated'[n].now = clock
      BY <1>1, <2>1, <2>5 DEF Notes
    <3>2. PICK t : t = seenAt'[k] /\ t = [i \in DOMAIN s \cup {kind.route} |-> IF i = kind.route THEN clock ELSE s[i]]
      BY <1>3, <2>1, <2>5 DEF Sighted
    <3>3. PICK e : e = evaluated'
      OBVIOUS
    <3>4. PICK B : B = Asked(k)' /\ B = A \cup {n}
      BY <3>1
    <3>5. /\ e[n].kind = kind /\ e[n].now = clock
          /\ \A i \in A : e[i] = evaluated[i] /\ e[i].now <= clock
      BY <2>3, <3>1, <3>3
    <3>6. /\ DOMAIN t = DOMAIN s \cup {kind.route} /\ t[kind.route] = clock
          /\ \A x \in DOMAIN s : x # kind.route => t[x] = s[x]
      BY <3>2
    <3>7. ASSUME NEW i \in B
          PROVE  e[i].kind.route \in DOMAIN t /\ e[i].now <= t[e[i].kind.route]
      <4>1. CASE i = n
        BY <1>2, <3>5, <3>6, <4>1
      <4>2. CASE i # n
        <5>1. i \in A /\ e[i].now <= clock /\ e[i].kind.route \in DOMAIN s /\ e[i].now <= s[e[i].kind.route]
          BY <2>2, <3>4, <3>5, <4>2
        <5> QED BY <3>6, <5>1
      <4> QED BY <4>1, <4>2
    <3>8. ASSUME NEW x \in DOMAIN t
          PROVE  \E i \in B : e[i].kind.route = x /\ e[i].now = t[x]
      <4>1. CASE x = kind.route
        BY <3>4, <3>5, <3>6, <4>1
      <4>2. CASE x # kind.route
        <5>1. PICK i \in A : evaluated[i].kind.route = x /\ evaluated[i].now = s[x]
          BY <2>2, <3>6, <4>2
        <5> QED BY <3>4, <3>5, <3>6, <4>2, <5>1
      <4> QED BY <4>1, <4>2
    <3>9. /\ \A i \in Asked(k)' : evaluated'[i].kind.route \in DOMAIN seenAt'[k] /\ evaluated'[i].now <= seenAt'[k][evaluated'[i].kind.route]
          /\ \A x \in DOMAIN seenAt'[k] :
               \E i \in Asked(k)' : evaluated'[i].kind.route = x /\ evaluated'[i].now = seenAt'[k][x]
      <4>1. /\ \A i \in B : e[i].kind.route \in DOMAIN t /\ e[i].now <= t[e[i].kind.route]
            /\ \A x \in DOMAIN t : \E i \in B : e[i].kind.route = x /\ e[i].now = t[x]
        BY <3>7, <3>8
      <4>2. B = Asked(k)' /\ t = seenAt'[k] /\ e = evaluated'
        BY <3>2, <3>3, <3>4
      <4> QED BY <4>1, <4>2, Zenon
    <3> QED BY <3>9 DEF Routed
  <2> QED BY <2>4, <2>5
<1> QED BY <1>4, <1>5, <1>6, <1>7

\* An evaluation keeps what the hot state knows.
LEMMA NotedStep ==
  ASSUME Noted, NEW kind \in EventKind, NEW at \in Timestamp, Evaluate(kind, at)
  PROVE  Noted'
<1>1. PICK n, S : Notes(kind, at, n, S)
  BY Adding
<1>2. clock' = clock /\ clock \in Nat
  BY Recording DEF Noted
<1>3. ASSUME NEW i \in DOMAIN evaluated' PROVE evaluated'[i].now <= clock
  <2>1. CASE i = n
    BY <1>1, <1>2, <2>1 DEF Notes
  <2>2. CASE i # n
    BY <1>1, <2>2 DEF Notes, Noted
  <2> QED BY <2>1, <2>2
<1>4. evaluated' \in Seq(Evaluation)
  BY <1>1 DEF Notes
<1>5. /\ WindowsSound' /\ ItemsKept'
      /\ \A k \in Key : Routed(k)' /\ \E g : Orders(g, hits'[k], Heard(k)', Ats')
  BY WindowsFollow, RoutesFollow
<1>6. (\A k \in Key : Routed(k) /\ \E g : Orders(g, hits[k], Heard(k), Ats))'
  BY <1>5 DEF Orders, Routed
<1> QED BY <1>2, <1>3, <1>4, <1>5, <1>6 DEF Noted

LEMMA NotedTick ==
  ASSUME Noted, clock' \in Nat, clock' >= clock,
         UNCHANGED <<windows, distinct, hits, seenAt, evaluated>>
  PROVE  Noted'
<1>1. \A i \in DOMAIN evaluated : evaluated[i].now <= clock'
  <2> TAKE i \in DOMAIN evaluated
  <2>1. evaluated[i] \in Evaluation
    BY DEF Noted
  <2>2. evaluated[i].now <= clock /\ evaluated[i].now \in Nat /\ clock \in Nat
    BY <2>1 DEF Noted, Evaluation
  <2> QED BY <2>2
<1>2. ASSUME NEW k \in Key PROVE Kept(distinct[k], seenAt[k], clock')
  <2>1. PICK d, s : d = distinct[k] /\ s = seenAt[k] /\ Kept(d, s, clock)
    BY DEF Noted, ItemsKept
  <2>2. \A i \in DOMAIN s \ DOMAIN d : s[i] + ItemTtl <= clock'
    <3> TAKE i \in DOMAIN s \ DOMAIN d
    <3>1. s[i] + ItemTtl <= clock /\ s[i] \in Nat /\ ItemTtl \in Nat /\ clock \in Nat
      BY <2>1, HotStateAssumption DEF Kept, Noted
    <3> QED BY <3>1
  <2> QED BY <2>1, <2>2 DEF Kept
<1>3. ItemsKept'
  BY <1>2 DEF Noted, ItemsKept, Kept
<1>4. WindowsSound'
  BY DEF Noted, WindowsSound, Sound
<1>5. (\A k \in Key : Routed(k) /\ \E g : Orders(g, hits[k], Heard(k), Ats))'
  <2>1. Ats' = Ats /\ hits' = hits
    BY DEF Ats
  <2>2. \A k \in Key : Heard(k)' = Heard(k) /\ Asked(k)' = Asked(k)
    BY DEF Heard, Asked
  <2>3. \A k \in Key : Routed(k)'
    BY <2>2 DEF Noted, Routed
  <2>4. ASSUME NEW k \in Key PROVE \E g : Orders(g, hits[k], Heard(k), Ats)'
    <3>1. PICK g : Orders(g, hits[k], Heard(k), Ats)
      BY DEF Noted
    <3>2. Orders(g, hits[k], Heard(k), Ats)'
      BY <2>1, <2>2, <3>1 DEF Orders
    <3> QED BY <3>2
  <2> QED BY <2>3, <2>4
<1>6. evaluated' \in Seq(Evaluation)
  BY DEF Noted
<1> QED BY <1>1, <1>3, <1>4, <1>5, <1>6 DEF Noted

LEMMA NotedInit == WindowsInit => Noted
<1> SUFFICES ASSUME WindowsInit PROVE Noted
  OBVIOUS
<1>1. clock = 0 /\ evaluated = <<>> /\ DOMAIN evaluated = {} /\ evaluated \in Seq(Evaluation)
  BY DEF WindowsInit, Init
<1>2. WindowsSound /\ ItemsKept
  BY HotStateInit DEF WindowsInit, IInv
<1>3. ASSUME NEW k \in Key PROVE Routed(k) /\ \E g : Orders(g, hits[k], Heard(k), Ats)
  <2>1. hits[k] = <<>> /\ seenAt[k] = <<>> /\ Heard(k) = {} /\ Asked(k) = {}
    BY <1>1 DEF WindowsInit, Init, Heard, Asked
  <2>2. Len(<<>>) = 0 /\ DOMAIN <<>> = {}
    OBVIOUS
  <2>3. Routed(k)
    BY <2>1, <2>2 DEF Routed
  <2>4. Orders(<<>>, hits[k], Heard(k), Ats)
    BY <2>1, <2>2 DEF Orders
  <2> QED BY <2>3, <2>4
<1> QED BY <1>1, <1>2, <1>3 DEF Noted

-----------------------------------------------------------------------------
(* Signals follow the windows.                                             *)

\* What SignalsFollowBursts says of the n-th event and a rule.
Scanned(n, rule) == rule = ApiEnumeration /\ Cardinality(Routes(n)) >= DistinctThreshold
Around(n, rule) == Counted(rule, n, evaluated[n].at - Window - Lateness, evaluated[n].at + Lateness)
Inside(n, rule) == Counted(rule, n, evaluated[n].at - Window + Lateness, evaluated[n].at)
Follows(n, rule) ==
  Concerns(rule, evaluated[n].kind) =>
    /\ rule \in evaluated[n].signals =>
         Scanned(n, rule) \/ Cardinality(Around(n, rule)) >= Threshold[rule.name]
    /\ Scanned(n, rule) \/ Cardinality(Inside(n, rule)) >= Threshold[rule.name] =>
         rule \in evaluated[n].signals

LEMMA AllFollow == SignalsFollowBursts <=> \A n \in DOMAIN evaluated : \A rule \in Counting : Follows(n, rule)
BY DEF SignalsFollowBursts, Follows, Scanned, Around, Inside

\* The routes a source has asked for are those of its set.
LEMMA RoutesAreLive ==
  ASSUME Noted, NEW kind \in EventKind, NEW at \in Timestamp, Evaluate(kind, at), kind.status = 404,
         NEW n, NEW S, Notes(kind, at, n, S)
  PROVE  Routes(n)' = DOMAIN distinct'[PathKey(kind)]
<1>1. PICK k : k = PathKey(kind) /\ k \in PathKeys(kind) /\ k \in Key
  BY WindowsAssumption DEF PathKeys
<1>2. ItemsKept' /\ Routed(k)' /\ \A i \in DOMAIN distinct'[k] : distinct'[k][i] > clock
  BY <1>1, RoutesFollow
<1>3. PICK d, s : d = distinct'[k] /\ s = seenAt'[k]
  OBVIOUS
<1>4. clock' = clock /\ clock \in Nat
  BY Recording DEF Noted
<1>5. Kept(d, s, clock)
  BY <1>1, <1>2, <1>3, <1>4 DEF ItemsKept, Kept
<1>6. DOMAIN d = {i \in DOMAIN s : clock < s[i] + ItemTtl}
  <2>1. PICK now : now = clock
    OBVIOUS
  <2>2. now \in Nat /\ Kept(d, s, now) /\ \A i \in DOMAIN d : d[i] > now
    BY <1>2, <1>3, <1>4, <1>5, <2>1
  <2>3. DOMAIN d = {i \in DOMAIN s : now < s[i] + ItemTtl}
    BY <2>2, LiveItems
  <2> QED BY <2>1, <2>3
<1>7. PICK e : e = evaluated'
  OBVIOUS
<1>8. PICK A : A = Asked(k)'
  OBVIOUS
<1>9. A = {i \in 1..n : e[i].kind.status = 404 /\ Source(e[i].kind) = Source(kind)}
  <2>1. A = {i \in 1..n : k \in PathKeys(e[i].kind)}
    BY <1>7, <1>8 DEF Notes, Asked
  <2> QED BY <1>1, <2>1, KeysTell
<1>10. /\ \A i \in A : e[i].kind.route \in DOMAIN s /\ e[i].now <= s[e[i].kind.route]
       /\ \A x \in DOMAIN s : \E i \in A : e[i].kind.route = x /\ e[i].now = s[x]
  BY <1>2, <1>3, <1>7, <1>8 DEF Routed
<1>11. Routes(n)' = {e[i].kind.route : i \in {j \in A : clock < e[j].now + ItemTtl}}
  <2>1. e[n].kind = kind /\ e[n].now = clock
    BY <1>7 DEF Notes
  <2>2. Routes(n)' = {e[i].kind.route :
                        i \in {j \in 1..n : /\ e[j].kind.status = 404
                                            /\ Source(e[j].kind) = Source(e[n].kind)
                                            /\ e[n].now < e[j].now + ItemTtl}}
    BY <1>7 DEF Routes
  <2>3. {j \in 1..n : /\ e[j].kind.status = 404
                      /\ Source(e[j].kind) = Source(e[n].kind)
                      /\ e[n].now < e[j].now + ItemTtl} = {j \in A : clock < e[j].now + ItemTtl}
    BY <1>9, <2>1
  <2> QED BY <2>2, <2>3
<1>12. \A i \in A : e[i].now \in Nat
  <2>1. e \in Seq(Evaluation) /\ DOMAIN e = 1..n
    BY <1>7 DEF Notes
  <2>2. \A i \in DOMAIN e : e[i] \in Evaluation
    <3> TAKE i \in DOMAIN e
    <3>1. e \in Seq(Evaluation) /\ i \in 1..Len(e)
      BY <2>1, LenProperties
    <3> QED BY <3>1, ElementOfSeq
  <2> QED BY <1>9, <2>1, <2>2 DEF Evaluation
<1>13. ItemTtl \in Nat /\ \A x \in DOMAIN s : s[x] \in Nat
  BY <1>5, HotStateAssumption DEF Kept
<1>14. \A i \in A : clock < e[i].now + ItemTtl => e[i].kind.route \in DOMAIN d
  <2> TAKE i \in A
  <2> HAVE clock < e[i].now + ItemTtl
  <2>1. PICK x \in DOMAIN s : x = e[i].kind.route /\ e[i].now <= s[x]
    BY <1>10
  <2>2. clock < s[x] + ItemTtl
    BY <1>4, <1>12, <1>13, <2>1
  <2> QED BY <1>6, <2>1, <2>2
<1>15. \A x \in DOMAIN d : \E i \in A : e[i].kind.route = x /\ clock < e[i].now + ItemTtl
  BY <1>6, <1>10
<1>16. Routes(n)' = DOMAIN d
  <2>1. PICK R, L : R = Routes(n)' /\ L = {j \in A : clock < e[j].now + ItemTtl}
    OBVIOUS
  <2>2. R = {e[i].kind.route : i \in L}
    BY <1>11, <2>1
  <2>3. \A i \in L : e[i].kind.route \in DOMAIN d
    BY <1>14, <2>1
  <2>4. \A x \in DOMAIN d : \E i \in L : e[i].kind.route = x
    BY <1>15, <2>1
  <2>5. R = DOMAIN d
    <3>1. \A x \in R : x \in DOMAIN d
      BY <2>2, <2>3
    <3>2. \A x \in DOMAIN d : x \in R
      BY <2>2, <2>4
    <3> QED BY <3>1, <3>2
  <2> QED BY <2>1, <2>5
<1> QED BY <1>1, <1>3, <1>16

\* A rule that counts fires on what its window and the set of routes hold.
LEMMA NewFollows ==
  ASSUME Noted, NEW kind \in EventKind, NEW at \in Timestamp, Evaluate(kind, at),
         NEW n, NEW S, Notes(kind, at, n, S), NEW rule \in Counting, Concerns(rule, kind)
  PROVE  Follows(n, rule)'
<1>1. PICK k : k = HitKey(rule, kind) /\ k \in HitKeys(kind) /\ k \in Key
  BY WindowsAssumption DEF HitKeys
<1>2. WindowsSound' /\ \E g : Orders(g, hits'[k], Heard(k)', Ats')
  BY <1>1, WindowsFollow
<1>3. PICK w, h : w = windows'[k] /\ h = hits'[k]
  OBVIOUS
<1>4. PICK H : H = Heard(k)'
  OBVIOUS
<1>5. PICK new : new = Ats'
  OBVIOUS
<1>6. PICK g : Orders(g, h, H, new)
  BY <1>2, <1>3, <1>4, <1>5
<1>7. w \in Seq(Timestamp) /\ h \in Seq(Timestamp) /\ Sound(w, h)
  BY <1>1, <1>2, <1>3 DEF WindowsSound, Sound
<1>8. h # <<>> /\ h[Len(h)] = at
  <2>1. h = Append(hits[k], at)
    BY <1>1, <1>3, Recording
  <2>2. hits[k] \in Seq(Timestamp)
    BY <1>1 DEF Noted, WindowsSound
  <2> QED BY <2>1, <2>2
<1>9. PICK e : e = evaluated'
  OBVIOUS
<1>10. /\ DOMAIN e = 1..n /\ n \in Nat /\ n \in 1..n
       /\ e[n].kind = kind /\ e[n].at = at /\ e[n].signals = S
  BY <1>9 DEF Notes
<1>11. H = {i \in 1..n : Concerns(rule, e[i].kind) /\ Source(e[i].kind) = Source(kind)}
  <2>1. H = {i \in 1..n : k \in HitKeys(e[i].kind)}
    BY <1>4, <1>9, <1>10 DEF Heard
  <2>2. \A other : k \in HitKeys(other) <=> Concerns(rule, other) /\ Source(other) = Source(kind)
    BY <1>1, KeysTell
  <2> QED BY <2>1, <2>2
<1>12. IsFiniteSet(H)
  <2>1. IsFiniteSet(1..n)
    BY <1>10, FS_Interval
  <2> QED BY <1>11, <2>1, FS_Subset
<1>13. \A lo, hi : Counted(rule, n, lo, hi)' = Within(H, new, lo, hi)
  <2> TAKE lo, hi
  <2>1. Counted(rule, n, lo, hi)' =
          {i \in 1..n : /\ Concerns(rule, e[i].kind) /\ Source(e[i].kind) = Source(e[n].kind)
                        /\ e[i].at \in lo..hi}
    BY <1>9 DEF Counted
  <2>2. \A i \in 1..n : new[i] = e[i].at
    BY <1>5, <1>9, <1>10 DEF Ats
  <2> QED BY <1>10, <1>11, <2>1, <2>2 DEF Within
<1>14. PICK wide, narrow : /\ wide = Cardinality(Within(H, new, at - Window - Lateness, at + Lateness))
                           /\ narrow = Cardinality(Within(H, new, at - Window + Lateness, at))
  OBVIOUS
<1>15. Len(w) <= wide /\ narrow <= Len(w)
  BY <1>6, <1>7, <1>8, <1>12, <1>14, WindowCounts
<1>16. wide \in Nat /\ narrow \in Nat /\ Len(w) \in Nat /\ Threshold[rule.name] \in Nat
  <2>1. /\ IsFiniteSet(Within(H, new, at - Window - Lateness, at + Lateness))
        /\ IsFiniteSet(Within(H, new, at - Window + Lateness, at))
    BY <1>12, FS_Subset DEF Within
  <2>2. wide \in Nat /\ narrow \in Nat
    BY <1>14, <2>1, FS_CardinalityType
  <2> QED BY <1>7, <2>2, WindowsAssumption, LenProperties
<1>17. /\ Cardinality(Around(n, rule))' = wide
       /\ Cardinality(Inside(n, rule))' = narrow
  <2>1. /\ Around(n, rule)' = Counted(rule, n, e[n].at - Window - Lateness, e[n].at + Lateness)'
        /\ Inside(n, rule)' = Counted(rule, n, e[n].at - Window + Lateness, e[n].at)'
    BY <1>9 DEF Around, Inside
  <2> QED BY <1>10, <1>13, <1>14, <2>1
<1>18. Scanned(n, rule)' <=>
         rule = ApiEnumeration /\ Cardinality(DOMAIN distinct'[PathKey(kind)]) >= DistinctThreshold
  <2>1. CASE rule = ApiEnumeration
    <3>1. kind.status = 404
      BY <2>1, CountingRules
    <3>2. Routes(n)' = DOMAIN distinct'[PathKey(kind)]
      BY <3>1, RoutesAreLive
    <3> QED BY <3>2 DEF Scanned
  <2>2. CASE rule # ApiEnumeration
    BY <2>2 DEF Scanned
  <2> QED BY <2>1, <2>2
<1>19. rule \in S <=> Len(w) >= Threshold[rule.name] \/ Scanned(n, rule)'
  <2>1. rule \in Rules /\ rule.counts
    BY CountingRules
  <2>2. rule \in S <=> Fires(rule, kind)
    BY <2>1 DEF Notes
  <2> QED BY <1>1, <1>3, <1>18, <2>1, <2>2 DEF Fires
<1>20. /\ rule \in S => Scanned(n, rule)' \/ wide >= Threshold[rule.name]
       /\ Scanned(n, rule)' \/ narrow >= Threshold[rule.name] => rule \in S
  BY <1>15, <1>16, <1>19
<1> QED BY <1>9, <1>10, <1>17, <1>20 DEF Follows

\* What was said of an earlier event stays true.
LEMMA OldFollows ==
  ASSUME NEW kind, NEW at, NEW n, NEW S, Notes(kind, at, n, S),
         NEW i \in DOMAIN evaluated, NEW rule, Follows(i, rule)
  PROVE  Follows(i, rule)'
<1>1. PICK e, f : e = evaluated /\ f = evaluated'
  OBVIOUS
<1>2. /\ n \in Nat /\ i \in 1..(n - 1) /\ i \in Nat
      /\ \A j \in 1..(n - 1) : f[j] = e[j]
  BY <1>1 DEF Notes
<1>3. \A j \in 1..i : j \in 1..(n - 1)
  BY <1>2
<1>4. f[i] = e[i] /\ \A j \in 1..i : f[j] = e[j]
  BY <1>2, <1>3
<1>5. \A lo, hi : Counted(rule, i, lo, hi)' = Counted(rule, i, lo, hi)
  BY <1>1, <1>4 DEF Counted
<1>6. Routes(i)' = Routes(i)
  BY <1>1, <1>4 DEF Routes
<1>7. /\ Scanned(i, rule)' <=> Scanned(i, rule)
      /\ Around(i, rule)' = Around(i, rule) /\ Inside(i, rule)' = Inside(i, rule)
  BY <1>1, <1>4, <1>5, <1>6 DEF Scanned, Around, Inside
<1> QED BY <1>1, <1>4, <1>7 DEF Follows

\* Signals of the counting rules follow the events of their own rule and source, but for
\* late ones (rules/mod.rs:83-107, :168-203, :259-281, :349-371, evaluator.rs:64-76).
THEOREM BurstsRaiseSignals == WindowsSpec => []SignalsFollowBursts
<1> DEFINE Inv == Noted /\ SignalsFollowBursts
<1>1. WindowsInit => Inv
  <2> SUFFICES ASSUME WindowsInit PROVE SignalsFollowBursts
    BY NotedInit
  <2> QED BY DEF WindowsInit, SignalsFollowBursts
<1>2. Inv /\ [WindowsNext]_windowVars => Inv'
  <2> SUFFICES ASSUME Inv, [WindowsNext]_windowVars PROVE Inv'
    OBVIOUS
  <2>1. CASE (Tick /\ UNCHANGED evaluated) \/ UNCHANGED windowVars
    <3>1. /\ clock' \in Nat /\ clock' >= clock
          /\ UNCHANGED <<windows, distinct, hits, seenAt, evaluated>>
      BY <2>1 DEF Noted, Tick, windowVars, vars
    <3>2. Noted'
      BY <3>1, NotedTick
    <3>3. ASSUME NEW i \in DOMAIN evaluated', NEW rule \in Counting PROVE Follows(i, rule)'
      <4>1. \A lo, hi : Counted(rule, i, lo, hi)' = Counted(rule, i, lo, hi)
        BY <3>1 DEF Counted
      <4>2. Routes(i)' = Routes(i)
        BY <3>1 DEF Routes
      <4>3. /\ Scanned(i, rule)' <=> Scanned(i, rule)
            /\ Around(i, rule)' = Around(i, rule) /\ Inside(i, rule)' = Inside(i, rule)
        BY <3>1, <4>1, <4>2 DEF Scanned, Around, Inside
      <4>4. Follows(i, rule)
        BY <3>1, AllFollow
      <4> QED BY <3>1, <4>3, <4>4 DEF Follows
    <3>4. SignalsFollowBursts'
      BY <3>3 DEF SignalsFollowBursts, Follows, Scanned, Around, Inside
    <3> QED BY <3>2, <3>4
  <2>2. ASSUME NEW kind \in EventKind, NEW at \in Timestamp, Evaluate(kind, at) PROVE Inv'
    <3>1. PICK n, S : Notes(kind, at, n, S)
      BY <2>2, Adding
    <3>2. ASSUME NEW i \in DOMAIN evaluated', NEW rule \in Counting PROVE Follows(i, rule)'
      <4>1. CASE i # n
        <5>1. i \in DOMAIN evaluated
          BY <3>1, <4>1 DEF Notes
        <5>2. Follows(i, rule)
          BY <5>1, AllFollow
        <5> QED BY <3>1, <5>1, <5>2, OldFollows
      <4>2. CASE i = n /\ Concerns(rule, kind)
        BY <2>2, <3>1, <4>2, NewFollows
      <4>3. CASE i = n /\ ~Concerns(rule, kind)
        BY <3>1, <4>3 DEF Follows, Notes
      <4> QED BY <4>1, <4>2, <4>3
    <3>3. SignalsFollowBursts'
      BY <3>2 DEF SignalsFollowBursts, Follows, Scanned, Around, Inside
    <3> QED BY <2>2, <3>3, NotedStep
  <2> QED BY <2>1, <2>2 DEF WindowsNext
<1> QED BY <1>1, <1>2, PTL DEF WindowsSpec
=============================================================================
