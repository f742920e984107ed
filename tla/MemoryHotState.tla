-------------------------- MODULE MemoryHotState --------------------------
(***************************************************************************)
(* The in-memory hot state (crates/engine/src/state/mod.rs): sliding       *)
(* windows of hits, sets of distinct items and entity risk scores.  Each   *)
(* map is behind a lock of its own and every operation touches one map, so *)
(* operations are atomic.                                                  *)
(*                                                                         *)
(* Two clocks meet here.  Hits are stamped by the emitters, so they arrive *)
(* out of order; what is known is that a hit is at most Lateness older     *)
(* than the newest one of its key.  Items and scores expire by the wall    *)
(* clock of the control plane.                                             *)
(***************************************************************************)
EXTENDS Integers, Sequences, Functions, FiniteSets, Sums

CONSTANTS
  Key,          \* keys of sliding windows and of distinct sets
  Item,         \* items of a distinct set
  Entity,       \* entities that carry risk
  Timestamp,    \* timestamps a hit may carry
  Lateness,     \* how much older than the newest hit of its key a hit may be
  Window,       \* window_ms of a rule
  ItemTtl,      \* ttl of record_distinct
  RiskTtl,      \* ttl of add_entity_risk
  Points,       \* risk weights
  MaxScore,     \* u32::MAX
  MaxTime,      \* bound on the wall clock
  MaxHits,      \* bound on the hits recorded for one key
  MaxAdds       \* bound on the additions of risk to one entity

ASSUME HotStateAssumption ==
  /\ Timestamp \subseteq Int /\ Lateness \in Nat
  /\ Window \in Nat /\ ItemTtl \in Nat \ {0} /\ RiskTtl \in Nat \ {0}
  /\ MaxScore \in Nat /\ Points \subseteq 0..MaxScore
  /\ MaxTime \in Nat /\ MaxHits \in Nat /\ MaxAdds \in Nat

VARIABLES
  clock,      \* the control plane's wall clock
  windows,    \* sliding_windows: the deque of each key
  distinct,   \* distinct_sets: the expiry of each item of each key
  risks,      \* entity_risks: score and expiry of each entity that has one
  hits,       \* history: every hit of the key since it was reset
  seenAt,     \* history: when each item was last recorded since the reset
  added       \* history: every addition of risk: [points, at]

vars == <<clock, windows, distinct, risks, hits, seenAt, added>>

Last(s) == s[Len(s)]

Init ==
  /\ clock = 0
  /\ windows = [k \in Key |-> <<>>]
  /\ distinct = [k \in Key |-> <<>>]
  /\ risks = <<>>
  /\ hits = [k \in Key |-> <<>>]
  /\ seenAt = [k \in Key |-> <<>>]
  /\ added = [e \in Entity |-> <<>>]

Tick ==
  /\ clock < MaxTime
  /\ clock' = clock + 1
  /\ UNCHANGED <<windows, distinct, risks, hits, seenAt, added>>

Drop_Exclusive(deque, cutoff) ==
  CHOOSE n \in 0..Len(deque) :
    /\ \A i \in 1..n : deque[i] <= cutoff + 1
    /\ n < Len(deque) => deque[n + 1] > cutoff + 1

\* How many hits the eviction loop pops: it stops at the first one that is not
\* older than the cutoff, whatever is behind it.
Drop(deque, cutoff) ==
  CHOOSE n \in 0..Len(deque) :
    /\ \A i \in 1..n : deque[i] < cutoff
    /\ n < Len(deque) => deque[n + 1] >= cutoff

\* record_hit: the length of the new deque is what it returns.
RecordHit(k, ts) ==
  /\ Len(hits[k]) < MaxHits
  /\ \A i \in DOMAIN hits[k] : ts >= hits[k][i] - Lateness
  /\ LET n == Drop(windows[k], ts - Window) IN
       windows' = [windows EXCEPT ![k] = Append(SubSeq(@, n + 1, Len(@)), ts)]
  /\ hits' = [hits EXCEPT ![k] = Append(@, ts)]
  /\ UNCHANGED <<clock, distinct, risks, seenAt, added>>

\* count_in_window
CountInWindow(k, now) ==
  Cardinality({i \in DOMAIN windows[k] : windows[k][i] \in (now - Window)..now})

RecordDistinct_KeepsExpiry(k, item) ==
  /\ LET live == {i \in DOMAIN distinct[k] : distinct[k][i] > clock} IN
       distinct' = [distinct EXCEPT ![k] =
                      [i \in live \cup {item} |->
                         IF i \in live THEN distinct[k][i] ELSE clock + ItemTtl]]
  /\ seenAt' = [seenAt EXCEPT ![k] = [i \in DOMAIN @ \cup {item} |->
                                        IF i = item THEN clock ELSE @[i]]]
  /\ UNCHANGED <<clock, windows, risks, hits, added>>

\* record_distinct: expired items go, the recorded one starts anew.
RecordDistinct(k, item) ==
  /\ LET live == {i \in DOMAIN distinct[k] : distinct[k][i] > clock} IN
       distinct' = [distinct EXCEPT ![k] =
                      [i \in live \cup {item} |->
                         IF i = item THEN clock + ItemTtl ELSE distinct[k][i]]]
  /\ seenAt' = [seenAt EXCEPT ![k] = [i \in DOMAIN @ \cup {item} |->
                                        IF i = item THEN clock ELSE @[i]]]
  /\ UNCHANGED <<clock, windows, risks, hits, added>>

\* count_distinct
CountDistinct(k) == Cardinality({i \in DOMAIN distinct[k] : distinct[k][i] > clock})

SaturatingAdd(x, y) == IF x + y > MaxScore THEN MaxScore ELSE x + y

\* get_entity_risk
EntityRisk(e) == IF e \in DOMAIN risks /\ risks[e].expiry > clock THEN risks[e].score ELSE 0

AddEntityRisk_KeepsStale(e, points) ==
  /\ Len(added[e]) < MaxAdds
  /\ risks' = [x \in DOMAIN risks \cup {e} |->
                 IF x = e THEN [score  |-> IF e \in DOMAIN risks
                                             THEN SaturatingAdd(risks[e].score, points)
                                             ELSE points,
                                expiry |-> clock + RiskTtl]
                 ELSE risks[x]]
  /\ added' = [added EXCEPT ![e] = Append(@, [points |-> points, at |-> clock])]
  /\ UNCHANGED <<clock, windows, distinct, hits, seenAt>>

\* add_entity_risk: a score whose time is over starts again, any other grows,
\* and either way it gets a new expiry.
AddEntityRisk(e, points) ==
  /\ Len(added[e]) < MaxAdds
  /\ risks' = [x \in DOMAIN risks \cup {e} |->
                 IF x = e THEN [score  |-> SaturatingAdd(EntityRisk(e), points),
                                expiry |-> clock + RiskTtl]
                 ELSE risks[x]]
  /\ added' = [added EXCEPT ![e] = Append(@, [points |-> points, at |-> clock])]
  /\ UNCHANGED <<clock, windows, distinct, hits, seenAt>>

\* reset_key: one name is removed from all three maps.
ResetKey(k) ==
  /\ windows' = [windows EXCEPT ![k] = <<>>]
  /\ distinct' = [distinct EXCEPT ![k] = <<>>]
  /\ hits' = [hits EXCEPT ![k] = <<>>]
  /\ seenAt' = [seenAt EXCEPT ![k] = <<>>]
  /\ UNCHANGED <<clock, risks, added>>

ResetEntity(e) ==
  /\ risks' = Restrict(risks, DOMAIN risks \ {e})
  /\ added' = [added EXCEPT ![e] = <<>>]
  /\ UNCHANGED <<clock, windows, distinct, hits, seenAt>>

Next ==
  \/ Tick
  \/ \E k \in Key :
       \/ \E ts \in Timestamp : RecordHit(k, ts)
       \/ \E item \in Item : RecordDistinct(k, item)
       \/ ResetKey(k)
  \/ \E e \in Entity :
       \/ \E p \in Points : AddEntityRisk(e, p)
       \/ ResetEntity(e)

Spec == Init /\ [][Next]_vars

-----------------------------------------------------------------------------
TypeOK ==
  /\ clock \in Nat
  /\ windows \in [Key -> Seq(Timestamp)] /\ hits \in [Key -> Seq(Timestamp)]
  /\ \A k \in Key : /\ Len(windows[k]) <= Len(hits[k])
                    /\ DOMAIN distinct[k] \subseteq Item
                    /\ distinct[k] \in [DOMAIN distinct[k] -> Nat]
  /\ DOMAIN risks \subseteq Entity
  /\ risks \in [DOMAIN risks -> [score : 0..MaxScore, expiry : Nat]]

\* The hits of k that its window has evicted come first in its history.
Evicted(k) == Len(hits[k]) - Len(windows[k])

\* What a sliding window counts although hits arrive out of order (mod.rs:81-103):
\* it never misses a hit of the window shortened by the lateness, and never
\* counts one outside the window widened by it.  With hits in order (Lateness =
\* 0) that is the exact window.
WindowOffByLateness ==
  \A k \in Key : hits[k] # <<>> =>
    LET ts == Last(hits[k]) IN
      \A i \in DOMAIN hits[k] :
        /\ hits[k][i] \in (ts - Window + Lateness)..ts => i > Evicted(k)
        /\ i > Evicted(k) => hits[k][i] \in (ts - Window - Lateness)..(ts + Lateness)

\* Distinct items are counted for exactly their TTL since they were last seen,
\* although expired ones are only removed by a later insertion (mod.rs:127-159).
DistinctExact ==
  \A k \in Key :
    CountDistinct(k) = Cardinality({i \in DOMAIN seenAt[k] : clock < seenAt[k][i] + ItemTtl})

\* Additions to e made after the last gap of at least one TTL.
Streak(e) ==
  {i \in DOMAIN added[e] :
     /\ \A j \in i..(Len(added[e]) - 1) : added[e][j + 1].at < added[e][j].at + RiskTtl
     /\ clock < Last(added[e]).at + RiskTtl}

SumOfStreak(e) ==
  Sum([i \in DOMAIN added[e] |-> IF i \in Streak(e) THEN added[e][i].points ELSE 0],
      Len(added[e]))

\* Risk accumulates while evidence keeps coming, is forgotten as a whole one TTL
\* after the last of it, and never wraps (mod.rs:161-202).
RiskIsStreak ==
  \A e \in Entity : EntityRisk(e) = IF SumOfStreak(e) > MaxScore THEN MaxScore ELSE SumOfStreak(e)
=============================================================================
