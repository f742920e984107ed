--------------------------- MODULE RedisHotState ---------------------------
(***************************************************************************)
(* The hot state kept in Redis (crates/engine/src/state/mod.rs), which     *)
(* main installs when REDIS_URL is set.  Several control planes share one  *)
(* Redis; a client here is the detection worker of one of them.            *)
(*                                                                         *)
(* An operation is a sequence of commands, each atomic in Redis.  Other    *)
(* clients' commands and the passing of time come in between, and the      *)
(* connection or the control plane may fail after any of them: the         *)
(* commands sent stay applied and the rest is never sent.                  *)
(*                                                                         *)
(* A key exists while its value is not empty.  Its time to live counts     *)
(* down with Redis' clock; Forever is a key without expiry.                *)
(***************************************************************************)
EXTENDS Integers, Sequences, FiniteSets, FiniteSetsExt, Sums

CONSTANTS
  Client,       \* control planes
  Key,          \* keys of sliding windows: sorted sets
  SetKey,       \* keys of distinct items: sets
  Entity,       \* keys of entity risk: counters
  Item,
  Points,       \* risk weights
  Timestamp,    \* timestamps a hit may carry
  Window,       \* window_ms of a rule
  KeyTtl,       \* expire_secs of record_hit
  ItemTtl,      \* ttl of record_distinct
  RiskTtl,      \* ttl of add_entity_risk
  MaxScore,     \* u32::MAX
  Forever,      \* the time to live of a key without expiry
  Resettable,   \* names an operator may reset
  MaxCalls,     \* bound on the operations begun
  MaxCuts       \* bound on the operations cut off

\* Keys of the three kinds begin differently: enum_404:ip:, enum_paths:ip:, risk:.
ASSUME RedisAssumption ==
  /\ Key \cap SetKey = {} /\ Key \cap Entity = {} /\ SetKey \cap Entity = {}
  /\ Timestamp \subseteq Int /\ Window \in Nat
  /\ {KeyTtl, ItemTtl, RiskTtl} \subseteq Nat \ {0}
  /\ MaxScore \in Nat /\ Points \subseteq 1..MaxScore
  /\ Resettable \subseteq Key \cup SetKey \cup Entity
  /\ Forever \notin Nat /\ MaxCalls \in Nat /\ MaxCuts \in Nat

VARIABLES
  windows,   \* the hits in a sorted set: [ts, id]
  items,     \* the members of a set
  scores,    \* the value of a counter, 0 if it does not exist
  ttl,       \* the time to live of every key that exists, else Forever
  doing,     \* the call a client is in, or Idle
  next,      \* the command the client sends next
  calls,     \* history: [op, name, arg], the time since it began (age), whether
             \* its key has existed since it wrote (on), and whether it did when
             \* the call set its expiry (renewed)
  cutAt,     \* history: the names of the calls that were cut off
  cuts       \* history: how many there were

store == <<windows, items, scores, ttl>>
vars == <<store, doing, next, calls, cutAt, cuts>>

Idle == 0
Name == Key \cup SetKey \cup Entity
Calls == DOMAIN calls
Call(c) == calls[doing[c]]

Exists(n) == IF n \in Key THEN windows[n] # {} ELSE IF n \in SetKey THEN items[n] # {} ELSE scores[n] > 0

Init ==
  /\ windows = [k \in Key |-> {}] /\ items = [s \in SetKey |-> {}] /\ scores = [e \in Entity |-> 0]
  /\ ttl = [n \in Name |-> Forever]
  /\ doing = [c \in Client |-> Idle] /\ next = [c \in Client |-> "none"]
  /\ calls = <<>> /\ cutAt = {} /\ cuts = 0

-----------------------------------------------------------------------------
\* The client begins a call; on says whether its first command writes.
Begin(c, op, name, arg, on) ==
  /\ doing[c] = Idle /\ Len(calls) < MaxCalls
  /\ doing' = [doing EXCEPT ![c] = Len(calls) + 1]
  /\ calls' = Append(calls, [op |-> op, name |-> name, arg |-> arg, age |-> 0, on |-> on, renewed |-> FALSE])

Then(c, command) == next' = [next EXCEPT ![c] = command]

Return(c) ==
  /\ doing' = [doing EXCEPT ![c] = Idle]
  /\ Then(c, "none")

Without(hits, cutoff) == {h \in hits : h.ts > cutoff}

\* record_hit begins: ZREMRANGEBYSCORE -inf cutoff, which includes the cutoff.
\* A set that becomes empty is gone, and its expiry with it.
TrimWindow(c, k, ts) ==
  /\ Begin(c, "hit", k, ts, FALSE)
  /\ windows' = [windows EXCEPT ![k] = Without(@, ts - Window)]
  /\ ttl' = [ttl EXCEPT ![k] = IF windows'[k] = {} THEN Forever ELSE @]
  /\ Then(c, "zadd")
  /\ UNCHANGED <<items, scores, cutAt, cuts>>

\* ZADD of a member of its own.
AddHit(c) ==
  /\ next[c] = "zadd"
  /\ windows' = [windows EXCEPT ![Call(c).name] = @ \cup {[ts |-> Call(c).arg, id |-> doing[c]]}]
  /\ calls' = [calls EXCEPT ![doing[c]].on = TRUE]
  /\ Then(c, "expire")
  /\ UNCHANGED <<items, scores, ttl, doing, cutAt, cuts>>

\* record_distinct begins: SADD.
AddItem(c, s, item) ==
  /\ Begin(c, "item", s, item, TRUE)
  /\ items' = [items EXCEPT ![s] = @ \cup {item}]
  /\ Then(c, "expire")
  /\ UNCHANGED <<windows, scores, ttl, cutAt, cuts>>

IncrRisk_Narrow(c, e, points) ==
  /\ Begin(c, "risk", e, points, TRUE)
  /\ scores' = [scores EXCEPT ![e] = @ + points]
  /\ Then(c, IF scores[e] + points > MaxScore \div 4 THEN "fail" ELSE "expire")
  /\ UNCHANGED <<windows, items, ttl, cutAt, cuts>>

\* add_entity_risk begins: INCRBY.  A sum that is no u32 is an error for the
\* client, which ends the call, but not for Redis.
IncrRisk(c, e, points) ==
  /\ Begin(c, "risk", e, points, TRUE)
  /\ scores' = [scores EXCEPT ![e] = @ + points]
  /\ Then(c, IF scores[e] + points > MaxScore THEN "fail" ELSE "expire")
  /\ UNCHANGED <<windows, items, ttl, cutAt, cuts>>

TtlOf(op) == CASE op = "hit" -> KeyTtl [] op = "item" -> ItemTtl [] op = "risk" -> RiskTtl

Renew_KeepsExpiry(c) ==
  /\ next[c] = "expire"
  /\ ttl' = [ttl EXCEPT ![Call(c).name] =
               IF Exists(Call(c).name) /\ @ = Forever THEN TtlOf(Call(c).op) ELSE @]
  /\ calls' = [calls EXCEPT ![doing[c]].renewed = Call(c).on]
  /\ IF Call(c).op = "risk" THEN Return(c) ELSE Then(c, "count") /\ UNCHANGED doing
  /\ UNCHANGED <<windows, items, scores, cutAt, cuts>>

\* EXPIRE: nothing happens if the key is gone by now.  It is the last command
\* of add_entity_risk.
Renew(c) ==
  /\ next[c] = "expire"
  /\ ttl' = [ttl EXCEPT ![Call(c).name] = IF Exists(Call(c).name) THEN TtlOf(Call(c).op) ELSE @]
  /\ calls' = [calls EXCEPT ![doing[c]].renewed = Call(c).on]
  /\ IF Call(c).op = "risk" THEN Return(c) ELSE Then(c, "count") /\ UNCHANGED doing
  /\ UNCHANGED <<windows, items, scores, cutAt, cuts>>

Count(c) ==
  /\ next[c] = "count"
  /\ Return(c)
  /\ UNCHANGED <<store, calls, cutAt, cuts>>

\* count_in_window (ZCOUNT), count_distinct (SCARD) and get_entity_risk (GET)
\* are one command each.
CountInWindow(k, now) == Cardinality({h \in windows[k] : h.ts \in (now - Window)..now})
CountDistinct(s) == Cardinality(items[s])
EntityRisk(e) == scores[e]

\* What INCRBY answered is no u32: the call returns an error.
Fail(c) ==
  /\ next[c] = "fail"
  /\ Return(c)
  /\ UNCHANGED <<store, calls, cutAt, cuts>>

\* The connection is lost, or the control plane crashes, between two commands.
CutOff(c) ==
  /\ next[c] \in {"zadd", "expire", "count"} /\ cuts < MaxCuts
  /\ Return(c)
  /\ cutAt' = cutAt \cup {Call(c).name} /\ cuts' = cuts + 1
  /\ UNCHANGED <<store, calls>>

-----------------------------------------------------------------------------
\* The keys of these names are deleted.
Delete(names) ==
  /\ windows' = [k \in Key |-> IF k \in names THEN {} ELSE windows[k]]
  /\ items' = [s \in SetKey |-> IF s \in names THEN {} ELSE items[s]]
  /\ scores' = [e \in Entity |-> IF e \in names THEN 0 ELSE scores[e]]

\* reset_key deletes the key of a name and the counter of the same name; keys
\* of rules and entities never share one, so one of the two finds nothing.
\* Nothing in the program calls it yet.
ResetKey(n) ==
  /\ Exists(n)
  /\ Delete({n})
  /\ ttl' = [ttl EXCEPT ![n] = Forever]
  /\ calls' = [i \in Calls |-> IF calls[i].name = n
                                 THEN [calls[i] EXCEPT !.on = FALSE, !.renewed = FALSE] ELSE calls[i]]
  /\ UNCHANGED <<doing, next, cutAt, cuts>>

\* Time passes in Redis: keys at the end of their time to live are deleted.
Pass ==
  LET over == {n \in Name : ttl[n] = 1} IN
    /\ Delete(over)
    /\ ttl' = [n \in Name |-> IF n \in over \/ ttl[n] = Forever THEN Forever ELSE ttl[n] - 1]
    /\ calls' = [i \in Calls |-> [calls[i] EXCEPT !.on = @ /\ calls[i].name \notin over,
                                                  !.age = Min({@ + 1, TtlOf(calls[i].op)})]]
    /\ UNCHANGED <<doing, next, cutAt, cuts>>

Next ==
  \/ Pass
  \/ \E n \in Resettable : ResetKey(n)
  \/ \E c \in Client :
       \/ \E k \in Key, ts \in Timestamp : TrimWindow(c, k, ts)
       \/ \E s \in SetKey, item \in Item : AddItem(c, s, item)
       \/ \E e \in Entity, p \in Points : IncrRisk(c, e, p)
       \/ AddHit(c) \/ Renew(c) \/ Count(c) \/ Fail(c) \/ CutOff(c)

\* Redis' clock goes on, and a client that is not cut off gets on with a call.
Fairness ==
  /\ WF_vars(Pass)
  /\ \A c \in Client : WF_vars(AddHit(c) \/ Renew(c) \/ Count(c) \/ Fail(c) \/ CutOff(c))

Spec == Init /\ [][Next]_vars /\ Fairness

-----------------------------------------------------------------------------
\* The calls on n that began less than a TTL ago.
Recent(n) == {i \in Calls : calls[i].name = n /\ calls[i].age < TtlOf(calls[i].op)}

\* Those whose expiry was set in time.
Due(n) == {i \in Recent(n) : calls[i].renewed}

\* A trim of k by whichever client removed everything up to this time.
Cutoff(k) == Max({calls[i].arg : i \in {j \in Calls : calls[j].name = k}}) - Window

\* What a client recorded and gave an expiry is there for a whole TTL, although
\* other clients trim, renew, fail and add to the same key in between: a hit
\* that no later one pushed out of its window, and every distinct item
\* (mod.rs:232-273).
RecentIsCounted ==
  /\ \A k \in Key : \A i \in Due(k) :
       calls[i].arg > Cutoff(k) => [ts |-> calls[i].arg, id |-> i] \in windows[k]
  /\ \A s \in SetKey : \A i \in Due(s) : calls[i].arg \in items[s]

SumOf(S) == Sum([i \in Calls |-> IF i \in S THEN calls[i].arg ELSE 0], Len(calls))

\* No points are lost or counted twice when control planes add to one entity at
\* the same time: its score is at least what was added and given an expiry less
\* than a TTL ago, and at most all that was ever added (mod.rs:288-299).
RecentRiskCounts ==
  \A e \in Entity :
    scores[e] \in SumOf(Due(e))..SumOf({i \in Calls : calls[i].name = e})

\* A key without expiry is about to get one, or a call on it was cut off
\* between its commands: nothing else leaves one behind (mod.rs:243-245,
\* :269-270, :296-297).
LeakNeedsACut ==
  \A n \in Name :
    Exists(n) /\ ttl[n] = Forever =>
      \/ n \in cutAt
      \/ \E c \in Client : next[c] = "expire" /\ Call(c).name = n

\* When no more points are added, the score of an entity ends, unless a call
\* that added some was cut off (mod.rs:288-299).
RiskFades == \A e \in Entity : <>[](EntityRisk(e) = 0 \/ e \in cutAt)
=============================================================================
