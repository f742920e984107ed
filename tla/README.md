# Distributed Security Control Plane: TLA+ models and proofs

This directory holds a formal model of the control plane, its agent SDK and the
adapters of its sensors. The modules are translated from the
Rust sources under `src/crates/`; TLC checks them on small instances, and TLAPS
proves, for every value of the constants, every safety property the runs check: about
the containment guard, the manager, and both together; policy requests; the advisory
gate; both hot states, and the rules that count over the one in memory; incidents; the
telemetry pipeline from the application and the kernel to the stream and the sink; and
the correlator with its sensors. Liveness stays with TLC.

File names below are relative to `src/crates/`. `PROJECT.json` maps every
definition to the lines it stands for, and lists the runs, the hazards, the
findings and the theorems.

## 1. The system

A protected application links the agent SDK, which sends telemetry to the control
plane and enforces signed containment commands inside the application. The
control plane validates telemetry, broadcasts it on an in-memory stream, saves the
significant part of it, correlates it, evaluates rules and keeps incidents.
Operators, or an advisory worker behind a policy gate, dispatch containment
commands.

```
 application ── record ──► queue ── flush thread ── POST ──► handle_telemetry ──► durable sink
                                                               │ publish_batch
 kernel ── eBPF ring ── polling thread ── channel ── publish ──┤
                                                               ▼
                                             event stream (broadcast + backlog)
                                                │                    │
                                   detection worker              dashboards
                         correlator: identity, capabilities,      (WebSocket, polling)
                         graph, attack chain │
                                             ▼
                                 rules + hot state ──► incidents ◄── analysts
                                                           │
                          advisory worker ──► policy gate ─┴─► containment manager ◄── sweeper
                                                                     │ signed command
                                                                     ▼
                                                         containment guard (in the application)
```

### Components

| Component (source) | State | Operations | What makes it hard | What makes it correct |
|---|---|---|---|---|
| Containment guard (`agent-sdk/src/guard.rs`, `common/src/crypto.rs`) | seen nonces, three maps of restrictions | apply, roll back, ask about a request, evict on lookup | threads between the clock reading and the lock; late and repeated commands; eviction of nonces; restart | no command applied twice, a rollback sticks, enforcement is what was signed, nothing live is passed |
| Containment manager and sweeper (`engine/src/containment/mod.rs`, `common/src/containment.rs`, `control-plane/src/main.rs`) | command record, key pair | dispatch, rollback, list, sweep | a command is signed before it is on record; rollback races sweep; restart with a new key; a TTL is cast from u64 to i64 | enforced commands are on record, outcomes are final, every command ends, lifetimes are what was asked for |
| In-memory hot state (`engine/src/state/mod.rs`) | sliding windows, distinct sets, risk | record and count hits, distinct items, risk, reset | event time and wall time; late hits; expiry at the moment of reading; saturation | counts are those of the window, risk is that of an unbroken streak |
| Redis hot state (same file) | the same in sorted sets, sets and counters with an expiry | the same seven, as sequences of commands | several control planes; a key that expires, or a connection that breaks, between two commands | nothing recent is missing, scores end, only a cut leaves a key without expiry |
| Detection rules (`engine/src/rules/mod.rs`) | none | six conditions and their thresholds | order and early return | right severity, weight, target |
| Incident engine (`engine/src/evaluator.rs`, `incident.rs`) | active map, history, broadcast | ingest and evaluate, list, change of status | two copies under two locks; worker against analysts; hot state failing half-way | copies agree, each signal counted once, no second incident beside a live one |
| Telemetry agent (`agent-sdk/src/lib.rs`) | queue, batch, drop counter | record, flush, post, close | full queue, timeout with a late handler | every event accounted for, none twice, in order |
| Event stream (`control-plane/src/stream/mod.rs`) | broadcast ring, backlog | publish, publish_batch, subscribe, get_recent | send and push are two steps; receivers overtaken | backlog is the newest, no silent gap |
| Detection worker, dashboard sockets (`main.rs`, `control-plane/src/api/mod.rs`) | position in the ring, `select!` branches, two tasks per session | receive, lag, close | lag ends or silences a receiver; either task of a session may end first | the feed catches up |
| Metrics (`control-plane/src/metrics.rs`) | counters, gauge | count where events are refused, broadcast, saved; count sessions | handlers dropped half-way | counters agree with what happened |
| Ingestion and sink (`api/mod.rs`, `common/src/validation.rs`, `control-plane/src/storage/mod.rs`) | sink records | validate, publish, spawned save | handler dropped while it awaits | the sink follows the stream |
| Native sensor (`sensor-native*`) | ring buffer, channel | four probes, poll, normalize, forward | three queues in a row; probes fire before the call succeeds; `/proc` is read later than the probe; reads of user memory fail one by one | one event per recorded call in order, root shells are alarmed, events tell what was passed |
| External sensors (`sensors/src`, `control-plane/src/api/sensors.rs`) | none; the handlers publish and save | parse and translate reports, answer | partial payloads; a client that leaves at an await; names that mean several things | an answer is true of the stream, what is accepted is saved, a container is one entity |
| Policy engine and simulation (`engine/src/policy/mod.rs`, `common/src/policy.rs`, `api/mod.rs`) | bundles | add, remove, evaluate, simulate, match a scope | map order; commands and bundles are read one after the other; patterns as text | deny wins, a revocation answered for is in force, a scope covers what its glob covers |
| Advisory controller and gate (`engine/src/advisory`, `control-plane/src/api/advisory.rs`) | mode, history | analyze, submit, gate, dispatch, record | the mode and the bundles change while a request is under way; dropped requests | what is ruled out is not enacted, the history is truthful |
| Correlator (`correlator/src`) | aliases, entities, graph, chain progress | process_event, subgraph | merges of identities; events out of order | identity is connectivity, merges lose nothing and keep first and last sight, chains are reported |

Hard behaviours of the whole are listed one by one, at their lines, under
`hazards` in `PROJECT.json`.

## 2. The modules

| Module | Models | State ↔ code |
|---|---|---|
| `EnforcementSlots` | which keys of which map a command, a rollback and a request touch | the `trim_start_matches` prefixes and the action match arms; a slot is (map, name[, capability]) |
| `EnforcementLease` | abstract specification: a command is fresh, claimed, spent; a lease on a slot is granted, released, lapses, or is forgotten with the process | none; it states the promise |
| `ContainmentGuard` | `ContainmentGuard` with `NonceTracker` | `seen` = `seen_nonces`, `table` = the three maps, `call[t]` = where thread t is. One action per critical section or clock reading |
| `GuardRequests` | **ContainmentGuard**, with a history of its requests beside it | `standing[t]` = restrictions in force ever since t's request was made |
| `ContainmentManager` | `ContainmentManager`, its handlers, the sweeper | `commands` = the record, `pending` = between signature and lock, `sent` = what left in a response |
| `Containment` | **ContainmentManager + ContainmentGuard** with clocks apart | the agent's clock is `clock + Offset` |
| `MemoryHotState` | `MemoryHotState` | `windows`, `distinct`, `risks`; history of calls beside them |
| `RedisHotState` | `RedisHotState`, by several control planes | `windows`, `items`, `scores` with times to live; `doing[c]` and `next[c]` = the call client c is inside and its next command. One action per Redis command |
| `DetectionRules` | the six default rules, their order, `target_entity` | pure operators |
| `DetectionWindows` | **MemoryHotState + DetectionRules**: the counting rules | `evaluated` = what each event raised |
| `Incidents` | `RuleEngine` worker, incidents, status handler; **uses DetectionRules** | `active` = `active_incidents`, `history` = `incident_history`, `announced` = the last broadcast |
| `EventStream` | `publish`, `publish_batch`, `get_recent` | `publishing` = where each publisher is, `published` = the broadcast, `backlog` |
| `StreamSubscribers` | **EventStream** + detection worker + dashboard socket | `detector`, `socket.deaf` = disabled branches of `select!` |
| `TelemetryAgent` | `record_event_non_blocking`, `run_flush_worker` | `queue`, `batch`, `dropped`, `flusher` |
| `Pipeline` | **TelemetryAgent + EventStream** + requests, `handle_telemetry`, sink, native sensor | `requests[r].step` = where the request or its handler is |
| `TelemetryDelivery` | abstract specification: each recorded event meets one fate, for good, and none is held for ever | none; `Pipeline` implements it |
| `SensorAdapters` | `parse_event` of Tetragon, Falco and Hubble | pure operators from reports to events |
| `SensorDetection` | **SensorAdapters + Correlator + DetectionRules**: what the worker finds on the stream, of sensors and of agents | `reports` = history |
| `PolicyEngine` | bundles and `evaluate` | `bundles`; map order is a choice |
| `PolicyRequests` | **ContainmentManager + PolicyEngine** + evaluation, simulation, changes of bundles | `asked[p]` = where request p is, with what held all along or at some time since it began |
| `Advisory` | **PolicyEngine** + modes, worker, gate, dispatch, history | `task[t].step`: asking, gate, authorized, enacted, rejected |
| `IdentityResolver`, `CapabilityInference`, `ContextGraph`, `AttackChain` | the four parts of the correlator | `canonical` = `alias_to_canonical`, `entities`, `nodes`, `edges`, `progress` |
| `Correlator` | **their composition**, `process_event` | one action: the worker is the only caller |
| `Sums` | sums over a sequence and over a set | recursive functions, so that they can be proved about |
| `ContainmentGuardProofs`, `ContainmentProofs`, `MemoryHotStateProofs`, `RedisHotStateProofs`, `IncidentsProofs`, `AdvisoryProofs`, `PipelineProofs`, `CorrelatorProofs` | theorems and proofs: `ContainmentProofs` also of `ContainmentManager` and `PolicyRequests`, `MemoryHotStateProofs` also of `DetectionWindows`, `PipelineProofs` also of `StreamSubscribers` and of the refinement of `TelemetryDelivery` | |
| `MC*` | values of constants for TLC | |

Granularity. An action ends where the code can be interleaved: where it gives up a
lock, awaits, or reads a clock outside the lock that uses the reading. What
happens under one lock is one action. Handlers that may be dropped with their
connection can be dropped only where they await.

Abstractions. Signatures are ideal. Names, payloads and resources are model values; the
prefixes that `EnforcementSlots` strips are kept, because rollback and installation
treat them differently. A rule that counts hits may fire or not in `Incidents`;
how hits are counted is the subject of `MemoryHotState`, and which rule fires when of
`DetectionWindows`. A pattern in `PolicyEngine` stands for the resources it matches. The text an
event is searched for is the set of words found in it.

## 3. The runs

### Passing

| Run | Question | Distinct states |
|---|---|---|
| `guard` | Can any interleaving of two threads, with late and repeated commands, rollbacks, requests and restarts, apply a command twice, revive one that was rolled back, enforce what nobody signed, or allow a request although a restriction on it is in force from the question to the answer? Does the guard implement the lease? | 532,130 |
| `containment` | With manager, sweeper, guard, restarts of both and clocks one tick apart: is what is enforced on record, is an outcome final, does every command end, and is the manager an environment the guard was verified for (`GuardSpec`)? | 344,723 |
| `hotstate` | How far can late hits put the sliding window off? Are distinct counts and risk exact at the moment of expiry and at saturation? | 1.7 million |
| `incidents` | Do the two copies and the broadcast agree while analysts act and the hot state fails? Is each signal evidence exactly once? May a severity fall, and when? | 90,461 |
| `stream` | Can a receiver have a gap it does not know of? Does a dashboard recover after a lag? | 76,074 |
| `pipeline` | Is every event in exactly one place at every moment, from the queue to the stream and the sink? Do the counters agree? Does the whole implement `TelemetryDelivery` (`DeliverySpec`), so that every event meets a fate? | 295,979 |
| `advisory` | Can what the policy rules out at every moment since it reached the gate get a command while operators change bundles and modes? Does the history tell the truth about what was issued? | 437,732 |
| `correlator` | Over every sequence of four out of ten sensor reports and twelve agent events: are identities the connected components of aliases, does the graph agree with them, are first and last sight kept through merges, are chains reported, does a shell that Tetragon's adapter knows, started in a container, leave its trace in the alarm, the sink's filter, the entity and the chain? | 245,411 |
| `redis` | Two control planes on one sorted set, one set and one counter, cut off or not: is anything recent missing, are points lost, does a key stay without expiry, do scores end? | 1,068,597 |
| `windows` | Bursts of four events of two sources and three kinds: does a signal rest on its own rule's and source's evidence, and is no burst overlooked? | 172,786 |
| `policy_requests` | An evaluation reads commands, then bundles, while everything changes: is what held all along missed, or what never held reported? | 520,750 |

Type invariants are stated in every module that has proofs, and proved there (section 4);
of them only the guard's is also run.

### A violation: where code and text part

| Run | Text | What TLC shows |
|---|---|---|
| `detector_lag` | stream/mod.rs:77, events are broadcast to the detector | `while let Ok(..)` ends at the first `Lagged`: a burst larger than the ring ends detection for good, while everything else goes on |

`detector_lag` runs because its counterexample takes a whole schedule: two publishers, a
busy worker and a ring that wraps. The other disagreements met while modelling can be
read off a few lines of the source, and stand in `findings` with the lines and the
words they contradict. The weightiest:

* a rollback that comes between a command's nonce check and its installation is lost
  (guard.rs:92);
* a second command for a target ends the first one early, if it expires earlier (guard.rs:61);
* Mode A does not stop submitted recommendations (api/advisory.rs:219);
* late hits are counted after they left the window (state/mod.rs:95);
* severity falls with the second signal of a critical incident (incident.rs:83);
* an evaluation ends at the first failure of the hot state, after the rule fired (main.rs:101);
* a batch whose request fails is cleared, not buffered (lib.rs:188);
* which default decides depends on the order of a hash map (policy/mod.rs:199);
* the counter Redis keeps for a risk may be left without expiry (state/mod.rs:297);
* actors whose names contain each other share revocations (containment/mod.rs:183);
* a TTL beyond i64 expires in the past (common/src/containment.rs:81);
* one container is several applications to the adapters (tetragon.rs:202, falco.rs:48).

### Bounds and why they are enough

* `guard`: two commands, two threads, clock 0..6 in ticks, two ticks to a second, a
  skew of zero whole seconds (a window of just under one second, because the code
  truncates), a retention exactly equal to window plus longest stall. Two threads
  and one command exhibit every race for a nonce; the second command exhibits
  every overwrite. The clock is long enough for a nonce to be evicted and its
  command to be presented again. The retention is the least the assumption admits,
  so that one tick less is caught.
* `containment`: one restart of the control plane, any number of the agent's; TTLs
  shorter and longer than a dispatch may wait for the lock; sweep every tick, one
  tick late at most.
* `hotstate`: timestamps that span more than two windows, lateness one, four hits,
  three additions that saturate a small `u32`. Keys do not interact in the code.
* `incidents`: three events and three signals, so that an incident can be opened,
  extended past its evidence limit of two, closed, followed by another, and
  reopened; a score that saturates.
* `stream`: ring and backlog of two, four events from two publishers, batches of
  two: a receiver can be overtaken twice.
* `pipeline`: two recorded events of each of three kinds (plain, malformed,
  significant; the malformed kind would be kept if it were valid), two kernel
  events, queues of one, batches of up to two: every queue can be full, every
  batch mixed, every request overtaken by the next.
* `advisory`: two requests at a time, three in all; four bundles under two ids.
* `correlator`: nine aliases of all four kinds, six applications, window one, three
  times, so that events can be late and just outside the window; reports that differ in
  the fields an adapter branches on, binaries with their directory and without among
  them (`classify_binary` knows `/bin/zsh` and not `zsh`); an agent's event with a blank
  user id, which is no alias and yet makes its entity a user. Four events are enough for two groups to form,
  merge and be used, and for a chain of three stages with one event to disturb it.
* `redis`: two clients, three calls, one cut, TTLs of two ticks, a `u32` of 0..4: every
  pair of commands of one call can have another client's call, an expiry or a cut
  between them, and the third addition overflows.
* `windows`: thresholds of two and three, a window of two, events one tick late:
  each counting rule is just met and just missed.
* `policy_requests`: one request at a time (requests only read), two commands, one
  restart, an operator who replaces any bundle at any moment.

`CHECK_DEADLOCK FALSE` appears where the model ends at its bounds (no more
events, requests or signals) and the system would just wait for input.

### Fairness

Safety is checked without fairness. The runs with liveness assume:

* `containment`: time passes; the sweeper's interval fires (`main.rs` loops over
  `interval.tick().await` and nothing in the loop can end it); a dispatch that
  waits for the write lock gets it (tokio's RwLock is fair); a thread between the
  clock reading and the nonce check is scheduled. Time does not run past a late
  sweeper, a waiting dispatch or a suspended thread by more than the bounds
  `SweepLag`, `DispatchStall` and `GuardStall`. Nobody is obliged to dispatch,
  respond, apply or roll back.
* `stream` and `detector_lag`: publishers that have started finish, both receivers
  take what is waiting for them. Publishers need not start, dashboards need not
  leave, incidents need not occur.
* `pipeline`: the flush thread, handlers, spawned saves, the polling thread and the
  forwarding task run; a request nobody waits for is eventually lost or handled,
  one that is waited for is answered or times out (two seconds, `lib.rs`).
  The application and the kernel need not produce anything.

* `redis`: Redis' clock passes, and a client inside a call gets on with it, fails or is
  cut off. Nobody is obliged to call.

All of it is weak fairness of single tasks that stay ready until they run.
`DeliverySpec` states its liveness as leads-to (`held ~> ~held`), not as fairness of
abstract actions, so that no ENABLED has to be carried through the refinement.

## 4. Proofs

Eight modules hold theorems. Constants are arbitrary up to the assumption named in the
module they are declared in; TLC evaluates these on every run.

### The containment guard

For every set of commands, messages, requests and threads, every clock, and every
value of skew, retention and stall that satisfies `GuardAssumption`. What matters in
that assumption is

    SkewWindow + MaxStall <= Retention

a nonce is kept for at least as long as a copy of its command passes the skew
check, plus the time a thread may be suspended between the two. In the code it
reads 61 s + stall <= 900 s (the skew of 60 whole seconds is a window of just under
61, since the difference is truncated).

| Theorem | Statement |
|---|---|
| `TypeCorrect` | `Spec => []TypeOK` |
| `ReplaySafe` | `Spec => []NoReplay`: no nonce is accepted twice by one run of an agent |
| `RollbackSticks` | `Spec => []LiftedStaysLifted` |
| `EnforcementBacked` | `Spec => []EntriesBacked` |
| `ClaimWindow` | `Spec => ClaimsOnlyInWindow` (action property) |
| `NothingLivePasses` | `RequestSpec => NothingLivePassed` (action property): what is in force from the question to the answer denies a request |
| `GuardImplementsLease` | `Spec => LeaseSpec`: the guard refines `EnforcementLease` |

**The inductive invariant.** `NoReplay` is not inductive, because nonces are
evicted: from a state in which an accepted nonce is simply missing, a copy would be
accepted again. `IInv` adds what excludes such states:

* `SeenExact`: a recorded nonce has the timestamp of its command and was accepted once;
* `ForgottenIsOld`: an accepted nonce is missing only if its command is older than
  the retention;
* `ReadingFresh`: what a thread carries into the nonce check was read at most
  `MaxStall` ago and passed the skew check;
* `CarriedOnce`: at most one thread carries a command from the check to the tables,
  and that command is neither enforced nor rolled back yet;
* `AppliedWasAccepted`: what is enforced or was rolled back was accepted.

**The argument** is in lemma `FirstClaim`. Suppose a thread finds no nonce for its
command although the command was accepted before. By `ForgottenIsOld`, or by the
eviction the thread makes itself, the command is older than the retention; by
`ReadingFresh` it is younger than skew window plus stall; the assumption excludes
both. With `CarriedOnce` each acceptance leads to at most one installation, which
gives `LiftedStaysLifted`; `EntriesBacked` follows step by step, since every
insertion overwrites its slot and every removal of a command from `enforcing`
removes its slots (lemma `OneSlot`).

**The refinement** maps `phase[c]` to fresh, claimed or spent from `accepted` and the
threads' calls, and `lease` to `table`. Lookups are the interesting case: the clock is
read before the lock, so that the entry removed must be over by the present clock;
`ReadingPast` (a reading is not ahead of the clock) gives that.

**Requests** are answered by up to three lookups, each with a clock reading and a lock of
its own. `GuardRequests` records which restrictions have been in force ever since a
request was made; `StandingInv` says that these are in force now and have yet to be looked
up, since a lookup goes past a slot only when nothing in force is there (`LookUpPasses`).
When the last lookup has gone past, none can be left.

TLC checks in run `guard` the same formulas the theorems name.

### The manager, and the whole of containment

| Theorem | Statement |
|---|---|
| `ManagerTypeCorrect` | `Spec => []TypeOK` of `ContainmentManager` |
| `OutcomesAreSettled` | `Spec => OutcomeSettled`: rolled back or expired is final while the process lives |
| `EnforcementIsOnRecord` | `SystemSpec => []EnforcedIsOnRecord` |
| `SystemImplementsGuard` | `SystemSpec => GuardSpec`: the agent's steps are the guard's, the manager's are its environment's |
| `AgentIsSafe` | `SystemSpec => [](NoReplay /\ LiftedStaysLifted /\ EntriesBacked)` of the guard inside the system |

`ManagerInv` says that a command is never both waiting for the lock and on record.
`SystemInv` adds `SignersKnown` (what was handed out is the recorded command, or was
signed by an earlier start) and `HandedOut` (what the agent carries or enforces was
handed out).

`AgentIsSafe` is the composition. The guard's theorems are taken from an instance of
`ContainmentGuardProofs` under the substitution of `Containment` (the agent's clock is
`clock + Offset`, its messages are the commands handed out). Their assumption becomes
a statement about the system's constants, lemma `AgentAssumption`, which follows from
`SystemAssumption`; with `SystemImplementsGuard` the theorems hold of the system.

### The telemetry pipeline

For all kinds of events, queue, batch and ring sizes, any number of events, requests and
time-outs.

| Theorem | Statement |
|---|---|
| `PipelineAccounts` | `PipelineSpec => []Accounted` |
| `SourcesKeepOrder` | `PipelineSpec => []SourceOrder` |
| `SinkFollows` | `PipelineSpec => []SinkFollowsStream` |
| `CountersAreRight` | `PipelineSpec => []CountersAgree` |
| `PipelineDelivers` | the pipeline's initial states and steps are those of `TelemetryDelivery`, or stutter |
| `WorkerHasNoGap`, `BacklogStaysNewest` | `Spec => []DetectorHasNoGap`, `Spec => []BacklogIsNewest` of `StreamSubscribers` |

The invariant follows an event on its way. `Underway`: what was recorded is refused, in the
queue, in the batch that is being collected, or in a request, and each of these places
holds later events than the next. `Handlers`: what became of each event of a request is
determined by the step of the request, and a handler has still to publish, in order, what is
left of its valid events. `Waits`: at most the latest request is waited for, and one that is
not was answered, given up, or is past publishing. `KernelOrder` is `Underway` for the
ring, the channel and the forwarding task. `Sunk`: what is pushed was broadcast, and the
sink has the significant events of finished requests and no others.

`Accounted` follows because the places are disjoint (lemma `OnePlace`). `SourceOrder` holds
when a handler sends: an earlier event of the source that is not broadcast yet would be in
an earlier request whose handler still runs, and by `Waits` that request was given up; the
property excepts just these. For the counters, `CountersMean` says what
each of them has counted while a handler is in the middle of its step.

The refinement (`DeliveryStarts`, `DeliveryRecords`, ..., `DeliveryKeeps`) maps the
abstract fate of an event to where it is. The leads-to in `DeliverySpec` is TLC's.

`StreamSubscribers`: the worker stands behind what it took (`Gapless`), and the backlog is
the end of what was pushed (`Newest`).

### The in-memory hot state and the rules that count

| Theorem | Statement |
|---|---|
| `HotStateTypeCorrect` | `Spec => []TypeOK` of `MemoryHotState` |
| `WindowIsOffByLateness` | `Spec => []WindowOffByLateness` |
| `DistinctIsExact` | `Spec => []DistinctExact` |
| `RiskIsOfStreak` | `Spec => []RiskIsStreak` |
| `BurstsRaiseSignals` | `WindowsSpec => []SignalsFollowBursts` of `DetectionWindows` |

For all keys, timestamps, latenesses, windows, lifetimes and weights. `WindowsSound` is what
makes the second inductive: the deque is a suffix of the hits, its front is within the window
of the newest arrival, and each hit that went was followed or preceded by one more than
a window newer. A hit evicted was thus outside the window of some hit, and hits are at
most `Lateness` out of order: it misses no window that is shortened by the lateness.
`DropStops` shows that the loop of the code ends where the model's choice says.
`RisksFounded` says that a score is the saturated sum of its additions since the last one
that came after an expiry or a reset.

`BurstsRaiseSignals` is about any events, thresholds and number of evaluations. Its
invariant `Noted` ties the hot state to the events evaluated: the hits of a key are, one
for one and in order, the events some rule recorded under it (`Orders`), and the routes of a
key were last seen when the latest of its events asked for them (`Routed`). `KeysTell` is
the reason bursts do not mix: a key belongs to one rule and one source. With it,
`WindowCounts` compares the length of a window with the number of events in the shortened
and in the widened interval, by an injection each way.

### The hot state in Redis

`RedisInv` (the inductive invariant), `RecentStaysCounted`, `RiskStaysCounted` and
`LeaksNeedACut`, for any number of control planes and calls, with expiries and cuts between
any two commands. `Lasting`: a key lives at least as long as the time to live of each call
that renewed it asks for. `Written`: what a call wrote is in its key as long as the key has
not been deleted since, unless a call a window later trimmed it. `Added`: a score is the sum
of what was added since its key exists. A key that is gone was thus not renewed within its
time to live, which is what the properties need. `RedisAssumption` includes that the three kinds of
keys have different names (`bf:ip:` and the like, `enum_paths:ip:`, and `risk:` in the code).

### The correlator and its sensors

For any aliases, applications, reports and agent events, in any number and order. `SensorSpec`
implements `Spec` of `Correlator` (lemma `SensorsAreEvents`), so that the invariants of the
correlator hold of it.

| Theorem | Statement |
|---|---|
| `IdentityConnects` | `SensorSpec => []IdentityIsConnectivity` |
| `GraphAgrees` | `SensorSpec => []GraphAgreesWithIdentity` |
| `SightsSurvive` | `SensorSpec => []SightsSurviveMerges` |
| `ChainsReported` | `SensorSpec => []ChainsAreReported` |
| `KnownShellsAreTraced` | `SensorSpec => []KnownShellsLeaveATrace` |

* Identity: an alias leads to one that leads to itself (`Anchored`), and that one is an
  entity (`Inhabited`); aliases named together lead to one entity (`Linked`); and however the
  aliases of an entity are split in two, some event names aliases of both parts (`Bridged`).
  The last is what makes connectivity follow: a union of components that is not the
  whole entity would contradict it.
* Graph: each event went to an entity that still has all its aliases (`Recorded`); counts,
  applications and capabilities of an entity are those of its events (`Tallied`); edges are
  those the events drew, as often (`Graphed`). The property sums the counts of the graph
  over an entity's former ids; `SumOfSizes` shows that such a sum is the size of a
  union of disjoint sets of events, so that both sides count the same set.
* First and last sight: an entity begins with the first event of one of its founding ids and
  ends with the latest of its events, or of the server's clock when it was founded
  (`Begins`, `Ends`, `Sighted`); a merge takes the extremes of the parts' extremes.
* Chains: each event within the window of the newest has a place of its own among the
  observations the detector keeps (`Watched`); a signal shows a chain (`Signalled`);
  and where events come in the order of their times and make a chain, the alert is raised
  (`Alerted`). A chain of events thus has as many places as it has events, however many
  others lie between.
* Shells: each event was made of its report (`Rendered`), and what Tetragon's adapter makes
  of a shell it knows (a path that ends in sh, bash or zsh, or a bare sh or bash) in a
  container is what the four recipients look for (`ShellEvent`). Nothing is promised for
  the other shells: dash, and zsh without a directory, are Low and not kept, although the
  kernel rule raises an alarm for them (`findings`).

### Incidents

`IncidentTypeCorrect`, `CopiesStayEqual`, `SignalsCountOnce`, `EvidenceStaysLatest`,
`OneLiveIncident` and `SeverityHoldsLater`, for all rules none of which weighs less than
the first threshold (25; true of the default rules). The invariant: ids are places in the
history, and the listed incident of a target is the copy of its latest (`Copies`); each
signal has one place in one incident of its target, except those the hot state failed on
and the one in hand (`Placed`); from the second signal on the severity follows from the
score (`AllFounded`).

### Policy requests

`RequestTypeCorrect`, `RevocationsStayCurrent` and `DenyWins`, for any number of clients,
commands and bundles. A request notes when it begins what is in force; `WitnessTrue` says
the notes are right (what held all along holds now), `PastTheCheck` that a request past
its first read overlooked no revocation there.

### Advice

`AdvisoryTypeCorrect`, `RuledOutStaysOut` and `LogIsTruthful`: what is noted as ruled out is
ruled out now and not past the gate (`BarredIsBarred`); each request is under way once or
in the history once (`Whereabouts`). Ruled out means: of too little confidence, or denied by
some rule at every moment since it arrived at the gate. A rule that is added after the
evaluation comes too late, and nothing looks at the mode after an analysis has begun.

### Recursion

Four functions the properties compare with are recursive: `Only` (the events of a source in
a sequence), `Sum`, `SumOver`, and `Kept` (the observations a detector keeps). The
library's induction theorems take an operator as a parameter, which the installed provers cannot
instantiate. What each of them computes is therefore proved by the least-number principle
(`LeastExists`, from the library's well-foundedness of < on the naturals): there is a
function with the defining equation up to n for every n, since a least n without one would
have one; and two such functions agree, since there is no least place where they differ.

### Only model-checked

Liveness: `EveryCommandEnds`, `FeedCatchesUp`, `RiskFades`, and the leads-to of
`DeliverySpec`. Fairness and ENABLED are outside the prover's fragment. Every other property
of a passing run is a theorem.

## 5. Not modelled

* **The native sensor's two ends**: what the eBPF probes read in the kernel, and what the
  normalizer looks up in `/proc`. `Pipeline` has the ring, the polling thread, the channel
  and the forwarding task between them; an event of the kernel is a number there.
* **The handlers of the external sensors** (`api/sensors.rs`): parse, publish and save as
  `handle_telemetry` does, which `Pipeline` has, without its validation.
* **The two tasks of a dashboard's session**: one actor in `StreamSubscribers`.
* **How a scope pattern matches text** (`common/src/policy.rs`): a function of characters;
  the models have the set of resources it matches.
* **The width of `ttl_seconds`**: time is a small number; see `findings` for the cast.
* **Metrics**: the gauge of dashboards, the latency histogram and the rendering.
* **Signature primitives**: ideal. **LLM worker**: any answer or a failure.
  **Dashboard**, **example applications**: external users of the interface.
* Commands that Redis receives after the client's connection broke.
* The growth of the guard's maps with targets nobody asks about: eviction happens on
  lookup only, and nothing but memory depends on it.
* `poll_events`, `prune_expired`, `prune_stale`: no caller.
* Weights and labels of the graph's edges (a weight is a constant per relation for each
  count), the risk score of entities, which nothing sets: data nothing decides on.
* `updated_at` of incidents: a change of status reads the clock once for each copy
  (evaluator.rs:194, 203), so that the copies agree in all but this field.
* Binaries written in capitals: `classify_binary` folds case, the kernel rule does not.
* Wording, logging, and the incident context sent to the advisory worker.

## 6. Plan

Order: most important behaviour first.

1. Done: guard, lease, manager and their composition; both hot states; rules, windows and
   incidents; agent, stream, receivers, pipeline and what it promises; the adapters of
   external sensors with the correlator; policy and its requests; advisory; the theorems
   of section 4.
2. Model next: the handlers of the external sensors as further publishers of `Pipeline`; the
   native sensor's probes and normalizer as its source; the sources of events with
   the detection worker in one module, so that end-to-end detection is one liveness
   property.
3. Prove next: that the sweeper's and the dispatcher's bounds suffice for a command to end in
   a bounded number of ticks, which is safety and would leave only the scheduling to
   TLC; that the rules of `DetectionWindows` keep the hot state's own theorems
   when they run over it; and the safety part of end-to-end detection once its parts are in
   one module.

## 7. Running

    tlc -workers 2 -config MCContainmentGuard.cfg MCContainmentGuard
    tlapm ContainmentGuardProofs.tla
    tlapm ContainmentProofs.tla
    tlapm --threads 2 CorrelatorProofs.tla

The proofs of the correlator and of the pipeline take a few minutes each.

`PROJECT.json` names the module and configuration of each run, and for every
property a mutated definition under which the run must fail.
