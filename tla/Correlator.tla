----------------------------- MODULE Correlator -----------------------------
(***************************************************************************)
(* The correlation engine (process_event of crates/correlator/src/lib.rs): *)
(* identity resolution, capability inference, the context graph, then the  *)
(* attack sequence detector.  The detection worker is its only caller, so  *)
(* that events are processed one at a time, in the order of the stream and *)
(* not of their own times.  The four locks are taken one after the other;  *)
(* nothing else writes what they guard.                                    *)
(***************************************************************************)
EXTENDS IdentityResolver, AttackChain, ContextGraph

CONSTANTS
  Event,      \* [aliases, user, app, ip, type, sensor, process, resource, action, ts]
  MaxEvents   \* bound on the events processed

\* Ids begin with canonical:app: or with canonical: and the key of an alias.
ASSUME CorrelatorAssumption ==
  /\ \A e \in Event : /\ e.aliases \subseteq Alias /\ IsFiniteSet(e.aliases)
                      /\ e.app \in App /\ e.ts \in Int
  /\ App \cap Alias = {} /\ MaxEvents \in Nat

VARIABLE log  \* history: the events processed and the ids they resolved to

vars == <<identityVars, chainVars, graphVars, log>>

Init == IdentityInit /\ ChainInit /\ GraphInit /\ log = <<>>

\* The server's clock: one tick for each event, whatever the event's own time.
Now == Len(log)

ProcessEvent(event) ==
  LET id == Resolve(event) IN
    /\ Len(log) < MaxEvents
    /\ canonical' = Redirected(event)
    /\ entities' = [EntitiesAfter(event, Now) EXCEPT ![id].capabilities = @ \cup InferCapabilities(event)]
    /\ RecordInGraph(id, event)
    /\ EvaluateChain(id, event)
    /\ log' = Append(log, [event |-> event, id |-> id])

Next == \E event \in Event : ProcessEvent(event)

Spec == Init /\ [][Next]_vars

-----------------------------------------------------------------------------
Group(id) == {a \in DOMAIN canonical : canonical[a] = id}

\* Two aliases have the same canonical entity exactly when a chain of events
\* links them: the aliases of one event are never apart, and those of one entity
\* cannot be parted without parting those of some event (identity.rs:128-206).
IdentityIsConnectivity ==
  /\ \A i \in DOMAIN log : \A a, b \in log[i].event.aliases : canonical[a] = canonical[b]
  /\ \A id \in DOMAIN entities : \A part \in (SUBSET Group(id)) \ {{}, Group(id)} :
       \E i \in DOMAIN log :
         log[i].event.aliases \cap part # {} /\ log[i].event.aliases \cap (Group(id) \ part) # {}

\* The ids an entity's events were recorded under: its own and those of the
\* entities it absorbed.
FormerIds(id) == IF id \in App THEN {id} ELSE Group(id)

\* The graph stays split by former ids where the identity was merged, but taken
\* together it tells the same of an entity: how many events it has and which
\* capabilities it exercised (graph.rs:121-249, identity.rs:55-71).
GraphAgreesWithIdentity ==
  \A id \in DOMAIN entities :
    LET own == {edge \in DOMAIN edges : \E former \in FormerIds(id) : edge[1] = Entity(former)}
        accesses == {edge \in own : edge[2] \in {"ACCESSES", "AUTHENTICATES_ON"}}
    IN  /\ entities[id].count = SumOver([edge \in accesses |-> edges[edge].count], accesses)
        /\ entities[id].capabilities = {edge[3][2] : edge \in {x \in own : x[2] = "EXERCISES"}}
        /\ \A former \in FormerIds(id) :
             {<<x[1], x[3]>> : x \in SubGraph(Entity(former)).edges} \subseteq
               SubGraph(Entity(former)).nodes \X DOMAIN nodes

\* The events whose processing founded an entity.
Founding == {i \in DOMAIN log : \A j \in 1..(i - 1) : log[j].id # log[i].id}

\* Merges keep the interval in which an entity was seen: it begins where the graph
\* first saw one of its former ids, and ends with the latest of its events or
\* with the server's time at which one of its parts was founded, whatever order
\* events come in (identity.rs:36-50, 65-70, 229-231; graph.rs:67-87).
SightsSurviveMerges ==
  \A id \in DOMAIN entities \ App :
    LET parts == {Entity(former) : former \in FormerIds(id)} \cap DOMAIN nodes
        mine == {i \in DOMAIN log : log[i].event.aliases # {} /\ log[i].event.aliases \subseteq Group(id)}
    IN  /\ entities[id].first = Min({nodes[part].first_seen : part \in parts})
        /\ entities[id].last = Max({log[i].event.ts : i \in mine} \cup {i - 1 : i \in mine \cap Founding})

\* Events processed in the order of their own times, as one id.
InOrder == \A i, j \in DOMAIN log : i < j => log[i].event.ts <= log[j].event.ts

Telling(e) == Failed(e) \/ HighImpactAction(e)

\* A signal shows a chain of its entity, within the window; and when events come
\* in the order of their times, probes and high-impact actions that make a chain
\* within the window, all resolved to one id, always raise the alert
\* (sequence.rs:63-139).
ChainsAreReported ==
  /\ \A i \in DOMAIN signals :
       LET stages == signals[i].stages IN
         IsChain(stages) /\ \A j \in DOMAIN stages : stages[j].ts >= stages[Len(stages)].ts - Window
  /\ InOrder => \A S \in SUBSET DOMAIN log :
       /\ Cardinality(S) = MinStages
       /\ \A i \in S : Telling(log[i].event)
       /\ \E i \in S : HighImpactAction(log[i].event) /\ ~Failed(log[i].event)
       /\ Cardinality({log[i].event.app : i \in S}) >= 2
       /\ \A i, j \in S : log[i].id = log[j].id /\ log[j].event.ts - log[i].event.ts <= Window
       => \E i \in S : progress[log[i].id].fired
=============================================================================
