---------------------------- MODULE ContextGraph ----------------------------
(***************************************************************************)
(* The context graph (crates/correlator/src/graph.rs): what entities did   *)
(* to applications, endpoints, resources, capabilities and hosts.          *)
(*                                                                         *)
(* A node is a pair of its kind and its name, an edge a triple of source,  *)
(* relation and target.  Edges keep the entity id their event resolved to  *)
(* when it was processed: nothing moves them when identities are merged,   *)
(* and nothing calls prune_expired.                                        *)
(***************************************************************************)
EXTENDS Naturals, FiniteSets, CapabilityInference

VARIABLES
  nodes,  \* node -> [count, first_seen, last_seen]
  edges   \* edge -> [count, first_seen, last_seen]

graphVars == <<nodes, edges>>

GraphInit == nodes = <<>> /\ edges = <<>>

Entity(id) == <<"entity", id>>
Application(app) == <<"app", app>>

EntityToApp(id, event) ==
  <<Entity(id), IF "auth" \in event.type THEN "AUTHENTICATES_ON" ELSE "ACCESSES",
    Application(event.app)>>

\* The edges an event is recorded on.
EdgesOf(id, event) ==
  LET hasEndpoint == event.action # None /\ event.action.endpoint # None
      endpoint == <<"endpoint", event.app, event.action.endpoint>>
      probed == event.action.status # None /\ event.action.status >= 400
  IN  {EntityToApp(id, event)}
      \cup (IF hasEndpoint
              THEN {<<Entity(id), IF probed THEN "PROBED" ELSE "CALLS", endpoint>>,
                    <<Application(event.app), "EXPOSES", endpoint>>}
              ELSE {})
      \cup (IF event.resource # None /\ event.resource.id # None
              THEN {<<Entity(id), "TARGETS", <<"resource", event.resource.id>>>>} ELSE {})
      \cup {<<Entity(id), "EXERCISES", <<"capability", c>>>> : c \in InferCapabilities(event)}
      \cup {<<Entity(id), "ORIGINATES_FROM", <<"host", ip>>>> : ip \in {event.ip} \ {None}}

NodesOf(id, event) == UNION {{edge[1], edge[3]} : edge \in EdgesOf(id, event)}

\* A node or an edge when it is met for the first time, and again.
Fresh(ts) == [count |-> 1, first_seen |-> ts, last_seen |-> ts]
Again(seen, ts) ==
  [seen EXCEPT !.count = @ + 1, !.last_seen = IF ts > @ THEN ts ELSE @]

RecordEdges_InOrderOnly(id, event) ==
  edges' = [edge \in DOMAIN edges \cup EdgesOf(id, event) |->
              IF edge \notin DOMAIN edges THEN Fresh(event.ts)
              ELSE IF edge \notin EdgesOf(id, event) \/ edges[edge].last_seen > event.ts THEN edges[edge]
              ELSE Again(edges[edge], event.ts)]

\* record_edge, for all edges of the event.
RecordEdges(id, event) ==
  edges' = [edge \in DOMAIN edges \cup EdgesOf(id, event) |->
              IF edge \notin DOMAIN edges THEN Fresh(event.ts)
              ELSE IF edge \notin EdgesOf(id, event) THEN edges[edge]
              ELSE Again(edges[edge], event.ts)]

\* ensure_node, for all nodes of the event.
EnsureNodes(id, event) ==
  nodes' = [node \in DOMAIN nodes \cup NodesOf(id, event) |->
              IF node \notin DOMAIN nodes THEN Fresh(event.ts)
              ELSE IF node \notin NodesOf(id, event) THEN nodes[node]
              ELSE Again(nodes[node], event.ts)]

\* record_event
RecordInGraph(id, event) == EnsureNodes(id, event) /\ RecordEdges(id, event)

\* get_subgraph
SubGraph(entity) ==
  LET own == {edge \in DOMAIN edges : entity \in {edge[1], edge[3]}}
  IN  [nodes |-> ({entity} \cup UNION {{edge[1], edge[3]} : edge \in own}) \cap DOMAIN nodes,
       edges |-> own]
=============================================================================
