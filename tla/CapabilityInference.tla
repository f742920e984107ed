------------------------ MODULE CapabilityInference ------------------------
(***************************************************************************)
(* The capabilities an event exercises (infer_capabilities in              *)
(* crates/correlator/src/capability.rs).                                   *)
(*                                                                         *)
(* The code looks for substrings of the event type and of the endpoint:    *)
(* here both are the set of the words looked for that occur in them, among *)
(* "auth", "login", "admin", "export", "file", "exec" and "flow".          *)
(***************************************************************************)
CONSTANT None  \* an absent action, endpoint, status or resource

CapabilityType ==
  {"process.execute", "session.authenticate", "admin.operation", "data.export",
   "database.read", "database.write", "network.connect", "filesystem.read"}

EndpointWords(event) ==
  IF event.action = None \/ event.action.endpoint = None THEN {} ELSE event.action.endpoint

Database(event) == event.resource # None /\ event.resource.database

\* An access without an action counts as a read.
Reads(event) == event.action = None \/ event.action.get

Exercises(event, capability) ==
  CASE capability = "process.execute" ->
         event.process \/ "exec" \in event.type \/ event.sensor \in {"tetragon", "native_sensor"}
    [] capability = "session.authenticate" -> "auth" \in event.type \/ "login" \in EndpointWords(event)
    [] capability = "admin.operation" -> "admin" \in event.type \cup EndpointWords(event)
    [] capability = "data.export" -> "export" \in event.type \cup EndpointWords(event)
    [] capability = "database.read" -> Database(event) /\ Reads(event)
    [] capability = "database.write" -> Database(event) /\ ~Reads(event)
    [] capability = "network.connect" -> event.sensor = "hubble" \/ "flow" \in event.type
    [] capability = "filesystem.read" -> "file" \in event.type

\* infer_capabilities
InferCapabilities(event) == {c \in CapabilityType : Exercises(event, c)}
=============================================================================
