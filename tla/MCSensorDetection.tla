------------------------- MODULE MCSensorDetection -------------------------
(***************************************************************************)
(* Two services, billing and orders-db01, with one container each, seen by *)
(* three sensors and by the agents of their applications; two users, two   *)
(* addresses, one of them that of all flows, and a session; one event has  *)
(* a blank user id.  64d8f and db01 look like hashes, bcdfg is one that    *)
(* has no digit.  Shells are reported with their directory and without,    *)
(* zsh in both ways.  Times 0..2 for a window of 1.                        *)
(***************************************************************************)
EXTENDS SensorDetection, TLC

CONSTANTS a1, a2, a3, a4, a5, a6

MCAliasKey ==
  <<<<"container", "containerd", "c1">>, <<"container", "containerd", "c2">>,
    <<"container", "short", "c1">>, <<"ip", "", "i1">>, <<"ip", "", "i2">>, <<"session", "", "s1">>,
    <<"user", "name", "u0">>, <<"user", "uid", "u0">>, <<"user", "uid", "u1">>>>

MCKindOf ==
  <<"workload", "workload", "workload", "host", "host", "session", "user", "user", "user">>

Billing == <<"billing">>
Orders == <<"orders", "db01">>

MCAppId ==
  Billing :> a1 @@ Orders :> a2 @@ <<"orders">> :> a3 @@ <<"billing", "64d8f", "bcdfg">> :> a4
    @@ <<"container", "workload">> :> a5 @@ <<"app">> :> a6

Exec(container, service, suffix, uid, dir, binary, ts) ==
  [sensor |-> "tetragon", body |-> "exec", service |-> service, pod |-> service \o suffix,
   cname |-> service, container |-> container, uid |-> uid, dir |-> dir, binary |-> binary,
   words |-> {}, args |-> {}, ts |-> ts]

Kprobe(container, service, cname, ts) ==
  [sensor |-> "tetragon", body |-> "kprobe", service |-> service, cname |-> cname,
   container |-> container, binary |-> "nginx", words |-> {"file"}, args |-> {}, ts |-> ts]

Alert(container, service, priority, ts) ==
  [sensor |-> "falco", body |-> "alert", service |-> service, cname |-> service, pod |-> None,
   container |-> container, remote |-> "i1", user |-> "u0", binary |-> "sh",
   priority |-> priority, words |-> {}, args |-> None, ts |-> ts]

Flow(service, dropped, ts) ==
  [sensor |-> "hubble", body |-> "flow", service |-> service, label |-> None, workload |-> service,
   pod |-> None, source |-> "i1", dropped |-> dropped, binary |-> None, words |-> {}, args |-> {}, ts |-> ts]

MCReport ==
  {Exec("c1", Billing, <<"64d8f">>, "u0", "/bin", "zsh", 0), Exec("c1", Billing, <<"64d8f">>, "u1", None, "sh", 1),
   Exec("c2", Orders, <<"64d8f">>, "u1", None, "zsh", 1), Exec("c2", Orders, <<"64d8f">>, None, "/bin", "bash", 0),
   [Exec("c1", Billing, <<"64d8f", "bcdfg">>, "u0", "/bin", "curl", 2) EXCEPT !.args = {"admin"}],
   Kprobe("c1", Billing, <<"app">>, 1), Kprobe("c2", Orders, None, 2),
   Alert("c1", Billing, "critical", 1), Flow(Billing, TRUE, 1), Flow(Orders, FALSE, 0),
   [sensor |-> "falco", body |-> "none"]}

\* Aliases by their place in MCAliasKey.
I1 == 4
I2 == 5
S1 == 6
U0 == 7

Call(endpoint, status) ==
  [endpoint |-> endpoint, get |-> TRUE, status |-> status, success |-> status < 400]

Seen(aliases, app, ts) ==
  [aliases |-> aliases, user |-> U0 \in aliases, app |-> app, ts |-> ts,
   ip |-> IF I1 \in aliases THEN "i1" ELSE IF I2 \in aliases THEN "i2" ELSE None,
   type |-> {}, sensor |-> "agent", process |-> FALSE, resource |-> None,
   action |-> Call({}, 200)]

Table == [id |-> "table", database |-> TRUE]

MCTelemetry ==
  {[Seen({I2}, a2, 1) EXCEPT !.user = TRUE, !.type = {"auth"}, !.action.endpoint = {"login"}],
   [Seen({I2, S1, U0}, a1, 2) EXCEPT !.resource = Table, !.action.get = FALSE],
   [Seen({U0}, a2, 2) EXCEPT !.resource = Table, !.type = {"file"}, !.action.endpoint = None],
   [Seen({}, a1, 0) EXCEPT !.type = {"exec"}, !.process = TRUE, !.sensor = "native_sensor",
                           !.action = [endpoint |-> None, get |-> FALSE, status |-> None, success |-> TRUE]]}
  \cup {[Seen({I1}, a, ts) EXCEPT !.action = Call({}, 404)] : a \in {a1, a2}, ts \in 0..1}
  \cup {[Seen(s, a2, ts) EXCEPT !.action = Call({"admin"}, 200)] : s \in {{I1}, {I1, S1}}, ts \in 1..2}

MCEvent == MCTelemetry \cup {EventOf(r) : r \in {x \in MCReport : Accepted(x)}}
=============================================================================
