----------------------------- MODULE SuiteSteps ------------------------------
(***************************************************************************)
(* What the proofs about SuitesOnMocker know of the steps tests are made   *)
(* of: which command a step that keeps something sends, which ones change  *)
(* a setting, and what tests a suite has.                                  *)
(***************************************************************************)
EXTENDS SuitesOnMocker

-----------------------------------------------------------------------------
(* What is known of the steps of a suite.                                  *)

\* The platform lists these levels for voltage domain d.
Listed(d, levels) ==
  \A i \in DOMAIN levels : \E j \in DOMAIN voltage.levels[d] : levels[i] = voltage.levels[d][j]

\* What a suite keeps comes from the command that tells it.
Teaches(p, s) ==
  /\ p = "base" /\ s.learn = "page" =>
       s.msg = BASE_DISCOVER_LIST_PROTOCOLS /\ s.args[1] \in 0..NumProtocols
  /\ p = "performance" =>
       /\ s.learn \in {"domain", "domain_v1"} => s.msg = PERFORMANCE_DOMAIN_ATTRIBUTES
       /\ s.learn = "levels" => s.msg = PERFORMANCE_DESCRIBE_LEVELS /\ s.seen = <<>>
       /\ s.learn \in {"limits", "limits_before"} => s.msg = PERFORMANCE_LIMITS_GET
       /\ s.learn \in {"level", "level_before"} => s.msg = PERFORMANCE_LEVEL_GET
  /\ p = "clock" =>
       /\ s.learn = "attribute" => s.msg = CLOCK_ATTRIBUTES
       /\ s.learn = "rates" => s.msg = CLOCK_DESCRIBE_RATES
       /\ s.learn \in {"rate", "rate_async"} => s.msg = CLOCK_RATE_GET
  /\ p = "sensor" /\ s.learn \in {"sensors", "sensors_v3"} => s.msg = SENSOR_DESCRIPTION_GET
  /\ p = "reset" /\ s.learn = "domain" => s.msg = RESET_DOMAIN_ATTRIBUTES
  /\ p = "voltage" =>
       /\ s.learn = "levels" =>
            /\ s.msg = VOLTAGE_DESCRIBE_LEVELS /\ s.args[2] \in Nat
            /\ s.seen \in Seq(Nat) /\ Listed(s.args[1], s.seen)
       /\ s.learn = "default" => s.msg = VOLTAGE_LEVEL_GET

\* The commands that change a setting.
BaseMovers == {BASE_SET_DEVICE_PERMISSIONS, BASE_SET_PROTOCOL_PERMISSIONS,
               BASE_RESET_AGENT_CONFIGURATION}
PerformanceMovers == {PERFORMANCE_LIMITS_SET, PERFORMANCE_LEVEL_SET, PERFORMANCE_NOTIFY_LIMITS,
                      PERFORMANCE_NOTIFY_LEVEL}
ClockMovers == {CLOCK_RATE_SET, CLOCK_CONFIG_SET}
SensorMovers == {SENSOR_CONTINUOUS_UPDATE_NOTIFY}
VoltageMovers == {VOLTAGE_CONFIG_SET, VOLTAGE_LEVEL_SET}

Mover(s) ==
  \/ s.proto = PROTOCOL_BASE /\ s.msg \in BaseMovers
  \/ s.proto = PROTOCOL_PERFORMANCE /\ s.msg \in PerformanceMovers
  \/ s.proto = PROTOCOL_CLOCK /\ s.msg \in ClockMovers
  \/ s.proto = PROTOCOL_SENSOR /\ s.msg \in SensorMovers
  \/ s.proto = PROTOCOL_VOLTAGE /\ s.msg \in VoltageMovers

\* The answers a test goes on from to such commands.
Changes == {"limits", "level", "limits_notified", "level_notified", "limits_before",
            "level_before", "rate", "rate_async", "default", "start"}

\* A step a test may have: only those that change settings on purpose have one
\* that expects a setting to change, or goes on to such steps; probes change none.
\* The device an agent is given access to is the first of the platform's table.
Allowed(t, s) ==
  /\ s.kind \notin {"check", "receive"} => ~Mover(s)
  /\ t \notin Moving => s.learn \notin Changes
  /\ t \notin Moving /\ s.kind = "check" /\ s.expect = SCMI_SUCCESS => ~Mover(s)
  /\ s.proto = PROTOCOL_BASE /\ s.msg = BASE_SET_DEVICE_PERMISSIONS =>
       s.args[2] \in {Device, ForeignDevice}

\* No step expects the status of an exchange that went wrong, steps that keep
\* something are checks of the suite's own protocol, and three tests enable or
\* disable clocks: by a number, c015 by one that stands for neither.  How many
\* clocks there are is kept by c002 alone, whether they are enabled by c005.
Good(p, t, s) ==
  /\ s.expect # SCMI_GENERIC_ERROR
  /\ s.learn # "nothing" =>
       s.kind = "check" /\ s.expect = SCMI_SUCCESS /\ s.proto = ProtocolOf(p)
  /\ s.proto = PROTOCOL_CLOCK /\ s.msg = CLOCK_CONFIG_SET =>
       /\ s.args[2] \in Nat
       /\ t \in {"c015", "c016", "c017"} /\ (t = "c015" => s.args[2] > 1)
  /\ p = "clock" =>
       /\ s.learn = "version" => t = "c001"
       /\ s.learn = "attributes" => t = "c002"
       /\ s.learn = "attribute" => t = "c005"
  /\ Teaches(p, s) /\ Allowed(t, s)

GoodProgram(p, t, q) ==
  q \in Seq({q[i] : i \in DOMAIN q}) /\ \A i \in DOMAIN q : Good(p, t, q[i])

TestsOf(p) ==
  CASE p = "base" ->
         {"b001", "b002", "b003", "b004", "b005", "b006", "b007", "b008", "b009_v1", "b009",
          "b010", "b011", "b012", "b013", "b014", "b015", "b016", "b017"}
    [] p = "power" ->
         {"p001", "p002", "p003", "p004", "p005", "p005_v3", "p006", "p007", "p008", "p009",
          "p010", "p011", "p012", "p013", "p014", "p015", "p016"}
    [] p = "system" -> {"s001", "s002", "s003", "s004", "s005", "s006", "s007"}
    [] p = "performance" ->
         {"d001", "d002", "d003", "d003_v1", "d004", "d005", "d005_v1", "d006", "d007", "d008",
          "d009", "d010", "d011", "d012", "d013", "d014", "d015", "d016", "d017", "d018",
          "d019", "d020", "d021", "d022", "d023", "d024", "d025", "d026", "d027", "d028",
          "d029"}
    [] p = "clock" ->
         {"c001", "c002", "c003", "c004", "c005", "c006", "c007", "c008", "c009", "c010",
          "c011", "c012", "c013", "c014", "c015", "c016", "c017"}
    [] p = "sensor" ->
         {"m001", "m002", "m003", "m004", "m005", "m005_v3", "m006", "m007", "m008", "m009",
          "m010", "m011", "m012", "m013", "m014", "m015", "m016", "m017", "m018", "m019",
          "m020", "m021", "m022", "m023", "m024", "m025"}
    [] p = "reset" ->
         {"r001", "r002", "r003", "r004", "r005", "r005_v3", "r006", "r007", "r008", "r009",
          "r010", "r011"}
    [] p = "voltage" ->
         {"v001", "v002", "v003", "v004", "v005", "v006", "v007", "v008", "v009", "v010",
          "v011", "v012", "v013", "v014", "v015"}

=============================================================================
