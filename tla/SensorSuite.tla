---------------------------- MODULE SensorSuite ------------------------------
(***************************************************************************)
(* The sensor suite: val_sensor.c and test_pool/sensor.                    *)
(*                                                                         *)
(* The value of DESCRIPTION_GET is a record of sensors, a sequence of      *)
(* descriptors (id, reserved, extended, trips, async, notify), reserved    *)
(* and remaining.  info.row[id] keeps what later tests read of a sensor.   *)
(* Test m005_v3, which fills it in, runs after m006 to m015.               *)
(***************************************************************************)
EXTENDS TestEngine

VARIABLES info, expected

SENSOR_INVALID_COMMAND   == 12
INVALID_FLAG_VAL         == 15
SENSOR_READ_ASYNC_MODE   == 1
SENSOR_READ_SYNC_MODE    == 0
TRIP_POINT_NFY_DISABLE   == 0
EVENT_CTRL_INVALID_VAL   == 15
SENSOR_READING_COMPLETE  == 6
SENSOR_DISABLED          == 0
SENSOR_ENABLED           == 1
EXTENDED_ATTR_SUPPORTED  == 1

Sensor(m, a, e)      == Ask(PROTOCOL_SENSOR, m, a, e)
SensorValue(m, a, w) == AskValue(PROTOCOL_SENSOR, m, a, w)
ProbeSensor(c)       == <<Probe(PROTOCOL_SENSOR, c)>>

-----------------------------------------------------------------------------
(* The table.                                                              *)

NoRow == [trips |-> 0, async |-> FALSE, notify |-> FALSE, state |-> SENSOR_DISABLED]

NothingLearnt ==
  [sensors |-> 0, registers |-> [low |-> 0, high |-> 0, len |-> 0], row |-> <<>>]

Row(id) == IF id \in DOMAIN info.row THEN info.row[id] ELSE NoRow

InvalidSensor == info.sensors + 1

IfSensors(program) == IfSome(info.sensors, program)
ForSensors(Capable(_), Steps(_)) == WhenAny(ForCapable(info.sensors, Capable, Steps))

HasTrips(id)  == Row(id).trips > 0
ReadsAsync(id) == Row(id).async
ReadsSync(id) == ~Row(id).async

-----------------------------------------------------------------------------
(* Discovery and the older commands.                                       *)

TestM001 == VersionTest(PROTOCOL_SENSOR)

TestM002 ==
  <<[SensorValue(PROTOCOL_ATTRIBUTES, <<>>,
                 [reserved |-> 0, sensors |-> expected.sensors, registers |-> expected.registers])
       EXCEPT !.learn = "attributes"]>>

TestM003 ==
  <<SensorValue(PROTOCOL_MESSAGE_ATTRIBUTES, <<SENSOR_DESCRIPTION_GET>>, [attributes |-> 0]),
    SensorValue(PROTOCOL_MESSAGE_ATTRIBUTES, <<SENSOR_READING_GET>>, [attributes |-> 0])>>

TestM004 == UnknownCommandTest(PROTOCOL_SENSOR, SENSOR_INVALID_COMMAND)

DescribeFrom(index, l) ==
  <<[SensorValue(SENSOR_DESCRIPTION_GET, <<index>>, [reserved |-> 0]) EXCEPT !.learn = l]>>

TestM005    == DescribeFrom(0, "sensors")
TestM005_v3 == DescribeFrom(0, "sensors_v3")

TestM006 ==
  LET Invalid(id) == <<Sensor(SENSOR_TRIP_POINT_NOTIFY, <<id, EVENT_CTRL_INVALID_VAL>>,
                              SCMI_INVALID_PARAMETERS)>>
  IN ProbeSensor(SENSOR_TRIP_POINT_NOTIFY) \o IfSensors(ForEach(info.sensors, Invalid))

TestM007 ==
  ProbeSensor(SENSOR_TRIP_POINT_NOTIFY)
  \o <<Sensor(SENSOR_TRIP_POINT_NOTIFY, <<InvalidSensor, TRIP_POINT_NFY_DISABLE>>, SCMI_NOT_FOUND)>>

\* The event control word is a trip point and its reserved bits; the two limits
\* are zero.  Four parameters are counted, though the array holds three.
Configure(id, trip, reserved, e) ==
  <<[Sensor(SENSOR_TRIP_POINT_CONFIG, <<id, trip, reserved>>, e) EXCEPT !.sent = 4]>>

TestM008 ==
  LET Invalid(id) == Configure(id, 0, 3, SCMI_INVALID_PARAMETERS)
                     \o Configure(id, Row(id).trips + 1, 0, SCMI_INVALID_PARAMETERS)
  IN ProbeSensor(SENSOR_TRIP_POINT_CONFIG) \o IfSensors(ForEach(info.sensors, Invalid))

TestM009 ==
  ProbeSensor(SENSOR_TRIP_POINT_CONFIG) \o Configure(InvalidSensor, 0, 0, SCMI_NOT_FOUND)

TestM010 ==
  LET ConfigureAll(id) ==
        LET One(trip) == Configure(id, trip, 0, SCMI_SUCCESS) IN ForEach(Row(id).trips, One)
  IN ProbeSensor(SENSOR_TRIP_POINT_CONFIG) \o IfSensors(ForSensors(HasTrips, ConfigureAll))

Read(id, flags, e) == <<Sensor(SENSOR_READING_GET, <<id, flags>>, e)>>

TestM011 ==
  LET Invalid(id) == Read(id, INVALID_FLAG_VAL, SCMI_INVALID_PARAMETERS)
  IN IfSensors(ForEach(info.sensors, Invalid))
TestM012 == Read(InvalidSensor, SENSOR_READ_SYNC_MODE, SCMI_NOT_FOUND)
TestM013 ==
  LET ReadSync(id) == Read(id, SENSOR_READ_SYNC_MODE, SCMI_SUCCESS)
  IN IfSensors(ForEach(info.sensors, ReadSync))
TestM014 ==
  LET ReadLater(id) == Read(id, SENSOR_READ_ASYNC_MODE, SCMI_SUCCESS)
                       \o <<Receive(PROTOCOL_SENSOR, SENSOR_READING_COMPLETE, <<id>>)>>
  IN IfSensors(ForSensors(ReadsAsync, ReadLater))
TestM015 ==
  LET Unsupported(id) == Read(id, SENSOR_READ_ASYNC_MODE, SCMI_NOT_SUPPORTED)
  IN IfSensors(ForSensors(ReadsSync, Unsupported))

-----------------------------------------------------------------------------
(* The commands of version 2.                                              *)

AxesFrom(id, index) ==
  <<[SensorValue(SENSOR_AXIS_DESCRIPTION_GET, <<id, index>>,
                 [reserved |-> 0, extended |-> EXTENDED_ATTR_SUPPORTED]) EXCEPT !.learn = "axes"]>>
TestM016 ==
  LET Discover(id) == AxesFrom(id, 0) IN IfSensors(ForEach(info.sensors, Discover))
TestM017 == <<Sensor(SENSOR_AXIS_DESCRIPTION_GET, <<InvalidSensor, 0>>, SCMI_NOT_FOUND)>>

IntervalsFrom(id, index) ==
  <<[SensorValue(SENSOR_LIST_UPDATE_INTERVALS, <<id, index>>, [reserved |-> 0])
       EXCEPT !.learn = "intervals"]>>
TestM018 ==
  LET Discover(id) == IntervalsFrom(id, 0) IN IfSensors(ForEach(info.sensors, Discover))
TestM019 == <<Sensor(SENSOR_LIST_UPDATE_INTERVALS, <<InvalidSensor, 0>>, SCMI_NOT_FOUND)>>

\* Of a configuration word these tests look at reserved bits and the state.
TestM020 ==
  LET Check(id) == <<[SensorValue(SENSOR_CONFIG_GET, <<id>>, [reserved |-> 0])
                        EXCEPT !.learn = "state"]>>
  IN IfSensors(ForEach(info.sensors, Check))
TestM021 == <<Sensor(SENSOR_CONFIG_GET, <<InvalidSensor>>, SCMI_NOT_FOUND)>>
TestM022 ==
  LET Change(id) == <<AskAndLearn(PROTOCOL_SENSOR, SENSOR_CONFIG_GET, <<id>>, "config")>>
  IN IfSensors(ForEach(info.sensors, Change))
TestM023 == <<Sensor(SENSOR_CONFIG_SET, <<InvalidSensor, SENSOR_DISABLED>>, SCMI_NOT_FOUND)>>

EnableUpdates(id, e) == <<Sensor(SENSOR_CONTINUOUS_UPDATE_NOTIFY, <<id, SENSOR_ENABLED>>, e)>>
TestM024 ==
  LET Request(id) ==
        IF ~Row(id).notify THEN EnableUpdates(id, SCMI_NOT_SUPPORTED)
        ELSE IF Row(id).state = SENSOR_ENABLED THEN EnableUpdates(id, SCMI_SUCCESS)
        ELSE <<>>
  IN IfSensors(ForEach(info.sensors, Request))
TestM025 == EnableUpdates(InvalidSensor, SCMI_NOT_FOUND)

Program(t) ==
  CASE t = "m001" -> TestM001 [] t = "m002" -> TestM002 [] t = "m003" -> TestM003
    [] t = "m004" -> TestM004 [] t = "m005" -> TestM005 [] t = "m005_v3" -> TestM005_v3
    [] t = "m006" -> TestM006 [] t = "m007" -> TestM007 [] t = "m008" -> TestM008
    [] t = "m009" -> TestM009 [] t = "m010" -> TestM010 [] t = "m011" -> TestM011
    [] t = "m012" -> TestM012 [] t = "m013" -> TestM013 [] t = "m014" -> TestM014
    [] t = "m015" -> TestM015 [] t = "m016" -> TestM016 [] t = "m017" -> TestM017
    [] t = "m018" -> TestM018 [] t = "m019" -> TestM019 [] t = "m020" -> TestM020
    [] t = "m021" -> TestM021 [] t = "m022" -> TestM022 [] t = "m023" -> TestM023
    [] t = "m024" -> TestM024 [] t = "m025" -> TestM025

\* val_sensor_execute_tests.
Schedule(v) ==
  <<"m002", "m003", "m004", "m006", "m007", "m008", "m009", "m010", "m011", "m012", "m013",
    "m014", "m015">>
  \o (IF v = 1 THEN <<"m005">> ELSE <<>>)
  \o (IF v = 2 THEN <<"m005_v3", "m016", "m017", "m018", "m019", "m020", "m021", "m022",
                      "m023", "m024", "m025">> ELSE <<>>)

-----------------------------------------------------------------------------
(* Descriptors.                                                            *)

\* Each is checked, kept, and (version 2) must then be the next in order: how
\* many are kept, and how many pass.
Sound(x, v3)      == x.reserved = 0 /\ (v3 => x.extended = EXTENDED_ATTR_SUPPORTED)
InOrder(x, id, v3) == v3 => x.id = id
Passing(s, v, v3) ==
  {i \in DOMAIN v.sensors : \A j \in 1..i : /\ Sound(v.sensors[j], v3)
                                            /\ InOrder(v.sensors[j], s.args[1] + j - 1, v3)}
Kept(s, v, v3) ==
  {i \in DOMAIN v.sensors : Sound(v.sensors[i], v3) /\ 1..(i - 1) \subseteq Passing(s, v, v3)}

MoreSensors(s, v, v3) ==
  LET total == s.args[1] + Len(v.sensors)
  IN IF Passing(s, v, v3) # DOMAIN v.sensors THEN <<Fail>>
     ELSE IF v.remaining > 0 THEN DescribeFrom(total, s.learn)
     ELSE IF total # expected.sensors THEN <<Fail>>
     ELSE <<Sensor(SENSOR_DESCRIPTION_GET, <<IF v3 THEN total + 1 ELSE total>>,
                   SCMI_INVALID_PARAMETERS)>>

\* The first version knows no continuous updates.
LearnSensors(s, v, v3) ==
  LET kept == Kept(s, v, v3)
      Last(id) == CHOOSE i \in kept : /\ v.sensors[i].id = id
                                      /\ \A j \in kept : v.sensors[j].id = id => j <= i
      ids == {v.sensors[i].id : i \in kept}
      New(id) == [Row(id) EXCEPT !.trips = v.sensors[Last(id)].trips,
                                 !.async = v.sensors[Last(id)].async,
                                 !.notify = IF v3 THEN v.sensors[Last(id)].notify ELSE @]
  IN [info EXCEPT !.row = [id \in DOMAIN @ \cup ids |-> IF id \in ids THEN New(id) ELSE @[id]]]

-----------------------------------------------------------------------------
(* The steps answer v to step s adds, and what the table becomes.          *)

\* A triplet ends its list; an array is asked for past its end.
MoreIntervals(s, v) ==
  LET next == s.args[2] + v.returned
  IN IF v.triplet THEN IF v.returned = 3 /\ v.remaining = 0 THEN <<>> ELSE <<Fail>>
     ELSE IF v.remaining > 0 THEN IntervalsFrom(s.args[1], next)
     ELSE <<Sensor(SENSOR_LIST_UPDATE_INTERVALS, <<s.args[1], next + 1>>, SCMI_OUT_OF_RANGE)>>

ChangeState(id, state) ==
  LET other == IF state = SENSOR_DISABLED THEN SENSOR_ENABLED ELSE SENSOR_DISABLED
  IN <<Sensor(SENSOR_CONFIG_SET, <<id, other>>, SCMI_SUCCESS),
       SensorValue(SENSOR_CONFIG_GET, <<id>>, [state |-> other]),
       Sensor(SENSOR_CONFIG_SET, <<id, state>>, SCMI_SUCCESS)>>

More(s, v) ==
  CASE s.learn = "sensors"    -> MoreSensors(s, v, FALSE)
    [] s.learn = "sensors_v3" -> MoreSensors(s, v, TRUE)
    [] s.learn = "axes" ->
         IF v.remaining > 0 THEN AxesFrom(s.args[1], s.args[2] + v.returned) ELSE <<>>
    [] s.learn = "intervals"  -> MoreIntervals(s, v)
    [] s.learn = "config"     -> ChangeState(s.args[1], v.state)
    [] OTHER -> <<>>

\* val_sensor_save_info, val_sensor_save_desc_info, val_sensor_ext_save_desc_info:
\* a field is saved before the next one is compared.
LearnAttributes(v) ==
  LET is == v.registers
      ok == expected.registers
      sensors == v.reserved = 0 /\ v.sensors = expected.sensors
      low  == sensors /\ is.low = ok.low
      high == low /\ is.high = ok.high
  IN [info EXCEPT !.sensors = IF sensors THEN v.sensors ELSE @,
                  !.registers.low  = IF low THEN is.low ELSE @,
                  !.registers.high = IF high THEN is.high ELSE @,
                  !.registers.len  = IF high /\ is.len = ok.len THEN is.len ELSE @]

Learned(s, v) ==
  CASE s.learn = "attributes" -> LearnAttributes(v)
    [] s.learn = "sensors" /\ v.reserved = 0    -> LearnSensors(s, v, FALSE)
    [] s.learn = "sensors_v3" /\ v.reserved = 0 -> LearnSensors(s, v, TRUE)
    [] s.learn = "state" /\ v.reserved = 0 ->
         LET id == s.args[1]
         IN [info EXCEPT !.row = [x \in DOMAIN @ \cup {id} |->
                                    IF x = id THEN [Row(id) EXCEPT !.state = v.state] ELSE @[x]]]
    [] OTHER -> info

=============================================================================
