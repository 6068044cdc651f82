---------------------------- MODULE MockerSensor -----------------------------
(***************************************************************************)
(* The simulated platform's sensor handler, sensor_send_message of         *)
(* transport_sensor.c.  It keeps nothing: a configuration that is set is   *)
(* read and forgotten.                                                     *)
(*                                                                         *)
(* The tables of pal_sensor_expected.h are one record, sensor:             *)
(*   sensors, registers   num_sensors, the statistics region               *)
(*   async, notify        the sensors that support each                    *)
(*   trips[id], axes[id]  how many trip points and axes one has            *)
(*   intervals[id]        sensor_update_interval_count                     *)
(***************************************************************************)
EXTENDS MockerHandler

CONSTANTS sensor

SensorId == 0..(sensor.sensors - 1)
IfSensor(id, value) == IF id \in SensorId THEN value ELSE NoValues

SensorReport(m, a, st, v) == Respond(PROTOCOL_SENSOR, m, a, st, v)

-----------------------------------------------------------------------------
Version == SensorReport(PROTOCOL_VERSION, <<>>, SCMI_SUCCESS, [version |-> 2])

Attributes ==
  SensorReport(PROTOCOL_ATTRIBUTES, <<>>, SCMI_SUCCESS,
               [reserved |-> 0, sensors |-> sensor.sensors, registers |-> sensor.registers])

\* The commands of version 2 are there, but not found here.
MessageAttributes(id) ==
  SensorReport(PROTOCOL_MESSAGE_ATTRIBUTES, <<id>>,
               FoundThen(id <= SENSOR_READING_GET, SCMI_SUCCESS), [attributes |-> 0])

Unknown(id) == SensorReport(id, <<>>, SCMI_NOT_FOUND, NoValues)

\* All the sensors, whatever the index asked for; none remain.
Descriptor(id) ==
  [id |-> id, reserved |-> 0, extended |-> 1, trips |-> sensor.trips[id],
   async |-> id \in sensor.async, notify |-> id \in sensor.notify]

DescriptionGet(index) ==
  SensorReport(SENSOR_DESCRIPTION_GET, <<index>>,
               IF index >= sensor.sensors THEN SCMI_INVALID_PARAMETERS ELSE SCMI_SUCCESS,
               [reserved |-> 0, remaining |-> 0,
                sensors |-> [i \in 1..sensor.sensors |-> Descriptor(i - 1)]])

TripPointNotify(id, event) ==
  SensorReport(SENSOR_TRIP_POINT_NOTIFY, <<id, event>>, FoundThen(id \in SensorId, OnOff(event)),
               NoValues)

\* The trip point past the last is let through.
TripPointConfig(id, trip, reserved) ==
  SensorReport(SENSOR_TRIP_POINT_CONFIG, <<id, trip, reserved>>,
               IF id \notin SensorId THEN SCMI_NOT_FOUND
               ELSE IF trip > sensor.trips[id] \/ reserved # 0 THEN SCMI_INVALID_PARAMETERS
               ELSE SCMI_SUCCESS, NoValues)

\* An asynchronous reading is never completed.
ReadingGet(id, flags) ==
  SensorReport(SENSOR_READING_GET, <<id, flags>>,
               IF id \notin SensorId THEN SCMI_NOT_FOUND
               ELSE IF flags > 1 THEN SCMI_INVALID_PARAMETERS
               ELSE IF flags = 1 /\ id \notin sensor.async THEN SCMI_NOT_SUPPORTED
               ELSE SCMI_SUCCESS, NoValues)

\* A list of axes or intervals: all of it, for an index inside it.
InList(id, index, length) ==
  IF id \notin SensorId THEN SCMI_NOT_FOUND
  ELSE IF index >= length[id] THEN SCMI_OUT_OF_RANGE
  ELSE SCMI_SUCCESS

AxisDescriptionGet(id, index) ==
  SensorReport(SENSOR_AXIS_DESCRIPTION_GET, <<id, index>>, InList(id, index, sensor.axes),
               IfSensor(id, [reserved |-> 0, extended |-> 1, returned |-> sensor.axes[id],
                             remaining |-> 0]))

ListUpdateIntervals(id, index) ==
  SensorReport(SENSOR_LIST_UPDATE_INTERVALS, <<id, index>>, InList(id, index, sensor.intervals),
               IfSensor(id, [reserved |-> 0, triplet |-> FALSE, remaining |-> 0,
                             returned |-> sensor.intervals[id]]))

\* One word, always the same.
ConfigGet(id) ==
  SensorReport(SENSOR_CONFIG_GET, <<id>>, FoundThen(id \in SensorId, SCMI_SUCCESS),
               [reserved |-> 0, state |-> 1])

ConfigSet(id, config) ==
  SensorReport(SENSOR_CONFIG_SET, <<id, config>>, FoundThen(id \in SensorId, SCMI_SUCCESS),
               NoValues)

ContinuousUpdateNotify(id, enable) ==
  SensorReport(SENSOR_CONTINUOUS_UPDATE_NOTIFY, <<id, enable>>,
               IF id \notin SensorId THEN SCMI_NOT_FOUND
               ELSE IF id \notin sensor.notify THEN SCMI_NOT_SUPPORTED
               ELSE OnOff(enable), NoValues)

\* sensor_send_message.
Handle(m, a) ==
  \/ m = PROTOCOL_VERSION /\ Version
  \/ m = PROTOCOL_ATTRIBUTES /\ Attributes
  \/ m = PROTOCOL_MESSAGE_ATTRIBUTES /\ MessageAttributes(a[1])
  \/ m = SENSOR_DESCRIPTION_GET /\ DescriptionGet(a[1])
  \/ m = SENSOR_TRIP_POINT_NOTIFY /\ TripPointNotify(a[1], a[2])
  \/ m = SENSOR_TRIP_POINT_CONFIG /\ TripPointConfig(a[1], a[2], a[3])
  \/ m = SENSOR_READING_GET /\ ReadingGet(a[1], a[2])
  \/ m = SENSOR_AXIS_DESCRIPTION_GET /\ AxisDescriptionGet(a[1], a[2])
  \/ m = SENSOR_LIST_UPDATE_INTERVALS /\ ListUpdateIntervals(a[1], a[2])
  \/ m = SENSOR_CONFIG_GET /\ ConfigGet(a[1])
  \/ m = SENSOR_CONFIG_SET /\ ConfigSet(a[1], a[2])
  \/ m = SENSOR_CONTINUOUS_UPDATE_NOTIFY /\ ContinuousUpdateNotify(a[1], a[2])
  \/ m > SENSOR_CONTINUOUS_UPDATE_NOTIFY /\ Unknown(m)

=============================================================================
