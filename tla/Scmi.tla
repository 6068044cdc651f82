-------------------------------- MODULE Scmi --------------------------------
(***************************************************************************)
(* The numbers of the SCMI specification that the suite and the simulated  *)
(* platform share: status codes, protocol and message ids, flags.          *)
(***************************************************************************)
EXTENDS Integers

SCMI_SUCCESS            == 0
SCMI_NOT_SUPPORTED      == -1
SCMI_INVALID_PARAMETERS == -2
SCMI_DENIED             == -3
SCMI_NOT_FOUND          == -4
SCMI_OUT_OF_RANGE       == -5
SCMI_GENERIC_ERROR      == -8

PROTOCOL_BASE         == 16
PROTOCOL_POWER_DOMAIN == 17
PROTOCOL_SYSTEM_POWER == 18
PROTOCOL_PERFORMANCE  == 19
PROTOCOL_CLOCK        == 20
PROTOCOL_SENSOR       == 21
PROTOCOL_RESET        == 22
PROTOCOL_VOLTAGE      == 23

PROTOCOL_VERSION            == 0
PROTOCOL_ATTRIBUTES         == 1
PROTOCOL_MESSAGE_ATTRIBUTES == 2

BASE_DISCOVER_VENDOR                 == 3
BASE_DISCOVER_SUB_VENDOR             == 4
BASE_DISCOVER_IMPLEMENTATION_VERSION == 5
BASE_DISCOVER_LIST_PROTOCOLS         == 6
BASE_DISCOVER_AGENT                  == 7
BASE_NOTIFY_ERRORS                   == 8
BASE_SET_DEVICE_PERMISSIONS          == 9
BASE_SET_PROTOCOL_PERMISSIONS        == 10
BASE_RESET_AGENT_CONFIGURATION       == 11

OWN_AGENT         == -1     \* 0xFFFFFFFF as an agent id
FLAG_ACCESS_DENY  == 0
FLAG_ACCESS_ALLOW == 1
FLAG_RESET_ACCESS == 1

POWER_DOMAIN_ATTRIBUTES              == 3
POWER_STATE_SET                      == 4
POWER_STATE_GET                      == 5
POWER_STATE_NOTIFY                   == 6
POWER_STATE_CHANGE_REQUESTED_NOTIFY  == 7

SYSTEM_POWER_STATE_SET    == 3
SYSTEM_POWER_STATE_GET    == 4
SYSTEM_POWER_STATE_NOTIFY == 5

PERFORMANCE_DOMAIN_ATTRIBUTES    == 3
PERFORMANCE_DESCRIBE_LEVELS      == 4
PERFORMANCE_LIMITS_SET           == 5
PERFORMANCE_LIMITS_GET           == 6
PERFORMANCE_LEVEL_SET            == 7
PERFORMANCE_LEVEL_GET            == 8
PERFORMANCE_NOTIFY_LIMITS        == 9
PERFORMANCE_NOTIFY_LEVEL         == 10
PERFORMANCE_DESCRIBE_FASTCHANNEL == 11

CLOCK_ATTRIBUTES     == 3
CLOCK_DESCRIBE_RATES == 4
CLOCK_RATE_SET       == 5
CLOCK_RATE_GET       == 6
CLOCK_CONFIG_SET     == 7

SENSOR_DESCRIPTION_GET          == 3
SENSOR_TRIP_POINT_NOTIFY        == 4
SENSOR_TRIP_POINT_CONFIG        == 5
SENSOR_READING_GET              == 6
SENSOR_AXIS_DESCRIPTION_GET     == 7
SENSOR_LIST_UPDATE_INTERVALS    == 8
SENSOR_CONFIG_GET               == 9
SENSOR_CONFIG_SET               == 10
SENSOR_CONTINUOUS_UPDATE_NOTIFY == 11

RESET_DOMAIN_ATTRIBUTES == 3
RESET_PROTOCOL_RESET    == 4
RESET_PROTOCOL_NOTIFY   == 5

VOLTAGE_DOMAIN_ATTRIBUTES == 3
VOLTAGE_DESCRIBE_LEVELS   == 4
VOLTAGE_CONFIG_SET        == 5
VOLTAGE_CONFIG_GET        == 6
VOLTAGE_LEVEL_SET         == 7
VOLTAGE_LEVEL_GET         == 8

=============================================================================
