---------------------------- MODULE MockerSystem -----------------------------
(***************************************************************************)
(* Two small handlers of the simulated platform: system power management,  *)
(* system_power_send_message of transport_system_power.c, and voltage,     *)
(* voltage_send_message of transport_voltage.c, of which only the version  *)
(* is implemented.  Neither keeps anything.                                *)
(***************************************************************************)
EXTENDS MockerHandler

SystemReport(m, a, st, v) == Respond(PROTOCOL_SYSTEM_POWER, m, a, st, v)

-----------------------------------------------------------------------------
SystemVersion == SystemReport(PROTOCOL_VERSION, <<>>, SCMI_SUCCESS, [version |-> 1])

SystemAttributes == SystemReport(PROTOCOL_ATTRIBUTES, <<>>, SCMI_SUCCESS, [attributes |-> 0])

\* Warm reset and suspend are supported by STATE_SET.
SystemMessageAttributes(id) ==
  SystemReport(PROTOCOL_MESSAGE_ATTRIBUTES, <<id>>,
               FoundThen(id <= SYSTEM_POWER_STATE_NOTIFY, SCMI_SUCCESS),
               [reserved |-> 0, warmReset |-> id = SYSTEM_POWER_STATE_SET,
                suspend |-> id = SYSTEM_POWER_STATE_SET])

\* States from 5 on are reserved, up to the vendor's, which have the top bit.
SystemStateSet(flags, state, vendor) ==
  SystemReport(SYSTEM_POWER_STATE_SET, <<flags, state, vendor>>,
               IF state >= 5 /\ ~vendor THEN SCMI_INVALID_PARAMETERS ELSE OnOff(flags), NoValues)

SystemStateGet == SystemReport(SYSTEM_POWER_STATE_GET, <<>>, SCMI_NOT_SUPPORTED, NoValues)

SystemStateNotify(enable) ==
  SystemReport(SYSTEM_POWER_STATE_NOTIFY, <<enable>>, OnOff(enable), NoValues)

SystemUnknown(id) == SystemReport(id, <<>>, SCMI_NOT_FOUND, NoValues)

\* system_power_send_message.
HandleSystem(m, a) ==
  \/ m = PROTOCOL_VERSION /\ SystemVersion
  \/ m = PROTOCOL_ATTRIBUTES /\ SystemAttributes
  \/ m = PROTOCOL_MESSAGE_ATTRIBUTES /\ SystemMessageAttributes(a[1])
  \/ m = SYSTEM_POWER_STATE_SET /\ SystemStateSet(a[1], a[2], a[3])
  \/ m = SYSTEM_POWER_STATE_GET /\ SystemStateGet
  \/ m = SYSTEM_POWER_STATE_NOTIFY /\ SystemStateNotify(a[1])
  \/ m > SYSTEM_POWER_STATE_NOTIFY /\ SystemUnknown(m)

\* voltage_send_message.
HandleVoltage(m, a) ==
  Respond(PROTOCOL_VOLTAGE, m, a, FoundThen(m = PROTOCOL_VERSION, SCMI_SUCCESS), [version |-> 1])

=============================================================================
