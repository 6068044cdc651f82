-------------------------- MODULE SystemPowerSuite ---------------------------
(***************************************************************************)
(* The system power suite: val_system_power.c and test_pool/system_power.  *)
(* No state is ever set: the one STATE_SET that is sent must be refused.   *)
(***************************************************************************)
EXTENDS TestEngine

VARIABLES info

SYSTEM_POWER_INVALID_COMMAND == 6
INVALID_FLAG_VAL             == 15
INVALID_NOTIFY_EN_VAL        == 15
SYSTEM_POWER_COLD_RESET      == 1
VENDOR_STATE                 == FALSE    \* no state with the top bit is sent

System(m, a, e)      == Ask(PROTOCOL_SYSTEM_POWER, m, a, e)
SystemValue(m, a, w) == AskValue(PROTOCOL_SYSTEM_POWER, m, a, w)

NothingLearnt == [reset |-> FALSE, suspend |-> FALSE]

-----------------------------------------------------------------------------
TestS001 == VersionTest(PROTOCOL_SYSTEM_POWER)

TestS002 == <<SystemValue(PROTOCOL_ATTRIBUTES, <<>>, [attributes |-> 0])>>

\* Two bits of STATE_SET's attributes are kept, all of STATE_GET's are reserved.
TestS003 ==
  <<[SystemValue(PROTOCOL_MESSAGE_ATTRIBUTES, <<SYSTEM_POWER_STATE_SET>>, [reserved |-> 0])
       EXCEPT !.learn = "support"],
    SystemValue(PROTOCOL_MESSAGE_ATTRIBUTES, <<SYSTEM_POWER_STATE_GET>>,
                [reserved |-> 0, warmReset |-> FALSE, suspend |-> FALSE])>>

TestS004 == UnknownCommandTest(PROTOCOL_SYSTEM_POWER, SYSTEM_POWER_INVALID_COMMAND)

TestS005 ==
  <<Probe(PROTOCOL_SYSTEM_POWER, SYSTEM_POWER_STATE_SET),
    [System(SYSTEM_POWER_STATE_SET, <<INVALID_FLAG_VAL, SYSTEM_POWER_COLD_RESET, VENDOR_STATE>>,
            SCMI_INVALID_PARAMETERS) EXCEPT !.sent = 2]>>

TestS006 ==
  <<Probe(PROTOCOL_SYSTEM_POWER, SYSTEM_POWER_STATE_GET),
    System(SYSTEM_POWER_STATE_GET, <<>>, SCMI_NOT_SUPPORTED)>>

\* This probe skips on NOT_SUPPORTED.
TestS007 ==
  <<[Probe(PROTOCOL_SYSTEM_POWER, SYSTEM_POWER_STATE_NOTIFY) EXCEPT !.expect = SCMI_NOT_SUPPORTED],
    System(SYSTEM_POWER_STATE_NOTIFY, <<INVALID_NOTIFY_EN_VAL>>, SCMI_INVALID_PARAMETERS)>>

Program(t) ==
  CASE t = "s001" -> TestS001 [] t = "s002" -> TestS002 [] t = "s003" -> TestS003
    [] t = "s004" -> TestS004 [] t = "s005" -> TestS005 [] t = "s006" -> TestS006
    [] t = "s007" -> TestS007

\* val_system_power_execute_tests.
Schedule(v) == <<"s002", "s003", "s004", "s005", "s006", "s007">>

More(s, v) == <<>>

\* val_system_power_save_info.
Learned(s, v) ==
  IF s.learn = "support" /\ v.reserved = 0 THEN [reset |-> v.warmReset, suspend |-> v.suspend]
  ELSE info

=============================================================================
