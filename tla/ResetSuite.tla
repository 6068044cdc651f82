----------------------------- MODULE ResetSuite ------------------------------
(***************************************************************************)
(* The reset suite: val_reset.c and test_pool/reset.  Nothing is reset:    *)
(* every RESET that is sent must be refused.                               *)
(***************************************************************************)
EXTENDS TestEngine

VARIABLES info, expected

RESET_INVALID_COMMAND          == 6
INVALID_FLAG_VAL               == 248
EXPLICIT_SYNC_DEASSERT_RESET   == 0
AUTONOMOUS_ASYNC               == 5      \* bits 0 and 2 of the flags
ARCH_COLD_RESET                == 0
RESET_ARCHITECTURAL_INVALID_ID == 255
RESET_NOTIFY_DISABLE           == 0
RESET_INVALID_NOTIFY_ENABLE    == 15

ResetAsk(m, a, e)   == Ask(PROTOCOL_RESET, m, a, e)
ResetValue(m, a, w) == AskValue(PROTOCOL_RESET, m, a, w)
ProbeNotify         == <<Probe(PROTOCOL_RESET, RESET_PROTOCOL_NOTIFY)>>

NothingLearnt == [domains |-> 0, async |-> {}, notify |-> {}]

InvalidDomain == info.domains + 1
IfDomains(program) == IfSome(info.domains, program)

-----------------------------------------------------------------------------
TestR001 == VersionTest(PROTOCOL_RESET)

TestR002 ==
  <<[ResetValue(PROTOCOL_ATTRIBUTES, <<>>, [reserved |-> 0, domains |-> expected.domains])
       EXCEPT !.learn = "attributes"]>>

TestR003 ==
  <<ResetValue(PROTOCOL_MESSAGE_ATTRIBUTES, <<RESET_DOMAIN_ATTRIBUTES>>, [attributes |-> 0]),
    ResetValue(PROTOCOL_MESSAGE_ATTRIBUTES, <<RESET_PROTOCOL_RESET>>, [attributes |-> 0])>>

TestR004 == UnknownCommandTest(PROTOCOL_RESET, RESET_INVALID_COMMAND)

\* What a domain supports is kept before its name is compared.
ForAttributes ==
  LET Discover(d) == <<[ResetValue(RESET_DOMAIN_ATTRIBUTES, <<d>>, [reserved |-> 0, name |-> d])
                          EXCEPT !.learn = "domain"]>>
  IN ForEach(info.domains, Discover)

TestR005 == IfDomains(ForAttributes)

\* Domain ids begin at 0: NOT_FOUND is a failure, anything else will do.
TestR005_v3 ==
  LET First == [ResetAsk(RESET_DOMAIN_ATTRIBUTES, <<0>>, SCMI_NOT_FOUND) EXCEPT !.kind = "refute"]
  IN IfDomains(<<First>> \o ForAttributes)

TestR006 == <<ResetAsk(RESET_DOMAIN_ATTRIBUTES, <<InvalidDomain>>, SCMI_NOT_FOUND)>>

Reset(d, flags, state, e) == ResetAsk(RESET_PROTOCOL_RESET, <<d, flags, state>>, e)

TestR007 ==
  <<Reset(InvalidDomain, EXPLICIT_SYNC_DEASSERT_RESET, ARCH_COLD_RESET, SCMI_NOT_FOUND)>>

TestR008 ==
  LET Invalid(d) ==
        <<Reset(d, INVALID_FLAG_VAL, ARCH_COLD_RESET, SCMI_INVALID_PARAMETERS)>>
        \o (IF d \in info.async THEN <<>>
            ELSE <<Reset(d, AUTONOMOUS_ASYNC, ARCH_COLD_RESET, SCMI_NOT_SUPPORTED)>>)
  IN IfDomains(ForEach(info.domains, Invalid))

TestR009 ==
  LET Invalid(d) == <<Reset(d, EXPLICIT_SYNC_DEASSERT_RESET, RESET_ARCHITECTURAL_INVALID_ID,
                            SCMI_INVALID_PARAMETERS)>>
  IN IfDomains(ForEach(info.domains, Invalid))

TestR010 ==
  ProbeNotify
  \o <<ResetAsk(RESET_PROTOCOL_NOTIFY, <<InvalidDomain, RESET_NOTIFY_DISABLE>>, SCMI_NOT_FOUND)>>

TestR011 ==
  LET Invalid(d) == <<ResetAsk(RESET_PROTOCOL_NOTIFY, <<d, RESET_INVALID_NOTIFY_ENABLE>>,
                               SCMI_INVALID_PARAMETERS)>>
  IN ProbeNotify \o IfDomains(ForEach(info.domains, Invalid))

Program(t) ==
  CASE t = "r001" -> TestR001 [] t = "r002" -> TestR002 [] t = "r003" -> TestR003
    [] t = "r004" -> TestR004 [] t = "r005" -> TestR005 [] t = "r005_v3" -> TestR005_v3
    [] t = "r006" -> TestR006 [] t = "r007" -> TestR007 [] t = "r008" -> TestR008
    [] t = "r009" -> TestR009 [] t = "r010" -> TestR010 [] t = "r011" -> TestR011

\* val_reset_execute_tests.
Schedule(v) ==
  <<"r002", "r003", "r004", "r005", "r006", "r007", "r008", "r009", "r010", "r011">>
  \o (IF v = 2 THEN <<"r005_v3">> ELSE <<>>)

More(s, v) == <<>>

\* val_reset_save_info.
Learned(s, v) ==
  LET d == s.args[1]
      With(set, has) == IF has THEN set \cup {d} ELSE set \ {d}
  IN CASE s.learn = "attributes" /\ v.reserved = 0 /\ v.domains = expected.domains ->
            [info EXCEPT !.domains = v.domains]
       [] s.learn = "domain" /\ v.reserved = 0 ->
            [info EXCEPT !.async = With(@, v.async), !.notify = With(@, v.notify)]
       [] OTHER -> info

=============================================================================
