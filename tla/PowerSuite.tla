----------------------------- MODULE PowerSuite ------------------------------
(***************************************************************************)
(* The power domain suite: val_power_domain.c and test_pool/power_domain.  *)
(* Of g_power_domain_info_table its tests use the number of domains; what  *)
(* a domain supports they ask again in every test.                         *)
(***************************************************************************)
EXTENDS TestEngine

VARIABLES info, expected

POWER_INVALID_COMMAND   == 8
INVALID_SYNC_FLAG       == 15
INVALID_ASYNC_FLAG      == 14
SYNC_POWER_STATE_CHANGE == 0
NOTIFY_ENABLE           == 1
INVALID_NOTIFY_ENABLE   == 15
POWER_STATE_ON          == FALSE     \* a power state, by its reserved bit
INVALID_POWER_STATE     == TRUE

\* POWER_PROTOCOL_VERSION_2_1.
VERSION_2_1 == 33

Power(m, a, e)      == Ask(PROTOCOL_POWER_DOMAIN, m, a, e)
PowerValue(m, a, w) == AskValue(PROTOCOL_POWER_DOMAIN, m, a, w)
ProbePower(c)       == <<Probe(PROTOCOL_POWER_DOMAIN, c)>>

NothingLearnt == [domains |-> 0, statistics |-> [low |-> 0, high |-> 0, len |-> 0]]

InvalidDomain == info.domains + 1

-----------------------------------------------------------------------------
TestP001 == VersionTest(PROTOCOL_POWER_DOMAIN)

TestP002 ==
  <<[PowerValue(PROTOCOL_ATTRIBUTES, <<>>,
                [domains |-> expected.domains, statistics |-> expected.statistics])
       EXCEPT !.learn = "attributes"]>>

Mandatory(c) == PowerValue(PROTOCOL_MESSAGE_ATTRIBUTES, <<c>>, [attributes |-> 0])

TestP003 == <<Mandatory(POWER_STATE_SET), Mandatory(POWER_STATE_GET),
              Mandatory(POWER_DOMAIN_ATTRIBUTES)>>

TestP004 == UnknownCommandTest(PROTOCOL_POWER_DOMAIN, POWER_INVALID_COMMAND)

\* The attributes of every domain, by a test that goes on from what it reads.
Attributes(d, l) ==
  <<[PowerValue(POWER_DOMAIN_ATTRIBUTES, <<d>>, [reserved |-> 0]) EXCEPT !.learn = l]>>
ForAttributes(l) ==
  LET Read(d) == Attributes(d, l) IN ForEach(info.domains, Read)
IfDomains(program) == IfSome(info.domains, program)

TestP005 == IfDomains(ForAttributes("nothing"))

TestP006 == <<Power(POWER_DOMAIN_ATTRIBUTES, <<InvalidDomain>>, SCMI_NOT_FOUND)>>

StateSet(flags, d, state, e) == Power(POWER_STATE_SET, <<flags, d, state>>, e)

\* The run flag of these tests is the last step: it ends the test as a SKIP
\* unless a domain that was tried has taken it away (see More).
Untried == <<Skip>>

TestP007 == IfDomains(ForAttributes("settable") \o Untried)
TestP008 == IfDomains(ForAttributes("not_settable") \o Untried)
TestP009 ==
  <<StateSet(SYNC_POWER_STATE_CHANGE, InvalidDomain, POWER_STATE_ON, SCMI_NOT_FOUND)>>

TestP010 ==
  LET Read(d) == <<Power(POWER_STATE_GET, <<d>>, SCMI_SUCCESS)>>
  IN IfDomains(ForEach(info.domains, Read))
TestP011 == <<Power(POWER_STATE_GET, <<InvalidDomain>>, SCMI_NOT_FOUND)>>

Notify(d, enable, e) == <<Power(POWER_STATE_NOTIFY, <<d, enable>>, e)>>
ChangeRequested(d, enable, e) ==
  <<Power(POWER_STATE_CHANGE_REQUESTED_NOTIFY, <<d, enable>>, e)>>

TestP012 == ProbePower(POWER_STATE_NOTIFY) \o IfDomains(ForAttributes("notifies") \o Untried)
TestP013 == ProbePower(POWER_STATE_NOTIFY) \o IfDomains(ForAttributes("silent") \o Untried)
TestP014 ==
  ProbePower(POWER_STATE_NOTIFY) \o Notify(InvalidDomain, NOTIFY_ENABLE, SCMI_NOT_FOUND)

TestP015 ==
  LET Invalid(d) == ChangeRequested(d, INVALID_NOTIFY_ENABLE, SCMI_INVALID_PARAMETERS)
  IN ProbePower(POWER_STATE_CHANGE_REQUESTED_NOTIFY) \o IfDomains(ForEach(info.domains, Invalid))
TestP016 ==
  ProbePower(POWER_STATE_CHANGE_REQUESTED_NOTIFY)
  \o ChangeRequested(InvalidDomain, NOTIFY_ENABLE, SCMI_NOT_FOUND)

Program(t) ==
  CASE t = "p001" -> TestP001 [] t = "p002" -> TestP002 [] t = "p003" -> TestP003
    [] t = "p004" -> TestP004 [] t \in {"p005", "p005_v3"} -> TestP005
    [] t = "p006" -> TestP006 [] t = "p007" -> TestP007 [] t = "p008" -> TestP008
    [] t = "p009" -> TestP009 [] t = "p010" -> TestP010 [] t = "p011" -> TestP011
    [] t = "p012" -> TestP012 [] t = "p013" -> TestP013 [] t = "p014" -> TestP014
    [] t = "p015" -> TestP015 [] t = "p016" -> TestP016

\* val_power_domain_execute_tests.
Schedule(v) ==
  <<"p002", "p003", "p004", "p005", "p006", "p007", "p008", "p009", "p010", "p011", "p012",
    "p013", "p014">>
  \o (IF v = 2 THEN <<"p015", "p016">> ELSE <<>>)
  \o (IF v = VERSION_2_1 THEN <<"p005_v3">> ELSE <<>>)

-----------------------------------------------------------------------------
(* What the attributes v of a domain add, and what is kept.                *)

Settable(v) == v.sync \/ v.async

InvalidSets(d, v) ==
  <<StateSet(IF v.async THEN INVALID_SYNC_FLAG ELSE INVALID_ASYNC_FLAG, d, POWER_STATE_ON,
             SCMI_INVALID_PARAMETERS),
    StateSet(SYNC_POWER_STATE_CHANGE, d, INVALID_POWER_STATE, SCMI_INVALID_PARAMETERS)>>

More(s, v) ==
  LET d == s.args[1]
  IN CASE s.learn = "settable" /\ Settable(v) -> InvalidSets(d, v)
       [] s.learn = "not_settable" /\ ~Settable(v) ->
            <<StateSet(SYNC_POWER_STATE_CHANGE, d, POWER_STATE_ON, SCMI_NOT_SUPPORTED)>>
       [] s.learn = "notifies" /\ v.notify ->
            Notify(d, INVALID_NOTIFY_ENABLE, SCMI_INVALID_PARAMETERS)
       [] s.learn = "silent" /\ ~v.notify -> Notify(d, NOTIFY_ENABLE, SCMI_NOT_SUPPORTED)
       [] OTHER -> <<>>

\* A field is saved before the next one is compared.
Learned(s, v) ==
  IF s.learn # "attributes" THEN info
  ELSE LET is == v.statistics
           ok == expected.statistics
           domains == v.domains = expected.domains
           low  == domains /\ is.low = ok.low
           high == low /\ is.high = ok.high
       IN [info EXCEPT !.domains = IF domains THEN v.domains ELSE @,
                       !.statistics.low  = IF low THEN is.low ELSE @,
                       !.statistics.high = IF high THEN is.high ELSE @,
                       !.statistics.len  = IF high /\ is.len = ok.len THEN is.len ELSE @]

=============================================================================
