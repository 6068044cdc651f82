----------------------------- MODULE BaseSuite ------------------------------
(***************************************************************************)
(* The base protocol suite: val_base.c and test_pool/base.                 *)
(*                                                                         *)
(* Each test is the sequence of the steps of its file.  What a test learns *)
(* goes to g_base_info_table (info) and to g_protocol_list (list), which   *)
(* later tests, and the suites of the other protocols, depend on.          *)
(***************************************************************************)
EXTENDS TestEngine

CONSTANTS
  NumAgents, NumProtocols,   \* pal_base_get_expected_num_agents, _protocols
  Device,                    \* pal_agent_get_accessible_device
  ForeignDevice              \* pal_agent_get_inaccessible_device

ASSUME ExpectedAssumption == NumAgents \in 1..255 /\ NumProtocols \in 1..255
ASSUME DeviceAssumption   == Device \in Nat /\ ForeignDevice \in Nat

BASE_INVALID_COMMAND == 12
INVALID_FLAG      == 15     \* INVALID_FLAG_VAL, INVALID_NOTIFY_ENABLE
INVALID_SKIP      == 9      \* PROTOCOL_MAX - PROTOCOL_BASE + 1
EXPECTED          == 1      \* a name or a version equal to the expected one
PLATFORM          == 0      \* the platform's agent id, with its name

VARIABLES
  version,   \* learnt by b001
  info,      \* g_base_info_table: num_agents, num_protocols, test_agent_id
  found,     \* b008's own protocol_list
  list,      \* g_protocol_list
  trusted    \* pal_check_trusted_agent: fixed by the platform layer

suiteVars == <<version, info, found, list, trusted>>

Base(m, a, e)     == Ask(PROTOCOL_BASE, m, a, e)
BaseValue(m, a, w) == AskValue(PROTOCOL_BASE, m, a, w)

\* 16 reserved bits, number of agents, number of protocols: b002 compares all.
AttributesWord == NumAgents * 256 + NumProtocols

-----------------------------------------------------------------------------
(* The tests.                                                              *)

TestB001 == <<AskAndLearn(PROTOCOL_BASE, PROTOCOL_VERSION, <<>>, "version")>>

TestB002 == <<[BaseValue(PROTOCOL_ATTRIBUTES, <<>>, AttributesWord)
                 EXCEPT !.learn = "counts"]>>

TestB003 ==
  <<BaseValue(PROTOCOL_MESSAGE_ATTRIBUTES, <<BASE_DISCOVER_VENDOR>>, 0),
    BaseValue(PROTOCOL_MESSAGE_ATTRIBUTES, <<BASE_DISCOVER_IMPLEMENTATION_VERSION>>, 0),
    BaseValue(PROTOCOL_MESSAGE_ATTRIBUTES, <<BASE_DISCOVER_LIST_PROTOCOLS>>, 0)>>

TestB004 ==
  <<Base(BASE_INVALID_COMMAND, <<>>, SCMI_NOT_FOUND),
    Base(PROTOCOL_MESSAGE_ATTRIBUTES, <<BASE_INVALID_COMMAND>>, SCMI_NOT_FOUND)>>

TestB005 == <<BaseValue(BASE_DISCOVER_VENDOR, <<>>, EXPECTED)>>

TestB006 ==
  <<ProbeUncounted(PROTOCOL_BASE, BASE_DISCOVER_SUB_VENDOR),
    BaseValue(BASE_DISCOVER_SUB_VENDOR, <<>>, EXPECTED)>>

TestB007 == <<BaseValue(BASE_DISCOVER_IMPLEMENTATION_VERSION, <<>>, EXPECTED)>>

\* One page of the protocol list, from index `skip' on.
Page(skip) == AskAndLearn(PROTOCOL_BASE, BASE_DISCOVER_LIST_PROTOCOLS, <<skip>>, "page")
InvalidSkip == Base(BASE_DISCOVER_LIST_PROTOCOLS, <<INVALID_SKIP>>, SCMI_INVALID_PARAMETERS)

TestB008 == IF info.protocols = 0 THEN <<Skip>> ELSE <<Page(0), InvalidSkip>>

TestB009_v1 ==
  <<Probe(PROTOCOL_BASE, BASE_DISCOVER_AGENT),
    BaseValue(BASE_DISCOVER_AGENT, <<PLATFORM>>, PLATFORM)>>
  \o [i \in 1..info.agents |-> Base(BASE_DISCOVER_AGENT, <<i>>, SCMI_SUCCESS)]
  \o <<Base(BASE_DISCOVER_AGENT, <<info.agents + 1>>, SCMI_NOT_FOUND)>>

TestB009 ==
  <<Probe(PROTOCOL_BASE, BASE_DISCOVER_AGENT),
    BaseValue(BASE_DISCOVER_AGENT, <<PLATFORM>>, PLATFORM),
    AskAndLearn(PROTOCOL_BASE, BASE_DISCOVER_AGENT, <<OWN_AGENT>>, "self")>>
  \o [i \in 1..info.agents |-> BaseValue(BASE_DISCOVER_AGENT, <<i>>, i)]
  \o <<Base(BASE_DISCOVER_AGENT, <<info.agents + 1>>, SCMI_NOT_FOUND)>>

TestB010 ==
  <<Probe(PROTOCOL_BASE, BASE_NOTIFY_ERRORS),
    Base(BASE_NOTIFY_ERRORS, <<INVALID_FLAG>>, SCMI_INVALID_PARAMETERS)>>

-----------------------------------------------------------------------------
(* The permission tests: skipped at once for an agent that is not trusted. *)

\* Mutant: the platform layer is not asked.
TrustTaken(program) == program

IfTrusted(program) == IF trusted THEN program ELSE <<Skip>>

SetDevice(agent, device, flag, e) ==
  Base(BASE_SET_DEVICE_PERMISSIONS, <<agent, device, flag>>, e)
SetProtocol(agent, device, protocol, flag, e) ==
  Base(BASE_SET_PROTOCOL_PERMISSIONS, <<agent, device, protocol, flag>>, e)
Reset(agent, flag, e) == Base(BASE_RESET_AGENT_CONFIGURATION, <<agent, flag>>, e)

\* Reading the version of the protocol the accessible device is behind.
Access(e) == Ask(PROTOCOL_POWER_DOMAIN, PROTOCOL_VERSION, <<>>, e)

Supports(c)  == ProbeUncounted(PROTOCOL_BASE, c)
InvalidAgent == info.agents + 1

TestB011 == IfTrusted(
  <<Supports(BASE_SET_DEVICE_PERMISSIONS),
    SetDevice(InvalidAgent, Device, FLAG_ACCESS_ALLOW, SCMI_NOT_FOUND),
    SetDevice(info.self, Device, INVALID_FLAG, SCMI_INVALID_PARAMETERS),
    SetDevice(info.self, ForeignDevice, FLAG_ACCESS_DENY, SCMI_NOT_FOUND)>>)


TestB012 == IfTrusted(
  <<Supports(BASE_SET_DEVICE_PERMISSIONS),
    SetDevice(info.self, Device, FLAG_ACCESS_DENY, SCMI_SUCCESS),
    Access(SCMI_DENIED),
    SetDevice(info.self, Device, FLAG_ACCESS_ALLOW, SCMI_SUCCESS),
    Access(SCMI_SUCCESS)>>)

TestB013 == IfTrusted(
  <<Supports(BASE_SET_PROTOCOL_PERMISSIONS),
    SetProtocol(InvalidAgent, Device, PROTOCOL_POWER_DOMAIN, FLAG_ACCESS_ALLOW,
                SCMI_NOT_FOUND),
    SetProtocol(info.self, Device, PROTOCOL_BASE, FLAG_ACCESS_DENY, SCMI_NOT_FOUND),
    SetProtocol(info.self, Device, PROTOCOL_POWER_DOMAIN, INVALID_FLAG,
                SCMI_INVALID_PARAMETERS),
    SetProtocol(info.self, ForeignDevice, PROTOCOL_POWER_DOMAIN, FLAG_ACCESS_DENY,
                SCMI_NOT_FOUND)>>)

\* The restoring command is the one whose header the test does not compare.
TestB014 == IfTrusted(
  <<Supports(BASE_SET_PROTOCOL_PERMISSIONS),
    SetProtocol(info.self, Device, PROTOCOL_POWER_DOMAIN, FLAG_ACCESS_DENY, SCMI_SUCCESS),
    Access(SCMI_DENIED),
    [SetProtocol(info.self, Device, PROTOCOL_POWER_DOMAIN, FLAG_ACCESS_ALLOW, SCMI_SUCCESS)
       EXCEPT !.header = FALSE],
    Access(SCMI_SUCCESS)>>)

TestB015 == IfTrusted(
  <<Supports(BASE_RESET_AGENT_CONFIGURATION),
    Reset(InvalidAgent, FLAG_ACCESS_ALLOW, SCMI_NOT_FOUND),
    Reset(info.self, INVALID_FLAG, SCMI_INVALID_PARAMETERS)>>)

\* Mutant: RESET is asked about only once access is denied.
ProbeAfterDeny == IfTrusted(
  <<Supports(BASE_SET_DEVICE_PERMISSIONS),
    SetDevice(info.self, Device, FLAG_ACCESS_DENY, SCMI_SUCCESS),
    Supports(BASE_RESET_AGENT_CONFIGURATION),
    [Access(SCMI_DENIED) EXCEPT !.header = FALSE],
    Reset(info.self, FLAG_RESET_ACCESS, SCMI_SUCCESS),
    Access(SCMI_SUCCESS)>>)

\* Here it is the denied access whose header is not compared.
TestB016 == IfTrusted(
  <<Supports(BASE_SET_DEVICE_PERMISSIONS),
    Supports(BASE_RESET_AGENT_CONFIGURATION),
    SetDevice(info.self, Device, FLAG_ACCESS_DENY, SCMI_SUCCESS),
    [Access(SCMI_DENIED) EXCEPT !.header = FALSE],
    Reset(info.self, FLAG_RESET_ACCESS, SCMI_SUCCESS),
    Access(SCMI_SUCCESS)>>)

TestB017 == IfTrusted(
  <<Supports(BASE_SET_PROTOCOL_PERMISSIONS),
    Supports(BASE_RESET_AGENT_CONFIGURATION),
    SetProtocol(info.self, Device, PROTOCOL_POWER_DOMAIN, FLAG_ACCESS_DENY, SCMI_SUCCESS),
    Access(SCMI_DENIED),
    Reset(info.self, FLAG_RESET_ACCESS, SCMI_SUCCESS),
    Access(SCMI_SUCCESS)>>)

Program(t) ==
  CASE t = "b001" -> TestB001 [] t = "b002" -> TestB002 [] t = "b003" -> TestB003
    [] t = "b004" -> TestB004 [] t = "b005" -> TestB005 [] t = "b006" -> TestB006
    [] t = "b007" -> TestB007 [] t = "b008" -> TestB008
    [] t = "b009_v1" -> TestB009_v1 [] t = "b009" -> TestB009 [] t = "b010" -> TestB010
    [] t = "b011" -> TestB011 [] t = "b012" -> TestB012 [] t = "b013" -> TestB013
    [] t = "b014" -> TestB014 [] t = "b015" -> TestB015 [] t = "b016" -> TestB016
    [] t = "b017" -> TestB017

-----------------------------------------------------------------------------
(* val_base_execute_tests.                                                 *)

\* The tests that follow b001, once it has passed.
Schedule(v) ==
  <<"b002", "b003", "b004", "b005", "b006", "b007", "b008">>
  \o (IF v = 1 THEN <<"b009_v1">> ELSE <<>>)
  \o (IF v = 2 THEN <<"b009">> ELSE <<>>)
  \o <<"b010">>
  \o (IF v = 2 THEN <<"b011", "b012", "b013", "b014", "b015", "b016", "b017">> ELSE <<>>)

StartTest ==
  /\ test = "none" /\ queue # <<>>
  /\ Begin(Head(queue), Program(Head(queue)))
  /\ queue' = Tail(queue)
  /\ IF Head(queue) = "b008" THEN list' = {} /\ found' = {} ELSE UNCHANGED <<list, found>>
  /\ UNCHANGED <<version, info, trusted>>

\* b008 goes on asking while it has counted fewer protocols than b002 learnt.
\* The protocols are numbered in the order the platform lists them.
PageEnd(s, r) == s.args[1] + r.value

\* Mutant: the next page starts at what this one held, not after it.
AskFromCount(s, r) ==
  IF s.learn = "page" /\ PageEnd(s, r) < info.protocols
  THEN <<Page(r.value)>> \o Tail(steps)
  ELSE Tail(steps)

More(s, r) ==
  IF s.learn = "page" /\ PageEnd(s, r) < info.protocols
  THEN <<Page(PageEnd(s, r))>> \o Tail(steps)
  ELSE Tail(steps)

\* Mutant: the list is published page by page.
LearnPageByPage(s, r) ==
  /\ version' = IF s.learn = "version" THEN r.value ELSE version
  /\ info' = CASE s.learn = "counts" -> [info EXCEPT !.agents = NumAgents,
                                                     !.protocols = NumProtocols]
               [] s.learn = "self"   -> [info EXCEPT !.self = r.value]
               [] OTHER              -> info
  /\ found' = IF s.learn = "page" THEN found \cup ((s.args[1] + 1)..PageEnd(s, r))
              ELSE found
  /\ list' = IF s.learn = "page" THEN found' ELSE list

\* What the test keeps of an answer that holds.
Learn(s, r) ==
  /\ version' = IF s.learn = "version" THEN r.value ELSE version
  /\ info' = CASE s.learn = "counts" -> [info EXCEPT !.agents = NumAgents,
                                                     !.protocols = NumProtocols]
               [] s.learn = "self"   -> [info EXCEPT !.self = r.value]
               [] OTHER              -> info
  /\ found' = IF s.learn = "page" THEN found \cup ((s.args[1] + 1)..PageEnd(s, r))
              ELSE found
  /\ list' = IF s.learn = "page" /\ PageEnd(s, r) >= info.protocols THEN found' ELSE list

\* The step in progress is answered: compare, learn, go on or report.  A b001
\* that does not pass ends the suite.
Answer(r) ==
  LET s == Head(steps)
      good == s.kind = "probe" \/ Holds(s, r)
  IN /\ Proceed(r, IF good THEN More(s, r) ELSE <<>>)
     /\ IF good THEN Learn(s, r) ELSE UNCHANGED <<version, info, found, list>>
     /\ queue' = IF test # "b001" THEN queue ELSE IF good THEN Schedule(r.value) ELSE <<>>
     /\ UNCHANGED trusted

SuiteInit ==
  /\ EngineInit(<<"b001">>)
  /\ version = 0 /\ info = [agents |-> 0, protocols |-> 0, self |-> 0]
  /\ found = {} /\ list = {}
  /\ trusted \in BOOLEAN

=============================================================================
