------------------------------- MODULE Mocker -------------------------------
(***************************************************************************)
(* The simulated platform the suite tests itself on: the base and the      *)
(* power handlers of platform/mocker.  base_send_message and               *)
(* power_send_message answer a request at once; here an answer is its      *)
(* status, and the state is what the statuses depend on.                   *)
(*                                                                         *)
(* The handlers ignore which agent is asking and for which one: there is   *)
(* one access table, agent1_device_access, and one entry for the power     *)
(* protocol, whatever the device.                                          *)
(***************************************************************************)
EXTENDS Scmi, Sequences, FiniteSets

CONSTANTS
  NumAgents,        \* base_protocol.num_agents
  NumProtocols,     \* base_protocol.num_protocols_implemented
  NumDevices,       \* NUM_ELEMS(devices), NUM_ELEMS(agent1_device_access)
  NumDomains,       \* num_power_domains
  Id,               \* parameters: message ids, or anything where there is one alone,
  Number,           \* agents, devices, domains and flags where there are several,
  Protocol          \* and the protocols of SET_PROTOCOL_PERMISSIONS

ASSUME CountsAssumption == /\ NumAgents \in Nat /\ NumProtocols \in Nat
                           /\ NumDevices \in Nat \ {0} /\ NumDomains \in Nat
ASSUME ParameterAssumption ==
  Id \subseteq Nat /\ Number \subseteq Nat /\ Protocol \subseteq Nat

VARIABLES
  supported,         \* the base commands that are optional and supported
  device_access,     \* agent1_device_access[d].device_access
  past_end,          \* the elements past the end of that table that were stored to
  protocol_access,   \* agent_protocol_access: the power protocol is its only entry
  reply              \* the last request and the status it was answered with

tables == <<supported, device_access, past_end, protocol_access>>
vars == <<tables, reply>>

AccessDevice == 0..(NumDevices - 1)

Optional == {BASE_DISCOVER_SUB_VENDOR, BASE_DISCOVER_AGENT, BASE_NOTIFY_ERRORS,
             BASE_SET_DEVICE_PERMISSIONS, BASE_SET_PROTOCOL_PERMISSIONS,
             BASE_RESET_AGENT_CONFIGURATION}

\* get_unsupported_protocol: one past the last of supported_protocols, which
\* are consecutive from the power protocol on.
UnsupportedProtocol == PROTOCOL_POWER_DOMAIN + NumProtocols

-----------------------------------------------------------------------------
(* The status of each base command, its conditions in the code's order.    *)

NotFoundUnless(c, st) == IF c \in supported THEN st ELSE SCMI_NOT_FOUND

\* Mutant: the range check lets one id too many through.
MsgAttrOffByOne(id) ==
  IF id > BASE_RESET_AGENT_CONFIGURATION + 1
     \/ (id \in Optional /\ id > BASE_DISCOVER_AGENT /\ id \notin supported)
  THEN SCMI_NOT_FOUND ELSE SCMI_SUCCESS

\* Ids up to BASE_DISCOVER_AGENT are found whatever the flags say.
MsgAttrStatus(id) ==
  IF id > BASE_RESET_AGENT_CONFIGURATION
     \/ (id \in Optional /\ id > BASE_DISCOVER_AGENT /\ id \notin supported)
  THEN SCMI_NOT_FOUND ELSE SCMI_SUCCESS

ListStatus(skip) == IF skip > NumProtocols THEN SCMI_INVALID_PARAMETERS ELSE SCMI_SUCCESS

AgentStatus(agent) ==
  NotFoundUnless(BASE_DISCOVER_AGENT,
    IF agent # OWN_AGENT /\ agent > NumAgents THEN SCMI_NOT_FOUND ELSE SCMI_SUCCESS)

NotifyErrorsStatus(enable) ==
  NotFoundUnless(BASE_NOTIFY_ERRORS,
    IF enable > 1 THEN SCMI_INVALID_PARAMETERS ELSE SCMI_SUCCESS)

\* Mutant: the ids of agents are checked, those of devices are not.
SetDeviceUnchecked(agent, device, flags) ==
  NotFoundUnless(BASE_SET_DEVICE_PERMISSIONS,
    IF flags > 1 THEN SCMI_INVALID_PARAMETERS
    ELSE IF agent > NumAgents THEN SCMI_NOT_FOUND
    ELSE SCMI_SUCCESS)

\* Both checks of the device, against either table, let NumDevices through.
SetDeviceStatus(agent, device, flags) ==
  NotFoundUnless(BASE_SET_DEVICE_PERMISSIONS,
    IF flags > 1 THEN SCMI_INVALID_PARAMETERS
    ELSE IF agent > NumAgents \/ device > NumDevices THEN SCMI_NOT_FOUND
    ELSE SCMI_SUCCESS)

SetProtocolStatus(agent, device, proto, flags) ==
  LET unknown == \/ proto = PROTOCOL_BASE \/ proto >= UnsupportedProtocol
                 \/ agent > NumAgents \/ device > NumDevices
  IN NotFoundUnless(BASE_SET_PROTOCOL_PERMISSIONS,
       IF unknown THEN SCMI_NOT_FOUND
       ELSE IF flags > 1 THEN SCMI_INVALID_PARAMETERS
       ELSE SCMI_SUCCESS)

ResetStatus(agent, flags) ==
  NotFoundUnless(BASE_RESET_AGENT_CONFIGURATION,
    IF agent > NumAgents THEN SCMI_NOT_FOUND
    ELSE IF flags > 1 THEN SCMI_INVALID_PARAMETERS
    ELSE SCMI_SUCCESS)

-----------------------------------------------------------------------------
(* The base handlers.                                                      *)

Respond(p, m, a, st) ==
  reply' = [request |-> [proto |-> p, msg |-> m, args |-> a], status |-> st]

BaseRespond(m, a, st) == Respond(PROTOCOL_BASE, m, a, st)

\* Version, attributes, vendor and implementation version take no parameter
\* and always succeed; a message id past the last is not found.
BaseQuery ==
  /\ \E m \in {PROTOCOL_VERSION, PROTOCOL_ATTRIBUTES, BASE_DISCOVER_VENDOR,
               BASE_DISCOVER_IMPLEMENTATION_VERSION} : BaseRespond(m, <<>>, SCMI_SUCCESS)
  /\ UNCHANGED tables

BaseSubVendor ==
  /\ BaseRespond(BASE_DISCOVER_SUB_VENDOR, <<>>,
                 NotFoundUnless(BASE_DISCOVER_SUB_VENDOR, SCMI_SUCCESS))
  /\ UNCHANGED tables

BaseUnknown ==
  /\ BaseRespond(BASE_RESET_AGENT_CONFIGURATION + 1, <<>>, SCMI_NOT_FOUND)
  /\ UNCHANGED tables

BaseMsgAttr(id) ==
  /\ BaseRespond(PROTOCOL_MESSAGE_ATTRIBUTES, <<id>>, MsgAttrStatus(id))
  /\ UNCHANGED tables

BaseListProtocols(skip) ==
  /\ BaseRespond(BASE_DISCOVER_LIST_PROTOCOLS, <<skip>>, ListStatus(skip))
  /\ UNCHANGED tables

BaseDiscoverAgent(agent) ==
  /\ BaseRespond(BASE_DISCOVER_AGENT, <<agent>>, AgentStatus(agent))
  /\ UNCHANGED tables

\* What the agent enables is kept in the flag that says the command is
\* supported.
BaseNotifyErrors(enable) ==
  /\ BaseRespond(BASE_NOTIFY_ERRORS, <<enable>>, NotifyErrorsStatus(enable))
  /\ supported' = IF NotifyErrorsStatus(enable) = SCMI_SUCCESS /\ enable = 0
                  THEN supported \ {BASE_NOTIFY_ERRORS} ELSE supported
  /\ UNCHANGED <<device_access, past_end, protocol_access>>

\* The flag is stored at the index of the device, which for NumDevices is the
\* element past the end of the table.  What lies there is up to the linker and is
\* taken not to be one of the other tables.
BaseSetDevicePermissions(agent, device, flags) ==
  /\ BaseRespond(BASE_SET_DEVICE_PERMISSIONS, <<agent, device, flags>>,
                 SetDeviceStatus(agent, device, flags))
  /\ IF SetDeviceStatus(agent, device, flags) # SCMI_SUCCESS
     THEN UNCHANGED <<device_access, past_end>>
     ELSE /\ device_access' = [d \in AccessDevice |-> IF d = device THEN flags = FLAG_ACCESS_ALLOW
                                                    ELSE device_access[d]]
          /\ past_end' = past_end \cup ({device} \ AccessDevice)
  /\ UNCHANGED <<supported, protocol_access>>

\* Mutant: the entry is written before the parameters are checked.
SetProtocolEarly(agent, device, proto, flags) ==
  /\ BaseRespond(BASE_SET_PROTOCOL_PERMISSIONS, <<agent, device, proto, flags>>,
                 SetProtocolStatus(agent, device, proto, flags))
  /\ protocol_access' = IF proto = PROTOCOL_POWER_DOMAIN
                        THEN flags # FLAG_ACCESS_DENY ELSE protocol_access
  /\ UNCHANGED <<supported, device_access, past_end>>

BaseSetProtocolPermissions(agent, device, proto, flags) ==
  /\ BaseRespond(BASE_SET_PROTOCOL_PERMISSIONS, <<agent, device, proto, flags>>,
                 SetProtocolStatus(agent, device, proto, flags))
  /\ protocol_access' =
       IF SetProtocolStatus(agent, device, proto, flags) = SCMI_SUCCESS
          /\ proto = PROTOCOL_POWER_DOMAIN
       THEN flags = FLAG_ACCESS_ALLOW ELSE protocol_access
  /\ UNCHANGED <<supported, device_access, past_end>>

\* Mutant: the protocol entries are left as they are.
ResetDevicesOnly(agent, flags) ==
  /\ BaseRespond(BASE_RESET_AGENT_CONFIGURATION, <<agent, flags>>, ResetStatus(agent, flags))
  /\ IF ResetStatus(agent, flags) = SCMI_SUCCESS /\ flags = FLAG_RESET_ACCESS
     THEN device_access' = [device_access EXCEPT ![0] = TRUE]
     ELSE UNCHANGED device_access
  /\ UNCHANGED <<supported, past_end, protocol_access>>

\* Only the first device and the protocol entries are reset.
BaseResetAgentConfiguration(agent, flags) ==
  /\ BaseRespond(BASE_RESET_AGENT_CONFIGURATION, <<agent, flags>>, ResetStatus(agent, flags))
  /\ IF ResetStatus(agent, flags) = SCMI_SUCCESS /\ flags = FLAG_RESET_ACCESS
     THEN device_access' = [device_access EXCEPT ![0] = TRUE] /\ protocol_access' = TRUE
     ELSE UNCHANGED <<device_access, protocol_access>>
  /\ UNCHANGED <<supported, past_end>>

-----------------------------------------------------------------------------
(* The power handler: nothing but DENIED without access.                   *)

device_access_permitted   == device_access[0]
protocol_access_permitted == protocol_access

PowerRespond(m, a, st) ==
  /\ Respond(PROTOCOL_POWER_DOMAIN, m, a,
             IF device_access_permitted /\ protocol_access_permitted THEN st
             ELSE SCMI_DENIED)
  /\ UNCHANGED tables

FoundIf(found) == IF found THEN SCMI_SUCCESS ELSE SCMI_NOT_FOUND
IsDomain(d)    == d < NumDomains

PowerQuery == \E m \in {PROTOCOL_VERSION, PROTOCOL_ATTRIBUTES} :
                PowerRespond(m, <<>>, SCMI_SUCCESS)

PowerUnknown == PowerRespond(POWER_STATE_CHANGE_REQUESTED_NOTIFY + 1, <<>>, SCMI_NOT_FOUND)

PowerMsgAttr(id) ==
  PowerRespond(PROTOCOL_MESSAGE_ATTRIBUTES, <<id>>,
               FoundIf(id <= POWER_STATE_CHANGE_REQUESTED_NOTIFY))

\* One more domain is described than the other commands know.
PowerDomainAttributes(d) ==
  PowerRespond(POWER_DOMAIN_ATTRIBUTES, <<d>>, FoundIf(d <= NumDomains))

\* `reserved' is the top bit of the power state.
PowerStateSet(flags, d, reserved) ==
  PowerRespond(POWER_STATE_SET, <<flags, d>>,
               IF reserved \/ flags > 1 THEN SCMI_INVALID_PARAMETERS ELSE FoundIf(IsDomain(d)))

PowerStateGet(d) == PowerRespond(POWER_STATE_GET, <<d>>, FoundIf(IsDomain(d)))

\* Domain 0 supports no state notifications.
PowerStateNotify(d, enable) ==
  PowerRespond(POWER_STATE_NOTIFY, <<d, enable>>,
               IF enable > 1 THEN SCMI_INVALID_PARAMETERS
               ELSE IF IsDomain(d) /\ d = 0 THEN SCMI_NOT_SUPPORTED
               ELSE FoundIf(IsDomain(d)))

PowerStateChangeRequestedNotify(d, enable) ==
  PowerRespond(POWER_STATE_CHANGE_REQUESTED_NOTIFY, <<d, enable>>,
               IF enable > 1 THEN SCMI_INVALID_PARAMETERS ELSE FoundIf(IsDomain(d)))

-----------------------------------------------------------------------------
(* The dispatch of base_send_message and power_send_message, and what they *)
(* return: the suite reads a base value as one number, the values of the   *)
(* power handler as a record.                                              *)

BaseHandle(m, a) ==
  \/ /\ m \in {PROTOCOL_VERSION, PROTOCOL_ATTRIBUTES, BASE_DISCOVER_VENDOR,
               BASE_DISCOVER_IMPLEMENTATION_VERSION}
     /\ BaseQuery /\ reply'.request.msg = m
  \/ m = BASE_DISCOVER_SUB_VENDOR /\ BaseSubVendor
  \/ m = PROTOCOL_MESSAGE_ATTRIBUTES /\ BaseMsgAttr(a[1])
  \/ m = BASE_DISCOVER_LIST_PROTOCOLS /\ BaseListProtocols(a[1])
  \/ m = BASE_DISCOVER_AGENT /\ BaseDiscoverAgent(a[1])
  \/ m = BASE_NOTIFY_ERRORS /\ BaseNotifyErrors(a[1])
  \/ m = BASE_SET_DEVICE_PERMISSIONS /\ BaseSetDevicePermissions(a[1], a[2], a[3])
  \/ m = BASE_SET_PROTOCOL_PERMISSIONS /\ BaseSetProtocolPermissions(a[1], a[2], a[3], a[4])
  \/ m = BASE_RESET_AGENT_CONFIGURATION /\ BaseResetAgentConfiguration(a[1], a[2])
  \/ m > BASE_RESET_AGENT_CONFIGURATION /\ BaseUnknown

PowerHandle(m, a) ==
  \/ m \in {PROTOCOL_VERSION, PROTOCOL_ATTRIBUTES} /\ PowerQuery /\ reply'.request.msg = m
  \/ m = PROTOCOL_MESSAGE_ATTRIBUTES /\ PowerMsgAttr(a[1])
  \/ m = POWER_DOMAIN_ATTRIBUTES /\ PowerDomainAttributes(a[1])
  \/ m = POWER_STATE_SET /\ PowerStateSet(a[1], a[2], a[3])
  \/ m = POWER_STATE_GET /\ PowerStateGet(a[1])
  \/ m = POWER_STATE_NOTIFY /\ PowerStateNotify(a[1], a[2])
  \/ m = POWER_STATE_CHANGE_REQUESTED_NOTIFY /\ PowerStateChangeRequestedNotify(a[1], a[2])
  \/ m > POWER_STATE_CHANGE_REQUESTED_NOTIFY /\ PowerUnknown

\* A list is all that is left of it, an agent its id with its name; a vendor,
\* a subvendor and a version are the expected ones.
BaseValue(m, a) ==
  CASE m = PROTOCOL_VERSION             -> 2
    [] m = PROTOCOL_ATTRIBUTES          -> NumAgents * 256 + NumProtocols
    [] m = PROTOCOL_MESSAGE_ATTRIBUTES  -> 0
    [] m = BASE_DISCOVER_LIST_PROTOCOLS -> NumProtocols - a[1]
    [] m = BASE_DISCOVER_AGENT          -> IF a[1] = OWN_AGENT THEN 0 ELSE a[1]
    [] OTHER                            -> 1

PowerValue(m, a, statistics) ==
  CASE m = PROTOCOL_VERSION            -> [version |-> 2]
    [] m = PROTOCOL_ATTRIBUTES         -> [domains |-> NumDomains, statistics |-> statistics]
    [] m = PROTOCOL_MESSAGE_ATTRIBUTES -> [attributes |-> 0]
    [] m = POWER_DOMAIN_ATTRIBUTES     -> [reserved |-> 0, sync |-> TRUE, async |-> TRUE,
                                           notify |-> a[1] # 0]
    [] OTHER                           -> <<>>

-----------------------------------------------------------------------------
\* pal_initialize_system: everything is supported, all access is granted.
Init ==
  /\ supported = Optional
  /\ device_access = [d \in AccessDevice |-> TRUE] /\ protocol_access = TRUE
  /\ past_end = {}
  /\ reply = [request |-> [proto |-> PROTOCOL_BASE, msg |-> PROTOCOL_VERSION, args |-> <<>>],
              status |-> SCMI_SUCCESS]

BaseNext ==
  \/ BaseQuery \/ BaseSubVendor \/ BaseUnknown
  \/ \E w \in Id : BaseMsgAttr(w) \/ BaseListProtocols(w) \/ BaseNotifyErrors(w)
  \/ \E agent \in Id \cup {OWN_AGENT} : BaseDiscoverAgent(agent)
  \/ \E agent, flags \in Number :
       \/ BaseResetAgentConfiguration(agent, flags)
       \/ \E d \in Number : \/ BaseSetDevicePermissions(agent, d, flags)
                          \/ \E p \in Protocol : BaseSetProtocolPermissions(agent, d, p, flags)

PowerNext ==
  \/ PowerQuery \/ PowerUnknown
  \/ \E w \in Id : PowerMsgAttr(w) \/ PowerDomainAttributes(w) \/ PowerStateGet(w)
  \/ \E d, f \in Number : \/ \E r \in BOOLEAN : PowerStateSet(f, d, r)
                        \/ PowerStateNotify(d, f)
                        \/ PowerStateChangeRequestedNotify(d, f)

Next == BaseNext \/ PowerNext

Spec == Init /\ [][Next]_vars

-----------------------------------------------------------------------------
(* Properties.                                                             *)

Code == {SCMI_SUCCESS, SCMI_NOT_SUPPORTED, SCMI_INVALID_PARAMETERS, SCMI_DENIED,
         SCMI_NOT_FOUND}
Request == [proto: {PROTOCOL_BASE, PROTOCOL_POWER_DOMAIN},
            msg: 0..(BASE_RESET_AGENT_CONFIGURATION + 1), args: Seq(Int)]

\* Of the memory past the access table no request reaches more than one element:
\* the only store outside the tables is the one of a device one past the last.
TypeOK ==
  /\ supported \subseteq Optional /\ past_end \subseteq {NumDevices}
  /\ device_access \in [AccessDevice -> BOOLEAN] /\ protocol_access \in BOOLEAN
  /\ reply \in [request: Request, status: Code]

\* The mocker keeps the permissions as honestly as the suite assumes of a
\* platform, if all the agents and devices it knows are one to the suite: it
\* implements Permissions, whatever the sequence of requests.
Platform == INSTANCE Permissions
              WITH Device <- 0, TestAgents <- 0..NumAgents, DeviceAliases <- 0..NumDevices,
                   device <- device_access[0], protocol <- protocol_access

KeepsPermissions ==
  Platform!AllGranted /\ [][Platform!Keep(reply'.request, reply'.status)]_vars

\* A request that is not answered SUCCESS has changed nothing.
RefusedChangesNothing == [][reply'.status # SCMI_SUCCESS => UNCHANGED tables]_vars

\* A probe tells the truth at any time: MESSAGE_ATTRIBUTES finds exactly the
\* commands that some request can get another answer than NOT_FOUND from.  The
\* requests that matter are within the limits the handlers look at.
Answered(c) ==
  CASE c = BASE_DISCOVER_SUB_VENDOR -> c \in supported
    [] c = BASE_DISCOVER_LIST_PROTOCOLS ->
         \E skip \in 0..NumProtocols : ListStatus(skip) # SCMI_NOT_FOUND
    [] c = BASE_DISCOVER_AGENT -> \E a \in 0..NumAgents : AgentStatus(a) # SCMI_NOT_FOUND
    [] c = BASE_NOTIFY_ERRORS  -> \E f \in 0..2 : NotifyErrorsStatus(f) # SCMI_NOT_FOUND
    [] c = BASE_SET_DEVICE_PERMISSIONS ->
         \E a \in 0..NumAgents, d \in 0..NumDevices, f \in 0..2 :
           SetDeviceStatus(a, d, f) # SCMI_NOT_FOUND
    [] c = BASE_SET_PROTOCOL_PERMISSIONS ->
         \E a \in 0..NumAgents, d \in 0..NumDevices, f \in 0..2, p \in 0..UnsupportedProtocol :
           SetProtocolStatus(a, d, p, f) # SCMI_NOT_FOUND
    [] c = BASE_RESET_AGENT_CONFIGURATION ->
         \E a \in 0..NumAgents, f \in 0..2 : ResetStatus(a, f) # SCMI_NOT_FOUND
    [] OTHER -> c < BASE_DISCOVER_SUB_VENDOR \/ c = BASE_DISCOVER_IMPLEMENTATION_VERSION

ProbeTruthful ==
  \A c \in 0..(BASE_RESET_AGENT_CONFIGURATION + 1) :
    MsgAttrStatus(c) = SCMI_SUCCESS <=> Answered(c)

\* "Register and Unregister for error notification", "Check SUCCESS status
\* returned for register and unregister" (docs/scmi_testlist.md:64): an agent
\* may do either at any time.
RegistersAndUnregisters ==
  LET q == reply.request
  IN q.proto = PROTOCOL_BASE /\ q.msg = BASE_NOTIFY_ERRORS /\ q.args[1] <= 1
     => reply.status = SCMI_SUCCESS

=============================================================================
