---------------------------- MODULE MockerProofs ----------------------------
(***************************************************************************)
(* Proofs about Mocker, for any number of agents, protocols, devices and   *)
(* domains, and any parameters: its types, and that it keeps permissions   *)
(* the way the suite assumes of a platform.  The argument: a request other *)
(* than the three permission commands changes no permission and is not one *)
(* of those Permissions executes; each of the three changes what           *)
(* Permissions says exactly when its status is SUCCESS.                    *)
(***************************************************************************)
EXTENDS Mocker, TLAPS

USE CountsAssumption, ParameterAssumption

-----------------------------------------------------------------------------
(* Statuses.                                                               *)

\* A status operator returns one of the five statuses the mocker knows.
LEMMA StatusType ==
  /\ \A a \in Nat : /\ MsgAttrStatus(a) \in Code /\ ListStatus(a) \in Code
                   /\ NotifyErrorsStatus(a) \in Code
  /\ \A a \in Int : AgentStatus(a) \in Code
  /\ \A a, b \in Nat : ResetStatus(a, b) \in Code
  /\ \A a, b, c \in Nat : SetDeviceStatus(a, b, c) \in Code
  /\ \A a, b, c, d \in Nat : SetProtocolStatus(a, b, c, d) \in Code
  BY DEF MsgAttrStatus, ListStatus, AgentStatus, NotifyErrorsStatus, SetDeviceStatus,
         SetProtocolStatus, ResetStatus, NotFoundUnless, Code

\* A permission command succeeds only with an agent in range and a flag.
LEMMA SetDeviceSuccess ==
  ASSUME NEW agent \in Nat, NEW d \in Nat, NEW flags \in Nat,
         SetDeviceStatus(agent, d, flags) = SCMI_SUCCESS
  PROVE  agent \in 0..NumAgents /\ d \in 0..NumDevices /\ flags \in {0, 1}
  BY DEF SetDeviceStatus, NotFoundUnless, SCMI_SUCCESS, SCMI_NOT_FOUND,
         SCMI_INVALID_PARAMETERS

LEMMA SetProtocolSuccess ==
  ASSUME NEW agent \in Nat, NEW d \in Nat, NEW p \in Nat, NEW flags \in Nat,
         SetProtocolStatus(agent, d, p, flags) = SCMI_SUCCESS
  PROVE  agent \in 0..NumAgents /\ d \in 0..NumDevices /\ flags \in {0, 1}
  BY DEF SetProtocolStatus, NotFoundUnless, SCMI_SUCCESS, SCMI_NOT_FOUND,
         SCMI_INVALID_PARAMETERS

LEMMA ResetSuccess ==
  ASSUME NEW agent \in Nat, NEW flags \in Nat,
         ResetStatus(agent, flags) = SCMI_SUCCESS
  PROVE  agent \in 0..NumAgents
  BY DEF ResetStatus, NotFoundUnless, SCMI_SUCCESS, SCMI_NOT_FOUND,
         SCMI_INVALID_PARAMETERS

-----------------------------------------------------------------------------
(* Types.                                                                  *)

\* Parameters make a sequence.
LEMMA Parameters ==
  /\ <<>> \in Seq(Int)
  /\ \A a \in Int : <<a>> \in Seq(Int)
  /\ \A a, b \in Int : <<a, b>> \in Seq(Int)
  /\ \A a, b, c \in Int : <<a, b, c>> \in Seq(Int)
  /\ \A a, b, c, d \in Int : <<a, b, c, d>> \in Seq(Int)
  OBVIOUS

\* A request that leaves the tables alone preserves the types if its reply is
\* typed.
LEMMA ReadOnlyType ==
  ASSUME TypeOK, UNCHANGED tables, reply' \in [request: Request, status: Code]
  PROVE  TypeOK'
  BY DEF TypeOK, tables

\* The initial state is typed.
LEMMA InitTypeOK == Init => TypeOK
  BY Parameters DEF Init, TypeOK, Request, Code, PROTOCOL_VERSION,
                    BASE_RESET_AGENT_CONFIGURATION

\* Every base request preserves the types.
LEMMA BaseTypeStep == TypeOK /\ BaseNext => TypeOK'
  <1> SUFFICES ASSUME TypeOK, BaseNext PROVE TypeOK'
    OBVIOUS
  <1> USE DEF PROTOCOL_VERSION, PROTOCOL_ATTRIBUTES, PROTOCOL_MESSAGE_ATTRIBUTES,
              BASE_DISCOVER_VENDOR, BASE_DISCOVER_SUB_VENDOR,
              BASE_DISCOVER_IMPLEMENTATION_VERSION, BASE_DISCOVER_LIST_PROTOCOLS,
              BASE_DISCOVER_AGENT, BASE_NOTIFY_ERRORS, BASE_SET_DEVICE_PERMISSIONS,
              BASE_SET_PROTOCOL_PERMISSIONS, BASE_RESET_AGENT_CONFIGURATION,
              Request, BaseRespond, Respond
  <1>1. CASE BaseQuery \/ BaseSubVendor \/ BaseUnknown
    <2>1. UNCHANGED tables
      BY <1>1 DEF BaseQuery, BaseSubVendor, BaseUnknown
    <2>2. <<>> \in Seq(Int)
      BY Parameters
    <2>3. BaseQuery => reply' \in [request: Request, status: Code]
      BY <2>2 DEF BaseQuery, Code
    <2>4. BaseSubVendor => reply' \in [request: Request, status: Code]
      BY <2>2 DEF BaseSubVendor, NotFoundUnless, Code
    <2>5. BaseUnknown => reply' \in [request: Request, status: Code]
      BY <2>2 DEF BaseUnknown, Code
    <2> QED BY <1>1, <2>1, <2>3, <2>4, <2>5, ReadOnlyType
  <1>2. ASSUME NEW w \in Id, BaseMsgAttr(w) \/ BaseListProtocols(w)
        PROVE  TypeOK'
    <2>1. <<w>> \in Seq(Int) /\ MsgAttrStatus(w) \in Code /\ ListStatus(w) \in Code
      BY StatusType, Parameters
    <2>2. UNCHANGED tables
      BY <1>2 DEF BaseMsgAttr, BaseListProtocols
    <2>3. BaseMsgAttr(w) => reply' \in [request: Request, status: Code]
      BY <2>1 DEF BaseMsgAttr
    <2>4. BaseListProtocols(w) => reply' \in [request: Request, status: Code]
      BY <2>1 DEF BaseListProtocols
    <2> QED BY <1>2, <2>2, <2>3, <2>4, ReadOnlyType
  <1>8. ASSUME NEW w \in Id \cup {OWN_AGENT}, BaseDiscoverAgent(w) PROVE TypeOK'
    <2>1. w \in Int /\ <<w>> \in Seq(Int) /\ AgentStatus(w) \in Code
      BY StatusType, Parameters DEF OWN_AGENT
    <2>2. UNCHANGED tables
      BY <1>8 DEF BaseDiscoverAgent
    <2>3. reply' \in [request: Request, status: Code]
      BY <1>8, <2>1 DEF BaseDiscoverAgent
    <2> QED BY <2>2, <2>3, ReadOnlyType
  <1>3. ASSUME NEW w \in Id, BaseNotifyErrors(w) PROVE TypeOK'
    <2>1. w \in Nat /\ <<w>> \in Seq(Int) /\ NotifyErrorsStatus(w) \in Code
      BY StatusType, Parameters
    <2>2. reply' \in [request: Request, status: Code]
      BY <1>3, <2>1 DEF BaseNotifyErrors
    <2>3. supported' \subseteq Optional /\ past_end' \subseteq {NumDevices}
      BY <1>3 DEF BaseNotifyErrors, TypeOK
    <2> QED BY <1>3, <2>2, <2>3 DEF BaseNotifyErrors, TypeOK
  <1>4. ASSUME NEW agent \in Number, NEW flags \in Number,
               BaseResetAgentConfiguration(agent, flags)
        PROVE  TypeOK'
    <2>1. <<agent, flags>> \in Seq(Int) /\ ResetStatus(agent, flags) \in Code
      BY StatusType, Parameters
    <2>2. reply' \in [request: Request, status: Code]
      BY <1>4, <2>1 DEF BaseResetAgentConfiguration
    <2>3. /\ supported' \subseteq Optional /\ past_end' \subseteq {NumDevices}
          /\ device_access' \in [AccessDevice -> BOOLEAN] /\ protocol_access' \in BOOLEAN
      BY <1>4 DEF BaseResetAgentConfiguration, TypeOK
    <2> QED BY <2>2, <2>3 DEF TypeOK
  <1>5. ASSUME NEW agent \in Number, NEW flags \in Number, NEW d \in Number,
               BaseSetDevicePermissions(agent, d, flags)
        PROVE  TypeOK'
    <2>1. <<agent, d, flags>> \in Seq(Int) /\ SetDeviceStatus(agent, d, flags) \in Code
      BY StatusType, Parameters
    <2>2. reply' \in [request: Request, status: Code]
      BY <1>5, <2>1 DEF BaseSetDevicePermissions
    <2>3. supported' \subseteq Optional /\ protocol_access' \in BOOLEAN
      BY <1>5 DEF BaseSetDevicePermissions, TypeOK
    <2>4. CASE SetDeviceStatus(agent, d, flags) # SCMI_SUCCESS
      BY <1>5, <2>2, <2>3, <2>4 DEF BaseSetDevicePermissions, TypeOK
    <2>5. CASE SetDeviceStatus(agent, d, flags) = SCMI_SUCCESS
      <3>1. d \in 0..NumDevices
        BY <2>5, SetDeviceSuccess
      <3>2. {d} \ AccessDevice \subseteq {NumDevices}
        BY <3>1 DEF AccessDevice
      <3>3. past_end' \subseteq {NumDevices}
        BY <1>5, <2>5, <3>2 DEF BaseSetDevicePermissions, TypeOK
      <3>4. device_access' \in [AccessDevice -> BOOLEAN]
        BY <1>5, <2>5 DEF BaseSetDevicePermissions, TypeOK
      <3> QED BY <2>2, <2>3, <3>3, <3>4 DEF TypeOK
    <2> QED BY <2>4, <2>5
  <1>6. ASSUME NEW agent \in Number, NEW flags \in Number, NEW d \in Number,
               NEW p \in Protocol, BaseSetProtocolPermissions(agent, d, p, flags)
        PROVE  TypeOK'
    <2>1. /\ <<agent, d, p, flags>> \in Seq(Int)
          /\ SetProtocolStatus(agent, d, p, flags) \in Code
      BY StatusType, Parameters
    <2>2. reply' \in [request: Request, status: Code]
      BY <1>6, <2>1 DEF BaseSetProtocolPermissions
    <2>3. /\ supported' \subseteq Optional /\ past_end' \subseteq {NumDevices}
          /\ device_access' \in [AccessDevice -> BOOLEAN] /\ protocol_access' \in BOOLEAN
      BY <1>6 DEF BaseSetProtocolPermissions, TypeOK
    <2> QED BY <2>2, <2>3 DEF TypeOK
  <1> QED BY <1>1, <1>2, <1>3, <1>4, <1>5, <1>6, <1>8 DEF BaseNext

\* Every power request preserves them.
LEMMA PowerTypeStep == TypeOK /\ PowerNext => TypeOK'
  <1> SUFFICES ASSUME TypeOK, PowerNext PROVE TypeOK'
    OBVIOUS
  <1> USE DEF PROTOCOL_VERSION, PROTOCOL_ATTRIBUTES, PROTOCOL_MESSAGE_ATTRIBUTES,
              POWER_DOMAIN_ATTRIBUTES, POWER_STATE_SET, POWER_STATE_GET, POWER_STATE_NOTIFY,
              POWER_STATE_CHANGE_REQUESTED_NOTIFY, BASE_RESET_AGENT_CONFIGURATION,
              Request, PowerRespond, Respond, FoundIf, Code
  <1>1. CASE PowerQuery \/ PowerUnknown
    <2>1. UNCHANGED tables
      BY <1>1 DEF PowerQuery, PowerUnknown
    <2>2. <<>> \in Seq(Int)
      BY Parameters
    <2>3. PowerQuery => reply' \in [request: Request, status: Code]
      BY <2>2 DEF PowerQuery
    <2>4. PowerUnknown => reply' \in [request: Request, status: Code]
      BY <2>2 DEF PowerUnknown
    <2> QED BY <1>1, <2>1, <2>3, <2>4, ReadOnlyType
  <1>2. ASSUME NEW w \in Id, PowerMsgAttr(w) \/ PowerDomainAttributes(w) \/ PowerStateGet(w)
        PROVE  TypeOK'
    <2>1. <<w>> \in Seq(Int)
      BY Parameters
    <2>2. UNCHANGED tables
      BY <1>2 DEF PowerMsgAttr, PowerDomainAttributes, PowerStateGet
    <2>3. PowerMsgAttr(w) => reply' \in [request: Request, status: Code]
      BY <2>1 DEF PowerMsgAttr
    <2>4. PowerDomainAttributes(w) => reply' \in [request: Request, status: Code]
      BY <2>1 DEF PowerDomainAttributes
    <2>5. PowerStateGet(w) => reply' \in [request: Request, status: Code]
      BY <2>1 DEF PowerStateGet
    <2> QED BY <1>2, <2>2, <2>3, <2>4, <2>5, ReadOnlyType
  <1>3. ASSUME NEW d \in Number, NEW f \in Number, NEW r \in BOOLEAN,
               \/ PowerStateSet(f, d, r) \/ PowerStateNotify(d, f)
               \/ PowerStateChangeRequestedNotify(d, f)
        PROVE  TypeOK'
    <2>1. <<f, d>> \in Seq(Int) /\ <<d, f>> \in Seq(Int)
      BY Parameters
    <2>2. UNCHANGED tables
      BY <1>3 DEF PowerStateSet, PowerStateNotify, PowerStateChangeRequestedNotify
    <2>3. PowerStateSet(f, d, r) => reply' \in [request: Request, status: Code]
      BY <2>1 DEF PowerStateSet
    <2>4. PowerStateNotify(d, f) => reply' \in [request: Request, status: Code]
      BY <2>1 DEF PowerStateNotify
    <2>5. PowerStateChangeRequestedNotify(d, f) => reply' \in [request: Request, status: Code]
      BY <2>1 DEF PowerStateChangeRequestedNotify
    <2> QED BY <1>3, <2>2, <2>3, <2>4, <2>5, ReadOnlyType
  <1> QED BY <1>1, <1>2, <1>3 DEF PowerNext

\* The mocker's tables and replies keep their types, and no request stores
\* further past the end of the access table than its first element.
THEOREM TypeCorrect == Spec => []TypeOK
  <1>1. TypeOK /\ UNCHANGED vars => TypeOK'
    BY DEF TypeOK, vars, tables
  <1>2. TypeOK /\ [Next]_vars => TypeOK'
    BY <1>1, BaseTypeStep, PowerTypeStep DEF Next
  <1> QED BY <1>2, InitTypeOK, PTL DEF Spec

-----------------------------------------------------------------------------
(* The mocker implements Permissions.                                      *)

\* The access the power handler consults is typed.
LEMMA Access == TypeOK => device_access[0] \in BOOLEAN /\ protocol_access \in BOOLEAN
  BY DEF TypeOK, AccessDevice

\* The numbers Permissions uses are the mocker's.
LEMMA SameNumbers ==
  /\ Platform!PROTOCOL_BASE = PROTOCOL_BASE /\ PROTOCOL_BASE = 16
  /\ Platform!PROTOCOL_POWER_DOMAIN = PROTOCOL_POWER_DOMAIN /\ PROTOCOL_POWER_DOMAIN = 17
  /\ Platform!BASE_SET_DEVICE_PERMISSIONS = BASE_SET_DEVICE_PERMISSIONS
  /\ BASE_SET_DEVICE_PERMISSIONS = 9
  /\ Platform!BASE_SET_PROTOCOL_PERMISSIONS = BASE_SET_PROTOCOL_PERMISSIONS
  /\ BASE_SET_PROTOCOL_PERMISSIONS = 10
  /\ Platform!BASE_RESET_AGENT_CONFIGURATION = BASE_RESET_AGENT_CONFIGURATION
  /\ BASE_RESET_AGENT_CONFIGURATION = 11
  /\ Platform!SCMI_SUCCESS = SCMI_SUCCESS /\ Platform!SCMI_DENIED = SCMI_DENIED
  BY DEF Platform!PROTOCOL_BASE, PROTOCOL_BASE, Platform!PROTOCOL_POWER_DOMAIN,
         PROTOCOL_POWER_DOMAIN, Platform!BASE_SET_DEVICE_PERMISSIONS,
         BASE_SET_DEVICE_PERMISSIONS, Platform!BASE_SET_PROTOCOL_PERMISSIONS,
         BASE_SET_PROTOCOL_PERMISSIONS, Platform!BASE_RESET_AGENT_CONFIGURATION,
         BASE_RESET_AGENT_CONFIGURATION, Platform!SCMI_SUCCESS, SCMI_SUCCESS,
         Platform!SCMI_DENIED, SCMI_DENIED

\* A base request that is not a permission command executes nothing.
LEMMA KeepOtherBase ==
  ASSUME TypeOK, NEW m \in 0..12, NEW a, NEW st,
         m # BASE_SET_DEVICE_PERMISSIONS, m # BASE_SET_PROTOCOL_PERMISSIONS,
         m # BASE_RESET_AGENT_CONFIGURATION,
         UNCHANGED <<device_access, protocol_access>>, BaseRespond(m, a, st)
  PROVE  Platform!Keep(reply'.request, reply'.status)
  BY Access, SameNumbers
     DEF BaseRespond, Respond, Platform!Keep, Platform!Execute, Platform!SetsDevice,
         Platform!SetsProtocol, Platform!Resets

\* A power request is denied exactly without access, and changes nothing.
LEMMA KeepPower ==
  ASSUME TypeOK, NEW m, NEW a, NEW st, st # SCMI_DENIED, PowerRespond(m, a, st)
  PROVE  Platform!Keep(reply'.request, reply'.status)
  BY Access, SameNumbers
     DEF PowerRespond, Respond, tables, Platform!Keep, Platform!Granted,
         device_access_permitted, protocol_access_permitted

\* Each of the permission commands takes the effect Permissions gives it, if
\* it succeeds, and none otherwise.
LEMMA KeepSetDevice ==
  ASSUME TypeOK, NEW agent \in Number, NEW d \in Number, NEW flags \in Number,
         BaseSetDevicePermissions(agent, d, flags)
  PROVE  Platform!Keep(reply'.request, reply'.status)
  <1> DEFINE st == SetDeviceStatus(agent, d, flags)
  <1>1. reply'.request = [proto |-> PROTOCOL_BASE, msg |-> BASE_SET_DEVICE_PERMISSIONS,
                          args |-> <<agent, d, flags>>]
        /\ reply'.status = st /\ protocol_access' = protocol_access
    BY DEF BaseSetDevicePermissions, BaseRespond, Respond
  <1>2. CASE st = SCMI_SUCCESS
    <2>1. agent \in 0..NumAgents /\ flags \in {0, 1}
      BY <1>2, SetDeviceSuccess
    <2>2. device_access'[0] = IF d = 0 THEN flags = 1 ELSE device_access[0]
      BY <1>2, <2>1 DEF BaseSetDevicePermissions, TypeOK, AccessDevice, FLAG_ACCESS_ALLOW
    <2> QED BY <1>1, <1>2, <2>1, <2>2, Access, SameNumbers
            DEF Platform!Keep, Platform!Execute, Platform!SetsDevice, Platform!SetsProtocol,
                Platform!Resets, Platform!Flag, Platform!FLAG_ACCESS_ALLOW,
                Platform!FLAG_ACCESS_DENY
  <1>3. CASE st # SCMI_SUCCESS
    BY <1>1, <1>3, SameNumbers DEF BaseSetDevicePermissions, Platform!Keep
  <1> QED BY <1>2, <1>3

LEMMA KeepSetProtocol ==
  ASSUME TypeOK, NEW agent \in Number, NEW d \in Number, NEW p \in Protocol,
         NEW flags \in Number, BaseSetProtocolPermissions(agent, d, p, flags)
  PROVE  Platform!Keep(reply'.request, reply'.status)
  <1> DEFINE st == SetProtocolStatus(agent, d, p, flags)
  <1>1. reply'.request = [proto |-> PROTOCOL_BASE, msg |-> BASE_SET_PROTOCOL_PERMISSIONS,
                          args |-> <<agent, d, p, flags>>]
        /\ reply'.status = st /\ device_access' = device_access
    BY DEF BaseSetProtocolPermissions, BaseRespond, Respond
  <1>2. CASE st = SCMI_SUCCESS
    <2>1. agent \in 0..NumAgents /\ d \in 0..NumDevices /\ flags \in {0, 1}
      BY <1>2, SetProtocolSuccess
    <2>2. protocol_access' = IF p = PROTOCOL_POWER_DOMAIN THEN flags = 1 ELSE protocol_access
      BY <1>2, <2>1 DEF BaseSetProtocolPermissions, FLAG_ACCESS_ALLOW
    <2> QED BY <1>1, <1>2, <2>1, <2>2, Access, SameNumbers
            DEF Platform!Keep, Platform!Execute, Platform!SetsDevice, Platform!SetsProtocol,
                Platform!Resets, Platform!Flag, Platform!FLAG_ACCESS_ALLOW,
                Platform!FLAG_ACCESS_DENY
  <1>3. CASE st # SCMI_SUCCESS
    BY <1>1, <1>3, SameNumbers DEF BaseSetProtocolPermissions, Platform!Keep
  <1> QED BY <1>2, <1>3

LEMMA KeepReset ==
  ASSUME TypeOK, NEW agent \in Number, NEW flags \in Number,
         BaseResetAgentConfiguration(agent, flags)
  PROVE  Platform!Keep(reply'.request, reply'.status)
  <1> DEFINE st == ResetStatus(agent, flags)
  <1>1. reply'.request = [proto |-> PROTOCOL_BASE, msg |-> BASE_RESET_AGENT_CONFIGURATION,
                          args |-> <<agent, flags>>]
        /\ reply'.status = st
    BY DEF BaseResetAgentConfiguration, BaseRespond, Respond
  <1>2. CASE st = SCMI_SUCCESS
    <2>1. agent \in 0..NumAgents
      BY <1>2, ResetSuccess
    <2>2. CASE flags = 1
      <3>1. device_access' = [device_access EXCEPT ![0] = TRUE] /\ protocol_access' = TRUE
        BY <1>2, <2>2, Zenon DEF BaseResetAgentConfiguration, FLAG_RESET_ACCESS
      <3>2. device_access'[0] = TRUE
        BY <3>1 DEF TypeOK, AccessDevice
      <3>3. LET q == reply'.request
            IN /\ Platform!Resets(q) /\ ~Platform!SetsDevice(q) /\ ~Platform!SetsProtocol(q)
               /\ q.proto = PROTOCOL_BASE
        BY <1>1, <2>1, <2>2, SameNumbers
           DEF Platform!SetsDevice, Platform!SetsProtocol, Platform!Resets,
               Platform!FLAG_RESET_ACCESS
      <3>4. Platform!Execute(reply'.request)
        BY <3>1, <3>2, <3>3, Zenon DEF Platform!Execute
      <3> QED BY <1>1, <1>2, <3>3, <3>4, SameNumbers DEF Platform!Keep
    <2>3. CASE flags # 1
      <3>1. UNCHANGED <<device_access, protocol_access>>
        BY <2>3 DEF BaseResetAgentConfiguration, FLAG_RESET_ACCESS
      <3> QED BY <1>1, <1>2, <2>3, <3>1, Access, SameNumbers
              DEF Platform!Keep, Platform!Execute, Platform!SetsDevice,
                  Platform!SetsProtocol, Platform!Resets, Platform!FLAG_RESET_ACCESS
    <2> QED BY <2>2, <2>3
  <1>3. CASE st # SCMI_SUCCESS
    BY <1>1, <1>3, SameNumbers DEF BaseResetAgentConfiguration, Platform!Keep
  <1> QED BY <1>2, <1>3

\* Every request the mocker answers is answered as Permissions says.
LEMMA BaseKeeps == TypeOK /\ BaseNext => Platform!Keep(reply'.request, reply'.status)
  <1> SUFFICES ASSUME TypeOK, BaseNext PROVE Platform!Keep(reply'.request, reply'.status)
    OBVIOUS
  <1> USE DEF PROTOCOL_VERSION, PROTOCOL_ATTRIBUTES, PROTOCOL_MESSAGE_ATTRIBUTES,
              BASE_DISCOVER_VENDOR, BASE_DISCOVER_SUB_VENDOR,
              BASE_DISCOVER_IMPLEMENTATION_VERSION, BASE_DISCOVER_LIST_PROTOCOLS,
              BASE_DISCOVER_AGENT, BASE_NOTIFY_ERRORS, BASE_SET_DEVICE_PERMISSIONS,
              BASE_SET_PROTOCOL_PERMISSIONS, BASE_RESET_AGENT_CONFIGURATION
  <1>1. ASSUME NEW m \in 0..12, NEW a, NEW st, m \notin {9, 10, 11},
               UNCHANGED <<device_access, protocol_access>>,
               reply' = [request |-> [proto |-> PROTOCOL_BASE, msg |-> m, args |-> a],
                         status |-> st]
        PROVE  Platform!Keep(reply'.request, reply'.status)
    BY <1>1, KeepOtherBase DEF BaseRespond, Respond
  <1>2. CASE BaseQuery
    BY <1>1, <1>2 DEF BaseQuery, BaseRespond, Respond, tables
  <1>3. CASE BaseSubVendor
    BY <1>1, <1>3 DEF BaseSubVendor, BaseRespond, Respond, tables
  <1>4. CASE BaseUnknown
    BY <1>1, <1>4 DEF BaseUnknown, BaseRespond, Respond, tables
  <1>5. ASSUME NEW w \in Id, BaseMsgAttr(w)
        PROVE  Platform!Keep(reply'.request, reply'.status)
    BY <1>1, <1>5 DEF BaseMsgAttr, BaseRespond, Respond, tables
  <1>6. ASSUME NEW w \in Id, BaseListProtocols(w)
        PROVE  Platform!Keep(reply'.request, reply'.status)
    BY <1>1, <1>6 DEF BaseListProtocols, BaseRespond, Respond, tables
  <1>7. ASSUME NEW w \in Id \cup {OWN_AGENT}, BaseDiscoverAgent(w)
        PROVE  Platform!Keep(reply'.request, reply'.status)
    BY <1>1, <1>7 DEF BaseDiscoverAgent, BaseRespond, Respond, tables
  <1>8. ASSUME NEW w \in Id, BaseNotifyErrors(w)
        PROVE  Platform!Keep(reply'.request, reply'.status)
    BY <1>1, <1>8 DEF BaseNotifyErrors, BaseRespond, Respond
  <1> QED BY <1>2, <1>3, <1>4, <1>5, <1>6, <1>7, <1>8, KeepSetDevice, KeepSetProtocol, KeepReset
          DEF BaseNext

LEMMA PowerKeeps == TypeOK /\ PowerNext => Platform!Keep(reply'.request, reply'.status)
  <1> SUFFICES ASSUME TypeOK, PowerNext PROVE Platform!Keep(reply'.request, reply'.status)
    OBVIOUS
  <1> USE DEF SCMI_SUCCESS, SCMI_NOT_SUPPORTED, SCMI_INVALID_PARAMETERS, SCMI_DENIED,
              SCMI_NOT_FOUND, FoundIf
  <1>1. CASE PowerQuery
    BY <1>1, KeepPower DEF PowerQuery
  <1>2. CASE PowerUnknown
    BY <1>2, KeepPower DEF PowerUnknown
  <1>3. ASSUME NEW w \in Id, PowerMsgAttr(w)
        PROVE  Platform!Keep(reply'.request, reply'.status)
    BY <1>3, KeepPower DEF PowerMsgAttr
  <1>4. ASSUME NEW w \in Id, PowerDomainAttributes(w)
        PROVE  Platform!Keep(reply'.request, reply'.status)
    BY <1>4, KeepPower DEF PowerDomainAttributes
  <1>5. ASSUME NEW w \in Id, PowerStateGet(w)
        PROVE  Platform!Keep(reply'.request, reply'.status)
    BY <1>5, KeepPower DEF PowerStateGet
  <1>6. ASSUME NEW d \in Number, NEW f \in Number, NEW r \in BOOLEAN, PowerStateSet(f, d, r)
        PROVE  Platform!Keep(reply'.request, reply'.status)
    BY <1>6, KeepPower DEF PowerStateSet
  <1>7. ASSUME NEW d \in Number, NEW f \in Number, PowerStateNotify(d, f)
        PROVE  Platform!Keep(reply'.request, reply'.status)
    BY <1>7, KeepPower DEF PowerStateNotify
  <1>8. ASSUME NEW d \in Number, NEW f \in Number, PowerStateChangeRequestedNotify(d, f)
        PROVE  Platform!Keep(reply'.request, reply'.status)
    BY <1>8, KeepPower DEF PowerStateChangeRequestedNotify
  <1> QED BY <1>1, <1>2, <1>3, <1>4, <1>5, <1>6, <1>7, <1>8 DEF PowerNext

\* The mocker implements Permissions: all access is granted at first, and every
\* request is answered with a status and an effect Permissions allows.
THEOREM Implements == Spec => KeepsPermissions
  <1>1. Init => Platform!AllGranted
    BY DEF Init, Platform!AllGranted, AccessDevice
  <1>2. TypeOK /\ [Next]_vars => [Platform!Keep(reply'.request, reply'.status)]_vars
    BY BaseKeeps, PowerKeeps DEF Next
  <1> QED BY <1>1, <1>2, TypeCorrect, PTL DEF Spec, KeepsPermissions

-----------------------------------------------------------------------------
(* Refusals.                                                               *)

\* A request that is not answered SUCCESS leaves the tables as they were: most
\* never touch them, and the four that do write on success only.
LEMMA RefusedStep == Next => (reply'.status # SCMI_SUCCESS => UNCHANGED tables)
  <1> SUFFICES ASSUME Next, reply'.status # SCMI_SUCCESS PROVE UNCHANGED tables
    OBVIOUS
  <1>1. CASE PowerNext
    BY <1>1 DEF PowerNext, PowerQuery, PowerUnknown, PowerMsgAttr, PowerDomainAttributes,
                PowerStateGet, PowerStateSet, PowerStateNotify,
                PowerStateChangeRequestedNotify, PowerRespond
  <1>2. CASE BaseQuery \/ BaseSubVendor \/ BaseUnknown
    BY <1>2 DEF BaseQuery, BaseSubVendor, BaseUnknown
  <1>3. ASSUME NEW w \in Id, BaseMsgAttr(w) \/ BaseListProtocols(w)
        PROVE  UNCHANGED tables
    BY <1>3 DEF BaseMsgAttr, BaseListProtocols
  <1>8. ASSUME NEW w \in Id \cup {OWN_AGENT}, BaseDiscoverAgent(w)
        PROVE  UNCHANGED tables
    BY <1>8 DEF BaseDiscoverAgent
  <1>4. ASSUME NEW w \in Id, BaseNotifyErrors(w) PROVE UNCHANGED tables
    <2>1. NotifyErrorsStatus(w) # SCMI_SUCCESS
      BY <1>4 DEF BaseNotifyErrors, BaseRespond, Respond
    <2> QED BY <1>4, <2>1 DEF BaseNotifyErrors, tables
  <1>5. ASSUME NEW agent \in Number, NEW flags \in Number,
               BaseResetAgentConfiguration(agent, flags)
        PROVE  UNCHANGED tables
    <2>1. ResetStatus(agent, flags) # SCMI_SUCCESS
      BY <1>5 DEF BaseResetAgentConfiguration, BaseRespond, Respond
    <2> QED BY <1>5, <2>1 DEF BaseResetAgentConfiguration, tables
  <1>6. ASSUME NEW agent \in Number, NEW flags \in Number, NEW d \in Number,
               BaseSetDevicePermissions(agent, d, flags)
        PROVE  UNCHANGED tables
    <2>1. SetDeviceStatus(agent, d, flags) # SCMI_SUCCESS
      BY <1>6 DEF BaseSetDevicePermissions, BaseRespond, Respond
    <2> QED BY <1>6, <2>1 DEF BaseSetDevicePermissions, tables
  <1>7. ASSUME NEW agent \in Number, NEW flags \in Number, NEW d \in Number,
               NEW p \in Protocol, BaseSetProtocolPermissions(agent, d, p, flags)
        PROVE  UNCHANGED tables
    <2>1. SetProtocolStatus(agent, d, p, flags) # SCMI_SUCCESS
      BY <1>7 DEF BaseSetProtocolPermissions, BaseRespond, Respond
    <2> QED BY <1>7, <2>1 DEF BaseSetProtocolPermissions, tables
  <1> QED BY <1>1, <1>2, <1>3, <1>4, <1>5, <1>6, <1>7, <1>8 DEF Next, BaseNext

\* No refused request has an effect.
THEOREM Refused == Spec => RefusedChangesNothing
  <1>1. [Next]_vars => [reply'.status # SCMI_SUCCESS => UNCHANGED tables]_vars
    BY RefusedStep
  <1> QED BY <1>1, PTL DEF Spec, RefusedChangesNothing

-----------------------------------------------------------------------------
(* Probes.                                                                 *)

\* The commands found whatever the flags say stay supported: the only flag
\* that is ever cleared is the one kept of error notifications.
Steady == Optional \ {BASE_NOTIFY_ERRORS} \subseteq supported

\* As long as they are, MESSAGE_ATTRIBUTES finds what can be had.
LEMMA SteadyTruthful == ASSUME Steady PROVE ProbeTruthful
  <1> USE DEF SCMI_SUCCESS, SCMI_NOT_FOUND, SCMI_INVALID_PARAMETERS, NotFoundUnless,
              BASE_DISCOVER_SUB_VENDOR, BASE_DISCOVER_LIST_PROTOCOLS, BASE_DISCOVER_AGENT,
              BASE_NOTIFY_ERRORS, BASE_SET_DEVICE_PERMISSIONS, BASE_SET_PROTOCOL_PERMISSIONS,
              BASE_RESET_AGENT_CONFIGURATION, BASE_DISCOVER_IMPLEMENTATION_VERSION
  <1> SUFFICES ASSUME NEW c \in 0..(BASE_RESET_AGENT_CONFIGURATION + 1)
               PROVE  MsgAttrStatus(c) = SCMI_SUCCESS <=> Answered(c)
    BY DEF ProbeTruthful
  <1>1. MsgAttrStatus(c) = SCMI_SUCCESS <=> c \in 0..11 /\ (c = 8 => c \in supported)
    BY DEF MsgAttrStatus, Steady, Optional
  <1>2. 0 \in 0..NumAgents /\ 0 \in 0..NumDevices /\ 0 \in 0..NumProtocols /\ 0 \in 0..2
        /\ 0 \in 0..UnsupportedProtocol
    BY DEF UnsupportedProtocol, PROTOCOL_POWER_DOMAIN
  <1>3. CASE c = 8
    <2>1. Answered(c) <=> \E f \in 0..2 : NotifyErrorsStatus(f) # SCMI_NOT_FOUND
      BY <1>3 DEF Answered
    <2> QED BY <1>1, <1>2, <1>3, <2>1 DEF NotifyErrorsStatus
  <1>4. CASE c = 9
    <2>1. SetDeviceStatus(0, 0, 0) # SCMI_NOT_FOUND
      BY DEF SetDeviceStatus, Steady, Optional
    <2>2. Answered(c) <=> \E a \in 0..NumAgents, d \in 0..NumDevices, f \in 0..2 :
                            SetDeviceStatus(a, d, f) # SCMI_NOT_FOUND
      BY <1>4 DEF Answered
    <2> QED BY <1>1, <1>2, <1>4, <2>1, <2>2
  <1>5. CASE c = 10
    <2>1. SetProtocolStatus(0, 0, 0, 0) # SCMI_NOT_FOUND
      BY DEF SetProtocolStatus, Steady, Optional, PROTOCOL_BASE, UnsupportedProtocol,
             PROTOCOL_POWER_DOMAIN
    <2>2. Answered(c) <=> \E a \in 0..NumAgents, d \in 0..NumDevices, f \in 0..2,
                             p \in 0..UnsupportedProtocol :
                            SetProtocolStatus(a, d, p, f) # SCMI_NOT_FOUND
      BY <1>5 DEF Answered
    <2> QED BY <1>1, <1>2, <1>5, <2>1, <2>2
  <1>6. CASE c = 11
    <2>1. ResetStatus(0, 0) # SCMI_NOT_FOUND
      BY DEF ResetStatus, Steady, Optional
    <2>2. Answered(c) <=> \E a \in 0..NumAgents, f \in 0..2 : ResetStatus(a, f) # SCMI_NOT_FOUND
      BY <1>6 DEF Answered
    <2> QED BY <1>1, <1>2, <1>6, <2>1, <2>2
  <1>7. CASE c = 7
    <2>1. AgentStatus(0) # SCMI_NOT_FOUND
      BY DEF AgentStatus, Steady, Optional
    <2>2. Answered(c) <=> \E a \in 0..NumAgents : AgentStatus(a) # SCMI_NOT_FOUND
      BY <1>7 DEF Answered
    <2> QED BY <1>1, <1>2, <1>7, <2>1, <2>2
  <1>8. CASE c = 6
    <2>1. ListStatus(0) # SCMI_NOT_FOUND
      BY DEF ListStatus
    <2>2. Answered(c) <=> \E skip \in 0..NumProtocols : ListStatus(skip) # SCMI_NOT_FOUND
      BY <1>8 DEF Answered
    <2> QED BY <1>1, <1>2, <1>8, <2>1, <2>2
  <1>9. CASE c \in {0, 1, 2, 3, 4, 5, 12}
    BY <1>1, <1>9 DEF Answered, Steady, Optional
  <1> QED BY <1>3, <1>4, <1>5, <1>6, <1>7, <1>8, <1>9

\* No request clears another flag.
LEMMA SteadyStep == Steady /\ Next => Steady'
  <1> SUFFICES ASSUME Steady, Next PROVE Steady'
    OBVIOUS
  <1>1. ASSUME NEW w \in Id, BaseNotifyErrors(w) PROVE Steady'
    BY <1>1 DEF BaseNotifyErrors, Steady
  <1>2. UNCHANGED supported => Steady'
    BY DEF Steady
  <1>3. PowerNext => UNCHANGED supported
    BY DEF PowerNext, PowerQuery, PowerUnknown, PowerMsgAttr, PowerDomainAttributes,
           PowerStateGet, PowerStateSet, PowerStateNotify, PowerStateChangeRequestedNotify,
           PowerRespond, tables
  <1>4. BaseNext => UNCHANGED supported \/ \E w \in Id : BaseNotifyErrors(w)
    BY DEF BaseNext, BaseQuery, BaseSubVendor, BaseUnknown, BaseMsgAttr, BaseListProtocols,
           BaseDiscoverAgent, BaseResetAgentConfiguration, BaseSetDevicePermissions,
           BaseSetProtocolPermissions, tables
  <1> QED BY <1>1, <1>2, <1>3, <1>4 DEF Next

\* A probe tells the truth about every command, whatever was asked before it.
THEOREM Truthful == Spec => []ProbeTruthful
  <1>1. Init => Steady
    BY DEF Init, Steady
  <1>2. Steady /\ [Next]_vars => Steady'
    <2>1. UNCHANGED vars /\ Steady => Steady'
      BY DEF vars, tables, Steady
    <2> QED BY <2>1, SteadyStep
  <1>3. Steady => ProbeTruthful
    BY SteadyTruthful
  <1> QED BY <1>1, <1>2, <1>3, PTL DEF Spec

=============================================================================
