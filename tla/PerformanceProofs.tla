--------------------------- MODULE PerformanceProofs ---------------------------
(***************************************************************************)
(* Proofs about MockerPerformance, for every table of domains and levels   *)
(* and every set of parameters.                                            *)
(*                                                                         *)
(* None of the three invariants is inductive alone: that the level told is *)
(* in the table needs the limits it was checked against to be in it, and   *)
(* these are zero or both set only as long as they are in it.              *)
(***************************************************************************)
EXTENDS MockerPerformance, TLAPS

Inv == TypeOK /\ LimitsInTable /\ LevelInTable

-----------------------------------------------------------------------------
(* The table.                                                              *)

\* The ends of a domain's table are levels, in order.
LEMMA EndsOfTable ==
  ASSUME NEW d \in DomainId
  PROVE  /\ Bottom(d) \in Nat \ {0} /\ Top(d) \in Nat \ {0}
         /\ Bottom(d) <= Top(d)
<1>1. performance.levels[d] \in Seq(Nat \ {0}) \ {<<>>} /\ Bottom(d) <= Top(d)
  BY LevelsAssumption
<1>2. Len(performance.levels[d]) \in Nat \ {0}
  BY <1>1
<1>3. /\ 1 \in 1..Len(performance.levels[d])
      /\ Len(performance.levels[d]) \in 1..Len(performance.levels[d])
  BY <1>2
<1> QED
  BY <1>1, <1>3 DEF Bottom, Top

\* The parameter of a command that finds its domain is one.
LEMMA FoundIsDomain ==
  ASSUME NEW d \in Id, FoundStatus(d) = SCMI_SUCCESS
  PROVE  d \in DomainId
<1>1. d \in Nat /\ performance.domains \in Nat
  BY RequestAssumption, DomainsAssumption
<1>2. ~(d >= performance.domains)
  BY DEF FoundStatus, SCMI_SUCCESS, SCMI_NOT_FOUND
<1> QED
  BY <1>1, <1>2 DEF DomainId

-----------------------------------------------------------------------------
(* Steps.                                                                  *)

\* All commands but two report.
LEMMA Changes ==
  ASSUME Next
  PROVE  \/ UNCHANGED settings
         \/ \E d \in Id, x \in Level : LevelSet(d, x)
         \/ \E d \in Id, max, min \in Level : LimitsSet(d, max, min)
BY DEF Next, Version, Attributes, MessageAttributes, DomainAttributes, DescribeLevels,
       LimitsGet, LevelGet, NotifyLimits, NotifyLevel, DescribeFastChannel, Unknown, Report

\* Limits that are accepted are inside the table, in order, and not zero.
LEMMA AcceptedLimits ==
  ASSUME NEW d, NEW max \in Level, NEW min \in Level,
         LimitsSetStatus(d, max, min) = SCMI_SUCCESS
  PROVE  /\ d \in DomainId /\ max \in Nat /\ min \in Nat
         /\ Bottom(d) <= min /\ min <= max /\ max <= Top(d)
         /\ max # 0 /\ min # 0
<1>1. /\ d \in DomainId
      /\ ~(max > Top(d) \/ min < Bottom(d)) /\ ~(max < min)
  BY DEF LimitsSetStatus, SCMI_SUCCESS, SCMI_NOT_FOUND, SCMI_DENIED, SCMI_OUT_OF_RANGE,
         SCMI_INVALID_PARAMETERS
<1>2. max \in Nat /\ min \in Nat
  BY RequestAssumption
<1>3. Bottom(d) \in Nat \ {0} /\ Top(d) \in Nat \ {0}
  BY <1>1, EndsOfTable
<1> QED
  BY <1>1, <1>2, <1>3

\* A level that is accepted is inside the limits as they are kept.
LEMMA AcceptedLevel ==
  ASSUME TypeOK, NEW d, NEW x \in Level, LevelSetStatus(d, x) = SCMI_SUCCESS
  PROVE  d \in DomainId /\ x \in Nat /\ min_limit[d] <= x /\ x <= max_limit[d]
<1>1. d \in DomainId /\ ~(max_limit[d] < x \/ min_limit[d] > x)
  BY DEF LevelSetStatus, SCMI_SUCCESS, SCMI_NOT_FOUND, SCMI_DENIED, SCMI_OUT_OF_RANGE
<1>2. x \in Nat /\ max_limit[d] \in Nat /\ min_limit[d] \in Nat
  BY <1>1, RequestAssumption DEF TypeOK
<1> QED
  BY <1>1, <1>2

-----------------------------------------------------------------------------
(* The invariants.                                                         *)

LEMMA InitInv == Init => Inv
<1> SUFFICES ASSUME Init PROVE Inv
  OBVIOUS
<1>1. TypeOK
  BY DEF Init, PerformanceInit, TypeOK
<1>2. LimitsInTable
  BY DEF Init, PerformanceInit, LimitsInTable, NoLimits
<1>3. LevelInTable
  BY EndsOfTable DEF Init, PerformanceInit, LevelInTable, CurrentLevel
<1> QED
  BY <1>1, <1>2, <1>3 DEF Inv

LEMMA StutterInv ==
  ASSUME Inv, UNCHANGED settings
  PROVE  Inv'
BY DEF Inv, TypeOK, LimitsInTable, LevelInTable, NoLimits, CurrentLevel, settings

LEMMA LimitsSetInv ==
  ASSUME Inv, NEW d \in Id, NEW max \in Level, NEW min \in Level, LimitsSet(d, max, min)
  PROVE  Inv'
<1>0. UNCHANGED current
  BY DEF LimitsSet
<1>1. CASE LimitsSetStatus(d, max, min) = SCMI_SUCCESS
  <2>1. /\ d \in DomainId /\ max \in Nat /\ min \in Nat
        /\ Bottom(d) <= min /\ min <= max /\ max <= Top(d)
    BY <1>1, AcceptedLimits
  <2>2. /\ max_limit' = [max_limit EXCEPT ![d] = max]
        /\ min_limit' = [min_limit EXCEPT ![d] = min]
    BY <1>1 DEF LimitsSet
  <2>3. TypeOK'
    BY <1>0, <2>1, <2>2 DEF Inv, TypeOK
  <2>4. LimitsInTable'
    BY <2>1, <2>2 DEF Inv, TypeOK, LimitsInTable, NoLimits
  <2>5. LevelInTable'
    BY <1>0 DEF Inv, LevelInTable, CurrentLevel
  <2> QED
    BY <2>3, <2>4, <2>5 DEF Inv
<1>2. CASE LimitsSetStatus(d, max, min) # SCMI_SUCCESS
  BY <1>2, StutterInv DEF LimitsSet, settings
<1> QED
  BY <1>1, <1>2

LEMMA LevelSetInv ==
  ASSUME Inv, NEW d \in Id, NEW x \in Level, LevelSet(d, x)
  PROVE  Inv'
<1>0. UNCHANGED <<max_limit, min_limit>>
  BY DEF LevelSet
<1>1. CASE LevelSetStatus(d, x) = SCMI_SUCCESS
  <2>1. d \in DomainId /\ x \in Nat /\ min_limit[d] <= x /\ x <= max_limit[d]
    BY <1>1, AcceptedLevel DEF Inv
  <2>2. current' = [current EXCEPT ![d] = x]
    BY <1>1 DEF LevelSet
  <2>3. TypeOK'
    BY <1>0, <2>1, <2>2 DEF Inv, TypeOK
  <2>4. LimitsInTable'
    BY <1>0 DEF Inv, LimitsInTable, NoLimits
  <2>5. LevelInTable'
    <3> SUFFICES ASSUME NEW e \in DomainId
                 PROVE  Bottom(e) <= CurrentLevel(e)' /\ CurrentLevel(e)' <= Top(e)
      BY DEF LevelInTable
    <3>1. CASE e # d
      <4>1. current'[e] = current[e]
        BY <3>1, <2>2 DEF Inv, TypeOK
      <4> QED
        BY <4>1 DEF Inv, LevelInTable, CurrentLevel
    <3>2. CASE e = d
      <4>1. current'[d] = x
        BY <2>1, <2>2 DEF Inv, TypeOK
      <4>2. Bottom(d) \in Nat /\ Top(d) \in Nat /\ Bottom(d) <= Top(d)
        BY <2>1, EndsOfTable
      <4>3. max_limit[d] \in Nat /\ min_limit[d] \in Nat
        BY <2>1 DEF Inv, TypeOK
      <4>4. x = 0 \/ (Bottom(d) <= x /\ x <= Top(d))
        BY <2>1, <4>2, <4>3 DEF Inv, LimitsInTable, NoLimits
      <4> QED
        BY <3>2, <4>1, <4>2, <4>4 DEF CurrentLevel
    <3> QED
      BY <3>1, <3>2
  <2> QED
    BY <2>3, <2>4, <2>5 DEF Inv
<1>2. CASE LevelSetStatus(d, x) # SCMI_SUCCESS
  BY <1>2, StutterInv DEF LevelSet, settings
<1> QED
  BY <1>1, <1>2

LEMMA StepInv == Inv /\ [Next]_vars => Inv'
<1> SUFFICES ASSUME Inv, [Next]_vars PROVE Inv'
  OBVIOUS
<1>1. CASE Next
  BY <1>1, Changes, StutterInv, LimitsSetInv, LevelSetInv
<1>2. CASE UNCHANGED vars
  BY <1>2, StutterInv DEF vars, settings
<1> QED
  BY <1>1, <1>2

LEMMA Invariance == Spec => []Inv
<1> QED
  BY InitInv, StepInv, PTL DEF Spec

\* The limits and the levels kept are numbers, whatever is sent:
\* transport_performance.c writes its three arrays only at domains there are.
THEOREM TypeCorrect == Spec => []TypeOK
<1>1. Inv => TypeOK
  BY DEF Inv
<1> QED
  BY <1>1, Invariance, PTL

\* The limits LIMITS_GET tells are always inside the table of the domain and
\* in order.
THEOREM LimitsStayInTable == Spec => []LimitsInTable
<1>1. Inv => LimitsInTable
  BY DEF Inv
<1> QED
  BY <1>1, Invariance, PTL

\* The level LEVEL_GET tells is always inside the table of the domain.
THEOREM LevelStaysInTable == Spec => []LevelInTable
<1>1. Inv => LevelInTable
  BY DEF Inv
<1> QED
  BY <1>1, Invariance, PTL

-----------------------------------------------------------------------------
(* The mocker implements the contract.                                     *)

ContractLimits == [d \in DomainId |-> [max |-> RangeMax(d), min |-> RangeMin(d)]]
ContractLevels == [d \in DomainId |-> CurrentLevel(d)]
KeepNow == Contract!Keep(reply'.request, reply'.status, reply'.value)

Reads == {PERFORMANCE_LIMITS_GET, PERFORMANCE_LEVEL_GET}
Writes == {PERFORMANCE_LIMITS_SET, PERFORMANCE_LEVEL_SET}

LEMMA NumbersDiffer ==
  /\ PERFORMANCE_LIMITS_SET = 5 /\ PERFORMANCE_LIMITS_GET = 6
  /\ PERFORMANCE_LEVEL_SET = 7 /\ PERFORMANCE_LEVEL_GET = 8
  /\ PERFORMANCE_DESCRIBE_FASTCHANNEL = 11
  /\ {PROTOCOL_VERSION, PROTOCOL_ATTRIBUTES, PROTOCOL_MESSAGE_ATTRIBUTES,
      PERFORMANCE_DOMAIN_ATTRIBUTES, PERFORMANCE_DESCRIBE_LEVELS,
      PERFORMANCE_NOTIFY_LIMITS, PERFORMANCE_NOTIFY_LEVEL, PERFORMANCE_DESCRIBE_FASTCHANNEL}
     = {0, 1, 2, 3, 4, 9, 10, 11}
BY DEF PROTOCOL_VERSION, PROTOCOL_ATTRIBUTES, PROTOCOL_MESSAGE_ATTRIBUTES,
       PERFORMANCE_DOMAIN_ATTRIBUTES, PERFORMANCE_DESCRIBE_LEVELS, PERFORMANCE_LIMITS_SET,
       PERFORMANCE_LIMITS_GET, PERFORMANCE_LEVEL_SET, PERFORMANCE_LEVEL_GET,
       PERFORMANCE_NOTIFY_LIMITS, PERFORMANCE_NOTIFY_LEVEL, PERFORMANCE_DESCRIBE_FASTCHANNEL

\* The contract's numbers are the handler's.
LEMMA ContractNumbers ==
  /\ Contract!PROTOCOL_PERFORMANCE = PROTOCOL_PERFORMANCE
  /\ Contract!PERFORMANCE_LIMITS_SET = PERFORMANCE_LIMITS_SET
  /\ Contract!PERFORMANCE_LIMITS_GET = PERFORMANCE_LIMITS_GET
  /\ Contract!PERFORMANCE_LEVEL_SET = PERFORMANCE_LEVEL_SET
  /\ Contract!PERFORMANCE_LEVEL_GET = PERFORMANCE_LEVEL_GET
  /\ Contract!SCMI_SUCCESS = SCMI_SUCCESS
BY DEF Contract!PROTOCOL_PERFORMANCE, PROTOCOL_PERFORMANCE, Contract!PERFORMANCE_LIMITS_SET,
       PERFORMANCE_LIMITS_SET, Contract!PERFORMANCE_LIMITS_GET, PERFORMANCE_LIMITS_GET,
       Contract!PERFORMANCE_LEVEL_SET, PERFORMANCE_LEVEL_SET, Contract!PERFORMANCE_LEVEL_GET,
       PERFORMANCE_LEVEL_GET, Contract!SCMI_SUCCESS, SCMI_SUCCESS

\* As long as the settings do not change, what the contract sees does not.
LEMMA SettingsSeen ==
  ASSUME UNCHANGED settings
  PROVE  UNCHANGED <<ContractLimits, ContractLevels>>
BY DEF settings, ContractLimits, ContractLevels, RangeMax, RangeMin, NoLimits, CurrentLevel

\* A command that neither sets nor tells a limit or a level.
LEMMA OthersKeep ==
  ASSUME UNCHANGED settings, reply'.request.msg \notin Reads \cup Writes
  PROVE  KeepNow
<1>1. /\ reply'.request.msg # PERFORMANCE_LIMITS_SET /\ reply'.request.msg # PERFORMANCE_LEVEL_SET
      /\ reply'.request.msg # PERFORMANCE_LIMITS_GET /\ reply'.request.msg # PERFORMANCE_LEVEL_GET
  BY DEF Reads, Writes
<1>2. UNCHANGED <<ContractLimits, ContractLevels>>
  BY SettingsSeen
<1> QED
  BY <1>1, <1>2, ContractNumbers
     DEF KeepNow, Contract!Keep, Contract!Performs, ContractLimits, ContractLevels

LEMMA LimitsGetKeeps ==
  ASSUME NEW d \in Id, LimitsGet(d)
  PROVE  KeepNow
<1>1. /\ reply'.request = [proto |-> PROTOCOL_PERFORMANCE, msg |-> PERFORMANCE_LIMITS_GET,
                           args |-> <<d>>]
      /\ reply'.status = FoundStatus(d)
      /\ UNCHANGED settings
  BY DEF LimitsGet, Report, PerformanceRespond, Respond
<1>2. FoundStatus(d) = SCMI_SUCCESS => reply'.value = ContractLimits[d]
  <2> SUFFICES ASSUME FoundStatus(d) = SCMI_SUCCESS PROVE reply'.value = ContractLimits[d]
    OBVIOUS
  <2>1. d \in DomainId
    BY FoundIsDomain
  <2> QED
    BY <2>1 DEF LimitsGet, Report, PerformanceRespond, Respond, ContractLimits
<1>3. UNCHANGED <<ContractLimits, ContractLevels>>
  BY <1>1, SettingsSeen
<1>4. /\ reply'.request.msg = PERFORMANCE_LIMITS_GET /\ reply'.request.args[1] = d
      /\ PERFORMANCE_LIMITS_GET \notin Writes /\ PERFORMANCE_LIMITS_GET # PERFORMANCE_LEVEL_GET
  BY <1>1, NumbersDiffer DEF Writes
<1> QED
  BY <1>1, <1>2, <1>3, <1>4, ContractNumbers
     DEF KeepNow, Contract!Keep, Contract!Performs, ContractLimits, ContractLevels, Writes

LEMMA LevelGetKeeps ==
  ASSUME NEW d \in Id, LevelGet(d)
  PROVE  KeepNow
<1>1. /\ reply'.request = [proto |-> PROTOCOL_PERFORMANCE, msg |-> PERFORMANCE_LEVEL_GET,
                           args |-> <<d>>]
      /\ reply'.status = FoundStatus(d)
      /\ UNCHANGED settings
  BY DEF LevelGet, Report, PerformanceRespond, Respond
<1>2. FoundStatus(d) = SCMI_SUCCESS => reply'.value.level = ContractLevels[d]
  <2> SUFFICES ASSUME FoundStatus(d) = SCMI_SUCCESS PROVE reply'.value.level = ContractLevels[d]
    OBVIOUS
  <2>1. d \in DomainId
    BY FoundIsDomain
  <2> QED
    BY <2>1 DEF LevelGet, Report, PerformanceRespond, Respond, ContractLevels
<1>3. UNCHANGED <<ContractLimits, ContractLevels>>
  BY <1>1, SettingsSeen
<1>4. /\ reply'.request.msg = PERFORMANCE_LEVEL_GET /\ reply'.request.args[1] = d
      /\ PERFORMANCE_LEVEL_GET \notin Writes /\ PERFORMANCE_LIMITS_GET # PERFORMANCE_LEVEL_GET
  BY <1>1, NumbersDiffer DEF Writes
<1> QED
  BY <1>1, <1>2, <1>3, <1>4, ContractNumbers
     DEF KeepNow, Contract!Keep, Contract!Performs, ContractLimits, ContractLevels, Writes

\* What the handler keeps of limits it accepts is what it tells from then on.
LEMMA LimitsSetKeeps ==
  ASSUME Inv, NEW d \in Id, NEW max \in Level, NEW min \in Level, LimitsSet(d, max, min)
  PROVE  KeepNow
<1>1. /\ reply'.request = [proto |-> PROTOCOL_PERFORMANCE, msg |-> PERFORMANCE_LIMITS_SET,
                           args |-> <<d, max, min>>]
      /\ reply'.status = LimitsSetStatus(d, max, min)
      /\ UNCHANGED current
  BY DEF LimitsSet, PerformanceRespond, Respond
<1>2. /\ reply'.request.proto = PROTOCOL_PERFORMANCE
      /\ reply'.request.msg = PERFORMANCE_LIMITS_SET
      /\ reply'.request.args[1] = d /\ reply'.request.args[2] = max
      /\ reply'.request.args[3] = min
  BY <1>1
<1>3. /\ PERFORMANCE_LIMITS_SET # PERFORMANCE_LEVEL_SET
      /\ PERFORMANCE_LIMITS_SET # PERFORMANCE_LIMITS_GET
      /\ PERFORMANCE_LIMITS_SET # PERFORMANCE_LEVEL_GET
  BY NumbersDiffer
<1>4. CASE LimitsSetStatus(d, max, min) = SCMI_SUCCESS
  <2>1. /\ d \in DomainId /\ max \in Nat /\ min \in Nat
        /\ Bottom(d) <= min /\ min <= max /\ max <= Top(d)
        /\ max # 0 /\ min # 0
    BY <1>4, AcceptedLimits
  <2>2. /\ max_limit' = [max_limit EXCEPT ![d] = max]
        /\ min_limit' = [min_limit EXCEPT ![d] = min]
        /\ max_limit \in [DomainId -> Nat] /\ min_limit \in [DomainId -> Nat]
    BY <1>4 DEF LimitsSet, Inv, TypeOK
  <2>3. \A e \in DomainId : [max |-> RangeMax(e), min |-> RangeMin(e)]'
                            = IF e = d THEN [max |-> max, min |-> min]
                              ELSE [max |-> RangeMax(e), min |-> RangeMin(e)]
    BY <2>1, <2>2 DEF RangeMax, RangeMin, NoLimits
  <2>4. ContractLimits' = [ContractLimits EXCEPT ![d] = [max |-> max, min |-> min]]
    BY <2>1, <2>3 DEF ContractLimits
  <2>5. ContractLevels' = ContractLevels
    BY <1>1 DEF ContractLevels, CurrentLevel
  <2>6. Contract!KeepLimits(d, max, min)
    BY <2>1, <2>4, <2>5 DEF Contract!KeepLimits, ContractLimits, ContractLevels
  <2> QED
    BY <1>1, <1>2, <1>4, <2>6, ContractNumbers DEF KeepNow, Contract!Keep, Contract!Performs
<1>5. CASE LimitsSetStatus(d, max, min) # SCMI_SUCCESS
  <2>1. UNCHANGED settings
    BY <1>5 DEF LimitsSet, settings
  <2>2. UNCHANGED <<ContractLimits, ContractLevels>>
    BY <2>1, SettingsSeen
  <2> QED
    BY <1>1, <1>2, <1>3, <1>5, <2>2, ContractNumbers
       DEF KeepNow, Contract!Keep, Contract!Performs, ContractLimits, ContractLevels
<1> QED
  BY <1>4, <1>5

\* A level that is accepted is inside the limits told, unless it is zero.
LEMMA LevelSetKeeps ==
  ASSUME Inv, NEW d \in Id, NEW x \in Level, LevelSet(d, x)
  PROVE  KeepNow
<1>1. /\ reply'.request = [proto |-> PROTOCOL_PERFORMANCE, msg |-> PERFORMANCE_LEVEL_SET,
                           args |-> <<d, x>>]
      /\ reply'.status = LevelSetStatus(d, x)
      /\ UNCHANGED <<max_limit, min_limit>>
  BY DEF LevelSet, PerformanceRespond, Respond
<1>2. /\ reply'.request.proto = PROTOCOL_PERFORMANCE
      /\ reply'.request.msg = PERFORMANCE_LEVEL_SET
      /\ reply'.request.args[1] = d /\ reply'.request.args[2] = x
  BY <1>1
<1>3. /\ PERFORMANCE_LEVEL_SET # PERFORMANCE_LIMITS_SET
      /\ PERFORMANCE_LEVEL_SET # PERFORMANCE_LIMITS_GET
      /\ PERFORMANCE_LEVEL_SET # PERFORMANCE_LEVEL_GET
  BY NumbersDiffer
<1>4. CASE x = 0
  BY <1>2, <1>4, ContractNumbers DEF KeepNow, Contract!Keep, Contract!NoLevel
<1>5. CASE x # 0 /\ LevelSetStatus(d, x) = SCMI_SUCCESS
  <2>1. d \in DomainId /\ x \in Nat /\ min_limit[d] <= x /\ x <= max_limit[d]
    BY <1>5, AcceptedLevel DEF Inv
  <2>2. /\ current' = [current EXCEPT ![d] = x]
        /\ current \in [DomainId -> Nat] /\ max_limit[d] \in Nat
    BY <1>5, <2>1 DEF LevelSet, Inv, TypeOK
  <2>3. ~NoLimits(d)
    BY <1>5, <2>1, <2>2 DEF NoLimits
  <2>4. ContractLimits[d].min <= x /\ x <= ContractLimits[d].max
    BY <2>1, <2>3 DEF ContractLimits, RangeMax, RangeMin
  <2>5. \A e \in DomainId : CurrentLevel(e)' = IF e = d THEN x ELSE CurrentLevel(e)
    BY <1>5, <2>1, <2>2 DEF CurrentLevel
  <2>6. ContractLevels' = [ContractLevels EXCEPT ![d] = x]
    BY <2>1, <2>5 DEF ContractLevels
  <2>7. ContractLimits' = ContractLimits
    BY <1>1 DEF ContractLimits, RangeMax, RangeMin, NoLimits
  <2>8. Contract!KeepLevel(d, x)
    BY <2>1, <2>4, <2>6, <2>7 DEF Contract!KeepLevel, ContractLimits, ContractLevels
  <2> QED
    BY <1>1, <1>2, <1>5, <2>8, ContractNumbers DEF KeepNow, Contract!Keep, Contract!Performs
<1>6. CASE LevelSetStatus(d, x) # SCMI_SUCCESS
  <2>1. UNCHANGED settings
    BY <1>6 DEF LevelSet, settings
  <2>2. UNCHANGED <<ContractLimits, ContractLevels>>
    BY <2>1, SettingsSeen
  <2> QED
    BY <1>1, <1>2, <1>3, <1>6, <2>2, ContractNumbers
       DEF KeepNow, Contract!Keep, Contract!Performs, ContractLimits, ContractLevels
<1> QED
  BY <1>4, <1>5, <1>6

\* Every other command reports, and its number is another.
LEMMA OtherCommands ==
  ASSUME Next
  PROVE  \/ \E d \in Id : LimitsGet(d) \/ LevelGet(d)
         \/ \E d \in Id, x \in Level : LevelSet(d, x)
         \/ \E d \in Id, max, min \in Level : LimitsSet(d, max, min)
         \/ UNCHANGED settings /\ reply'.request.msg \notin Reads \cup Writes
<1>1. Reads \cup Writes = {5, 6, 7, 8}
  BY NumbersDiffer DEF Reads, Writes
<1>2. ASSUME Version \/ Attributes
      PROVE  UNCHANGED settings /\ reply'.request.msg \in {0, 1}
  BY <1>2 DEF Version, Attributes, Report, PerformanceRespond, Respond, PROTOCOL_VERSION,
              PROTOCOL_ATTRIBUTES
<1>3. ASSUME NEW w \in Id, MessageAttributes(w) \/ DomainAttributes(w)
      PROVE  UNCHANGED settings /\ reply'.request.msg \in {2, 3}
  BY <1>3 DEF MessageAttributes, DomainAttributes, Report, PerformanceRespond, Respond,
              PROTOCOL_MESSAGE_ATTRIBUTES, PERFORMANCE_DOMAIN_ATTRIBUTES
<1>4. ASSUME NEW w \in Id, w > PERFORMANCE_DESCRIBE_FASTCHANNEL, Unknown(w)
      PROVE  UNCHANGED settings /\ reply'.request.msg \notin {5, 6, 7, 8}
  <2>1. reply'.request.msg = w /\ UNCHANGED settings
    BY <1>4 DEF Unknown, Report, PerformanceRespond, Respond
  <2>2. w \in Nat /\ w > 11
    BY <1>4, RequestAssumption, NumbersDiffer
  <2> QED
    BY <2>1, <2>2
<1>5. ASSUME NEW d \in Id, NEW w \in Id, DescribeLevels(d, w) \/ DescribeFastChannel(d, w)
      PROVE  UNCHANGED settings /\ reply'.request.msg \in {4, 11}
  BY <1>5 DEF DescribeLevels, DescribeFastChannel, Report, PerformanceRespond, Respond,
              PERFORMANCE_DESCRIBE_LEVELS, PERFORMANCE_DESCRIBE_FASTCHANNEL
<1>6. ASSUME NEW d \in Id, NEW w \in Id, NotifyLimits(d, w) \/ NotifyLevel(d, w)
      PROVE  UNCHANGED settings /\ reply'.request.msg \in {9, 10}
  BY <1>6 DEF NotifyLimits, NotifyLevel, Report, PerformanceRespond, Respond,
              PERFORMANCE_NOTIFY_LIMITS, PERFORMANCE_NOTIFY_LEVEL
<1> QED
  BY <1>1, <1>2, <1>3, <1>4, <1>5, <1>6 DEF Next

\* The handler keeps limits and levels as tests d009 to d016 rely on: at the
\* start the whole range is allowed, and every request is answered as
\* PerformanceContract allows.
THEOREM ContractKept == Spec => KeepsContract
<1>1. Init => Contract!WholeRange
  <2> SUFFICES ASSUME Init PROVE Contract!WholeRange
    OBVIOUS
  <2>1. \A d \in DomainId : /\ RangeMax(d) = Top(d) /\ RangeMin(d) = Bottom(d)
                            /\ CurrentLevel(d) = Bottom(d) /\ Bottom(d) <= Top(d)
                            /\ Bottom(d) <= Bottom(d)
    BY EndsOfTable DEF Init, PerformanceInit, RangeMax, RangeMin, NoLimits, CurrentLevel
  <2> QED
    BY <2>1 DEF Contract!WholeRange
<1>2. Inv /\ Next => KeepNow
  BY OtherCommands, LimitsGetKeeps, LevelGetKeeps, LimitsSetKeeps, LevelSetKeeps, OthersKeep
<1>3. Inv /\ [Next]_vars => [Contract!Keep(reply'.request, reply'.status, reply'.value)]_vars
  BY <1>2 DEF KeepNow
<1> QED
  BY <1>1, <1>3, Invariance, PTL DEF Spec, KeepsContract

=============================================================================
