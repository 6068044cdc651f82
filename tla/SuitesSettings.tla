---------------------------- MODULE SuitesSettings ---------------------------
(***************************************************************************)
(* What the commands of SuitesOnMocker do to each setting of the platform, *)
(* and which programs end with a setting where it was.                     *)
(*                                                                         *)
(* The effects are those of the handlers, for all tables: a command that   *)
(* is refused changes nothing (Frame), one that succeeds puts one setting  *)
(* where it says (Moved), and what the platform answers is the setting, so *)
(* that putting that changes nothing (Reads).  A program ends with a       *)
(* setting as it was if the last step that puts it somewhere puts it there *)
(* (Ends).  An answer may add steps: a question counts as the commands it  *)
(* leads to, and each suite's additions put back what they change          *)
(* (PerformanceReturns, ClockReturns, VoltageReturns).  The tests that     *)
(* change settings begin with questions (Beginnings).                      *)
(***************************************************************************)
EXTENDS SuitesProofs

-----------------------------------------------------------------------------
(* The settings, one by one.                                               *)

settingVars == <<device_access, protocol_access, max_limit, min_limit, current, clock_rate,
                 clock_status, voltage_level, voltage_mode, notifying>>

\* What the platform has a setting for.  Of the devices only the first is ever
\* denied.
Shapes ==
  /\ DOMAIN max_limit = PerformanceHandler!DomainId
  /\ DOMAIN min_limit = PerformanceHandler!DomainId
  /\ DOMAIN current = PerformanceHandler!DomainId
  /\ DOMAIN clock_rate = ClockHandler!ClockId
  /\ clock_status = [c \in ClockHandler!ClockId |-> clock_status[c]]
  /\ voltage_level = [d \in VoltageHandler!VoltageDomain |-> voltage_level[d]]
  /\ voltage_mode = [d \in VoltageHandler!VoltageDomain |-> voltage_mode[d]]
  /\ \A d \in DOMAIN device_access \ {0} : device_access[d] = TRUE

\* The settings of domain or clock x.
LimitsNow(x) == <<PerformanceHandler!RangeMax(x), PerformanceHandler!RangeMin(x)>>
LevelNow(x) == PerformanceHandler!CurrentLevel(x)
RateNow(x) == ClockHandler!CurrentRate(x)

\* A state that differs in no setting has the same settings.
LEMMA SettingsSame ==
  ASSUME UNCHANGED settingVars
  PROVE  Settings' = Settings
  <1>1. /\ PerformanceHandler!DomainId' = PerformanceHandler!DomainId
        /\ ClockHandler!ClockId' = ClockHandler!ClockId
    BY DEF ClockHandler!ClockId, PerformanceHandler!DomainId
  <1>2. \A d : /\ PerformanceHandler!RangeMax(d)' = PerformanceHandler!RangeMax(d)
               /\ PerformanceHandler!RangeMin(d)' = PerformanceHandler!RangeMin(d)
               /\ PerformanceHandler!CurrentLevel(d)' = PerformanceHandler!CurrentLevel(d)
               /\ ClockHandler!CurrentRate(d)' = ClockHandler!CurrentRate(d)
    BY DEF settingVars, PerformanceHandler!RangeMax, PerformanceHandler!RangeMin,
       PerformanceHandler!NoLimits, PerformanceHandler!CurrentLevel, ClockHandler!CurrentRate,
       PerformanceHandler!Top, PerformanceHandler!Bottom, ClockHandler!Rate
  <1> QED BY <1>1, <1>2, Zenon DEF Settings, settingVars

\* Settings has a field for each kind of setting.
LEMMA SettingsFields ==
  /\ Settings.limits = [d \in PerformanceHandler!DomainId |-> LimitsNow(d)]
  /\ Settings.levels = [d \in PerformanceHandler!DomainId |-> LevelNow(d)]
  /\ Settings.rates = [c \in ClockHandler!ClockId |-> RateNow(c)]
  /\ Settings.clocks = clock_status
  /\ Settings.voltages = voltage_level
  /\ Settings.modes = voltage_mode
  /\ Settings.access = <<device_access, protocol_access>>
  /\ Settings.notifying = notifying
  BY DEF Settings, LimitsNow, LevelNow, RateNow


-----------------------------------------------------------------------------
(* What a command does to the settings.                                    *)

\* What a command leaves that sets limits or a level: zero stands for the range
\* of the domain and for its first level.
LimitsSent(s) ==
  IF s.args[2] = 0 /\ s.args[3] = 0
  THEN <<PerformanceHandler!Top(s.args[1]), PerformanceHandler!Bottom(s.args[1])>>
  ELSE <<s.args[2], s.args[3]>>
LevelSent(s) == IF s.args[2] = 0 THEN PerformanceHandler!Bottom(s.args[1]) ELSE s.args[2]

\* The performance handler changes limits, levels and notifications by four commands.
LEMMA PerformanceEffect ==
  ASSUME Shapes, NEW s, s.proto = PROTOCOL_PERFORMANCE, Execute(s)
  PROVE  LET ok == Answered(s).status = SCMI_SUCCESS
         IN /\ UNCHANGED <<device_access, protocol_access, clockVars, voltageVars>>
            /\ DOMAIN max_limit' = PerformanceHandler!DomainId
            /\ DOMAIN min_limit' = PerformanceHandler!DomainId
            /\ DOMAIN current' = PerformanceHandler!DomainId
            /\ ok /\ s.msg \in {PERFORMANCE_LIMITS_SET, PERFORMANCE_LEVEL_SET} =>
                 s.args[1] \in PerformanceHandler!DomainId
            /\ \A d \in PerformanceHandler!DomainId :
                 /\ LimitsNow(d)' = IF ok /\ s.msg = PERFORMANCE_LIMITS_SET /\ s.args[1] = d
                                    THEN LimitsSent(s) ELSE LimitsNow(d)
                 /\ LevelNow(d)' = IF ok /\ s.msg = PERFORMANCE_LEVEL_SET /\ s.args[1] = d
                                   THEN LevelSent(s) ELSE LevelNow(d)
            /\ notifying' = IF ok /\ s.msg \in {PERFORMANCE_NOTIFY_LIMITS, PERFORMANCE_NOTIFY_LEVEL}
                            THEN IF s.args[2] = 1 THEN notifying \cup {<<s.msg, s.args[1]>>}
                                 ELSE notifying \ {<<s.msg, s.args[1]>>}
                            ELSE notifying
  <1> DEFINE ok == Answered(s).status = SCMI_SUCCESS
             Sets(m) == ok /\ s.msg = m
  <1>1. Dispatch(s) /\ PerformanceHandler!Handle(s.msg, s.args)
    BY Handled DEF Execute
  <1>2. UNCHANGED <<device_access, protocol_access, clockVars, voltageVars>>
    BY <1>1 DEF Dispatch, baseVars, PROTOCOL_BASE, PROTOCOL_POWER_DOMAIN, PROTOCOL_SYSTEM_POWER,
       PROTOCOL_PERFORMANCE, PROTOCOL_CLOCK, PROTOCOL_SENSOR, PROTOCOL_RESET, PROTOCOL_VOLTAGE
  <1>3. Answered(s).status = reply'.status
    BY Read DEF FromBaseHandler, PROTOCOL_BASE, PROTOCOL_POWER_DOMAIN, PROTOCOL_PERFORMANCE
  <1>4. notifying' = IF ok /\ s.msg \in {PERFORMANCE_NOTIFY_LIMITS, PERFORMANCE_NOTIFY_LEVEL}
                     THEN IF s.args[2] = 1 THEN notifying \cup {<<s.msg, s.args[1]>>}
                          ELSE notifying \ {<<s.msg, s.args[1]>>}
                     ELSE notifying
    <2>1. IsNotify(s) <=> s.msg \in {PERFORMANCE_NOTIFY_LIMITS, PERFORMANCE_NOTIFY_LEVEL}
      BY DEF IsNotify, PROTOCOL_PERFORMANCE, PROTOCOL_SENSOR
    <2> QED BY <1>3, <2>1 DEF Execute
  <1>5. CASE s.msg \notin {PERFORMANCE_LIMITS_SET, PERFORMANCE_LEVEL_SET}
    <2>1. UNCHANGED <<max_limit, min_limit, current>>
      BY <1>1, <1>5 DEF PerformanceHandler!Handle, PerformanceHandler!Version,
         PerformanceHandler!Attributes, PerformanceHandler!MessageAttributes,
         PerformanceHandler!Unknown, PerformanceHandler!DomainAttributes,
         PerformanceHandler!DescribeLevels, PerformanceHandler!LimitsGet,
         PerformanceHandler!LevelGet, PerformanceHandler!NotifyLimits,
         PerformanceHandler!NotifyLevel, PerformanceHandler!DescribeFastChannel,
         PerformanceHandler!Report, PerformanceHandler!settings, PERFORMANCE_LIMITS_SET,
         PERFORMANCE_LEVEL_SET, PerformanceHandler!PERFORMANCE_LIMITS_SET,
         PerformanceHandler!PERFORMANCE_LEVEL_SET
    <2>2. \A d : LimitsNow(d)' = LimitsNow(d) /\ LevelNow(d)' = LevelNow(d)
      BY <2>1 DEF LimitsNow, LevelNow, PerformanceHandler!RangeMax, PerformanceHandler!RangeMin,
         PerformanceHandler!NoLimits, PerformanceHandler!CurrentLevel, PerformanceHandler!Top,
         PerformanceHandler!Bottom
    <2> QED BY <1>2, <1>4, <1>5, <2>1, <2>2 DEF Shapes
  <1>6. CASE s.msg = PERFORMANCE_LIMITS_SET
    <2> DEFINE d == s.args[1]
    <2>1. PerformanceHandler!LimitsSet(d, s.args[2], s.args[3])
      BY <1>1, <1>6 DEF PerformanceHandler!Handle, PERFORMANCE_LIMITS_SET,
         PerformanceHandler!PROTOCOL_VERSION, PerformanceHandler!PROTOCOL_ATTRIBUTES,
         PerformanceHandler!PROTOCOL_MESSAGE_ATTRIBUTES,
         PerformanceHandler!PERFORMANCE_DOMAIN_ATTRIBUTES,
         PerformanceHandler!PERFORMANCE_DESCRIBE_LEVELS, PerformanceHandler!PERFORMANCE_LIMITS_SET,
         PerformanceHandler!PERFORMANCE_LIMITS_GET, PerformanceHandler!PERFORMANCE_LEVEL_SET,
         PerformanceHandler!PERFORMANCE_LEVEL_GET, PerformanceHandler!PERFORMANCE_NOTIFY_LIMITS,
         PerformanceHandler!PERFORMANCE_NOTIFY_LEVEL,
         PerformanceHandler!PERFORMANCE_DESCRIBE_FASTCHANNEL
    <2>2. ok <=> PerformanceHandler!LimitsSetStatus(d, s.args[2], s.args[3])
                   = PerformanceHandler!SCMI_SUCCESS
      BY <1>3, <2>1 DEF PerformanceHandler!LimitsSet, PerformanceHandler!PerformanceRespond,
         PerformanceHandler!Respond, SCMI_SUCCESS, PerformanceHandler!SCMI_SUCCESS
    <2>3. ok => d \in PerformanceHandler!DomainId
      BY <2>2 DEF PerformanceHandler!LimitsSetStatus, PerformanceHandler!SCMI_SUCCESS,
         PerformanceHandler!SCMI_NOT_FOUND
    <2>4. /\ current' = current
          /\ max_limit' = IF ok THEN [max_limit EXCEPT ![d] = s.args[2]] ELSE max_limit
          /\ min_limit' = IF ok THEN [min_limit EXCEPT ![d] = s.args[3]] ELSE min_limit
      BY <2>1, <2>2 DEF PerformanceHandler!LimitsSet
    <2> HIDE DEF ok
    <2>5. ASSUME NEW x \in PerformanceHandler!DomainId
          PROVE  /\ LimitsNow(x)' = IF ok /\ d = x THEN LimitsSent(s) ELSE LimitsNow(x)
                 /\ LevelNow(x)' = LevelNow(x)
      BY <2>4 DEF Shapes, LimitsNow, LevelNow, LimitsSent, PerformanceHandler!RangeMax,
         PerformanceHandler!RangeMin, PerformanceHandler!NoLimits,
         PerformanceHandler!CurrentLevel, PerformanceHandler!Top, PerformanceHandler!Bottom
    <2>6. s.msg # PERFORMANCE_LEVEL_SET
      BY <1>6 DEF PERFORMANCE_LIMITS_SET, PERFORMANCE_LEVEL_SET
    <2>7. DOMAIN max_limit' = PerformanceHandler!DomainId
          /\ DOMAIN min_limit' = PerformanceHandler!DomainId
          /\ DOMAIN current' = PerformanceHandler!DomainId
      BY <2>4 DEF Shapes
    <2> QED BY <1>2, <1>4, <1>6, <2>3, <2>5, <2>6, <2>7 DEF ok
  <1>7. CASE s.msg = PERFORMANCE_LEVEL_SET
    <2> DEFINE d == s.args[1]
    <2>1. PerformanceHandler!LevelSet(d, s.args[2])
      BY <1>1, <1>7 DEF PerformanceHandler!Handle, PERFORMANCE_LEVEL_SET,
         PerformanceHandler!PROTOCOL_VERSION, PerformanceHandler!PROTOCOL_ATTRIBUTES,
         PerformanceHandler!PROTOCOL_MESSAGE_ATTRIBUTES,
         PerformanceHandler!PERFORMANCE_DOMAIN_ATTRIBUTES,
         PerformanceHandler!PERFORMANCE_DESCRIBE_LEVELS, PerformanceHandler!PERFORMANCE_LIMITS_SET,
         PerformanceHandler!PERFORMANCE_LIMITS_GET, PerformanceHandler!PERFORMANCE_LEVEL_SET,
         PerformanceHandler!PERFORMANCE_LEVEL_GET, PerformanceHandler!PERFORMANCE_NOTIFY_LIMITS,
         PerformanceHandler!PERFORMANCE_NOTIFY_LEVEL,
         PerformanceHandler!PERFORMANCE_DESCRIBE_FASTCHANNEL
    <2>2. ok <=> PerformanceHandler!LevelSetStatus(d, s.args[2]) = PerformanceHandler!SCMI_SUCCESS
      BY <1>3, <2>1 DEF PerformanceHandler!LevelSet, PerformanceHandler!PerformanceRespond,
         PerformanceHandler!Respond, SCMI_SUCCESS, PerformanceHandler!SCMI_SUCCESS
    <2>3. ok => d \in PerformanceHandler!DomainId
      BY <2>2 DEF PerformanceHandler!LevelSetStatus, PerformanceHandler!SCMI_SUCCESS,
         PerformanceHandler!SCMI_NOT_FOUND
    <2>4. /\ max_limit' = max_limit /\ min_limit' = min_limit
          /\ current' = IF ok THEN [current EXCEPT ![d] = s.args[2]] ELSE current
      BY <2>1, <2>2 DEF PerformanceHandler!LevelSet
    <2> HIDE DEF ok
    <2>5. ASSUME NEW x \in PerformanceHandler!DomainId
          PROVE  /\ LevelNow(x)' = IF ok /\ d = x THEN LevelSent(s) ELSE LevelNow(x)
                 /\ LimitsNow(x)' = LimitsNow(x)
      BY <2>4 DEF Shapes, LimitsNow, LevelNow, LevelSent, PerformanceHandler!RangeMax,
         PerformanceHandler!RangeMin, PerformanceHandler!NoLimits,
         PerformanceHandler!CurrentLevel, PerformanceHandler!Top, PerformanceHandler!Bottom
    <2>6. s.msg # PERFORMANCE_LIMITS_SET
      BY <1>7 DEF PERFORMANCE_LIMITS_SET, PERFORMANCE_LEVEL_SET
    <2>7. DOMAIN max_limit' = PerformanceHandler!DomainId
          /\ DOMAIN min_limit' = PerformanceHandler!DomainId
          /\ DOMAIN current' = PerformanceHandler!DomainId
      BY <2>4 DEF Shapes
    <2> QED BY <1>2, <1>4, <1>7, <2>3, <2>5, <2>6, <2>7 DEF ok
  <1> QED BY <1>5, <1>6, <1>7

\* The clock handler changes rates and states by two commands.
LEMMA ClockEffect ==
  ASSUME Shapes, NEW s, s.proto = PROTOCOL_CLOCK, Execute(s)
  PROVE  LET ok == Answered(s).status = SCMI_SUCCESS
         IN /\ UNCHANGED <<device_access, protocol_access, performanceVars, voltageVars, notifying>>
            /\ DOMAIN clock_rate' = ClockHandler!ClockId
            /\ clock_status' = [c \in ClockHandler!ClockId |->
                                  IF ok /\ s.msg = CLOCK_CONFIG_SET /\ s.args[1] = c
                                  THEN s.args[2] ELSE clock_status[c]]
            /\ ok /\ s.msg = CLOCK_RATE_SET => s.args[2] \in ClockHandler!ClockId
            /\ ok /\ s.msg = CLOCK_CONFIG_SET => s.args[1] \in ClockHandler!ClockId
            /\ \A c \in ClockHandler!ClockId :
                 RateNow(c)' = IF ok /\ s.msg = CLOCK_RATE_SET /\ s.args[2] = c
                               THEN s.args[3] ELSE RateNow(c)
  <1> DEFINE ok == Answered(s).status = SCMI_SUCCESS
  <1>1. Dispatch(s) /\ HandleClock(s.msg, s.args)
    BY Handled DEF Execute
  <1>2. UNCHANGED <<device_access, protocol_access, performanceVars, voltageVars, notifying>>
    <2>1. ~IsNotify(s)
      BY DEF IsNotify, PROTOCOL_PERFORMANCE, PROTOCOL_SENSOR, PROTOCOL_CLOCK
    <2>2. notifying' = notifying
      BY <2>1 DEF Execute
    <2> QED BY <1>1, <2>2 DEF Dispatch, baseVars, PROTOCOL_BASE, PROTOCOL_POWER_DOMAIN,
       PROTOCOL_SYSTEM_POWER, PROTOCOL_PERFORMANCE, PROTOCOL_CLOCK, PROTOCOL_SENSOR,
       PROTOCOL_RESET, PROTOCOL_VOLTAGE
  <1>3. Answered(s).status = reply'.status
    BY Read DEF FromBaseHandler, PROTOCOL_BASE, PROTOCOL_POWER_DOMAIN, PROTOCOL_CLOCK
  <1>4. clock_status = [c \in ClockHandler!ClockId |-> clock_status[c]]
        /\ DOMAIN clock_rate = ClockHandler!ClockId
    BY DEF Shapes
  <1>5. CASE s.msg \notin ClockMovers
    <2>1. clock_rate' = clock_rate /\ clock_status' = clock_status
      BY <1>1, <1>5 DEF HandleClock, ClockHandler!Handle, ClockHandler!Version,
         ClockHandler!Attributes, ClockHandler!MessageAttributes, ClockHandler!Unknown,
         ClockHandler!ClockAttributes, ClockHandler!DescribeRates, ClockHandler!RateGet,
         ClockHandler!ClockReport, ClockHandler!clockSettings, ClockMovers, CLOCK_RATE_SET,
         CLOCK_CONFIG_SET, ClockHandler!CLOCK_RATE_SET, ClockHandler!CLOCK_CONFIG_SET
    <2>2. \A c : RateNow(c)' = RateNow(c)
      BY <2>1 DEF RateNow, ClockHandler!CurrentRate, ClockHandler!Rate
    <2>3. s.msg # CLOCK_RATE_SET /\ s.msg # CLOCK_CONFIG_SET
      BY <1>5 DEF ClockMovers
    <2>4. clock_status' = [c \in ClockHandler!ClockId |->
                                  IF ok /\ s.msg = CLOCK_CONFIG_SET /\ s.args[1] = c
                                  THEN s.args[2] ELSE clock_status[c]]
      BY <1>4, <2>1, <2>3
    <2> QED BY <1>2, <1>4, <2>1, <2>2, <2>3, <2>4
  <1>6. CASE s.msg = CLOCK_RATE_SET
    <2> DEFINE c == s.args[2]
    <2>1. ClockHandler!RateSet(s.args[1], c, s.args[3])
      BY <1>1, <1>6 DEF HandleClock, ClockHandler!Handle, CLOCK_RATE_SET, CLOCK_DESCRIBE_RATES,
         ClockHandler!PROTOCOL_VERSION, ClockHandler!PROTOCOL_ATTRIBUTES,
         ClockHandler!PROTOCOL_MESSAGE_ATTRIBUTES, ClockHandler!CLOCK_ATTRIBUTES,
         ClockHandler!CLOCK_DESCRIBE_RATES, ClockHandler!CLOCK_RATE_SET,
         ClockHandler!CLOCK_RATE_GET, ClockHandler!CLOCK_CONFIG_SET
    <2>2. ok <=> ClockHandler!RateSetStatus(c, s.args[3]) = ClockHandler!SCMI_SUCCESS
      BY <1>3, <2>1 DEF ClockHandler!RateSet, ClockHandler!ClockRespond,
         ClockHandler!Respond, SCMI_SUCCESS, ClockHandler!SCMI_SUCCESS
    <2>3. ok => c \in ClockHandler!ClockId
      BY <2>2 DEF ClockHandler!RateSetStatus, ClockHandler!SCMI_SUCCESS,
         ClockHandler!SCMI_NOT_FOUND
    <2>4. ok => \E i \in 1..clock.rates[c] : s.args[3] = ClockHandler!Rate(i)
      BY <2>2 DEF ClockHandler!RateSetStatus, ClockHandler!SCMI_SUCCESS,
         ClockHandler!SCMI_NOT_FOUND, ClockHandler!SCMI_INVALID_PARAMETERS
    <2>5. ok => s.args[3].lower # 0
      <3> SUFFICES ASSUME ok PROVE s.args[3].lower # 0
        OBVIOUS
      <3>1. PICK i \in 1..clock.rates[c] : s.args[3] = ClockHandler!Rate(i)
        BY <2>4
      <3>2. i \in Nat \ {0}
        BY <2>3, TablesAssumption
      <3>3. s.args[3].lower = 100 * i
        BY <3>1 DEF ClockHandler!Rate
      <3> HIDE DEF ok
      <3> QED BY <3>2, <3>3
    <2>6. clock_status' = clock_status
          /\ clock_rate' = IF ok THEN [clock_rate EXCEPT ![c] = s.args[3]] ELSE clock_rate
      BY <2>1, <2>2 DEF ClockHandler!RateSet
    <2> HIDE DEF ok
    <2>7. ASSUME NEW x \in ClockHandler!ClockId
          PROVE  RateNow(x)' = IF ok /\ c = x THEN s.args[3] ELSE RateNow(x)
      BY <1>4, <2>5, <2>6 DEF RateNow, ClockHandler!CurrentRate, ClockHandler!Rate
    <2>8. s.msg # CLOCK_CONFIG_SET
      BY <1>6 DEF CLOCK_RATE_SET, CLOCK_CONFIG_SET
    <2>9. clock_status' = [x \in ClockHandler!ClockId |->
                                  IF ok /\ s.msg = CLOCK_CONFIG_SET /\ s.args[1] = x
                                  THEN s.args[2] ELSE clock_status[x]]
      BY <1>4, <2>6, <2>8
    <2>10. DOMAIN clock_rate' = ClockHandler!ClockId
      BY <1>4, <2>6
    <2> QED BY <1>2, <1>6, <2>3, <2>7, <2>8, <2>9, <2>10 DEF ok
  <1>7. CASE s.msg = CLOCK_CONFIG_SET
    <2> DEFINE c == s.args[1]
    <2>1. ClockHandler!ConfigSet(c, s.args[2])
      BY <1>1, <1>7 DEF HandleClock, ClockHandler!Handle, CLOCK_CONFIG_SET, CLOCK_DESCRIBE_RATES,
         ClockHandler!PROTOCOL_VERSION, ClockHandler!PROTOCOL_ATTRIBUTES,
         ClockHandler!PROTOCOL_MESSAGE_ATTRIBUTES, ClockHandler!CLOCK_ATTRIBUTES,
         ClockHandler!CLOCK_DESCRIBE_RATES, ClockHandler!CLOCK_RATE_SET,
         ClockHandler!CLOCK_RATE_GET, ClockHandler!CLOCK_CONFIG_SET
    <2>2. ok <=> ClockHandler!ConfigSetStatus(c, s.args[2]) = ClockHandler!SCMI_SUCCESS
      BY <1>3, <2>1 DEF ClockHandler!ConfigSet, ClockHandler!ClockRespond,
         ClockHandler!Respond, SCMI_SUCCESS, ClockHandler!SCMI_SUCCESS
    <2>3. ok => c \in ClockHandler!ClockId
      BY <2>2 DEF ClockHandler!ConfigSetStatus, ClockHandler!FoundThen, ClockHandler!SCMI_SUCCESS,
         ClockHandler!SCMI_NOT_FOUND
    <2>4. clock_rate' = clock_rate
          /\ clock_status' = IF ok THEN [clock_status EXCEPT ![c] = s.args[2]] ELSE clock_status
      BY <2>1, <2>2 DEF ClockHandler!ConfigSet
    <2> HIDE DEF ok
    <2>5. clock_status' = [x \in ClockHandler!ClockId |->
                                  IF ok /\ s.msg = CLOCK_CONFIG_SET /\ s.args[1] = x
                                  THEN s.args[2] ELSE clock_status[x]]
      BY <1>4, <1>7, <2>4
    <2>6. s.msg # CLOCK_RATE_SET
      BY <1>7 DEF CLOCK_RATE_SET, CLOCK_CONFIG_SET
    <2>7. \A x : RateNow(x)' = RateNow(x)
      BY <2>4 DEF RateNow, ClockHandler!CurrentRate, ClockHandler!Rate
    <2>8. DOMAIN clock_rate' = ClockHandler!ClockId
      BY <1>4, <2>4
    <2> QED BY <1>2, <1>7, <2>3, <2>5, <2>6, <2>7, <2>8 DEF ok
  <1> QED BY <1>5, <1>6, <1>7 DEF ClockMovers

\* The voltage platform changes levels and modes by two commands.
LEMMA VoltageEffect ==
  ASSUME Shapes, NEW s, s.proto = PROTOCOL_VOLTAGE, Execute(s)
  PROVE  LET ok == Answered(s).status = SCMI_SUCCESS
         IN /\ UNCHANGED <<device_access, protocol_access, performanceVars, clockVars, notifying>>
            /\ voltage_level' = [d \in VoltageHandler!VoltageDomain |->
                                   IF ok /\ s.msg = VOLTAGE_LEVEL_SET /\ s.args[1] = d
                                   THEN s.args[3] ELSE voltage_level[d]]
            /\ voltage_mode' = [d \in VoltageHandler!VoltageDomain |->
                                   IF ok /\ s.msg = VOLTAGE_CONFIG_SET /\ s.args[1] = d
                                   THEN s.args[2] ELSE voltage_mode[d]]
            /\ ok /\ s.msg = VOLTAGE_LEVEL_SET => s.args[1] \in VoltageHandler!VoltageDomain
  <1> DEFINE ok == Answered(s).status = SCMI_SUCCESS
             D == VoltageHandler!VoltageDomain
  <1>1. Dispatch(s) /\ IF VoltageServed THEN VoltageHandler!HandleVoltage(s.msg, s.args)
                       ELSE SystemHandler!HandleVoltage(s.msg, s.args)
    BY Handled DEF Execute
  <1>2. /\ UNCHANGED <<device_access, protocol_access, performanceVars, clockVars, notifying>>
        /\ VoltageServed \/ UNCHANGED voltageVars
    <2>1. ~IsNotify(s)
      BY DEF IsNotify, PROTOCOL_PERFORMANCE, PROTOCOL_SENSOR, PROTOCOL_VOLTAGE
    <2>2. notifying' = notifying
      BY <2>1 DEF Execute
    <2> QED BY <1>1, <2>2 DEF Dispatch, baseVars, PROTOCOL_BASE, PROTOCOL_POWER_DOMAIN,
       PROTOCOL_SYSTEM_POWER, PROTOCOL_PERFORMANCE, PROTOCOL_CLOCK, PROTOCOL_SENSOR,
       PROTOCOL_RESET, PROTOCOL_VOLTAGE
  <1>3. Answered(s).status = reply'.status
    BY Read DEF FromBaseHandler, PROTOCOL_BASE, PROTOCOL_POWER_DOMAIN, PROTOCOL_VOLTAGE
  <1>4. /\ voltage_level = [d \in D |-> voltage_level[d]]
        /\ voltage_mode = [d \in D |-> voltage_mode[d]]
    BY DEF Shapes
  <1>5. CASE ~VoltageServed
    <2>1. voltage_level' = voltage_level /\ voltage_mode' = voltage_mode
      BY <1>2, <1>5 DEF voltageVars
    <2>2. D = {}
      BY <1>5 DEF VoltageServed
    <2>3. s.msg = VOLTAGE_LEVEL_SET => ~ok
      BY <1>1, <1>3, <1>5 DEF SystemHandler!HandleVoltage, SystemHandler!Respond, VOLTAGE_LEVEL_SET,
         SystemHandler!FoundThen, SystemHandler!PROTOCOL_VERSION, SystemHandler!SCMI_NOT_FOUND,
         SCMI_SUCCESS
    <2> QED BY <1>2, <1>4, <2>1, <2>2, <2>3
  <1>6. CASE VoltageServed /\ s.msg \notin VoltageMovers
    <2>1. VoltageHandler!HandleVoltage(s.msg, s.args)
      BY <1>1, <1>6
    <2>2. voltage_level' = voltage_level /\ voltage_mode' = voltage_mode
      BY <1>6, <2>1 DEF VoltageHandler!HandleVoltage, VoltageHandler!VoltageVersion,
         VoltageHandler!VoltageAttributes, VoltageHandler!VoltageMessageAttributes,
         VoltageHandler!DomainAttributes, VoltageHandler!DescribeLevels,
         VoltageHandler!ConfigGet, VoltageHandler!LevelGet, VoltageHandler!VoltageUnknown,
         VoltageHandler!VoltageReport, VoltageMovers, VOLTAGE_CONFIG_SET, VOLTAGE_LEVEL_SET,
         VoltageHandler!VOLTAGE_CONFIG_SET, VoltageHandler!VOLTAGE_LEVEL_SET
    <2>3. s.msg # VOLTAGE_CONFIG_SET /\ s.msg # VOLTAGE_LEVEL_SET
      BY <1>6 DEF VoltageMovers
    <2> QED BY <1>2, <1>4, <2>2, <2>3
  <1>7. CASE VoltageServed /\ s.msg = VOLTAGE_LEVEL_SET
    <2> DEFINE d == s.args[1]
    <2>1. VoltageHandler!LevelSet(d, s.args[2], s.args[3])
      BY <1>1, <1>7 DEF VoltageHandler!HandleVoltage, VOLTAGE_LEVEL_SET,
         VoltageHandler!PROTOCOL_VERSION, VoltageHandler!PROTOCOL_ATTRIBUTES,
         VoltageHandler!PROTOCOL_MESSAGE_ATTRIBUTES, VoltageHandler!VOLTAGE_DOMAIN_ATTRIBUTES,
         VoltageHandler!VOLTAGE_DESCRIBE_LEVELS, VoltageHandler!VOLTAGE_CONFIG_SET,
         VoltageHandler!VOLTAGE_CONFIG_GET, VoltageHandler!VOLTAGE_LEVEL_SET,
         VoltageHandler!VOLTAGE_LEVEL_GET
    <2>2. ok <=> VoltageHandler!LevelSetStatus(d, s.args[2], s.args[3])
                   = VoltageHandler!SCMI_SUCCESS
      BY <1>3, <2>1 DEF VoltageHandler!LevelSet, VoltageHandler!Respond, SCMI_SUCCESS,
         VoltageHandler!SCMI_SUCCESS
    <2>3. ok => d \in D
      BY <2>2 DEF VoltageHandler!LevelSetStatus, VoltageHandler!FoundThen,
         VoltageHandler!SCMI_SUCCESS, VoltageHandler!SCMI_NOT_FOUND
    <2>4. voltage_mode' = voltage_mode
          /\ voltage_level' = IF ok THEN [voltage_level EXCEPT ![d] = s.args[3]] ELSE voltage_level
      BY <2>1, <2>2 DEF VoltageHandler!LevelSet
    <2>5. s.msg # VOLTAGE_CONFIG_SET
      BY <1>7 DEF VOLTAGE_CONFIG_SET, VOLTAGE_LEVEL_SET
    <2> HIDE DEF ok, D
    <2>6. voltage_level' = [x \in D |-> IF ok /\ d = x THEN s.args[3] ELSE voltage_level[x]]
      BY <1>4, <2>4
    <2> QED BY <1>2, <1>4, <1>7, <2>3, <2>4, <2>5, <2>6 DEF ok, D
  <1>8. CASE VoltageServed /\ s.msg = VOLTAGE_CONFIG_SET
    <2> DEFINE d == s.args[1]
    <2>1. VoltageHandler!ConfigSet(d, s.args[2])
      BY <1>1, <1>8 DEF VoltageHandler!HandleVoltage, VOLTAGE_CONFIG_SET,
         VoltageHandler!PROTOCOL_VERSION, VoltageHandler!PROTOCOL_ATTRIBUTES,
         VoltageHandler!PROTOCOL_MESSAGE_ATTRIBUTES, VoltageHandler!VOLTAGE_DOMAIN_ATTRIBUTES,
         VoltageHandler!VOLTAGE_DESCRIBE_LEVELS, VoltageHandler!VOLTAGE_CONFIG_SET,
         VoltageHandler!VOLTAGE_CONFIG_GET, VoltageHandler!VOLTAGE_LEVEL_SET,
         VoltageHandler!VOLTAGE_LEVEL_GET
    <2>2. d \in D => ok
      BY <1>3, <2>1 DEF VoltageHandler!ConfigSet, VoltageHandler!Respond, SCMI_SUCCESS,
         VoltageHandler!SCMI_SUCCESS, VoltageHandler!FoundThen
    <2>3. voltage_level' = voltage_level
          /\ voltage_mode' = [x \in D |-> IF x = d THEN s.args[2] ELSE voltage_mode[x]]
      BY <2>1 DEF VoltageHandler!ConfigSet
    <2>4. s.msg # VOLTAGE_LEVEL_SET
      BY <1>8 DEF VOLTAGE_CONFIG_SET, VOLTAGE_LEVEL_SET
    <2> HIDE DEF ok, D
    <2>5. voltage_mode' = [x \in D |-> IF ok /\ d = x THEN s.args[2] ELSE voltage_mode[x]]
      BY <1>4, <2>2, <2>3
    <2> QED BY <1>2, <1>4, <1>8, <2>3, <2>4, <2>5 DEF ok, D
  <1> QED BY <1>5, <1>6, <1>7, <1>8 DEF VoltageMovers

\* The base handler changes what the agent has access to by three commands; the power handler
\* grants nothing without it.
LEMMA AccessEffect ==
  ASSUME Shapes, PlatformOK, NEW s, FromBaseHandler(s), Execute(s),
         s.proto = PROTOCOL_BASE /\ s.msg = BASE_SET_DEVICE_PERMISSIONS =>
           s.args[2] \in {Device, ForeignDevice}
  PROVE  LET ok == Answered(s).status = SCMI_SUCCESS
         IN /\ UNCHANGED <<performanceVars, clockVars, voltageVars, notifying>>
            /\ s.proto # PROTOCOL_BASE \/ s.msg \notin BaseMovers \/ ~ok =>
                 UNCHANGED <<device_access, protocol_access>>
            /\ \A d \in DOMAIN device_access' \ {0} : device_access'[d] = TRUE
            /\ s.proto = PROTOCOL_POWER_DOMAIN /\ ok => device_access[0] /\ protocol_access
  <1> DEFINE ok == Answered(s).status = SCMI_SUCCESS
             Others == \A d \in DOMAIN device_access' \ {0} : device_access'[d] = TRUE
             Same == UNCHANGED <<device_access, protocol_access>>
  <1>1. UNCHANGED <<performanceVars, clockVars, voltageVars, notifying>>
    <2>1. ~IsNotify(s)
      BY DEF IsNotify, PROTOCOL_PERFORMANCE, PROTOCOL_SENSOR, FromBaseHandler, PROTOCOL_BASE,
         PROTOCOL_POWER_DOMAIN
    <2>2. Dispatch(s) /\ notifying' = notifying
      BY <2>1 DEF Execute
    <2> QED BY <2>2 DEF Dispatch, FromBaseHandler, PROTOCOL_BASE, PROTOCOL_POWER_DOMAIN,
       PROTOCOL_SYSTEM_POWER, PROTOCOL_PERFORMANCE, PROTOCOL_CLOCK, PROTOCOL_SENSOR,
       PROTOCOL_RESET, PROTOCOL_VOLTAGE
  <1>2. /\ device_access \in [0..(NumDevices - 1) -> BOOLEAN]
        /\ \A d \in DOMAIN device_access \ {0} : device_access[d] = TRUE
    BY DEF Shapes, PlatformOK
  <1>3. ok <=> base_reply'.status = SCMI_SUCCESS
    BY DEF Answered
  <1>4. Same => Others
    BY <1>2
  <1> HIDE DEF ok
  <1>5. CASE s.proto = PROTOCOL_POWER_DOMAIN
    <2>1. BaseHandler!PowerHandle(s.msg, s.args)
      BY <1>5 DEF Execute, Dispatch, PROTOCOL_BASE, PROTOCOL_POWER_DOMAIN,
       PROTOCOL_SYSTEM_POWER, PROTOCOL_PERFORMANCE, PROTOCOL_CLOCK, PROTOCOL_SENSOR,
       PROTOCOL_RESET, PROTOCOL_VOLTAGE
    <2>2. PICK m, a, st : BaseHandler!PowerRespond(m, a, st)
      BY <2>1 DEF BaseHandler!PowerHandle, BaseHandler!PowerQuery, BaseHandler!PowerMsgAttr,
         BaseHandler!PowerDomainAttributes, BaseHandler!PowerStateSet, BaseHandler!PowerStateGet,
         BaseHandler!PowerStateNotify, BaseHandler!PowerStateChangeRequestedNotify,
         BaseHandler!PowerUnknown
    <2>3. Same
      BY <2>2 DEF BaseHandler!PowerRespond, BaseHandler!tables
    <2>4. ok => device_access[0] /\ protocol_access
      BY <1>3, <2>2 DEF BaseHandler!PowerRespond, BaseHandler!Respond, SCMI_SUCCESS,
         BaseHandler!SCMI_DENIED, BaseHandler!device_access_permitted,
         BaseHandler!protocol_access_permitted
    <2>5. s.proto # PROTOCOL_BASE
      BY <1>5 DEF PROTOCOL_BASE, PROTOCOL_POWER_DOMAIN
    <2> QED BY <1>1, <1>4, <2>3, <2>4, <2>5 DEF ok
  <1>6. CASE s.proto = PROTOCOL_BASE
    <2>1. BaseHandler!BaseHandle(s.msg, s.args)
      BY <1>6, Handled DEF Execute
    <2>2. s.proto # PROTOCOL_POWER_DOMAIN
      BY <1>6 DEF PROTOCOL_BASE, PROTOCOL_POWER_DOMAIN
    <2>3. CASE s.msg \notin BaseMovers
      <3>1. Same
        BY <2>1, <2>3 DEF BaseHandler!BaseHandle, BaseHandler!BaseQuery,
           BaseHandler!BaseSubVendor, BaseHandler!BaseMsgAttr, BaseHandler!BaseListProtocols,
           BaseHandler!BaseDiscoverAgent, BaseHandler!BaseNotifyErrors, BaseHandler!BaseUnknown,
           BaseHandler!tables, BaseMovers, BASE_SET_DEVICE_PERMISSIONS,
           BASE_SET_PROTOCOL_PERMISSIONS, BASE_RESET_AGENT_CONFIGURATION,
           BaseHandler!BASE_SET_DEVICE_PERMISSIONS, BaseHandler!BASE_SET_PROTOCOL_PERMISSIONS,
           BaseHandler!BASE_RESET_AGENT_CONFIGURATION
      <3> QED BY <1>1, <1>4, <2>2, <3>1 DEF ok
    <2>4. CASE s.msg = BASE_SET_DEVICE_PERMISSIONS
      <3> DEFINE d == s.args[2]
                 flags == s.args[3]
      <3>1. BaseHandler!BaseSetDevicePermissions(s.args[1], d, flags)
        BY <2>1, <2>4 DEF BaseHandler!BaseHandle, BASE_SET_DEVICE_PERMISSIONS,
           BaseHandler!BASE_SET_DEVICE_PERMISSIONS, BaseHandler!BASE_SET_PROTOCOL_PERMISSIONS,
           BaseHandler!BASE_RESET_AGENT_CONFIGURATION, BaseHandler!PROTOCOL_VERSION,
           BaseHandler!PROTOCOL_ATTRIBUTES, BaseHandler!PROTOCOL_MESSAGE_ATTRIBUTES,
           BaseHandler!BASE_DISCOVER_VENDOR, BaseHandler!BASE_DISCOVER_SUB_VENDOR,
           BaseHandler!BASE_DISCOVER_IMPLEMENTATION_VERSION,
           BaseHandler!BASE_DISCOVER_LIST_PROTOCOLS, BaseHandler!BASE_DISCOVER_AGENT,
           BaseHandler!BASE_NOTIFY_ERRORS
      <3>2. ~ok => Same
        BY <1>3, <3>1 DEF BaseHandler!BaseSetDevicePermissions, BaseHandler!BaseRespond,
           BaseHandler!Respond, SCMI_SUCCESS, BaseHandler!SCMI_SUCCESS
      <3>3. d \in BaseHandler!AccessDevice => d = 0
        BY <1>6, <2>4, AccessTableAssumption DEF BaseHandler!AccessDevice
      <3>4. \/ device_access' = device_access
            \/ device_access' =
                 [e \in BaseHandler!AccessDevice |->
                    IF e = d THEN flags = BaseHandler!FLAG_ACCESS_ALLOW ELSE device_access[e]]
        BY <3>1, Zenon DEF BaseHandler!BaseSetDevicePermissions
      <3>5. Others
        BY <1>2, <3>3, <3>4 DEF BaseHandler!AccessDevice
      <3> QED BY <1>1, <1>6, <2>2, <2>4, <3>2, <3>5 DEF ok, BaseMovers
    <2>5. CASE s.msg = BASE_SET_PROTOCOL_PERMISSIONS
      <3>1. BaseHandler!BaseSetProtocolPermissions(s.args[1], s.args[2], s.args[3], s.args[4])
        BY <2>1, <2>5 DEF BaseHandler!BaseHandle, BASE_SET_PROTOCOL_PERMISSIONS,
           BaseHandler!BASE_SET_DEVICE_PERMISSIONS, BaseHandler!BASE_SET_PROTOCOL_PERMISSIONS,
           BaseHandler!BASE_RESET_AGENT_CONFIGURATION, BaseHandler!PROTOCOL_VERSION,
           BaseHandler!PROTOCOL_ATTRIBUTES, BaseHandler!PROTOCOL_MESSAGE_ATTRIBUTES,
           BaseHandler!BASE_DISCOVER_VENDOR, BaseHandler!BASE_DISCOVER_SUB_VENDOR,
           BaseHandler!BASE_DISCOVER_IMPLEMENTATION_VERSION,
           BaseHandler!BASE_DISCOVER_LIST_PROTOCOLS, BaseHandler!BASE_DISCOVER_AGENT,
           BaseHandler!BASE_NOTIFY_ERRORS
      <3>2. device_access' = device_access /\ (~ok => protocol_access' = protocol_access)
        BY <1>3, <3>1 DEF BaseHandler!BaseSetProtocolPermissions, BaseHandler!BaseRespond,
           BaseHandler!Respond, SCMI_SUCCESS, BaseHandler!SCMI_SUCCESS
      <3> QED BY <1>1, <1>2, <1>6, <2>2, <2>5, <3>2 DEF ok, BaseMovers
    <2>6. CASE s.msg = BASE_RESET_AGENT_CONFIGURATION
      <3>1. BaseHandler!BaseResetAgentConfiguration(s.args[1], s.args[2])
        BY <2>1, <2>6 DEF BaseHandler!BaseHandle, BASE_RESET_AGENT_CONFIGURATION,
           BaseHandler!BASE_SET_DEVICE_PERMISSIONS, BaseHandler!BASE_SET_PROTOCOL_PERMISSIONS,
           BaseHandler!BASE_RESET_AGENT_CONFIGURATION, BaseHandler!PROTOCOL_VERSION,
           BaseHandler!PROTOCOL_ATTRIBUTES, BaseHandler!PROTOCOL_MESSAGE_ATTRIBUTES,
           BaseHandler!BASE_DISCOVER_VENDOR, BaseHandler!BASE_DISCOVER_SUB_VENDOR,
           BaseHandler!BASE_DISCOVER_IMPLEMENTATION_VERSION,
           BaseHandler!BASE_DISCOVER_LIST_PROTOCOLS, BaseHandler!BASE_DISCOVER_AGENT,
           BaseHandler!BASE_NOTIFY_ERRORS
      <3>2. ~ok => Same
        BY <1>3, <3>1 DEF BaseHandler!BaseResetAgentConfiguration, BaseHandler!BaseRespond,
           BaseHandler!Respond, SCMI_SUCCESS, BaseHandler!SCMI_SUCCESS
      <3>3. \/ device_access' = device_access
            \/ device_access' = [device_access EXCEPT ![0] = TRUE]
        BY <3>1 DEF BaseHandler!BaseResetAgentConfiguration
      <3>4. Others
        BY <1>2, <3>3
      <3> QED BY <1>1, <1>6, <2>2, <2>6, <3>2, <3>4 DEF ok, BaseMovers
    <2> QED BY <2>3, <2>4, <2>5, <2>6 DEF BaseMovers
  <1> QED BY <1>5, <1>6 DEF FromBaseHandler

\* The system power, sensor and reset handlers have no settings, but for the updates of sensors.
LEMMA OtherEffect ==
  ASSUME NEW s, s.proto \in {PROTOCOL_SYSTEM_POWER, PROTOCOL_SENSOR, PROTOCOL_RESET}, Execute(s)
  PROVE  /\ UNCHANGED <<device_access, protocol_access, performanceVars, clockVars, voltageVars>>
         /\ notifying' = notifying
            \/ /\ s.proto = PROTOCOL_SENSOR /\ s.msg \in SensorMovers
               /\ Answered(s).status = SCMI_SUCCESS
  <1>1. UNCHANGED <<device_access, protocol_access, performanceVars, clockVars, voltageVars>>
    BY DEF Execute, Dispatch, baseVars, PROTOCOL_BASE, PROTOCOL_POWER_DOMAIN,
       PROTOCOL_SYSTEM_POWER, PROTOCOL_PERFORMANCE, PROTOCOL_CLOCK, PROTOCOL_SENSOR,
       PROTOCOL_RESET, PROTOCOL_VOLTAGE
  <1>2. Answered(s).status = reply'.status
    BY Read DEF FromBaseHandler, PROTOCOL_BASE, PROTOCOL_POWER_DOMAIN, PROTOCOL_SYSTEM_POWER,
       PROTOCOL_SENSOR, PROTOCOL_RESET
  <1>3. IsNotify(s) => s.proto = PROTOCOL_SENSOR /\ s.msg \in SensorMovers
    BY DEF IsNotify, SensorMovers, PROTOCOL_SYSTEM_POWER, PROTOCOL_PERFORMANCE, PROTOCOL_SENSOR,
       PROTOCOL_RESET
  <1> QED BY <1>1, <1>2, <1>3 DEF Execute


-----------------------------------------------------------------------------
(* What a step of a test that changes settings puts where.                 *)

\* A setting is one of a kind, of a domain or clock x; for notifications x is a
\* command and a domain.
Kinds == {"limits", "levels", "rates", "clocks", "voltages", "notifying"}

Setting(k, x) ==
  /\ k \in Kinds
  /\ k \in {"limits", "levels"} => x \in PerformanceHandler!DomainId
  /\ k \in {"rates", "clocks"} => x \in ClockHandler!ClockId
  /\ k = "voltages" => x \in VoltageHandler!VoltageDomain

Found(k, x, settings) ==
  CASE k = "limits"    -> settings.limits[x]
    [] k = "levels"    -> settings.levels[x]
    [] k = "rates"     -> settings.rates[x]
    [] k = "clocks"    -> settings.clocks[x]
    [] k = "voltages"  -> settings.voltages[x]
    [] k = "notifying" -> IF x \in settings.notifying THEN 1 ELSE 0

\* Step s is a command that is to change setting x of kind k.
Sends(s, p, m) ==
  s.kind = "check" /\ s.expect = SCMI_SUCCESS /\ s.proto = p /\ s.msg = m

Puts(k, x, s) ==
  \/ k = "limits" /\ Sends(s, PROTOCOL_PERFORMANCE, PERFORMANCE_LIMITS_SET) /\ s.args[1] = x
  \/ k = "levels" /\ Sends(s, PROTOCOL_PERFORMANCE, PERFORMANCE_LEVEL_SET) /\ s.args[1] = x
  \/ k = "rates" /\ Sends(s, PROTOCOL_CLOCK, CLOCK_RATE_SET) /\ s.args[2] = x
  \/ k = "clocks" /\ Sends(s, PROTOCOL_CLOCK, CLOCK_CONFIG_SET) /\ s.args[1] = x
  \/ k = "voltages" /\ Sends(s, PROTOCOL_VOLTAGE, VOLTAGE_LEVEL_SET) /\ s.args[1] = x
  \/ /\ k = "notifying"
     /\ \/ Sends(s, PROTOCOL_PERFORMANCE, PERFORMANCE_NOTIFY_LIMITS)
        \/ Sends(s, PROTOCOL_PERFORMANCE, PERFORMANCE_NOTIFY_LEVEL)
     /\ x = <<s.msg, s.args[1]>>

\* It is a question the answer to which adds such commands.
WillPut(k, x, s) ==
  \/ k = "voltages" /\ s.proto = PROTOCOL_VOLTAGE /\ s.learn = "start" /\ s.args[1] = x
  \/ /\ k = "notifying" /\ s.proto = PROTOCOL_PERFORMANCE
     /\ \/ s.learn = "limits_before" /\ x = <<PERFORMANCE_NOTIFY_LIMITS, s.args[1]>>
        \/ s.learn = "level_before" /\ x = <<PERFORMANCE_NOTIFY_LEVEL, s.args[1]>>

Put(k, x, s) == Puts(k, x, s) \/ WillPut(k, x, s)

\* What the setting is after the command, or after those that the answer adds.
Value(k, s) ==
  CASE k = "limits"    -> LimitsSent(s)
    [] k = "levels"    -> LevelSent(s)
    [] k = "rates"     -> s.args[3]
    [] k = "clocks"    -> s.args[2]
    [] k = "voltages"  -> IF s.learn = "start" THEN s.seen[1] ELSE s.args[3]
    [] k = "notifying" -> IF s.learn = "nothing" /\ s.args[2] = 1 THEN 1 ELSE 0

After(k, x, s, now) == IF Put(k, x, s) THEN Value(k, s) ELSE now

\* A notification may be given up instead.
Within(k, now, was) == now = was \/ (k = "notifying" /\ now = 0)

\* Program q ends with the setting as it was: it is so now and stays, or the
\* last step that puts it somewhere puts it back.
Ends(k, x, q, now, was) ==
  /\ (\A i \in DOMAIN q : ~Put(k, x, q[i])) => Within(k, now, was)
  /\ \A i \in DOMAIN q :
       Put(k, x, q[i]) /\ (\A j \in DOMAIN q : Put(k, x, q[j]) => j <= i)
         => Within(k, Value(k, q[i]), was)

\* The steps of a test that changes settings one by one.  The search for a
\* domain to try is all that is left to do while it lasts.
Restorable(s) ==
  /\ s.kind \in {"check", "receive"} /\ s.expect = SCMI_SUCCESS
  /\ s.proto \in {PROTOCOL_PERFORMANCE, PROTOCOL_CLOCK, PROTOCOL_VOLTAGE}
  /\ s.learn \in Changes \cup {"nothing"}
  /\ s.learn # "nothing" => ~Mover(s) /\ s.kind = "check"
  /\ ~(s.proto = PROTOCOL_VOLTAGE /\ s.msg = VOLTAGE_CONFIG_SET)

Finding(s) == s.learn \in {"limits_notified", "level_notified"}

RestorableProgram(q) ==
  \A i \in DOMAIN q : Restorable(q[i]) /\ (Finding(q[i]) => Len(q) = 1)

-----------------------------------------------------------------------------
(* The settings before and after a command.                                *)

\* The settings, kind by kind, now and after the next step.
LEMMA FoundNow ==
  /\ \A x \in PerformanceHandler!DomainId :
       /\ Found("limits", x, Settings) = LimitsNow(x)
       /\ Found("limits", x, Settings') = LimitsNow(x)'
       /\ Found("levels", x, Settings) = LevelNow(x)
       /\ Found("levels", x, Settings') = LevelNow(x)'
  /\ \A x \in ClockHandler!ClockId :
       Found("rates", x, Settings) = RateNow(x) /\ Found("rates", x, Settings') = RateNow(x)'
  /\ \A x : /\ Found("clocks", x, Settings) = clock_status[x]
            /\ Found("clocks", x, Settings') = clock_status'[x]
            /\ Found("voltages", x, Settings) = voltage_level[x]
            /\ Found("voltages", x, Settings') = voltage_level'[x]
            /\ Found("notifying", x, Settings) = IF x \in notifying THEN 1 ELSE 0
            /\ Found("notifying", x, Settings') = IF x \in notifying' THEN 1 ELSE 0
  <1>1. \A x, r : /\ Found("limits", x, r) = r.limits[x]
                  /\ Found("levels", x, r) = r.levels[x]
                  /\ Found("rates", x, r) = r.rates[x]
                  /\ Found("clocks", x, r) = r.clocks[x]
                  /\ Found("voltages", x, r) = r.voltages[x]
                  /\ Found("notifying", x, r) = IF x \in r.notifying THEN 1 ELSE 0
    BY DEF Found
  <1>2. /\ PerformanceHandler!DomainId' = PerformanceHandler!DomainId
        /\ ClockHandler!ClockId' = ClockHandler!ClockId
    BY DEF ClockHandler!ClockId, PerformanceHandler!DomainId
  <1>3. /\ Settings'.limits = [d \in PerformanceHandler!DomainId |-> LimitsNow(d)']
        /\ Settings'.levels = [d \in PerformanceHandler!DomainId |-> LevelNow(d)']
        /\ Settings'.rates = [c \in ClockHandler!ClockId |-> RateNow(c)']
        /\ Settings'.clocks = clock_status'
        /\ Settings'.voltages = voltage_level'
        /\ Settings'.notifying = notifying'
    BY <1>2 DEF Settings, LimitsNow, LevelNow, RateNow
  <1> QED BY <1>1, <1>3, SettingsFields

\* What puts a setting where, kind by kind.
LEMMA PutsAre ==
  ASSUME NEW s, NEW x
  PROVE  LET p == PROTOCOL_PERFORMANCE
             notify == {PERFORMANCE_NOTIFY_LIMITS, PERFORMANCE_NOTIFY_LEVEL}
         IN /\ Puts("limits", x, s) <=> Sends(s, p, PERFORMANCE_LIMITS_SET) /\ s.args[1] = x
            /\ Puts("levels", x, s) <=> Sends(s, p, PERFORMANCE_LEVEL_SET) /\ s.args[1] = x
            /\ Puts("rates", x, s) <=> Sends(s, PROTOCOL_CLOCK, CLOCK_RATE_SET) /\ s.args[2] = x
            /\ Puts("clocks", x, s) <=> Sends(s, PROTOCOL_CLOCK, CLOCK_CONFIG_SET) /\ s.args[1] = x
            /\ Puts("voltages", x, s) <=>
                 Sends(s, PROTOCOL_VOLTAGE, VOLTAGE_LEVEL_SET) /\ s.args[1] = x
            /\ Puts("notifying", x, s) <=>
                 Sends(s, p, s.msg) /\ s.msg \in notify /\ x = <<s.msg, s.args[1]>>
            /\ Value("limits", s) = LimitsSent(s) /\ Value("levels", s) = LevelSent(s)
            /\ Value("rates", s) = s.args[3] /\ Value("clocks", s) = s.args[2]
            /\ Value("voltages", s) = IF s.learn = "start" THEN s.seen[1] ELSE s.args[3]
            /\ Value("notifying", s) = IF s.learn = "nothing" /\ s.args[2] = 1 THEN 1 ELSE 0
  <1>1. /\ Value("limits", s) = LimitsSent(s) /\ Value("levels", s) = LevelSent(s)
        /\ Value("rates", s) = s.args[3] /\ Value("clocks", s) = s.args[2]
        /\ Value("voltages", s) = IF s.learn = "start" THEN s.seen[1] ELSE s.args[3]
        /\ Value("notifying", s) = IF s.learn = "nothing" /\ s.args[2] = 1 THEN 1 ELSE 0
    BY DEF Value
  <1> QED BY <1>1 DEF Puts, Sends

\* A step that puts a setting somewhere teaches nothing.
LEMMA PuttersAreMovers ==
  ASSUME NEW k, NEW x, NEW s, Restorable(s), Puts(k, x, s)
  PROVE  s.learn = "nothing" /\ s.kind = "check"
  BY DEF Puts, Sends, Restorable, Mover, PerformanceMovers, ClockMovers, VoltageMovers

\* A command that succeeds puts the one setting it names where it says.
LEMMA Moved ==
  ASSUME Shapes, NEW s, Restorable(s), s.kind = "check", Execute(s),
         Answered(s).status = SCMI_SUCCESS
  PROVE  /\ \A k, x : Setting(k, x) =>
              Found(k, x, Settings')
                = IF Puts(k, x, s) THEN Value(k, s) ELSE Found(k, x, Settings)
         /\ Settings'.modes = Settings.modes /\ Settings'.access = Settings.access
  <1> DEFINE Same(k, x) == Found(k, x, Settings') = Found(k, x, Settings)
             Fits(k, x) == Found(k, x, Settings')
                             = IF Puts(k, x, s) THEN Value(k, s) ELSE Found(k, x, Settings)
             D == PerformanceHandler!DomainId
             C == ClockHandler!ClockId
             V == VoltageHandler!VoltageDomain
  <1>0. SUFFICES /\ \A x \in D : Fits("limits", x) /\ Fits("levels", x)
                 /\ \A x \in C : Fits("rates", x) /\ Fits("clocks", x)
                 /\ \A x \in V : Fits("voltages", x)
                 /\ \A x : Fits("notifying", x)
                 /\ voltage_mode' = voltage_mode /\ device_access' = device_access
                 /\ protocol_access' = protocol_access
    <2>1. Settings'.modes = voltage_mode' /\ Settings'.access = <<device_access', protocol_access'>>
      BY DEF Settings
    <2> HIDE DEF Fits
    <2> QED BY <2>1, SettingsFields, Zenon DEF Setting, Kinds, Fits
  <1>a. /\ s.expect = SCMI_SUCCESS
        /\ s.learn # "nothing" => ~Mover(s)
        /\ ~(s.proto = PROTOCOL_VOLTAGE /\ s.msg = VOLTAGE_CONFIG_SET)
    BY DEF Restorable
  <1>b. \A p, m : Sends(s, p, m) <=> s.proto = p /\ s.msg = m
    BY <1>a DEF Sends
  <1>c. /\ PROTOCOL_PERFORMANCE # PROTOCOL_CLOCK /\ PROTOCOL_PERFORMANCE # PROTOCOL_VOLTAGE
        /\ PROTOCOL_CLOCK # PROTOCOL_VOLTAGE
    BY DEF PROTOCOL_PERFORMANCE, PROTOCOL_CLOCK, PROTOCOL_VOLTAGE
  <1>1. CASE s.proto = PROTOCOL_PERFORMANCE
    <2>1. /\ UNCHANGED <<device_access, protocol_access, clockVars, voltageVars>>
          /\ \A d \in D :
               /\ LimitsNow(d)' = IF s.msg = PERFORMANCE_LIMITS_SET /\ s.args[1] = d
                                  THEN LimitsSent(s) ELSE LimitsNow(d)
               /\ LevelNow(d)' = IF s.msg = PERFORMANCE_LEVEL_SET /\ s.args[1] = d
                                 THEN LevelSent(s) ELSE LevelNow(d)
          /\ notifying' = IF s.msg \in {PERFORMANCE_NOTIFY_LIMITS, PERFORMANCE_NOTIFY_LEVEL}
                          THEN IF s.args[2] = 1 THEN notifying \cup {<<s.msg, s.args[1]>>}
                               ELSE notifying \ {<<s.msg, s.args[1]>>}
                          ELSE notifying
      BY <1>1, PerformanceEffect
    <2>2. \A c : RateNow(c)' = RateNow(c)
      BY <2>1 DEF RateNow, clockVars, ClockHandler!CurrentRate, ClockHandler!Rate
    <2>3. s.msg \in {PERFORMANCE_NOTIFY_LIMITS, PERFORMANCE_NOTIFY_LEVEL} => s.learn = "nothing"
      BY <1>a, <1>1 DEF Mover, PerformanceMovers
    <2>4. \A x \in D : Fits("limits", x) /\ Fits("levels", x)
      BY <1>b, <1>1, <2>1, FoundNow, PutsAre
    <2>5. \A x : /\ x \in C => Fits("rates", x)
                 /\ Fits("clocks", x) /\ Fits("voltages", x)
      BY <1>b, <1>c, <1>1, <2>1, <2>2, FoundNow, PutsAre DEF clockVars, voltageVars
    <2>6. ASSUME NEW x PROVE Fits("notifying", x)
      <3>1. /\ Puts("notifying", x, s) <=>
                 /\ s.msg \in {PERFORMANCE_NOTIFY_LIMITS, PERFORMANCE_NOTIFY_LEVEL}
                 /\ x = <<s.msg, s.args[1]>>
            /\ Value("notifying", s) = IF s.learn = "nothing" /\ s.args[2] = 1 THEN 1 ELSE 0
        BY <1>b, <1>1, PutsAre
      <3>2. /\ Found("notifying", x, Settings) = IF x \in notifying THEN 1 ELSE 0
            /\ Found("notifying", x, Settings') = IF x \in notifying' THEN 1 ELSE 0
        BY FoundNow
      <3> QED BY <2>1, <2>3, <3>1, <3>2
    <2> QED BY <2>1, <2>4, <2>5, <2>6 DEF voltageVars
  <1>2. CASE s.proto = PROTOCOL_CLOCK
    <2>1. /\ UNCHANGED <<device_access, protocol_access, performanceVars, voltageVars, notifying>>
          /\ clock_status' = [c \in C |-> IF s.msg = CLOCK_CONFIG_SET /\ s.args[1] = c
                                          THEN s.args[2] ELSE clock_status[c]]
          /\ \A c \in C : RateNow(c)' = IF s.msg = CLOCK_RATE_SET /\ s.args[2] = c
                                         THEN s.args[3] ELSE RateNow(c)
      BY <1>2, ClockEffect
    <2>2. \A d : LimitsNow(d)' = LimitsNow(d) /\ LevelNow(d)' = LevelNow(d)
      BY <2>1 DEF LimitsNow, LevelNow, performanceVars, PerformanceHandler!RangeMax,
         PerformanceHandler!RangeMin, PerformanceHandler!NoLimits, PerformanceHandler!Top,
         PerformanceHandler!Bottom, PerformanceHandler!CurrentLevel
    <2>3. ASSUME NEW x \in C PROVE Fits("rates", x) /\ Fits("clocks", x)
      <3>1. /\ Found("rates", x, Settings) = RateNow(x)
            /\ Found("rates", x, Settings') = RateNow(x)'
            /\ Found("clocks", x, Settings) = clock_status[x]
            /\ Found("clocks", x, Settings') = clock_status'[x]
        BY FoundNow
      <3>2. /\ Puts("rates", x, s) <=> s.msg = CLOCK_RATE_SET /\ s.args[2] = x
            /\ Puts("clocks", x, s) <=> s.msg = CLOCK_CONFIG_SET /\ s.args[1] = x
            /\ Value("rates", s) = s.args[3] /\ Value("clocks", s) = s.args[2]
        BY <1>b, <1>2, PutsAre
      <3>3. clock_status'[x] = IF s.msg = CLOCK_CONFIG_SET /\ s.args[1] = x
                               THEN s.args[2] ELSE clock_status[x]
        BY <2>1
      <3>4. RateNow(x)' = IF s.msg = CLOCK_RATE_SET /\ s.args[2] = x
                          THEN s.args[3] ELSE RateNow(x)
        BY <2>1
      <3> QED BY <3>1, <3>2, <3>3, <3>4
    <2>4. \A x : /\ x \in D => Fits("limits", x) /\ Fits("levels", x)
                 /\ Fits("voltages", x) /\ Fits("notifying", x)
      BY <1>b, <1>c, <1>2, <2>1, <2>2, FoundNow, PutsAre DEF voltageVars
    <2> QED BY <2>1, <2>3, <2>4 DEF voltageVars
  <1>3. CASE s.proto = PROTOCOL_VOLTAGE
    <2>1. /\ UNCHANGED <<device_access, protocol_access, performanceVars, clockVars, notifying>>
          /\ voltage_level' = [d \in V |-> IF s.msg = VOLTAGE_LEVEL_SET /\ s.args[1] = d
                                           THEN s.args[3] ELSE voltage_level[d]]
          /\ voltage_mode' = [d \in V |-> voltage_mode[d]]
      BY <1>a, <1>3, VoltageEffect
    <2>2. \A d : LimitsNow(d)' = LimitsNow(d) /\ LevelNow(d)' = LevelNow(d)
      BY <2>1 DEF LimitsNow, LevelNow, performanceVars, PerformanceHandler!RangeMax,
         PerformanceHandler!RangeMin, PerformanceHandler!NoLimits, PerformanceHandler!Top,
         PerformanceHandler!Bottom, PerformanceHandler!CurrentLevel
    <2>3. \A c : RateNow(c)' = RateNow(c)
      BY <2>1 DEF RateNow, clockVars, ClockHandler!CurrentRate, ClockHandler!Rate
    <2>4. s.msg = VOLTAGE_LEVEL_SET => s.learn = "nothing"
      BY <1>a, <1>3 DEF Mover, VoltageMovers
    <2>5. ASSUME NEW x \in V PROVE Fits("voltages", x)
      <3>1. /\ Found("voltages", x, Settings) = voltage_level[x]
            /\ Found("voltages", x, Settings') = voltage_level'[x]
        BY FoundNow
      <3>2. /\ Puts("voltages", x, s) <=> s.msg = VOLTAGE_LEVEL_SET /\ s.args[1] = x
            /\ Value("voltages", s) = IF s.learn = "start" THEN s.seen[1] ELSE s.args[3]
        BY <1>b, <1>3, PutsAre
      <3>3. voltage_level'[x] = IF s.msg = VOLTAGE_LEVEL_SET /\ s.args[1] = x
                                THEN s.args[3] ELSE voltage_level[x]
        BY <2>1
      <3> QED BY <2>4, <3>1, <3>2, <3>3
    <2>6. \A x : /\ x \in D => Fits("limits", x) /\ Fits("levels", x)
                 /\ x \in C => Fits("rates", x)
                 /\ Fits("clocks", x) /\ Fits("notifying", x)
      BY <1>b, <1>c, <1>3, <2>1, <2>2, <2>3, FoundNow, PutsAre DEF clockVars
    <2>7. voltage_mode' = voltage_mode
      BY <2>1 DEF Shapes
    <2> QED BY <2>1, <2>5, <2>6, <2>7
  <1> QED BY <1>1, <1>2, <1>3 DEF Restorable

\* The protocol of a command is one of eight.
LEMMA OfProtocol ==
  ASSUME NEW s, Execute(s)
  PROVE  \/ FromBaseHandler(s)
         \/ s.proto = PROTOCOL_PERFORMANCE \/ s.proto = PROTOCOL_CLOCK
         \/ s.proto \in {PROTOCOL_SYSTEM_POWER, PROTOCOL_SENSOR, PROTOCOL_RESET}
         \/ s.proto = PROTOCOL_VOLTAGE
  BY DEF Execute, Dispatch, FromBaseHandler

\* Commands change the settings, not what there are settings for.
LEMMA ShapesKept ==
  ASSUME Shapes, PlatformOK, NEW p, NEW t, NEW s, Good(p, t, s), Execute(s)
  PROVE  Shapes'
  <1>1. /\ PerformanceHandler!DomainId' = PerformanceHandler!DomainId
        /\ ClockHandler!ClockId' = ClockHandler!ClockId
        /\ VoltageHandler!VoltageDomain' = VoltageHandler!VoltageDomain
    BY DEF ClockHandler!ClockId, PerformanceHandler!DomainId, VoltageHandler!VoltageDomain
  <1> USE <1>1
  <1>2. CASE FromBaseHandler(s)
    <2>1. s.proto = PROTOCOL_BASE /\ s.msg = BASE_SET_DEVICE_PERMISSIONS =>
            s.args[2] \in {Device, ForeignDevice}
      BY DEF Good, Allowed
    <2>2. /\ UNCHANGED <<performanceVars, clockVars, voltageVars>>
          /\ \A d \in DOMAIN device_access' \ {0} : device_access'[d] = TRUE
      BY <1>2, <2>1, AccessEffect
    <2> QED BY <2>2 DEF Shapes, performanceVars, clockVars, voltageVars
  <1>3. CASE s.proto = PROTOCOL_PERFORMANCE
    BY <1>3, PerformanceEffect DEF Shapes, clockVars, voltageVars
  <1>4. CASE s.proto = PROTOCOL_CLOCK
    <2>1. /\ UNCHANGED <<device_access, performanceVars, voltageVars>>
          /\ DOMAIN clock_rate' = ClockHandler!ClockId
      BY <1>4, ClockEffect
    <2>2. clock_status' = [c \in ClockHandler!ClockId |-> clock_status'[c]]
      BY <1>4, ClockEffect
    <2> QED BY <2>1, <2>2 DEF Shapes, performanceVars, voltageVars
  <1>5. CASE s.proto \in {PROTOCOL_SYSTEM_POWER, PROTOCOL_SENSOR, PROTOCOL_RESET}
    BY <1>5, OtherEffect DEF Shapes, performanceVars, clockVars, voltageVars
  <1>6. CASE s.proto = PROTOCOL_VOLTAGE
    <2>1. UNCHANGED <<device_access, performanceVars, clockVars>>
      BY <1>6, VoltageEffect
    <2>2. /\ voltage_level' = [d \in VoltageHandler!VoltageDomain |-> voltage_level'[d]]
          /\ voltage_mode' = [d \in VoltageHandler!VoltageDomain |-> voltage_mode'[d]]
      BY <1>6, VoltageEffect
    <2> QED BY <2>1, <2>2 DEF Shapes, performanceVars, clockVars
  <1> QED BY <1>2, <1>3, <1>4, <1>5, <1>6, OfProtocol

\* Settings are equal if each setting is.
LEMMA EachSetting ==
  ASSUME \A d \in PerformanceHandler!DomainId :
           LimitsNow(d)' = LimitsNow(d) /\ LevelNow(d)' = LevelNow(d),
         \A c \in ClockHandler!ClockId : RateNow(c)' = RateNow(c),
         UNCHANGED <<clock_status, voltage_level, voltage_mode, device_access, protocol_access,
                     notifying>>
  PROVE  Settings' = Settings
  <1>1. /\ PerformanceHandler!DomainId' = PerformanceHandler!DomainId
        /\ ClockHandler!ClockId' = ClockHandler!ClockId
    BY DEF ClockHandler!ClockId, PerformanceHandler!DomainId
  <1>2. /\ [d \in PerformanceHandler!DomainId |-> LimitsNow(d)']
             = [d \in PerformanceHandler!DomainId |-> LimitsNow(d)]
        /\ [d \in PerformanceHandler!DomainId |-> LevelNow(d)']
             = [d \in PerformanceHandler!DomainId |-> LevelNow(d)]
        /\ [c \in ClockHandler!ClockId |-> RateNow(c)']
             = [c \in ClockHandler!ClockId |-> RateNow(c)]
    OBVIOUS
  <1>3. Settings = [limits |-> [d \in PerformanceHandler!DomainId |-> LimitsNow(d)],
                    levels |-> [d \in PerformanceHandler!DomainId |-> LevelNow(d)],
                    rates  |-> [c \in ClockHandler!ClockId |-> RateNow(c)],
                    clocks |-> clock_status,
                    voltages |-> voltage_level, modes |-> voltage_mode,
                    access |-> <<device_access, protocol_access>>, notifying |-> notifying]
    BY DEF Settings, LimitsNow, LevelNow, RateNow
  <1>4. Settings' = [limits |-> [d \in PerformanceHandler!DomainId |-> LimitsNow(d)'],
                     levels |-> [d \in PerformanceHandler!DomainId |-> LevelNow(d)'],
                     rates  |-> [c \in ClockHandler!ClockId |-> RateNow(c)'],
                     clocks |-> clock_status',
                     voltages |-> voltage_level', modes |-> voltage_mode',
                     access |-> <<device_access', protocol_access'>>, notifying |-> notifying']
    BY <1>1 DEF Settings, LimitsNow, LevelNow, RateNow
  <1> QED BY <1>2, <1>3, <1>4

\* A command that is refused changes no setting, nor does one that asks.
LEMMA Frame ==
  ASSUME Shapes, PlatformOK, NEW p, NEW t, NEW s, Good(p, t, s), Execute(s),
         ~Mover(s) \/ Answered(s).status # SCMI_SUCCESS
  PROVE  Settings' = Settings
  <1>1. \A d : UNCHANGED performanceVars =>
                 LimitsNow(d)' = LimitsNow(d) /\ LevelNow(d)' = LevelNow(d)
    BY DEF LimitsNow, LevelNow, performanceVars, PerformanceHandler!RangeMax,
       PerformanceHandler!RangeMin, PerformanceHandler!NoLimits, PerformanceHandler!Top,
       PerformanceHandler!Bottom, PerformanceHandler!CurrentLevel
  <1>2. \A c : UNCHANGED clockVars => RateNow(c)' = RateNow(c)
    BY DEF RateNow, clockVars, ClockHandler!CurrentRate, ClockHandler!Rate
  <1>3. CASE FromBaseHandler(s)
    <2>1. s.proto = PROTOCOL_BASE /\ s.msg = BASE_SET_DEVICE_PERMISSIONS =>
            s.args[2] \in {Device, ForeignDevice}
      BY DEF Good, Allowed
    <2>2. UNCHANGED <<device_access, protocol_access, performanceVars, clockVars, voltageVars,
                      notifying>>
      BY <1>3, <2>1, AccessEffect DEF Mover
    <2> QED BY <1>1, <1>2, <2>2, EachSetting DEF clockVars, voltageVars
  <1>4. CASE s.proto = PROTOCOL_PERFORMANCE
    <2>1. /\ UNCHANGED <<device_access, protocol_access, clockVars, voltageVars, notifying>>
          /\ \A d \in PerformanceHandler!DomainId :
               LimitsNow(d)' = LimitsNow(d) /\ LevelNow(d)' = LevelNow(d)
      BY <1>4, PerformanceEffect DEF Mover, PerformanceMovers
    <2> QED BY <1>2, <2>1, EachSetting DEF clockVars, voltageVars
  <1>5. CASE s.proto = PROTOCOL_CLOCK
    <2>1. /\ UNCHANGED <<device_access, protocol_access, performanceVars, voltageVars, notifying>>
          /\ clock_status' = [c \in ClockHandler!ClockId |-> clock_status[c]]
          /\ \A c \in ClockHandler!ClockId : RateNow(c)' = RateNow(c)
      BY <1>5, ClockEffect DEF Mover, ClockMovers
    <2>2. clock_status' = clock_status
      BY <2>1 DEF Shapes
    <2> QED BY <1>1, <2>1, <2>2, EachSetting DEF voltageVars
  <1>6. CASE s.proto \in {PROTOCOL_SYSTEM_POWER, PROTOCOL_SENSOR, PROTOCOL_RESET}
    <2>1. UNCHANGED <<device_access, protocol_access, performanceVars, clockVars, voltageVars,
                      notifying>>
      BY <1>6, OtherEffect DEF Mover
    <2> QED BY <1>1, <1>2, <2>1, EachSetting DEF clockVars, voltageVars
  <1>7. CASE s.proto = PROTOCOL_VOLTAGE
    <2>1. /\ UNCHANGED <<device_access, protocol_access, performanceVars, clockVars, notifying>>
          /\ voltage_level' = [d \in VoltageHandler!VoltageDomain |-> voltage_level[d]]
          /\ voltage_mode' = [d \in VoltageHandler!VoltageDomain |-> voltage_mode[d]]
      BY <1>7, VoltageEffect DEF Mover, VoltageMovers
    <2>2. voltage_level' = voltage_level /\ voltage_mode' = voltage_mode
      BY <2>1 DEF Shapes
    <2> QED BY <1>1, <1>2, <2>1, <2>2, EachSetting DEF clockVars
  <1> QED BY <1>3, <1>4, <1>5, <1>6, <1>7, OfProtocol

\* What the platform answers is the setting, and setting it to that leaves it
\* so: a level or limits of zero are those of a domain that begins with zero.
LEMMA Reads ==
  ASSUME Shapes, NEW s, Execute(s), Answered(s).status = SCMI_SUCCESS
  PROVE  LET v == Answered(s).value
             x == s.args[1]
         IN /\ s.proto = PROTOCOL_PERFORMANCE /\ s.msg = PERFORMANCE_LIMITS_GET
               /\ x \in PerformanceHandler!DomainId =>
                 LimitsNow(x) = IF v.max = 0 /\ v.min = 0
                                THEN <<PerformanceHandler!Top(x), PerformanceHandler!Bottom(x)>>
                                ELSE <<v.max, v.min>>
            /\ s.proto = PROTOCOL_PERFORMANCE /\ s.msg = PERFORMANCE_LEVEL_GET
               /\ x \in PerformanceHandler!DomainId =>
                 LevelNow(x) = IF v.level = 0 THEN PerformanceHandler!Bottom(x) ELSE v.level
            /\ s.proto = PROTOCOL_CLOCK /\ s.msg = CLOCK_RATE_GET /\ x \in ClockHandler!ClockId =>
                 v.rate = RateNow(x)
            /\ s.proto = PROTOCOL_VOLTAGE /\ s.msg = VOLTAGE_LEVEL_GET
               /\ x \in VoltageHandler!VoltageDomain =>
                 v.level = voltage_level[x]
  <1> DEFINE v == Answered(s).value
             x == s.args[1]
  <1>1. Dispatch(s)
    BY DEF Execute
  <1>2. ASSUME s.proto = PROTOCOL_PERFORMANCE, s.msg = PERFORMANCE_LIMITS_GET,
               x \in PerformanceHandler!DomainId
        PROVE  LimitsNow(x) = IF v.max = 0 /\ v.min = 0
                              THEN <<PerformanceHandler!Top(x), PerformanceHandler!Bottom(x)>>
                              ELSE <<v.max, v.min>>
    <2>1. v = reply'.value /\ reply'.status = SCMI_SUCCESS
      BY <1>2, Read DEF FromBaseHandler, PROTOCOL_BASE, PROTOCOL_POWER_DOMAIN, PROTOCOL_PERFORMANCE,
         PROTOCOL_SENSOR
    <2>2. PerformanceHandler!LimitsGet(x)
      BY <1>1, <1>2, Handled DEF PerformanceHandler!Handle, PERFORMANCE_LIMITS_GET,
         PerformanceHandler!PROTOCOL_VERSION, PerformanceHandler!PROTOCOL_ATTRIBUTES,
         PerformanceHandler!PROTOCOL_MESSAGE_ATTRIBUTES,
         PerformanceHandler!PERFORMANCE_DOMAIN_ATTRIBUTES,
         PerformanceHandler!PERFORMANCE_DESCRIBE_LEVELS, PerformanceHandler!PERFORMANCE_LIMITS_SET,
         PerformanceHandler!PERFORMANCE_LIMITS_GET, PerformanceHandler!PERFORMANCE_LEVEL_SET,
         PerformanceHandler!PERFORMANCE_LEVEL_GET, PerformanceHandler!PERFORMANCE_NOTIFY_LIMITS,
         PerformanceHandler!PERFORMANCE_NOTIFY_LEVEL,
         PerformanceHandler!PERFORMANCE_DESCRIBE_FASTCHANNEL
    <2>3. v = [max |-> PerformanceHandler!RangeMax(x), min |-> PerformanceHandler!RangeMin(x)]
      BY <1>2, <2>1, <2>2 DEF PerformanceHandler!LimitsGet, PerformanceHandler!Report,
         PerformanceHandler!PerformanceRespond, PerformanceHandler!Respond,
         SCMI_SUCCESS, PerformanceHandler!SCMI_SUCCESS
    <2> QED BY <2>3 DEF LimitsNow, PerformanceHandler!RangeMax, PerformanceHandler!RangeMin,
       PerformanceHandler!NoLimits
  <1>3. ASSUME s.proto = PROTOCOL_PERFORMANCE, s.msg = PERFORMANCE_LEVEL_GET,
               x \in PerformanceHandler!DomainId
        PROVE  LevelNow(x) = IF v.level = 0 THEN PerformanceHandler!Bottom(x) ELSE v.level
    <2>1. v = reply'.value /\ reply'.status = SCMI_SUCCESS
      BY <1>3, Read DEF FromBaseHandler, PROTOCOL_BASE, PROTOCOL_POWER_DOMAIN, PROTOCOL_PERFORMANCE,
         PROTOCOL_SENSOR
    <2>2. PerformanceHandler!LevelGet(x)
      BY <1>1, <1>3, Handled DEF PerformanceHandler!Handle, PERFORMANCE_LEVEL_GET,
         PerformanceHandler!PROTOCOL_VERSION, PerformanceHandler!PROTOCOL_ATTRIBUTES,
         PerformanceHandler!PROTOCOL_MESSAGE_ATTRIBUTES,
         PerformanceHandler!PERFORMANCE_DOMAIN_ATTRIBUTES,
         PerformanceHandler!PERFORMANCE_DESCRIBE_LEVELS, PerformanceHandler!PERFORMANCE_LIMITS_SET,
         PerformanceHandler!PERFORMANCE_LIMITS_GET, PerformanceHandler!PERFORMANCE_LEVEL_SET,
         PerformanceHandler!PERFORMANCE_LEVEL_GET, PerformanceHandler!PERFORMANCE_NOTIFY_LIMITS,
         PerformanceHandler!PERFORMANCE_NOTIFY_LEVEL,
         PerformanceHandler!PERFORMANCE_DESCRIBE_FASTCHANNEL
    <2>3. v = [level |-> PerformanceHandler!CurrentLevel(x)]
      BY <1>3, <2>1, <2>2 DEF PerformanceHandler!LevelGet, PerformanceHandler!Report,
         PerformanceHandler!PerformanceRespond, PerformanceHandler!Respond,
         SCMI_SUCCESS, PerformanceHandler!SCMI_SUCCESS
    <2> QED BY <2>3 DEF LevelNow, PerformanceHandler!CurrentLevel
  <1>4. ASSUME s.proto = PROTOCOL_CLOCK, s.msg = CLOCK_RATE_GET, x \in ClockHandler!ClockId
        PROVE  v.rate = RateNow(x)
    <2>1. v = reply'.value /\ reply'.status = SCMI_SUCCESS
      BY <1>4, Read DEF FromBaseHandler, PROTOCOL_BASE, PROTOCOL_POWER_DOMAIN, PROTOCOL_CLOCK,
         PROTOCOL_SENSOR
    <2>0. HandleClock(s.msg, s.args)
      BY <1>1, <1>4, Handled
    <2>2. ClockHandler!RateGet(x)
      BY <1>4, <2>0 DEF HandleClock, ClockHandler!Handle, CLOCK_RATE_GET,
         CLOCK_DESCRIBE_RATES, ClockHandler!PROTOCOL_VERSION, ClockHandler!PROTOCOL_ATTRIBUTES,
         ClockHandler!PROTOCOL_MESSAGE_ATTRIBUTES, ClockHandler!CLOCK_ATTRIBUTES,
         ClockHandler!CLOCK_DESCRIBE_RATES, ClockHandler!CLOCK_RATE_SET,
         ClockHandler!CLOCK_RATE_GET, ClockHandler!CLOCK_CONFIG_SET
    <2>3. v = [rate |-> ClockHandler!CurrentRate(x)]
      BY <1>4, <2>1, <2>2 DEF ClockHandler!RateGet, ClockHandler!ClockReport,
         ClockHandler!ClockRespond, ClockHandler!Respond,
         SCMI_SUCCESS, ClockHandler!SCMI_SUCCESS
    <2> QED BY <2>3 DEF RateNow
  <1>5. ASSUME s.proto = PROTOCOL_VOLTAGE, s.msg = VOLTAGE_LEVEL_GET,
               x \in VoltageHandler!VoltageDomain
        PROVE  v.level = voltage_level[x]
    <2>1. v = reply'.value /\ reply'.status = SCMI_SUCCESS
      BY <1>5, Read DEF FromBaseHandler, PROTOCOL_BASE, PROTOCOL_POWER_DOMAIN, PROTOCOL_VOLTAGE,
         PROTOCOL_SENSOR
    <2>2. VoltageHandler!HandleVoltage(s.msg, s.args)
      BY <1>1, <1>5, Handled DEF VoltageServed
    <2>3. VoltageHandler!LevelGet(x)
      BY <1>5, <2>2 DEF VoltageHandler!HandleVoltage, VOLTAGE_LEVEL_GET,
         VoltageHandler!PROTOCOL_VERSION, VoltageHandler!PROTOCOL_ATTRIBUTES,
         VoltageHandler!PROTOCOL_MESSAGE_ATTRIBUTES, VoltageHandler!VOLTAGE_DOMAIN_ATTRIBUTES,
         VoltageHandler!VOLTAGE_DESCRIBE_LEVELS, VoltageHandler!VOLTAGE_CONFIG_SET,
         VoltageHandler!VOLTAGE_CONFIG_GET, VoltageHandler!VOLTAGE_LEVEL_SET,
         VoltageHandler!VOLTAGE_LEVEL_GET
    <2>4. v = [level |-> voltage_level[x]]
      BY <1>5, <2>1, <2>3 DEF VoltageHandler!LevelGet, VoltageHandler!VoltageReport,
         VoltageHandler!Respond, SCMI_SUCCESS, VoltageHandler!SCMI_SUCCESS
    <2> QED BY <2>4
  <1> QED BY <1>2, <1>3, <1>4, <1>5

-----------------------------------------------------------------------------
(* Programs that end with a setting as it was.                             *)

\* A program does, if what is left of it does from where its first step leaves
\* the setting.
LEMMA EndsStep ==
  ASSUME NEW k, NEW x, NEW now, NEW was, NEW s, NEW U, NEW r \in Seq(U)
  PROVE  Ends(k, x, <<s>> \o r, now, was) <=> Ends(k, x, r, After(k, x, s, now), was)
  <1> DEFINE q == <<s>> \o r
             P(i) == Put(k, x, q[i])
  <1>1. /\ DOMAIN q = 1..(Len(r) + 1) /\ DOMAIN r = 1..Len(r) /\ Len(r) \in Nat
        /\ q[1] = s /\ \A i \in DOMAIN r : q[i + 1] = r[i]
    OBVIOUS
  <1>2. \A i \in DOMAIN q : i # 1 => i - 1 \in DOMAIN r /\ q[i] = r[i - 1]
    OBVIOUS
  <1> HIDE DEF q
  <1>3. ASSUME Ends(k, x, q, now, was) PROVE Ends(k, x, r, After(k, x, s, now), was)
    <2>1. ASSUME \A i \in DOMAIN r : ~Put(k, x, r[i]) PROVE Within(k, After(k, x, s, now), was)
      <3>1. \A i \in DOMAIN q : P(i) => i <= 1
        BY <1>1, <1>2, <2>1
      <3> QED BY <1>1, <1>2, <1>3, <2>1, <3>1 DEF Ends, After
    <2>2. ASSUME NEW i \in DOMAIN r, Put(k, x, r[i]), \A j \in DOMAIN r : Put(k, x, r[j]) => j <= i
          PROVE  Within(k, Value(k, r[i]), was)
      <3>1. i + 1 \in DOMAIN q /\ P(i + 1) /\ q[i + 1] = r[i]
        BY <1>1, <2>2
      <3>2. \A j \in DOMAIN q : P(j) => j <= i + 1
        BY <1>1, <1>2, <2>2
      <3> QED BY <1>3, <3>1, <3>2 DEF Ends
    <2> QED BY <2>1, <2>2 DEF Ends
  <1>4. ASSUME Ends(k, x, r, After(k, x, s, now), was) PROVE Ends(k, x, q, now, was)
    <2>1. ASSUME \A i \in DOMAIN q : ~P(i) PROVE Within(k, now, was)
      <3>1. \A i \in DOMAIN r : ~Put(k, x, r[i])
        BY <1>1, <2>1
      <3>2. ~Put(k, x, s)
        BY <1>1, <2>1
      <3> QED BY <1>4, <3>1, <3>2 DEF Ends, After
    <2>2. ASSUME NEW i \in DOMAIN q, P(i), \A j \in DOMAIN q : P(j) => j <= i
          PROVE  Within(k, Value(k, q[i]), was)
      <3>1. CASE i = 1
        <4>1. \A j \in DOMAIN r : ~Put(k, x, r[j])
          BY <1>1, <2>2, <3>1
        <4> QED BY <1>1, <1>4, <2>2, <3>1, <4>1 DEF Ends, After
      <3>2. CASE i # 1
        <4>1. i - 1 \in DOMAIN r /\ q[i] = r[i - 1]
          BY <1>2, <3>2
        <4>2. \A j \in DOMAIN r : Put(k, x, r[j]) => j <= i - 1
          BY <1>1, <2>2
        <4> QED BY <1>4, <2>2, <4>1, <4>2 DEF Ends
      <3> QED BY <3>1, <3>2
    <2> QED BY <2>1, <2>2 DEF Ends
  <1> QED BY <1>3, <1>4 DEF q

\* The same for up to four steps.
LEMMA EndsSteps ==
  ASSUME NEW k, NEW x, NEW now, NEW was, NEW U, NEW r \in Seq(U)
  PROVE  /\ Ends(k, x, <<>> \o r, now, was) <=> Ends(k, x, r, now, was)
         /\ \A a : Ends(k, x, <<a>> \o r, now, was) <=> Ends(k, x, r, After(k, x, a, now), was)
         /\ \A a, b : Ends(k, x, <<a, b>> \o r, now, was)
                        <=> Ends(k, x, r, After(k, x, b, After(k, x, a, now)), was)
         /\ \A a, b, c :
              Ends(k, x, <<a, b, c>> \o r, now, was)
                <=> Ends(k, x, r, After(k, x, c, After(k, x, b, After(k, x, a, now))), was)
         /\ \A a, b, c, d :
              Ends(k, x, <<a, b, c, d>> \o r, now, was)
                <=> Ends(k, x, r,
                         After(k, x, d, After(k, x, c, After(k, x, b, After(k, x, a, now)))), was)
  <1>1. <<>> \o r = r
    OBVIOUS
  <1>2. ASSUME NEW a, NEW b, NEW c, NEW d
        PROVE  /\ Ends(k, x, <<d>> \o r, now, was) <=> Ends(k, x, r, After(k, x, d, now), was)
               /\ Ends(k, x, <<c, d>> \o r, now, was)
                    <=> Ends(k, x, r, After(k, x, d, After(k, x, c, now)), was)
               /\ Ends(k, x, <<b, c, d>> \o r, now, was)
                    <=> Ends(k, x, r, After(k, x, d, After(k, x, c, After(k, x, b, now))), was)
               /\ Ends(k, x, <<a, b, c, d>> \o r, now, was)
                    <=> Ends(k, x, r, After(k, x, d,
                                        After(k, x, c, After(k, x, b, After(k, x, a, now)))), was)
    <2> DEFINE W == U \cup {a, b, c, d}
    <2>1. r \in Seq(W) /\ a \in W /\ b \in W /\ c \in W /\ d \in W
      OBVIOUS
    <2> HIDE DEF W
    <2>2. /\ <<d>> \o r \in Seq(W) /\ <<c, d>> \o r \in Seq(W) /\ <<b, c, d>> \o r \in Seq(W)
          /\ <<c, d>> \o r = <<c>> \o (<<d>> \o r)
          /\ <<b, c, d>> \o r = <<b>> \o (<<c, d>> \o r)
          /\ <<a, b, c, d>> \o r = <<a>> \o (<<b, c, d>> \o r)
      <3>1. /\ <<a>> \in Seq(W) /\ <<b>> \in Seq(W) /\ <<c>> \in Seq(W) /\ <<d>> \in Seq(W)
            /\ <<c, d>> \in Seq(W) /\ <<b, c, d>> \in Seq(W)
        BY <2>1
      <3>2. <<c, d>> = <<c>> \o <<d>>
        <4> DEFINE y == <<c>> \o <<d>>
        <4>1. y \in Seq(W) /\ Len(y) = 2 /\ y[1] = c /\ y[2] = d
          BY <2>1
        <4>2. y = [i \in 1..2 |-> y[i]]
          BY <4>1
        <4> HIDE DEF y
        <4>3. <<c, d>> = [i \in 1..2 |-> y[i]]
          BY <4>1
        <4> QED BY <4>2, <4>3 DEF y
      <3>3. <<b, c, d>> = <<b>> \o <<c, d>>
        BY <2>1
      <3>4. <<a, b, c, d>> = <<a>> \o <<b, c, d>>
        <4> DEFINE y == <<a>> \o <<b, c, d>>
        <4>1. y \in Seq(W) /\ Len(y) = 4 /\ y[1] = a /\ y[2] = b /\ y[3] = c /\ y[4] = d
          BY <2>1
        <4>2. y = [i \in 1..4 |-> y[i]]
          BY <4>1
        <4> HIDE DEF y
        <4>3. <<a, b, c, d>> = [i \in 1..4 |-> y[i]]
          BY <4>1
        <4> QED BY <4>2, <4>3 DEF y
      <3>5. \A y, z \in Seq(W) : y \o z \in Seq(W)
        BY <2>1
      <3>6. \A y, z \in Seq(W) : (y \o z) \o r = y \o (z \o r)
        BY <2>1, ConcatAssociative
      <3>7. /\ (<<c>> \o <<d>>) \o r = <<c>> \o (<<d>> \o r)
            /\ (<<b>> \o <<c, d>>) \o r = <<b>> \o (<<c, d>> \o r)
            /\ (<<a>> \o <<b, c, d>>) \o r = <<a>> \o (<<b, c, d>> \o r)
        BY <3>1, <3>6, Zenon
      <3>8. <<d>> \o r \in Seq(W) /\ <<c, d>> \o r \in Seq(W) /\ <<b, c, d>> \o r \in Seq(W)
        BY <2>1, <3>1, <3>5, Zenon
      <3>9. <<c, d>> \o r = <<c>> \o (<<d>> \o r)
        BY <3>2, <3>7
      <3>10. <<b, c, d>> \o r = <<b>> \o (<<c, d>> \o r)
        BY <3>3, <3>7
      <3>11. <<a, b, c, d>> \o r = <<a>> \o (<<b, c, d>> \o r)
        BY <3>4, <3>7
      <3> QED BY <3>8, <3>9, <3>10, <3>11, Zenon
    <2>3. \A e, n : \A y \in Seq(W) :
            Ends(k, x, <<e>> \o y, n, was) <=> Ends(k, x, y, After(k, x, e, n), was)
      BY EndsStep
    <2>4. \A n : Ends(k, x, <<d>> \o r, n, was) <=> Ends(k, x, r, After(k, x, d, n), was)
      BY <2>1, <2>3
    <2>5. \A n : Ends(k, x, <<c, d>> \o r, n, was)
                   <=> Ends(k, x, <<d>> \o r, After(k, x, c, n), was)
      BY <2>2, <2>3, Zenon
    <2>6. \A n : Ends(k, x, <<b, c, d>> \o r, n, was)
                   <=> Ends(k, x, <<c, d>> \o r, After(k, x, b, n), was)
      BY <2>2, <2>3, Zenon
    <2>7. \A n : Ends(k, x, <<a, b, c, d>> \o r, n, was)
                   <=> Ends(k, x, <<b, c, d>> \o r, After(k, x, a, n), was)
      BY <2>2, <2>3, Zenon
    <2> QED BY <2>4, <2>5, <2>6, <2>7, Zenon
  <1> QED BY <1>1, <1>2, Zenon

\* It does from where a notification has been given up, as well.
LEMMA EndsWeaker ==
  ASSUME NEW k, NEW x, NEW q, NEW now, NEW less, NEW was, Ends(k, x, q, now, was),
         less = now \/ (k = "notifying" /\ less = 0)
  PROVE  Ends(k, x, q, less, was)
  BY DEF Ends, Within

\* The steps an answer adds take a setting from m to where it would be without
\* them: n, or less.
Returns(k, x, added, m, n) ==
  \A U : \A r \in Seq(U) : \A was : Ends(k, x, r, n, was) => Ends(k, x, added \o r, m, was)

\* What is known of a step.
IsStep(s, kind, p, m, a, e, l) ==
  s.kind = kind /\ s.proto = p /\ s.msg = m /\ s.args = a /\ s.expect = e /\ s.learn = l

\* The steps the performance suite adds.
LEMMA PerformanceFields ==
  LET P == PROTOCOL_PERFORMANCE
      ok == SCMI_SUCCESS
  IN /\ \A m, a : IsStep(PerformanceTests!Perf(m, a, PerformanceTests!SCMI_SUCCESS),
                         "check", P, m, a, ok, "nothing")
     /\ \A m, a, w : IsStep(PerformanceTests!PerfValue(m, a, w), "check", P, m, a, ok, "nothing")
     /\ \A m, a, l : IsStep(PerformanceTests!PerfLearn(m, a, l), "check", P, m, a, ok, l)
     /\ \A m, w : IsStep(PerformanceTests!Receive(PerformanceTests!PROTOCOL_PERFORMANCE, m, w),
                      "receive", P, m, <<>>, ok, "nothing")
  BY DEF IsStep, PerformanceTests!Perf, PerformanceTests!PerfValue, PerformanceTests!PerfLearn,
     PerformanceTests!Receive, PerformanceTests!Ask, PerformanceTests!AskValue,
     PerformanceTests!AskAndLearn, PerformanceTests!SCMI_SUCCESS, SCMI_SUCCESS,
     PROTOCOL_PERFORMANCE, PerformanceTests!PROTOCOL_PERFORMANCE

\* The message ids of the suite are those of the platform.
LEMMA PerformanceIds ==
  /\ PerformanceTests!PERFORMANCE_LIMITS_SET = PERFORMANCE_LIMITS_SET
  /\ PerformanceTests!PERFORMANCE_LIMITS_GET = PERFORMANCE_LIMITS_GET
  /\ PerformanceTests!PERFORMANCE_LEVEL_SET = PERFORMANCE_LEVEL_SET
  /\ PerformanceTests!PERFORMANCE_LEVEL_GET = PERFORMANCE_LEVEL_GET
  /\ PerformanceTests!PERFORMANCE_NOTIFY_LIMITS = PERFORMANCE_NOTIFY_LIMITS
  /\ PerformanceTests!PERFORMANCE_NOTIFY_LEVEL = PERFORMANCE_NOTIFY_LEVEL
  /\ PerformanceTests!PERFORMANCE_DOMAIN_ATTRIBUTES = PERFORMANCE_DOMAIN_ATTRIBUTES
  /\ PerformanceTests!NOTIFY_ENABLE = 1 /\ PerformanceTests!NOTIFY_DISABLE = 0
  /\ PERFORMANCE_LIMITS_SET = 5 /\ PERFORMANCE_LIMITS_GET = 6 /\ PERFORMANCE_LEVEL_SET = 7
  /\ PERFORMANCE_LEVEL_GET = 8 /\ PERFORMANCE_NOTIFY_LIMITS = 9 /\ PERFORMANCE_NOTIFY_LEVEL = 10
  /\ PERFORMANCE_DOMAIN_ATTRIBUTES = 3
  /\ PROTOCOL_PERFORMANCE = 19 /\ PROTOCOL_CLOCK = 20 /\ PROTOCOL_VOLTAGE = 23
  BY DEF PerformanceTests!PERFORMANCE_LIMITS_SET, PerformanceTests!PERFORMANCE_LIMITS_GET,
     PerformanceTests!PERFORMANCE_LEVEL_SET, PerformanceTests!PERFORMANCE_LEVEL_GET,
     PerformanceTests!PERFORMANCE_NOTIFY_LIMITS, PerformanceTests!PERFORMANCE_NOTIFY_LEVEL,
     PerformanceTests!PERFORMANCE_DOMAIN_ATTRIBUTES, PerformanceTests!NOTIFY_ENABLE,
     PerformanceTests!NOTIFY_DISABLE, PERFORMANCE_LIMITS_SET, PERFORMANCE_LIMITS_GET,
     PERFORMANCE_LEVEL_SET, PERFORMANCE_LEVEL_GET, PERFORMANCE_NOTIFY_LIMITS,
     PERFORMANCE_NOTIFY_LEVEL, PERFORMANCE_DOMAIN_ATTRIBUTES, PROTOCOL_PERFORMANCE,
     PROTOCOL_CLOCK, PROTOCOL_VOLTAGE

\* What each of them puts somewhere.
LEMMA PerformancePuts ==
  ASSUME NEW s, s.proto = PROTOCOL_PERFORMANCE, s.expect = SCMI_SUCCESS, NEW k, NEW x
  PROVE  LET set == s.kind = "check" /\ s.learn = "nothing"
             get == s.msg \in {PERFORMANCE_LIMITS_GET, PERFORMANCE_LEVEL_GET,
                               PERFORMANCE_DOMAIN_ATTRIBUTES}
         IN /\ s.kind = "receive" /\ s.learn = "nothing" => ~Put(k, x, s)
            /\ set /\ s.msg = PERFORMANCE_LIMITS_SET =>
                 (Put(k, x, s) <=> k = "limits" /\ x = s.args[1])
            /\ set /\ s.msg = PERFORMANCE_LEVEL_SET =>
                 (Put(k, x, s) <=> k = "levels" /\ x = s.args[1])
            /\ set /\ s.msg \in {PERFORMANCE_NOTIFY_LIMITS, PERFORMANCE_NOTIFY_LEVEL} =>
                 (Put(k, x, s) <=> k = "notifying" /\ x = <<s.msg, s.args[1]>>)
            /\ get /\ s.learn \notin {"limits_before", "level_before"} => ~Put(k, x, s)
            /\ get /\ s.learn = "limits_before" =>
                 (Put(k, x, s) <=> k = "notifying" /\ x = <<PERFORMANCE_NOTIFY_LIMITS, s.args[1]>>)
            /\ get /\ s.learn = "level_before" =>
                 (Put(k, x, s) <=> k = "notifying" /\ x = <<PERFORMANCE_NOTIFY_LEVEL, s.args[1]>>)
  BY PerformanceIds DEF Put, Puts, WillPut, Sends

\* Limits and levels are set to others and back, notifications asked for are
\* given up again.
LEMMA PerformanceReturns ==
  ASSUME Shapes, NEW t, NEW s, Restorable(s), Good("performance", t, s), s.learn # "nothing",
         Execute(s), Answered(s).status = SCMI_SUCCESS, NEW k, NEW x, Setting(k, x)
  PROVE  Returns(k, x, PerformanceTests!More(s, Answered(s).value), Found(k, x, Settings),
                 After(k, x, s, Found(k, x, Settings)))
  <1> DEFINE v == Answered(s).value
             d == s.args[1]
             now == Found(k, x, Settings)
             added == PerformanceTests!More(s, v)
             set(max, min) == PerformanceTests!LimitsSet(d, max, min, PerformanceTests!SCMI_SUCCESS)
             put(level) == PerformanceTests!LevelSet(d, level, PerformanceTests!SCMI_SUCCESS)
             end(m) == PerformanceTests!Perf(m, <<d, 0>>, PerformanceTests!SCMI_SUCCESS)
             begin(m) == PerformanceTests!Perf(m, <<d, 1>>, PerformanceTests!SCMI_SUCCESS)
             get(m, w) == PerformanceTests!PerfValue(m, <<d>>, w)
             learn(m, y, l) == PerformanceTests!PerfLearn(m, <<y>>, l)
             await(m, w) == PerformanceTests!Receive(PerformanceTests!PROTOCOL_PERFORMANCE, m, w)
             notified == k = "notifying"
  <1>1. /\ s.proto = PROTOCOL_PERFORMANCE /\ s.expect = SCMI_SUCCESS /\ s.kind = "check"
        /\ s.learn \in {"limits", "limits_before"} => s.msg = PERFORMANCE_LIMITS_GET
        /\ s.learn \in {"level", "level_before"} => s.msg = PERFORMANCE_LEVEL_GET
    BY Protocols DEF Good, Teaches
  <1>2. /\ s.learn \in {"limits", "limits_before"} /\ d \in PerformanceHandler!DomainId =>
             LimitsNow(d) = IF v.max = 0 /\ v.min = 0
                            THEN <<PerformanceHandler!Top(d), PerformanceHandler!Bottom(d)>>
                            ELSE <<v.max, v.min>>
        /\ s.learn \in {"level", "level_before"} /\ d \in PerformanceHandler!DomainId =>
             LevelNow(d) = IF v.level = 0 THEN PerformanceHandler!Bottom(d) ELSE v.level
    BY <1>1, Reads
  <1>3. /\ k = "limits" => x \in PerformanceHandler!DomainId /\ now = LimitsNow(x)
        /\ k = "levels" => x \in PerformanceHandler!DomainId /\ now = LevelNow(x)
    BY FoundNow DEF Setting
  <1>4. ~Puts(k, x, s)
    BY PuttersAreMovers
  <1>5. \A max, min, n : After(k, x, set(max, min), n) =
          IF k = "limits" /\ x = d
          THEN IF max = 0 /\ min = 0
               THEN <<PerformanceHandler!Top(d), PerformanceHandler!Bottom(d)>> ELSE <<max, min>>
          ELSE n
    <2> TAKE max, min, n
    <2> DEFINE z == set(max, min)
    <2>1. IsStep(z, "check", PROTOCOL_PERFORMANCE, PERFORMANCE_LIMITS_SET, <<d, max, min>>,
                 SCMI_SUCCESS, "nothing")
      BY PerformanceFields, PerformanceIds, Zenon DEF PerformanceTests!LimitsSet
    <2> HIDE DEF z
    <2>2. Put(k, x, z) <=> k = "limits" /\ x = d
      BY <2>1, PerformancePuts DEF IsStep
    <2>3. Value("limits", z) = IF max = 0 /\ min = 0
               THEN <<PerformanceHandler!Top(d), PerformanceHandler!Bottom(d)>> ELSE <<max, min>>
      <3>1. Value("limits", z) = LimitsSent(z)
        BY PutsAre
      <3>2. z.args[1] = d /\ z.args[2] = max /\ z.args[3] = min
        BY <2>1 DEF IsStep
      <3> QED BY <3>1, <3>2 DEF LimitsSent
    <2>4. After(k, x, z, n) = IF Put(k, x, z) THEN Value(k, z) ELSE n
      BY DEF After
    <2> QED BY <2>2, <2>3, <2>4 DEF z
  <1>6. \A level, n : After(k, x, put(level), n) =
          IF k = "levels" /\ x = d
          THEN IF level = 0 THEN PerformanceHandler!Bottom(d) ELSE level
          ELSE n
    <2> TAKE level, n
    <2> DEFINE z == put(level)
    <2>1. IsStep(z, "check", PROTOCOL_PERFORMANCE, PERFORMANCE_LEVEL_SET, <<d, level>>,
                 SCMI_SUCCESS, "nothing")
      BY PerformanceFields, PerformanceIds, Zenon DEF PerformanceTests!LevelSet
    <2> HIDE DEF z
    <2>2. Put(k, x, z) <=> k = "levels" /\ x = d
      BY <2>1, PerformancePuts DEF IsStep
    <2>3. Value("levels", z) = IF level = 0 THEN PerformanceHandler!Bottom(d) ELSE level
      <3>1. Value("levels", z) = LevelSent(z)
        BY PutsAre
      <3>2. z.args[1] = d /\ z.args[2] = level
        BY <2>1 DEF IsStep
      <3> QED BY <3>1, <3>2 DEF LevelSent
    <2>4. After(k, x, z, n) = IF Put(k, x, z) THEN Value(k, z) ELSE n
      BY DEF After
    <2> QED BY <2>2, <2>3, <2>4 DEF z
  <1>7. \A m \in {PERFORMANCE_NOTIFY_LIMITS, PERFORMANCE_NOTIFY_LEVEL} : \A n :
          /\ After(k, x, end(m), n) = IF notified /\ x = <<m, d>> THEN 0 ELSE n
          /\ After(k, x, begin(m), n) = IF notified /\ x = <<m, d>> THEN 1 ELSE n
    <2> TAKE m \in {PERFORMANCE_NOTIFY_LIMITS, PERFORMANCE_NOTIFY_LEVEL}
    <2> TAKE n
    <2>1. ASSUME NEW on
          PROVE  LET z == PerformanceTests!Perf(m, <<d, on>>, PerformanceTests!SCMI_SUCCESS)
                 IN After(k, x, z, n)
                      = IF notified /\ x = <<m, d>> THEN IF on = 1 THEN 1 ELSE 0 ELSE n
      <3> DEFINE z == PerformanceTests!Perf(m, <<d, on>>, PerformanceTests!SCMI_SUCCESS)
      <3>1. IsStep(z, "check", PROTOCOL_PERFORMANCE, m, <<d, on>>, SCMI_SUCCESS, "nothing")
        BY PerformanceFields, Zenon
      <3> HIDE DEF z
      <3>2. Put(k, x, z) <=> notified /\ x = <<m, d>>
        BY <3>1, PerformancePuts DEF IsStep
      <3>3. Value("notifying", z) = IF on = 1 THEN 1 ELSE 0
        BY <3>1, PutsAre DEF IsStep
      <3>4. After(k, x, z, n) = IF Put(k, x, z) THEN Value(k, z) ELSE n
        BY DEF After
      <3>5. After(k, x, z, n) = IF notified /\ x = <<m, d>> THEN IF on = 1 THEN 1 ELSE 0 ELSE n
        BY <3>2, <3>3, <3>4
      <3> QED BY <3>5 DEF z
    <2> QED BY <2>1
  <1>8. \A w, n : /\ After(k, x, get(PERFORMANCE_LIMITS_GET, w), n) = n
                  /\ After(k, x, get(PERFORMANCE_LEVEL_GET, w), n) = n
    <2> TAKE w, n
    <2>1. ASSUME NEW m \in {PERFORMANCE_LIMITS_GET, PERFORMANCE_LEVEL_GET}
          PROVE  After(k, x, get(m, w), n) = n
      <3> DEFINE z == get(m, w)
      <3>1. IsStep(z, "check", PROTOCOL_PERFORMANCE, m, <<d>>, SCMI_SUCCESS, "nothing")
        BY PerformanceFields, Zenon
      <3> HIDE DEF z
      <3>2. ~Put(k, x, z)
        BY <3>1, PerformancePuts DEF IsStep
      <3>3. After(k, x, z, n) = n
        BY <3>2 DEF After
      <3> QED BY <3>3 DEF z
    <2> QED BY <2>1
  <1>9. \A m, w, n : After(k, x, await(m, w), n) = n
    <2> TAKE m, w, n
    <2> DEFINE z == await(m, w)
    <2>1. IsStep(z, "receive", PROTOCOL_PERFORMANCE, m, <<>>, SCMI_SUCCESS, "nothing")
      BY PerformanceFields, Zenon
    <2> HIDE DEF z
    <2>2. ~Put(k, x, z)
      BY <2>1, PerformancePuts DEF IsStep
    <2>3. After(k, x, z, n) = n
      BY <2>2 DEF After
    <2> QED BY <2>3 DEF z
  <1>10. After(k, x, s, now) =
           IF notified /\ \/ s.learn = "limits_before" /\ x = <<PERFORMANCE_NOTIFY_LIMITS, d>>
                          \/ s.learn = "level_before" /\ x = <<PERFORMANCE_NOTIFY_LEVEL, d>>
           THEN 0 ELSE now
    <2>1. Put(k, x, s) <=>
            notified /\ \/ s.learn = "limits_before" /\ x = <<PERFORMANCE_NOTIFY_LIMITS, d>>
                        \/ s.learn = "level_before" /\ x = <<PERFORMANCE_NOTIFY_LEVEL, d>>
      BY <1>1, <1>4, PerformanceIds DEF Put, WillPut
    <2>2. Value("notifying", s) = 0
      BY PutsAre
    <2> HIDE DEF now
    <2> QED BY <2>1, <2>2 DEF After
  <1>11. \A y, n : \A l \in {"limits_notified", "level_notified"} :
           After(k, x, learn(PERFORMANCE_DOMAIN_ATTRIBUTES, y, l), n) = n
    <2> TAKE y, n
    <2> TAKE l \in {"limits_notified", "level_notified"}
    <2> DEFINE z == learn(PERFORMANCE_DOMAIN_ATTRIBUTES, y, l)
    <2>1. IsStep(z, "check", PROTOCOL_PERFORMANCE, PERFORMANCE_DOMAIN_ATTRIBUTES, <<y>>,
                 SCMI_SUCCESS, l)
      BY PerformanceFields, Zenon
    <2> HIDE DEF z
    <2>2. ~Put(k, x, z)
      BY <2>1, PerformancePuts DEF IsStep
    <2>3. After(k, x, z, n) = n
      BY <2>2 DEF After
    <2> QED BY <2>3 DEF z
  <1>12. \A n : After(k, x, learn(PERFORMANCE_LIMITS_GET, d, "limits_before"), n)
                  = IF notified /\ x = <<PERFORMANCE_NOTIFY_LIMITS, d>> THEN 0 ELSE n
    <2> TAKE n
    <2> DEFINE z == learn(PERFORMANCE_LIMITS_GET, d, "limits_before")
    <2>1. IsStep(z, "check", PROTOCOL_PERFORMANCE, PERFORMANCE_LIMITS_GET, <<d>>, SCMI_SUCCESS,
                 "limits_before")
      BY PerformanceFields, Zenon
    <2> HIDE DEF z
    <2>2. Put(k, x, z) <=> notified /\ x = <<PERFORMANCE_NOTIFY_LIMITS, d>>
      BY <2>1, PerformancePuts DEF IsStep
    <2>3. Value("notifying", z) = 0
      BY <2>1, PutsAre DEF IsStep
    <2> QED BY <2>2, <2>3 DEF After, z
  <1>13. \A n : After(k, x, learn(PERFORMANCE_LEVEL_GET, d, "level_before"), n)
                  = IF notified /\ x = <<PERFORMANCE_NOTIFY_LEVEL, d>> THEN 0 ELSE n
    <2> TAKE n
    <2> DEFINE z == learn(PERFORMANCE_LEVEL_GET, d, "level_before")
    <2>1. IsStep(z, "check", PROTOCOL_PERFORMANCE, PERFORMANCE_LEVEL_GET, <<d>>, SCMI_SUCCESS,
                 "level_before")
      BY PerformanceFields, Zenon
    <2> HIDE DEF z
    <2>2. Put(k, x, z) <=> notified /\ x = <<PERFORMANCE_NOTIFY_LEVEL, d>>
      BY <2>1, PerformancePuts DEF IsStep
    <2>3. Value("notifying", z) = 0
      BY <2>1, PutsAre DEF IsStep
    <2> QED BY <2>2, <2>3 DEF After, z
  <1>14. \A n : After(k, x, PerformanceTests!Skip, n) = n
    <2> TAKE n
    <2>1. PerformanceTests!Skip.kind = "skip" /\ PerformanceTests!Skip.learn = "nothing"
      BY DEF PerformanceTests!Skip, PerformanceTests!Ask
    <2>2. ~Put(k, x, PerformanceTests!Skip)
      BY <2>1 DEF Put, Puts, WillPut, Sends
    <2> QED BY <2>2 DEF After
  <1>a. SUFFICES ASSUME NEW U, NEW r \in Seq(U), NEW was, Ends(k, x, r, After(k, x, s, now), was)
                 PROVE  Ends(k, x, added \o r, now, was)
    BY DEF Returns
  <1>b. /\ Ends(k, x, <<>> \o r, now, was) <=> Ends(k, x, r, now, was)
        /\ \A a : Ends(k, x, <<a>> \o r, now, was) <=> Ends(k, x, r, After(k, x, a, now), was)
        /\ \A a, b : Ends(k, x, <<a, b>> \o r, now, was)
                       <=> Ends(k, x, r, After(k, x, b, After(k, x, a, now)), was)
        /\ \A a, b, c : Ends(k, x, <<a, b, c>> \o r, now, was)
             <=> Ends(k, x, r, After(k, x, c, After(k, x, b, After(k, x, a, now))), was)
        /\ \A a, b, c, e : Ends(k, x, <<a, b, c, e>> \o r, now, was)
             <=> Ends(k, x, r,
                      After(k, x, e, After(k, x, c, After(k, x, b, After(k, x, a, now)))), was)
    BY EndsSteps
  <1> HIDE DEF now
  <1>15. CASE s.learn = "limits"
    <2>1. PICK a, b, c : /\ added = <<a, b, c>> /\ c = set(v.max, v.min)
                         /\ \E y, w : a = set(y, v.min) /\ b = get(PERFORMANCE_LIMITS_GET, w)
      BY <1>15, PerformanceIds DEF PerformanceTests!More, PerformanceTests!ChangeLimits
    <2>2. After(k, x, c, After(k, x, b, After(k, x, a, now))) = now
      <3>1. PICK y, w : a = set(y, v.min) /\ b = get(PERFORMANCE_LIMITS_GET, w)
        BY <2>1
      <3>2. \A m : After(k, x, b, m) = m
        BY <1>8, <3>1
      <3>3. CASE k = "limits" /\ x = d
        <4>1. \A m : After(k, x, c, m) = now
          BY <1>2, <1>3, <1>5, <1>15, <2>1, <3>3
        <4> QED BY <4>1
      <3>4. CASE ~(k = "limits" /\ x = d)
        <4>1. \A m : After(k, x, a, m) = m
          BY <1>5, <3>1, <3>4
        <4>2. \A m : After(k, x, c, m) = m
          BY <1>5, <2>1, <3>4
        <4> QED BY <3>2, <4>1, <4>2
      <3> QED BY <3>3, <3>4
    <2>3. After(k, x, s, now) = now
      BY <1>10, <1>15
    <2> QED BY <1>a, <1>b, <2>1, <2>2, <2>3
  <1>16. CASE s.learn = "level"
    <2>1. PICK a, b, c : /\ added = <<a, b, c>> /\ c = put(v.level)
                         /\ \E y, w : a = put(y) /\ b = get(PERFORMANCE_LEVEL_GET, w)
      BY <1>16, PerformanceIds DEF PerformanceTests!More, PerformanceTests!ChangeLevel
    <2>2. After(k, x, c, After(k, x, b, After(k, x, a, now))) = now
      <3>1. PICK y, w : a = put(y) /\ b = get(PERFORMANCE_LEVEL_GET, w)
        BY <2>1
      <3>2. \A m : After(k, x, b, m) = m
        BY <1>8, <3>1
      <3>3. CASE k = "levels" /\ x = d
        <4>1. \A m : After(k, x, c, m) = now
          BY <1>2, <1>3, <1>6, <1>16, <2>1, <3>3
        <4> QED BY <4>1
      <3>4. CASE ~(k = "levels" /\ x = d)
        <4>1. \A m : After(k, x, a, m) = m
          BY <1>6, <3>1, <3>4
        <4>2. \A m : After(k, x, c, m) = m
          BY <1>6, <2>1, <3>4
        <4> QED BY <3>2, <4>1, <4>2
      <3> QED BY <3>3, <3>4
    <2>3. After(k, x, s, now) = now
      BY <1>10, <1>16
    <2> QED BY <1>a, <1>b, <2>1, <2>2, <2>3
  <1>17. CASE s.learn = "limits_notified"
    <2>1. After(k, x, s, now) = now
      BY <1>10, <1>17
    <2>2. CASE v.limit /\ v.limitNotify
      <3>1. PICK a, b : /\ added = <<a, b>> /\ a = begin(PERFORMANCE_NOTIFY_LIMITS)
                        /\ b = learn(PERFORMANCE_LIMITS_GET, d, "limits_before")
        BY <1>17, <2>2, PerformanceIds DEF PerformanceTests!More, PerformanceTests!Enable
      <3> DEFINE less == After(k, x, b, After(k, x, a, now))
      <3>2. less = now \/ (notified /\ less = 0)
        BY <1>7, <1>12, <3>1
      <3> HIDE DEF less
      <3>3. Ends(k, x, r, less, was)
        BY <1>a, <2>1, <3>2, EndsWeaker
      <3> QED BY <1>b, <3>1, <3>3 DEF less
    <2>3. CASE ~(v.limit /\ v.limitNotify)
      <3>1. added = PerformanceTests!FindFrom(d + 1, "limits_notified")
        BY <1>17, <2>3 DEF PerformanceTests!More, PerformanceTests!NextDomain
      <3>2. PICK a : added = <<a>> /\ (\/ a = learn(PERFORMANCE_DOMAIN_ATTRIBUTES, d + 1,
                                                     "limits_notified")
                                      \/ a = PerformanceTests!Skip)
        BY <3>1, PerformanceIds DEF PerformanceTests!FindFrom
      <3>3. After(k, x, a, now) = now
        BY <1>11, <1>14, <3>2
      <3> QED BY <1>a, <1>b, <2>1, <3>2, <3>3
    <2> QED BY <2>2, <2>3
  <1>18. CASE s.learn = "level_notified"
    <2>1. After(k, x, s, now) = now
      BY <1>10, <1>18
    <2>2. CASE v.level /\ v.levelNotify
      <3>1. PICK a, b : /\ added = <<a, b>> /\ a = begin(PERFORMANCE_NOTIFY_LEVEL)
                        /\ b = learn(PERFORMANCE_LEVEL_GET, d, "level_before")
        BY <1>18, <2>2, PerformanceIds DEF PerformanceTests!More, PerformanceTests!Enable
      <3> DEFINE less == After(k, x, b, After(k, x, a, now))
      <3>2. less = now \/ (notified /\ less = 0)
        BY <1>7, <1>13, <3>1
      <3> HIDE DEF less
      <3>3. Ends(k, x, r, less, was)
        BY <1>a, <2>1, <3>2, EndsWeaker
      <3> QED BY <1>b, <3>1, <3>3 DEF less
    <2>3. CASE ~(v.level /\ v.levelNotify)
      <3>1. added = PerformanceTests!FindFrom(d + 1, "level_notified")
        BY <1>18, <2>3 DEF PerformanceTests!More, PerformanceTests!NextDomain
      <3>2. PICK a : added = <<a>> /\ (\/ a = learn(PERFORMANCE_DOMAIN_ATTRIBUTES, d + 1,
                                                     "level_notified")
                                      \/ a = PerformanceTests!Skip)
        BY <3>1, PerformanceIds DEF PerformanceTests!FindFrom
      <3>3. After(k, x, a, now) = now
        BY <1>11, <1>14, <3>2
      <3> QED BY <1>a, <1>b, <2>1, <3>2, <3>3
    <2> QED BY <2>2, <2>3
  <1>19. CASE s.learn = "limits_before"
    <2>1. PICK a, b, c, e : /\ added = <<a, b, c, e>> /\ e = set(v.max, v.min)
                            /\ c = end(PERFORMANCE_NOTIFY_LIMITS)
                            /\ \E y, msg, w : a = set(y, v.min) /\ b = await(msg, w)
      BY <1>19, PerformanceIds DEF PerformanceTests!More, PerformanceTests!NotifiedLimits
    <2>2. After(k, x, e, After(k, x, c, After(k, x, b, After(k, x, a, now))))
            = IF notified /\ x = <<PERFORMANCE_NOTIFY_LIMITS, d>> THEN 0 ELSE now
      <3>1. PICK y, msg, w : a = set(y, v.min) /\ b = await(msg, w)
        BY <2>1
      <3>2. \A m : After(k, x, b, m) = m
        BY <1>9, <3>1
      <3>3. \A m : After(k, x, c, m)
                    = IF notified /\ x = <<PERFORMANCE_NOTIFY_LIMITS, d>> THEN 0 ELSE m
        BY <1>7, <2>1
      <3>4. CASE k = "limits" /\ x = d
        <4>1. \A m : After(k, x, e, m) = now
          BY <1>2, <1>3, <1>5, <1>19, <2>1, <3>4
        <4> QED BY <3>4, <4>1
      <3>5. CASE ~(k = "limits" /\ x = d)
        <4>1. \A m : After(k, x, a, m) = m
          BY <1>5, <3>1, <3>5
        <4>2. \A m : After(k, x, e, m) = m
          BY <1>5, <2>1, <3>5
        <4> QED BY <3>2, <3>3, <4>1, <4>2
      <3> QED BY <3>4, <3>5
    <2>3. After(k, x, s, now) = IF notified /\ x = <<PERFORMANCE_NOTIFY_LIMITS, d>> THEN 0 ELSE now
      BY <1>10, <1>19
    <2> QED BY <1>a, <1>b, <2>1, <2>2, <2>3
  <1>20. CASE s.learn = "level_before"
    <2>1. PICK a, b, c, e : /\ added = <<a, b, c, e>> /\ e = put(v.level)
                            /\ c = end(PERFORMANCE_NOTIFY_LEVEL)
                            /\ \E y, msg, w : a = put(y) /\ b = await(msg, w)
      BY <1>20, PerformanceIds DEF PerformanceTests!More, PerformanceTests!NotifiedLevel
    <2>2. After(k, x, e, After(k, x, c, After(k, x, b, After(k, x, a, now))))
            = IF notified /\ x = <<PERFORMANCE_NOTIFY_LEVEL, d>> THEN 0 ELSE now
      <3>1. PICK y, msg, w : a = put(y) /\ b = await(msg, w)
        BY <2>1
      <3>2. \A m : After(k, x, b, m) = m
        BY <1>9, <3>1
      <3>3. \A m : After(k, x, c, m)
                    = IF notified /\ x = <<PERFORMANCE_NOTIFY_LEVEL, d>> THEN 0 ELSE m
        BY <1>7, <2>1
      <3>4. CASE k = "levels" /\ x = d
        <4>1. \A m : After(k, x, e, m) = now
          BY <1>2, <1>3, <1>6, <1>20, <2>1, <3>4
        <4> QED BY <3>4, <4>1
      <3>5. CASE ~(k = "levels" /\ x = d)
        <4>1. \A m : After(k, x, a, m) = m
          BY <1>6, <3>1, <3>5
        <4>2. \A m : After(k, x, e, m) = m
          BY <1>6, <2>1, <3>5
        <4> QED BY <3>2, <3>3, <4>1, <4>2
      <3> QED BY <3>4, <3>5
    <2>3. After(k, x, s, now) = IF notified /\ x = <<PERFORMANCE_NOTIFY_LEVEL, d>> THEN 0 ELSE now
      BY <1>10, <1>20
    <2> QED BY <1>a, <1>b, <2>1, <2>2, <2>3
  <1>21. CASE s.learn \in {"rate", "rate_async", "default", "start"}
    <2>1. added = <<>>
      BY <1>21 DEF PerformanceTests!More
    <2>2. After(k, x, s, now) = now
      BY <1>10, <1>21
    <2> QED BY <1>a, <1>b, <2>1, <2>2
  <1> QED BY <1>15, <1>16, <1>17, <1>18, <1>19, <1>20, <1>21 DEF Restorable, Changes

\* The steps the clock suite adds.
LEMMA ClockFields ==
  LET P == PROTOCOL_CLOCK
      ok == SCMI_SUCCESS
  IN /\ \A f, c, y : IsStep(ClockTests!RateSet(f, c, y, ClockTests!SCMI_SUCCESS),
                            "check", P, CLOCK_RATE_SET, <<f, c, y>>, ok, "nothing")
     /\ \A c, y : IsStep(ClockTests!ConfigSet(c, y, ClockTests!SCMI_SUCCESS),
                         "check", P, CLOCK_CONFIG_SET, <<c, y>>, ok, "nothing")
     /\ \A m, a, w : IsStep(ClockTests!ClockValue(m, a, w), "check", P, m, a, ok, "nothing")
     /\ \A m, a, l : IsStep(ClockTests!ClockLearn(m, a, l), "check", P, m, a, ok, l)
     /\ \A m, w : IsStep(ClockTests!Receive(ClockTests!PROTOCOL_CLOCK, m, w),
                      "receive", P, m, <<>>, ok, "nothing")
  BY DEF IsStep, ClockTests!RateSet, ClockTests!ConfigSet, ClockTests!Clock, ClockTests!ClockValue,
     ClockTests!ClockLearn, ClockTests!Receive, ClockTests!Ask, ClockTests!AskValue,
     ClockTests!AskAndLearn, ClockTests!SCMI_SUCCESS, SCMI_SUCCESS, PROTOCOL_CLOCK,
     ClockTests!PROTOCOL_CLOCK, CLOCK_RATE_SET, ClockTests!CLOCK_RATE_SET, CLOCK_CONFIG_SET,
     ClockTests!CLOCK_CONFIG_SET

\* The messages of the clock protocol that are told apart.
LEMMA ClockIds ==
  /\ ClockTests!CLOCK_RATE_GET = CLOCK_RATE_GET /\ ClockTests!CLOCK_ATTRIBUTES = CLOCK_ATTRIBUTES
  /\ CLOCK_RATE_SET # CLOCK_RATE_GET /\ CLOCK_CONFIG_SET # CLOCK_RATE_GET
  /\ CLOCK_RATE_SET # CLOCK_ATTRIBUTES /\ CLOCK_CONFIG_SET # CLOCK_ATTRIBUTES
  /\ CLOCK_RATE_SET # CLOCK_CONFIG_SET
  /\ PROTOCOL_CLOCK # PROTOCOL_PERFORMANCE /\ PROTOCOL_CLOCK # PROTOCOL_VOLTAGE
  /\ CLOCK_RATE_SET \in ClockMovers /\ CLOCK_CONFIG_SET \in ClockMovers
  /\ CLOCK_RATE_GET \notin ClockMovers /\ CLOCK_ATTRIBUTES \notin ClockMovers
  BY DEF ClockTests!CLOCK_RATE_GET, ClockTests!CLOCK_ATTRIBUTES, CLOCK_RATE_GET, CLOCK_RATE_SET,
     CLOCK_CONFIG_SET, CLOCK_ATTRIBUTES, PROTOCOL_CLOCK, PROTOCOL_PERFORMANCE, PROTOCOL_VOLTAGE,
     ClockMovers

\* What a step of the clock suite puts somewhere.
LEMMA ClockPuts ==
  ASSUME NEW s, s.proto = PROTOCOL_CLOCK, s.expect = SCMI_SUCCESS, NEW k, NEW x
  PROVE  /\ s.kind = "check" /\ s.msg = CLOCK_RATE_SET =>
              (Put(k, x, s) <=> k = "rates" /\ x = s.args[2])
         /\ s.kind = "check" /\ s.msg = CLOCK_CONFIG_SET =>
              (Put(k, x, s) <=> k = "clocks" /\ x = s.args[1])
         /\ s.kind = "receive" \/ s.msg \notin ClockMovers => ~Put(k, x, s)
  BY ClockIds DEF Put, Puts, WillPut, Sends

\* Rates are set to others and back.
LEMMA ClockReturns ==
  ASSUME Shapes, NEW t, NEW s, Restorable(s), Good("clock", t, s), s.learn # "nothing",
         Execute(s), Answered(s).status = SCMI_SUCCESS, NEW k, NEW x, Setting(k, x)
  PROVE  Returns(k, x, ClockTests!More(s, Answered(s).value), Found(k, x, Settings),
                 After(k, x, s, Found(k, x, Settings)))
  <1> DEFINE v == Answered(s).value
             c == s.args[1]
             now == Found(k, x, Settings)
             added == ClockTests!More(s, v)
             set(f, y) == ClockTests!RateSet(f, c, y, ClockTests!SCMI_SUCCESS)
             get(w) == ClockTests!ClockValue(CLOCK_RATE_GET, <<c>>, w)
             await(m, w) == ClockTests!Receive(ClockTests!PROTOCOL_CLOCK, m, w)
  <1>1. /\ s.proto = PROTOCOL_CLOCK /\ s.expect = SCMI_SUCCESS /\ s.kind = "check"
        /\ s.learn \in {"rate", "rate_async"} => s.msg = CLOCK_RATE_GET
    BY Protocols DEF Good, Teaches
  <1>2. s.learn \in {"rate", "rate_async"} /\ c \in ClockHandler!ClockId => v.rate = RateNow(c)
    BY <1>1, Reads
  <1>3. k = "rates" => x \in ClockHandler!ClockId /\ now = RateNow(x)
    BY FoundNow DEF Setting
  <1>4. After(k, x, s, now) = now
    BY <1>1, ClockPuts DEF After, Restorable, Mover
  <1>5. \A f, y, n : After(k, x, set(f, y), n) = IF k = "rates" /\ x = c THEN y ELSE n
    <2> TAKE f, y, n
    <2> DEFINE z == set(f, y)
    <2>1. IsStep(z, "check", PROTOCOL_CLOCK, CLOCK_RATE_SET, <<f, c, y>>, SCMI_SUCCESS, "nothing")
      BY ClockFields, Zenon
    <2> HIDE DEF z
    <2>2. Put(k, x, z) <=> k = "rates" /\ x = c
      BY <2>1, ClockPuts DEF IsStep
    <2>3. Value("rates", z) = y
      BY <2>1, PutsAre DEF IsStep
    <2> QED BY <2>2, <2>3 DEF After, z
  <1>6. \A w, n : After(k, x, get(w), n) = n
    <2> TAKE w, n
    <2> DEFINE z == get(w)
    <2>1. IsStep(z, "check", PROTOCOL_CLOCK, CLOCK_RATE_GET, <<c>>, SCMI_SUCCESS, "nothing")
      BY ClockFields, Zenon
    <2> HIDE DEF z
    <2>2. ~Put(k, x, z)
      BY <2>1, ClockPuts, ClockIds DEF IsStep
    <2> QED BY <2>2 DEF After, z
  <1>7. \A m, w, n : After(k, x, await(m, w), n) = n
    <2> TAKE m, w, n
    <2> DEFINE z == await(m, w)
    <2>1. IsStep(z, "receive", PROTOCOL_CLOCK, m, <<>>, SCMI_SUCCESS, "nothing")
      BY ClockFields, Zenon
    <2> HIDE DEF z
    <2>2. ~Put(k, x, z)
      BY <2>1, ClockPuts DEF IsStep
    <2> QED BY <2>2 DEF After, z
  <1>a. SUFFICES ASSUME NEW U, NEW r \in Seq(U), NEW was, Ends(k, x, r, After(k, x, s, now), was)
                 PROVE  Ends(k, x, added \o r, now, was)
    BY DEF Returns
  <1>b. /\ Ends(k, x, <<>> \o r, now, was) <=> Ends(k, x, r, now, was)
        /\ \A a, b, e : Ends(k, x, <<a, b, e>> \o r, now, was)
             <=> Ends(k, x, r, After(k, x, e, After(k, x, b, After(k, x, a, now))), was)
    BY EndsSteps
  <1> HIDE DEF now
  <1>8. CASE s.learn \in {"rate", "rate_async"}
    <2>1. PICK a, b, e : /\ added = <<a, b, e>> /\ \E f : e = set(f, v.rate)
                         /\ \E f, y : a = set(f, y)
                         /\ (\E w : b = get(w)) \/ \E m, w : b = await(m, w)
      <3>1. CASE s.learn = "rate"
        BY <3>1, ClockIds DEF ClockTests!More, ClockTests!ChangeRate
      <3>2. CASE s.learn = "rate_async"
        BY <3>2 DEF ClockTests!More, ClockTests!ChangeRateAsync
      <3> QED BY <1>8, <3>1, <3>2
    <2>2. \A m : After(k, x, b, m) = m
      BY <1>6, <1>7, <2>1
    <2>3. PICK f, g, y : e = set(f, v.rate) /\ a = set(g, y)
      BY <2>1
    <2>4. CASE k = "rates" /\ x = c
      <3>1. \A m : After(k, x, e, m) = now
        BY <1>2, <1>3, <1>5, <1>8, <2>3, <2>4
      <3> QED BY <1>a, <1>b, <1>4, <2>1, <3>1
    <2>5. CASE ~(k = "rates" /\ x = c)
      <3>1. \A m : After(k, x, a, m) = m /\ After(k, x, e, m) = m
        BY <1>5, <2>3, <2>5
      <3>2. After(k, x, e, After(k, x, b, After(k, x, a, now))) = now
        BY <2>2, <3>1
      <3> QED BY <1>a, <1>b, <1>4, <2>1, <3>2
    <2> QED BY <2>4, <2>5
  <1>9. CASE s.learn \notin {"rate", "rate_async"}
    <2>1. added = <<>>
      BY <1>9 DEF ClockTests!More, Restorable, Changes
    <2> QED BY <1>a, <1>b, <1>4, <2>1
  <1> QED BY <1>8, <1>9

\* The steps the voltage suite adds.
LEMMA VoltageFields ==
  LET P == PROTOCOL_VOLTAGE
      ok == SCMI_SUCCESS
  IN /\ \A d, f, y : IsStep(VoltageTests!LevelSet(d, f, y, VoltageTests!SCMI_SUCCESS),
                            "check", P, VOLTAGE_LEVEL_SET, <<d, f, y>>, ok, "nothing")
     /\ \A m, a, w : IsStep(VoltageTests!VoltageValue(m, a, w), "check", P, m, a, ok, "nothing")
     /\ \A m, a, l : IsStep(VoltageTests!VoltageLearn(m, a, l), "check", P, m, a, ok, l)
     /\ \A d, y : /\ IsStep(VoltageTests!TryStart(d, y), "check", P, VOLTAGE_DESCRIBE_LEVELS,
                            <<d, 0>>, ok, "start")
                  /\ VoltageTests!TryStart(d, y).seen = <<y>>
  BY DEF IsStep, VoltageTests!LevelSet, VoltageTests!Voltage, VoltageTests!VoltageValue,
     VoltageTests!VoltageLearn, VoltageTests!TryStart, VoltageTests!Ask, VoltageTests!AskValue,
     VoltageTests!AskAndLearn, VoltageTests!SCMI_SUCCESS, SCMI_SUCCESS, PROTOCOL_VOLTAGE,
     VoltageTests!PROTOCOL_VOLTAGE, VOLTAGE_LEVEL_SET, VoltageTests!VOLTAGE_LEVEL_SET,
     VOLTAGE_DESCRIBE_LEVELS, VoltageTests!VOLTAGE_DESCRIBE_LEVELS

\* The messages of the voltage protocol that are told apart.
LEMMA VoltageIds ==
  /\ VoltageTests!VOLTAGE_LEVEL_GET = VOLTAGE_LEVEL_GET
  /\ VOLTAGE_LEVEL_SET # VOLTAGE_LEVEL_GET /\ VOLTAGE_LEVEL_SET # VOLTAGE_DESCRIBE_LEVELS
  /\ VOLTAGE_CONFIG_SET # VOLTAGE_LEVEL_GET /\ VOLTAGE_CONFIG_SET # VOLTAGE_DESCRIBE_LEVELS
  /\ VOLTAGE_CONFIG_SET # VOLTAGE_LEVEL_SET
  /\ PROTOCOL_VOLTAGE # PROTOCOL_PERFORMANCE /\ PROTOCOL_VOLTAGE # PROTOCOL_CLOCK
  /\ VOLTAGE_LEVEL_SET \in VoltageMovers
  /\ VOLTAGE_LEVEL_GET \notin VoltageMovers /\ VOLTAGE_DESCRIBE_LEVELS \notin VoltageMovers
  BY DEF VoltageTests!VOLTAGE_LEVEL_GET, VOLTAGE_LEVEL_SET, VOLTAGE_LEVEL_GET,
     VOLTAGE_DESCRIBE_LEVELS, VOLTAGE_CONFIG_SET, PROTOCOL_VOLTAGE, PROTOCOL_PERFORMANCE,
     PROTOCOL_CLOCK, VoltageMovers

\* What a step of the voltage suite puts somewhere.
LEMMA VoltagePuts ==
  ASSUME NEW s, s.proto = PROTOCOL_VOLTAGE, s.expect = SCMI_SUCCESS, NEW k, NEW x
  PROVE  /\ s.kind = "check" /\ s.msg = VOLTAGE_LEVEL_SET =>
              (Put(k, x, s) <=> k = "voltages" /\ x = s.args[1])
         /\ s.learn = "start" => (Put(k, x, s) <=> k = "voltages" /\ x = s.args[1])
         /\ s.msg \notin VoltageMovers /\ s.learn # "start" => ~Put(k, x, s)
  BY VoltageIds DEF Put, Puts, WillPut, Sends

\* A voltage is set to the first that is listed and back.
LEMMA VoltageReturns ==
  ASSUME Shapes, NEW t, NEW s, Restorable(s), Good("voltage", t, s), s.learn # "nothing",
         Execute(s), Answered(s).status = SCMI_SUCCESS, NEW k, NEW x, Setting(k, x)
  PROVE  Returns(k, x, VoltageTests!More(s, Answered(s).value), Found(k, x, Settings),
                 After(k, x, s, Found(k, x, Settings)))
  <1> DEFINE v == Answered(s).value
             d == s.args[1]
             now == Found(k, x, Settings)
             added == VoltageTests!More(s, v)
             set(y) == VoltageTests!LevelSet(d, 0, y, VoltageTests!SCMI_SUCCESS)
             get(w) == VoltageTests!VoltageValue(VOLTAGE_LEVEL_GET, <<d>>, w)
             mine == k = "voltages" /\ x = d
  <1>1. /\ s.proto = PROTOCOL_VOLTAGE /\ s.expect = SCMI_SUCCESS /\ s.kind = "check"
        /\ s.learn = "default" => s.msg = VOLTAGE_LEVEL_GET
    BY Protocols DEF Good, Teaches
  <1>2. s.learn = "default" /\ d \in VoltageHandler!VoltageDomain => v.level = voltage_level[d]
    BY <1>1, Reads
  <1>3. k = "voltages" => x \in VoltageHandler!VoltageDomain /\ now = voltage_level[x]
    BY FoundNow DEF Setting
  <1>4. After(k, x, s, now) = IF s.learn = "start" /\ mine THEN s.seen[1] ELSE now
    <2>1. Put(k, x, s) <=> s.learn = "start" /\ mine
      BY <1>1, VoltagePuts DEF Restorable, Mover
    <2>2. s.learn = "start" => Value("voltages", s) = s.seen[1]
      BY PutsAre
    <2> HIDE DEF now
    <2> QED BY <2>1, <2>2 DEF After
  <1>5. \A y, n : After(k, x, set(y), n) = IF mine THEN y ELSE n
    <2> TAKE y, n
    <2> DEFINE z == set(y)
    <2>1. IsStep(z, "check", PROTOCOL_VOLTAGE, VOLTAGE_LEVEL_SET, <<d, 0, y>>, SCMI_SUCCESS,
                 "nothing")
      BY VoltageFields, Zenon
    <2> HIDE DEF z
    <2>2. Put(k, x, z) <=> mine
      BY <2>1, VoltagePuts DEF IsStep
    <2>3. Value("voltages", z) = y
      BY <2>1, PutsAre DEF IsStep
    <2> QED BY <2>2, <2>3 DEF After, z
  <1>6. \A w, n : After(k, x, get(w), n) = n
    <2> TAKE w, n
    <2> DEFINE z == get(w)
    <2>1. IsStep(z, "check", PROTOCOL_VOLTAGE, VOLTAGE_LEVEL_GET, <<d>>, SCMI_SUCCESS, "nothing")
      BY VoltageFields, Zenon
    <2> HIDE DEF z
    <2>2. ~Put(k, x, z)
      BY <2>1, VoltagePuts, VoltageIds DEF IsStep
    <2> QED BY <2>2 DEF After, z
  <1>7. \A y, n : After(k, x, VoltageTests!TryStart(d, y), n) = IF mine THEN y ELSE n
    <2> TAKE y, n
    <2> DEFINE z == VoltageTests!TryStart(d, y)
    <2>1. /\ IsStep(z, "check", PROTOCOL_VOLTAGE, VOLTAGE_DESCRIBE_LEVELS, <<d, 0>>, SCMI_SUCCESS,
                    "start")
          /\ z.seen = <<y>>
      BY VoltageFields, Zenon
    <2> HIDE DEF z
    <2>2. Put(k, x, z) <=> mine
      BY <2>1, VoltagePuts DEF IsStep
    <2>3. Value("voltages", z) = y
      BY <2>1, PutsAre DEF IsStep
    <2> QED BY <2>2, <2>3 DEF After, z
  <1>a. SUFFICES ASSUME NEW U, NEW r \in Seq(U), NEW was, Ends(k, x, r, After(k, x, s, now), was)
                 PROVE  Ends(k, x, added \o r, now, was)
    BY DEF Returns
  <1>b. /\ Ends(k, x, <<>> \o r, now, was) <=> Ends(k, x, r, now, was)
        /\ \A a : Ends(k, x, <<a>> \o r, now, was) <=> Ends(k, x, r, After(k, x, a, now), was)
        /\ \A a, b, e : Ends(k, x, <<a, b, e>> \o r, now, was)
             <=> Ends(k, x, r, After(k, x, e, After(k, x, b, After(k, x, a, now))), was)
    BY EndsSteps
  <1> HIDE DEF now
  <1>8. CASE s.learn = "default"
    <2>1. added = <<VoltageTests!TryStart(d, v.level)>>
      BY <1>8 DEF VoltageTests!More
    <2>2. After(k, x, VoltageTests!TryStart(d, v.level), now) = now
      BY <1>2, <1>3, <1>7, <1>8
    <2>3. After(k, x, s, now) = now
      BY <1>4, <1>8
    <2> QED BY <1>a, <1>b, <2>1, <2>2, <2>3
  <1>9. CASE s.learn = "start"
    <2>1. PICK a, b, e : /\ added = <<a, b, e>> /\ e = set(s.seen[1])
                         /\ \E y, w : a = set(y) /\ b = get(w)
      BY <1>9, VoltageIds DEF VoltageTests!More, VoltageTests!ChangeLevel
    <2>2. PICK y, w : a = set(y) /\ b = get(w)
      BY <2>1
    <2>3. \A m : After(k, x, b, m) = m
      BY <1>6, <2>2
    <2>4. After(k, x, e, After(k, x, b, After(k, x, a, now))) = IF mine THEN s.seen[1] ELSE now
      BY <1>5, <2>1, <2>2, <2>3
    <2>5. After(k, x, s, now) = IF mine THEN s.seen[1] ELSE now
      BY <1>4, <1>9
    <2> QED BY <1>a, <1>b, <2>1, <2>4, <2>5
  <1>10. CASE s.learn \notin {"default", "start"}
    <2>1. added = <<>>
      BY <1>10 DEF VoltageTests!More, Restorable, Changes
    <2>2. After(k, x, s, now) = now
      BY <1>4, <1>10
    <2> QED BY <1>a, <1>b, <2>1, <2>2
  <1> QED BY <1>8, <1>9, <1>10

-----------------------------------------------------------------------------
(* A test that puts back what it changes goes on.                          *)

\* The steps an answer adds are such steps again.
Adds(added, s) ==
  \A i \in DOMAIN added :
    Restorable(added[i]) /\ (Finding(added[i]) => Finding(s) /\ Len(added) = 1)

\* Steps of three suites that are such: what is kept comes of commands that ask.
LEMMA RestorableStep ==
  ASSUME NEW s, NEW kind, NEW p, NEW m, NEW a, NEW l, IsStep(s, kind, p, m, a, SCMI_SUCCESS, l),
         kind \in {"check", "receive"},
         p \in {PROTOCOL_PERFORMANCE, PROTOCOL_CLOCK, PROTOCOL_VOLTAGE},
         p = PROTOCOL_VOLTAGE => m # VOLTAGE_CONFIG_SET,
         \/ l = "nothing"
         \/ /\ l \in Changes /\ kind = "check"
            /\ p = PROTOCOL_PERFORMANCE => m \notin PerformanceMovers
            /\ p = PROTOCOL_CLOCK => m \notin ClockMovers
            /\ p = PROTOCOL_VOLTAGE => m \notin VoltageMovers
  PROVE  Restorable(s)
  <1>1. l # "nothing" => ~Mover(s)
    BY PerformanceIds, ClockIds, VoltageIds DEF IsStep, Mover, PROTOCOL_BASE, PROTOCOL_SENSOR,
       PROTOCOL_PERFORMANCE, PROTOCOL_CLOCK, PROTOCOL_VOLTAGE
  <1> QED BY <1>1 DEF Restorable, IsStep

\* What the performance suite goes on with, or it is over before it changed anything.
LEMMA PerformanceAdds ==
  ASSUME NEW s, s.learn \in Changes, NEW v
  PROVE  LET added == PerformanceTests!More(s, v)
         IN Adds(added, s) \/ (added = <<PerformanceTests!Skip>> /\ Finding(s))
  <1> DEFINE d == s.args[1]
             added == PerformanceTests!More(s, v)
             fine(z) == Restorable(z) /\ ~Finding(z)
  <1>1. \A m, a : fine(PerformanceTests!Perf(m, a, PerformanceTests!SCMI_SUCCESS))
    <2> TAKE m, a
    <2> DEFINE z == PerformanceTests!Perf(m, a, PerformanceTests!SCMI_SUCCESS)
    <2>1. IsStep(z, "check", PROTOCOL_PERFORMANCE, m, a, SCMI_SUCCESS, "nothing")
      BY PerformanceFields, Zenon
    <2> HIDE DEF z
    <2>2. Restorable(z)
      BY <2>1, PerformanceIds, RestorableStep
    <2> QED BY <2>1, <2>2 DEF Finding, IsStep, z
  <1>2. \A m, a, w : fine(PerformanceTests!PerfValue(m, a, w))
    <2> TAKE m, a, w
    <2> DEFINE z == PerformanceTests!PerfValue(m, a, w)
    <2>1. IsStep(z, "check", PROTOCOL_PERFORMANCE, m, a, SCMI_SUCCESS, "nothing")
      BY PerformanceFields, Zenon
    <2> HIDE DEF z
    <2>2. Restorable(z)
      BY <2>1, PerformanceIds, RestorableStep
    <2> QED BY <2>1, <2>2 DEF Finding, IsStep, z
  <1>3. \A m, w : fine(PerformanceTests!Receive(PerformanceTests!PROTOCOL_PERFORMANCE, m, w))
    <2> TAKE m, w
    <2> DEFINE z == PerformanceTests!Receive(PerformanceTests!PROTOCOL_PERFORMANCE, m, w)
    <2>1. IsStep(z, "receive", PROTOCOL_PERFORMANCE, m, <<>>, SCMI_SUCCESS, "nothing")
      BY PerformanceFields, Zenon
    <2> HIDE DEF z
    <2>2. Restorable(z)
      BY <2>1, PerformanceIds, RestorableStep
    <2> QED BY <2>1, <2>2 DEF Finding, IsStep, z
  <1>4. \A m \in {PERFORMANCE_LIMITS_GET, PERFORMANCE_LEVEL_GET, PERFORMANCE_DOMAIN_ATTRIBUTES} :
          \A a : \A l \in {"limits_before", "level_before", "limits_notified", "level_notified"} :
            Restorable(PerformanceTests!PerfLearn(m, a, l))
            /\ PerformanceTests!PerfLearn(m, a, l).learn = l
    <2> TAKE m \in {PERFORMANCE_LIMITS_GET, PERFORMANCE_LEVEL_GET, PERFORMANCE_DOMAIN_ATTRIBUTES}
    <2> TAKE a
    <2> TAKE l \in {"limits_before", "level_before", "limits_notified", "level_notified"}
    <2> DEFINE z == PerformanceTests!PerfLearn(m, a, l)
    <2>1. IsStep(z, "check", PROTOCOL_PERFORMANCE, m, a, SCMI_SUCCESS, l)
      BY PerformanceFields, Zenon
    <2> HIDE DEF z
    <2>2. m \notin PerformanceMovers
      BY PerformanceIds DEF PerformanceMovers
    <2>3. l \in Changes
      BY DEF Changes
    <2>4. Restorable(z)
      BY <2>1, <2>2, <2>3, PerformanceIds, RestorableStep
    <2> QED BY <2>1, <2>4 DEF IsStep, z
  <1>5. \A y : \A l \in {"limits_notified", "level_notified"} : s.learn = l =>
          LET q == PerformanceTests!FindFrom(y, l)
          IN Adds(q, s) \/ (q = <<PerformanceTests!Skip>> /\ Finding(s))
    BY <1>4, PerformanceIds DEF Adds, PerformanceTests!FindFrom, Finding
  <1>6. /\ s.learn = "limits" => Adds(PerformanceTests!ChangeLimits(d, v), s)
        /\ s.learn = "level" => Adds(PerformanceTests!ChangeLevel(d, v), s)
    BY <1>1, <1>2 DEF Adds, PerformanceTests!ChangeLimits, PerformanceTests!ChangeLevel,
       PerformanceTests!LimitsSet, PerformanceTests!LevelSet
  <1>7. /\ s.learn = "limits_before" => Adds(PerformanceTests!NotifiedLimits(d, v), s)
        /\ s.learn = "level_before" => Adds(PerformanceTests!NotifiedLevel(d, v), s)
    BY <1>1, <1>3 DEF Adds, PerformanceTests!NotifiedLimits, PerformanceTests!NotifiedLevel,
       PerformanceTests!LimitsSet, PerformanceTests!LevelSet
  <1>8. /\ Adds(PerformanceTests!Enable(d, PerformanceTests!PERFORMANCE_NOTIFY_LIMITS,
                  PerformanceTests!PERFORMANCE_LIMITS_GET, "limits_before"), s)
        /\ Adds(PerformanceTests!Enable(d, PerformanceTests!PERFORMANCE_NOTIFY_LEVEL,
                  PerformanceTests!PERFORMANCE_LEVEL_GET, "level_before"), s)
    BY <1>1, <1>4, PerformanceIds DEF Adds, PerformanceTests!Enable, Finding
  <1>9. CASE s.learn \in {"rate", "rate_async", "default", "start"}
    BY <1>9 DEF PerformanceTests!More, Adds
  <1>10. CASE s.learn \in {"limits_notified", "level_notified"}
    BY <1>5, <1>8, <1>10 DEF PerformanceTests!More, PerformanceTests!NextDomain
  <1>11. CASE s.learn \in {"limits", "level", "limits_before", "level_before"}
    BY <1>6, <1>7, <1>11 DEF PerformanceTests!More
  <1> QED BY <1>9, <1>10, <1>11 DEF Changes

\* What the clock suite goes on with.
LEMMA ClockAdds ==
  ASSUME NEW s, s.learn \in Changes, NEW v
  PROVE  Adds(ClockTests!More(s, v), s)
  <1> DEFINE c == s.args[1]
             fine(z) == Restorable(z) /\ ~Finding(z)
  <1>1. \A f, x, y : fine(ClockTests!RateSet(f, x, y, ClockTests!SCMI_SUCCESS))
    <2> TAKE f, x, y
    <2> DEFINE z == ClockTests!RateSet(f, x, y, ClockTests!SCMI_SUCCESS)
    <2>1. IsStep(z, "check", PROTOCOL_CLOCK, CLOCK_RATE_SET, <<f, x, y>>, SCMI_SUCCESS, "nothing")
      BY ClockFields, Zenon
    <2> HIDE DEF z
    <2>2. Restorable(z)
      BY <2>1, ClockIds, RestorableStep
    <2> QED BY <2>1, <2>2 DEF Finding, IsStep, z
  <1>2. \A m, a, w : fine(ClockTests!ClockValue(m, a, w))
    <2> TAKE m, a, w
    <2> DEFINE z == ClockTests!ClockValue(m, a, w)
    <2>1. IsStep(z, "check", PROTOCOL_CLOCK, m, a, SCMI_SUCCESS, "nothing")
      BY ClockFields, Zenon
    <2> HIDE DEF z
    <2>2. Restorable(z)
      BY <2>1, ClockIds, RestorableStep
    <2> QED BY <2>1, <2>2 DEF Finding, IsStep, z
  <1>3. \A m, w : fine(ClockTests!Receive(ClockTests!PROTOCOL_CLOCK, m, w))
    <2> TAKE m, w
    <2> DEFINE z == ClockTests!Receive(ClockTests!PROTOCOL_CLOCK, m, w)
    <2>1. IsStep(z, "receive", PROTOCOL_CLOCK, m, <<>>, SCMI_SUCCESS, "nothing")
      BY ClockFields, Zenon
    <2> HIDE DEF z
    <2>2. Restorable(z)
      BY <2>1, ClockIds, RestorableStep
    <2> QED BY <2>1, <2>2 DEF Finding, IsStep, z
  <1>4. CASE s.learn = "rate"
    BY <1>1, <1>2, <1>4 DEF Adds, ClockTests!More, ClockTests!ChangeRate
  <1>5. CASE s.learn = "rate_async"
    BY <1>1, <1>3, <1>5 DEF Adds, ClockTests!More, ClockTests!ChangeRateAsync
  <1>6. CASE s.learn \notin {"rate", "rate_async"}
    BY <1>6 DEF Adds, ClockTests!More, Changes
  <1> QED BY <1>4, <1>5, <1>6

\* What the voltage suite goes on with.
LEMMA VoltageAdds ==
  ASSUME NEW s, s.learn \in Changes, NEW v
  PROVE  Adds(VoltageTests!More(s, v), s)
  <1> DEFINE d == s.args[1]
             fine(z) == Restorable(z) /\ ~Finding(z)
  <1>1. \A x, f, y : fine(VoltageTests!LevelSet(x, f, y, VoltageTests!SCMI_SUCCESS))
    <2> TAKE x, f, y
    <2> DEFINE z == VoltageTests!LevelSet(x, f, y, VoltageTests!SCMI_SUCCESS)
    <2>1. IsStep(z, "check", PROTOCOL_VOLTAGE, VOLTAGE_LEVEL_SET, <<x, f, y>>, SCMI_SUCCESS,
                 "nothing")
      BY VoltageFields, Zenon
    <2> HIDE DEF z
    <2>2. Restorable(z)
      BY <2>1, VoltageIds, RestorableStep
    <2> QED BY <2>1, <2>2 DEF Finding, IsStep, z
  <1>2. \A a, w : fine(VoltageTests!VoltageValue(VOLTAGE_LEVEL_GET, a, w))
    <2> TAKE a, w
    <2> DEFINE z == VoltageTests!VoltageValue(VOLTAGE_LEVEL_GET, a, w)
    <2>1. IsStep(z, "check", PROTOCOL_VOLTAGE, VOLTAGE_LEVEL_GET, a, SCMI_SUCCESS, "nothing")
      BY VoltageFields, Zenon
    <2> HIDE DEF z
    <2>2. Restorable(z)
      BY <2>1, VoltageIds, RestorableStep
    <2> QED BY <2>1, <2>2 DEF Finding, IsStep, z
  <1>3. \A x, y : fine(VoltageTests!TryStart(x, y))
    <2> TAKE x, y
    <2> DEFINE z == VoltageTests!TryStart(x, y)
    <2>1. IsStep(z, "check", PROTOCOL_VOLTAGE, VOLTAGE_DESCRIBE_LEVELS, <<x, 0>>, SCMI_SUCCESS,
                 "start")
      BY VoltageFields, Zenon
    <2> HIDE DEF z
    <2>2. "start" \in Changes
      BY DEF Changes
    <2>3. Restorable(z)
      BY <2>1, <2>2, VoltageIds, RestorableStep
    <2> QED BY <2>1, <2>3 DEF Finding, IsStep, z
  <1>4. CASE s.learn = "default"
    BY <1>3, <1>4 DEF Adds, VoltageTests!More
  <1>5. CASE s.learn = "start"
    BY <1>1, <1>2, <1>5, VoltageIds DEF Adds, VoltageTests!More, VoltageTests!ChangeLevel
  <1>6. CASE s.learn \notin {"default", "start"}
    BY <1>6 DEF Adds, VoltageTests!More, Changes
  <1> QED BY <1>4, <1>5, <1>6


-----------------------------------------------------------------------------
(* What holds while a test changes settings, and when it is over.          *)

\* The settings found when the test began are settings.
BeforeOK ==
  before = [limits |-> [d \in PerformanceHandler!DomainId |-> before.limits[d]],
            levels |-> [d \in PerformanceHandler!DomainId |-> before.levels[d]],
            rates  |-> [c \in ClockHandler!ClockId |-> before.rates[c]],
            clocks |-> [c \in ClockHandler!ClockId |-> before.clocks[c]],
            voltages |-> [d \in VoltageHandler!VoltageDomain |-> before.voltages[d]],
            modes  |-> before.modes, access |-> before.access, notifying |-> before.notifying]

\* What is left of the test puts back what is not as it was.
PutBack(q, now, was) ==
  /\ RestorableProgram(q)
  /\ \A k, x : Setting(k, x) => Ends(k, x, q, Found(k, x, now), Found(k, x, was))
  /\ now.modes = was.modes /\ now.access = was.access

\* All settings are as they were, but for notifications that were given up.
AllBack(now, was) ==
  /\ \A k, x : Setting(k, x) => Within(k, Found(k, x, now), Found(k, x, was))
  /\ now.modes = was.modes /\ now.access = was.access

\* The settings the platform has for its tables: the next state has settings for
\* the same.
LEMMA SettingNext == \A k, x : Setting(k, x)' <=> Setting(k, x)
  <1>1. /\ PerformanceHandler!DomainId' = PerformanceHandler!DomainId
        /\ ClockHandler!ClockId' = ClockHandler!ClockId
        /\ VoltageHandler!VoltageDomain' = VoltageHandler!VoltageDomain
    BY DEF ClockHandler!ClockId, PerformanceHandler!DomainId, VoltageHandler!VoltageDomain
  <1> QED BY <1>1 DEF Setting

\* A program that is over, and one that comes to a Skip, ends with the settings as they are.
LEMMA EndsNow ==
  ASSUME NEW q, q = <<>> \/ (\E s : q = <<s>> /\ s.kind = "skip" /\ s.learn = "nothing"),
         NEW k, NEW x, NEW now, NEW was, Ends(k, x, q, now, was)
  PROVE  Within(k, now, was)
  <1>1. \A i \in DOMAIN q : ~Put(k, x, q[i])
    BY DEF Put, Puts, WillPut, Sends
  <1> QED BY <1>1 DEF Ends

\* Settings that are all back are those found, but for notifications.
LEMMA BackRegained ==
  ASSUME Shapes', BeforeOK, before' = before, AllBack(Settings', before)
  PROVE  Regained'
  <1>1. /\ PerformanceHandler!DomainId' = PerformanceHandler!DomainId
        /\ ClockHandler!ClockId' = ClockHandler!ClockId
        /\ VoltageHandler!VoltageDomain' = VoltageHandler!VoltageDomain
    BY DEF ClockHandler!ClockId, PerformanceHandler!DomainId, VoltageHandler!VoltageDomain
  <1> DEFINE D == PerformanceHandler!DomainId
             C == ClockHandler!ClockId
             V == VoltageHandler!VoltageDomain
  <1>2. /\ \A d \in D : /\ LimitsNow(d)' = before.limits[d]
                        /\ LevelNow(d)' = before.levels[d]
        /\ \A c \in C : RateNow(c)' = before.rates[c] /\ clock_status'[c] = before.clocks[c]
        /\ \A d \in V : voltage_level'[d] = before.voltages[d]
        /\ notifying' \subseteq before.notifying
        /\ Settings'.modes = before.modes /\ Settings'.access = before.access
    <2>1. \A k, x : Setting(k, x) =>
            \/ Found(k, x, Settings') = Found(k, x, before)
            \/ k = "notifying" /\ Found(k, x, Settings') = 0
      BY DEF AllBack, Within
    <2>2. /\ \A d \in D : Setting("limits", d) /\ Setting("levels", d)
          /\ \A c \in C : Setting("rates", c) /\ Setting("clocks", c)
          /\ \A d \in V : Setting("voltages", d)
          /\ \A x : Setting("notifying", x)
      BY DEF Setting, Kinds
    <2>3. \A x : /\ Found("limits", x, before) = before.limits[x]
                 /\ Found("levels", x, before) = before.levels[x]
                 /\ Found("rates", x, before) = before.rates[x]
                 /\ Found("clocks", x, before) = before.clocks[x]
                 /\ Found("voltages", x, before) = before.voltages[x]
                 /\ Found("notifying", x, before) = IF x \in before.notifying THEN 1 ELSE 0
      BY DEF Found
    <2>4. \A d \in D : /\ Found("limits", d, Settings') = Found("limits", d, before)
                       /\ Found("levels", d, Settings') = Found("levels", d, before)
      BY <2>1, <2>2
    <2>5. \A c \in C : /\ Found("rates", c, Settings') = Found("rates", c, before)
                       /\ Found("clocks", c, Settings') = Found("clocks", c, before)
      BY <2>1, <2>2
    <2>6. \A d \in V : Found("voltages", d, Settings') = Found("voltages", d, before)
      BY <2>1, <2>2
    <2>7. notifying' \subseteq before.notifying
      <3>1. \A x : \/ Found("notifying", x, Settings') = Found("notifying", x, before)
                   \/ Found("notifying", x, Settings') = 0
        BY <2>1, <2>2
      <3>2. \A x : Found("notifying", x, Settings') = IF x \in notifying' THEN 1 ELSE 0
        BY FoundNow
      <3> QED BY <2>3, <3>1, <3>2
    <2> QED BY <2>3, <2>4, <2>5, <2>6, <2>7, FoundNow DEF AllBack
  <1>3. Settings' = [limits |-> [d \in D |-> LimitsNow(d)'],
                     levels |-> [d \in D |-> LevelNow(d)'],
                     rates  |-> [c \in C |-> RateNow(c)'],
                     clocks |-> clock_status',
                     voltages |-> voltage_level', modes |-> Settings'.modes,
                     access |-> Settings'.access, notifying |-> notifying']
    BY <1>1 DEF Settings, LimitsNow, LevelNow, RateNow
  <1>4. /\ clock_status' = [c \in C |-> clock_status'[c]]
        /\ voltage_level' = [d \in V |-> voltage_level'[d]]
    BY <1>1 DEF Shapes
  <1>5. /\ [d \in D |-> LimitsNow(d)'] = [d \in D |-> before.limits[d]]
        /\ [d \in D |-> LevelNow(d)'] = [d \in D |-> before.levels[d]]
        /\ [c \in C |-> RateNow(c)'] = [c \in C |-> before.rates[c]]
        /\ [c \in C |-> clock_status'[c]] = [c \in C |-> before.clocks[c]]
        /\ [d \in V |-> voltage_level'[d]] = [d \in V |-> before.voltages[d]]
    BY <1>2
  <1>6. ASSUME NEW f \in {"limits", "levels", "rates", "clocks", "voltages", "modes"}
        PROVE  Settings'[f] = before[f]
    <2>1. /\ before.limits = [d \in D |-> before.limits[d]]
          /\ before.levels = [d \in D |-> before.levels[d]]
          /\ before.rates = [c \in C |-> before.rates[c]]
          /\ before.clocks = [c \in C |-> before.clocks[c]]
          /\ before.voltages = [d \in V |-> before.voltages[d]]
      BY DEF BeforeOK
    <2>2. /\ Settings'.limits = before.limits /\ Settings'.levels = before.levels
          /\ Settings'.rates = before.rates /\ Settings'.clocks = before.clocks
          /\ Settings'.voltages = before.voltages /\ Settings'.modes = before.modes
      <3>1. /\ Settings'.limits = [d \in D |-> LimitsNow(d)']
            /\ Settings'.levels = [d \in D |-> LevelNow(d)']
            /\ Settings'.rates  = [c \in C |-> RateNow(c)']
            /\ Settings'.clocks = clock_status' /\ Settings'.voltages = voltage_level'
        BY <1>3
      <3> QED BY <1>2, <1>4, <1>5, <2>1, <3>1
    <2> QED BY <2>2
  <1>7. DOMAIN Settings' = {"limits", "levels", "rates", "clocks", "voltages", "modes", "access",
                            "notifying"}
    BY <1>3
  <1> QED BY <1>2, <1>6, <1>7 DEF Regained, AllBack

\* A program that is skipped.
Skipped(q) == \E s : q = <<s>> /\ s.kind = "skip" /\ s.learn = "nothing"

\* What an answer adds to a test that puts its changes back, whichever suite it is of.
LEMMA Added ==
  ASSUME Shapes, suite \in {"performance", "clock", "voltage"}, NEW t, NEW s, Restorable(s),
         Good(suite, t, s), Execute(s), Answered(s).status = SCMI_SUCCESS, s.kind = "check"
  PROVE  LET added == MoreOf(suite, s, Answered(s).value)
         IN /\ Adds(added, s) \/ (Skipped(added) /\ Finding(s))
            /\ \A k, x : Setting(k, x) =>
                 Returns(k, x, added, Found(k, x, Settings'), After(k, x, s, Found(k, x, Settings)))
  <1> DEFINE v == Answered(s).value
             added == MoreOf(suite, s, v)
  <1>1. CASE s.learn = "nothing"
    <2>1. added = <<>>
      BY <1>1 DEF MoreOf, PerformanceTests!More, ClockTests!More, VoltageTests!More
    <2>2. Adds(added, s)
      BY <2>1 DEF Adds
    <2>3. ASSUME NEW k, NEW x, Setting(k, x)
          PROVE  Returns(k, x, added, Found(k, x, Settings'), After(k, x, s, Found(k, x, Settings)))
      <3>1. Put(k, x, s) <=> Puts(k, x, s)
        BY <1>1 DEF Put, WillPut
      <3>2. Found(k, x, Settings') = After(k, x, s, Found(k, x, Settings))
        BY <2>3, <3>1, Moved DEF After
      <3> QED BY <2>1, <3>2, EndsSteps DEF Returns
    <2> QED BY <2>2, <2>3
  <1>2. CASE s.learn # "nothing"
    <2>1. s.learn \in Changes /\ ~Mover(s)
      BY <1>2 DEF Restorable
    <2>2. \A k, x : Setting(k, x) => Found(k, x, Settings') = Found(k, x, Settings)
      <3>1. \A k, x : ~Puts(k, x, s)
        BY <1>2, PuttersAreMovers
      <3> QED BY <3>1, Moved
    <2>3. CASE suite = "performance"
      <3>1. added = PerformanceTests!More(s, v)
        BY <2>3 DEF MoreOf
      <3>2. Adds(added, s) \/ (added = <<PerformanceTests!Skip>> /\ Finding(s))
        BY <2>1, <3>1, PerformanceAdds
      <3>3. PerformanceTests!Skip.kind = "skip" /\ PerformanceTests!Skip.learn = "nothing"
        BY DEF PerformanceTests!Skip, PerformanceTests!Ask
      <3> QED BY <1>2, <2>2, <2>3, <3>1, <3>2, <3>3, PerformanceReturns DEF Skipped
    <2>4. CASE suite = "clock"
      <3>1. added = ClockTests!More(s, v)
        BY <2>4 DEF MoreOf
      <3> QED BY <1>2, <2>1, <2>2, <2>4, <3>1, ClockAdds, ClockReturns
    <2>5. CASE suite = "voltage"
      <3>1. added = VoltageTests!More(s, v)
        BY <2>5 DEF MoreOf
      <3> QED BY <1>2, <2>1, <2>2, <2>5, <3>1, VoltageAdds, VoltageReturns
    <2> QED BY <2>3, <2>4, <2>5
  <1> QED BY <1>1, <1>2

\* No step of such a test is a Skip that an answer would take away.
LEMMA NoneTaken ==
  ASSUME NEW U, steps \in Seq(U), steps # <<>>, RestorableProgram(steps), NEW added
  PROVE  Extended(added) = added \o Tail(steps)
  <1>1. CASE Tail(steps) = <<>>
    BY <1>1 DEF Extended
  <1>2. CASE Tail(steps) # <<>>
    <2>1. Lists!Last(Tail(steps)) = steps[Len(steps)] /\ Len(steps) \in DOMAIN steps
      BY <1>2 DEF Lists!Last
    <2>2. Lists!Last(Tail(steps)).kind # "skip"
      BY <2>1 DEF RestorableProgram, Restorable
    <2> QED BY <2>2 DEF Extended
  <1> QED BY <1>1, <1>2

\* The program that is left puts back what it has to.
LEMMA GoesOn ==
  ASSUME Shapes, suite \in {"performance", "clock", "voltage"}, NEW t, NEW s,
         GoodProgram(suite, t, steps), steps # <<>>, s = Head(steps),
         NEW was, PutBack(steps, Settings, was),
         NEW U, NEW added \in Seq(U), Adds(added, s) \/ (Skipped(added) /\ Finding(s)),
         \A k, x : Setting(k, x) =>
           Returns(k, x, added, Found(k, x, Settings'), After(k, x, s, Found(k, x, Settings))),
         Settings'.modes = Settings.modes, Settings'.access = Settings.access
  PROVE  LET more == Extended(added)
         IN \/ PutBack(more, Settings', was)
            \/ Skipped(more) /\ AllBack(Settings', was)
  <1> DEFINE rest == Tail(steps)
             more == added \o rest
  <1>1. PICK V : steps \in Seq(V)
    BY ProgramIsSequence
  <1>2. RestorableProgram(steps)
    BY DEF PutBack
  <1>3. Extended(added) = more
    BY <1>1, <1>2, NoneTaken
  <1>4. rest \in Seq(V) /\ steps = <<s>> \o rest /\ Len(steps) = Len(rest) + 1
    BY <1>1
  <1>5. \A k, x : Setting(k, x) =>
          Ends(k, x, more, Found(k, x, Settings'), Found(k, x, was))
    <2> TAKE k, x
    <2> HAVE Setting(k, x)
    <2>1. Ends(k, x, <<s>> \o rest, Found(k, x, Settings), Found(k, x, was))
      BY <1>4 DEF PutBack
    <2> HIDE DEF rest
    <2>2. Ends(k, x, rest, After(k, x, s, Found(k, x, Settings)), Found(k, x, was))
      BY <1>4, <2>1, EndsStep
    <2> QED BY <1>4, <2>2 DEF Returns
  <1>6. Settings'.modes = was.modes /\ Settings'.access = was.access
    BY DEF PutBack
  <1>7. Finding(s) => rest = <<>> /\ Len(rest) = 0 /\ added \o rest = added
    <2>1. 1 \in DOMAIN steps /\ steps[1] = s
      BY <1>4
    <2>2. Finding(s) => Len(steps) = 1
      BY <1>2, <2>1 DEF RestorableProgram
    <2>3. \A y \in Seq(V) : Len(y) + 1 = 1 => y = <<>> /\ Len(y) = 0
      OBVIOUS
    <2>4. added \o <<>> = added
      OBVIOUS
    <2> QED BY <1>4, <2>2, <2>3, <2>4
  <1>8. CASE Adds(added, s)
    <2>1. \A i \in DOMAIN more :
            \/ i \in DOMAIN added /\ more[i] = added[i]
            \/ i - Len(added) + 1 \in DOMAIN steps /\ more[i] = steps[i - Len(added) + 1]
               /\ rest # <<>>
      BY <1>1, <1>4
    <2>2. Len(more) = Len(added) + Len(rest)
      BY <1>4
    <2> HIDE DEF more
    <2>3. \A i \in DOMAIN steps : rest # <<>> => Restorable(steps[i]) /\ ~Finding(steps[i])
      BY <1>1, <1>2, <1>4 DEF RestorableProgram
    <2> HIDE DEF rest
    <2>4. RestorableProgram(more)
      <3> SUFFICES ASSUME NEW i \in DOMAIN more
                   PROVE  Restorable(more[i]) /\ (Finding(more[i]) => Len(more) = 1)
        BY DEF RestorableProgram
      <3>1. CASE i \in DOMAIN added /\ more[i] = added[i]
        <4>1. Restorable(added[i]) /\ (Finding(added[i]) => Finding(s) /\ Len(added) = 1)
          BY <1>8, <3>1 DEF Adds
        <4>2. Finding(added[i]) => Len(more) = 1
          <5>1. ASSUME Len(added) = 1, Len(rest) = 0 PROVE Len(more) = 1
            BY <2>2, <5>1
          <5> QED BY <1>7, <4>1, <5>1
        <4> QED BY <3>1, <4>1, <4>2
      <3>2. CASE /\ i - Len(added) + 1 \in DOMAIN steps
                 /\ more[i] = steps[i - Len(added) + 1] /\ rest # <<>>
        BY <2>3, <3>2
      <3> QED BY <2>1, <3>1, <3>2
    <2> QED BY <1>3, <1>5, <1>6, <2>4 DEF PutBack
  <1>9. CASE Skipped(added) /\ Finding(s)
    <2>1. more = added
      BY <1>7, <1>9
    <2> QED BY <1>3, <1>5, <1>6, <1>9, <2>1, EndsNow DEF Skipped, AllBack
  <1> QED BY <1>8, <1>9

-----------------------------------------------------------------------------
(* How the tests that change settings begin.                               *)

\* They ask for a setting before they put it anywhere.
Asks(s) == Restorable(s) /\ ~Finding(s) /\ \A k, x : ~Put(k, x, s)

Asking(q) ==
  \A i \in DOMAIN q :
    Restorable(q[i]) /\ (Finding(q[i]) => Len(q) = 1) /\ \A k, x : ~Put(k, x, q[i])

\* A loop of questions.
LEMMA AskEach ==
  ASSUME NEW n \in Nat, NEW U, \A z \in U : Asks(z),
         NEW ss, ss = [i \in 1..n |-> ss[i]], \A i \in 1..n : ss[i] \in Seq(U)
  PROVE  Asking(Lists!FlattenSeq(ss))
  <1>1. ss \in Seq(Seq(U))
    OBVIOUS
  <1> PICK q : q = Lists!FlattenSeq(ss)
    OBVIOUS
  <1>2. q \in Seq(U)
    BY <1>1, FlattenType
  <1>3. \A i \in DOMAIN q : q[i] \in U
    BY <1>2
  <1>4. \A i \in DOMAIN q : Asks(q[i])
    BY <1>3
  <1> QED BY <1>4, Zenon DEF Asking, Asks

\* The questions of the performance suite, the clock suite and the voltage suite.
LEMMA Questions ==
  /\ \A x : Asks(PerformanceTests!PerfLearn(PERFORMANCE_LIMITS_GET, x, "limits"))
            /\ Asks(PerformanceTests!PerfLearn(PERFORMANCE_LEVEL_GET, x, "level"))
  /\ \A x : \A l \in {"rate", "rate_async"} : Asks(ClockTests!ClockLearn(CLOCK_RATE_GET, x, l))
  /\ \A x : Asks(VoltageTests!VoltageLearn(VOLTAGE_LEVEL_GET, x, "default"))
  /\ \A x : \A l \in {"limits_notified", "level_notified"} :
       LET z == PerformanceTests!PerfLearn(PERFORMANCE_DOMAIN_ATTRIBUTES, x, l)
       IN Restorable(z) /\ \A k, y : ~Put(k, y, z)
  <1>1. ASSUME NEW a, NEW m \in {PERFORMANCE_LIMITS_GET, PERFORMANCE_LEVEL_GET,
                                 PERFORMANCE_DOMAIN_ATTRIBUTES},
               NEW l \in {"limits", "level", "limits_notified", "level_notified"}
        PROVE  LET z == PerformanceTests!PerfLearn(m, a, l)
               IN z.learn = l /\ Restorable(z) /\ \A k, y : ~Put(k, y, z)
    <2> DEFINE z == PerformanceTests!PerfLearn(m, a, l)
    <2>1. IsStep(z, "check", PROTOCOL_PERFORMANCE, m, a, SCMI_SUCCESS, l)
      BY PerformanceFields, Zenon
    <2> HIDE DEF z
    <2>2. m \notin PerformanceMovers /\ l \in Changes
      BY PerformanceIds DEF PerformanceMovers, Changes
    <2>3. Restorable(z)
      BY <2>1, <2>2, PerformanceIds, RestorableStep
    <2>4. \A k, y : ~Put(k, y, z)
      BY <2>1, PerformancePuts DEF IsStep
    <2> QED BY <2>1, <2>3, <2>4 DEF IsStep, z
  <1>2. ASSUME NEW a, NEW l \in {"rate", "rate_async"}
        PROVE  Asks(ClockTests!ClockLearn(CLOCK_RATE_GET, a, l))
    <2> DEFINE z == ClockTests!ClockLearn(CLOCK_RATE_GET, a, l)
    <2>1. IsStep(z, "check", PROTOCOL_CLOCK, CLOCK_RATE_GET, a, SCMI_SUCCESS, l)
      BY ClockFields, Zenon
    <2> HIDE DEF z
    <2>2. l \in Changes
      BY DEF Changes
    <2>3. Restorable(z)
      BY <2>1, <2>2, ClockIds, RestorableStep
    <2>4. \A k, y : ~Put(k, y, z)
      BY <2>1, ClockIds, ClockPuts DEF IsStep
    <2> QED BY <2>1, <2>3, <2>4 DEF IsStep, z, Asks, Finding
  <1>3. ASSUME NEW a PROVE Asks(VoltageTests!VoltageLearn(VOLTAGE_LEVEL_GET, a, "default"))
    <2> DEFINE z == VoltageTests!VoltageLearn(VOLTAGE_LEVEL_GET, a, "default")
    <2>1. IsStep(z, "check", PROTOCOL_VOLTAGE, VOLTAGE_LEVEL_GET, a, SCMI_SUCCESS, "default")
      BY VoltageFields, Zenon
    <2> HIDE DEF z
    <2>2. "default" \in Changes
      BY DEF Changes
    <2>3. Restorable(z)
      BY <2>1, <2>2, VoltageIds, RestorableStep
    <2>4. \A k, y : ~Put(k, y, z)
      BY <2>1, VoltageIds, VoltagePuts DEF IsStep
    <2> QED BY <2>1, <2>3, <2>4 DEF IsStep, z, Asks, Finding
  <1>4. ASSUME NEW a
        PROVE  Asks(PerformanceTests!PerfLearn(PERFORMANCE_LIMITS_GET, a, "limits"))
               /\ Asks(PerformanceTests!PerfLearn(PERFORMANCE_LEVEL_GET, a, "level"))
    BY <1>1 DEF Asks, Finding
  <1> QED BY <1>1, <1>2, <1>3, <1>4

\* Each of the tests of the performance, the clock and the voltage suite that
\* change settings, but for c017, has nothing to try or begins with questions.
LEMMA Beginnings ==
  ASSUME Tables, NEW p, NEW t \in Restoring \ {"c017"}, t \in TestsOf(p), p \in Keeper
  PROVE  Skipped(ProgramOf(p, t)) \/ Asking(ProgramOf(p, t))
  <1> DEFINE P(q) == Skipped(q) \/ Asking(q)
  <1>1. /\ P(<<PerformanceTests!Skip>>) /\ P(<<ClockTests!Skip>>) /\ P(<<VoltageTests!Skip>>)
        /\ P(<<>>)
    <2>1. /\ PerformanceTests!Skip.kind = "skip" /\ PerformanceTests!Skip.learn = "nothing"
          /\ ClockTests!Skip.kind = "skip" /\ ClockTests!Skip.learn = "nothing"
          /\ VoltageTests!Skip.kind = "skip" /\ VoltageTests!Skip.learn = "nothing"
      BY DEF PerformanceTests!Skip, ClockTests!Skip, VoltageTests!Skip,
         PerformanceTests!Ask, ClockTests!Ask, VoltageTests!Ask
    <2>2. Asking(<<>>)
      BY DEF Asking
    <2> QED BY <2>1, <2>2 DEF Skipped
  <1>2. /\ table.performance.domains \in Nat /\ table.clock.clocks \in Nat
        /\ table.voltage.domains \in Nat
    BY TablesAssumption DEF Tables, Keeper, TableOf, PerformanceTable, ClockTable, VoltageTable
  <1>3. ASSUME p = "performance", t \in {"d009", "d013"} PROVE P(ProgramOf(p, t))
    <2> DEFINE n == table.performance.domains
               u9 == {PerformanceTests!PerfLearn(PERFORMANCE_LIMITS_GET, <<i - 1>>, "limits")
                        : i \in 1..n}
               u13 == {PerformanceTests!PerfLearn(PERFORMANCE_LEVEL_GET, <<i - 1>>, "level")
                         : i \in 1..n}
               U == u9 \cup u13
               s9 == [i \in 1..n |->
                        IF PerformanceTests!Limitable(i - 1)
                        THEN <<PerformanceTests!PerfLearn(
                              PerformanceTests!PERFORMANCE_LIMITS_GET, <<i - 1>>, "limits")>>
                        ELSE <<>>]
               s13 == [i \in 1..n |->
                        IF PerformanceTests!Levelable(i - 1)
                        THEN <<PerformanceTests!PerfLearn(
                              PerformanceTests!PERFORMANCE_LEVEL_GET, <<i - 1>>, "level")>>
                        ELSE <<>>]
    <2>1. \A z \in U : Asks(z)
      BY Questions
    <2>2. \A i \in 1..n : s9[i] \in Seq(U) /\ s13[i] \in Seq(U)
      <3> TAKE i \in 1..n
      <3>1. /\ PerformanceTests!PerfLearn(
                 PerformanceTests!PERFORMANCE_LIMITS_GET, <<i - 1>>, "limits") \in U
            /\ PerformanceTests!PerfLearn(
                 PerformanceTests!PERFORMANCE_LEVEL_GET, <<i - 1>>, "level") \in U
        BY PerformanceIds
      <3>2. /\ s9[i] \in {<<PerformanceTests!PerfLearn(
                 PerformanceTests!PERFORMANCE_LIMITS_GET, <<i - 1>>, "limits")>>, <<>>}
            /\ s13[i] \in {<<PerformanceTests!PerfLearn(
                 PerformanceTests!PERFORMANCE_LEVEL_GET, <<i - 1>>, "level")>>, <<>>}
        OBVIOUS
      <3> HIDE DEF U, s9, s13
      <3>3. \A z \in U : <<z>> \in Seq(U) /\ <<>> \in Seq(U)
        OBVIOUS
      <3> QED BY <3>1, <3>2, <3>3
    <2> HIDE DEF U
    <2>3. Asking(Lists!FlattenSeq(s9)) /\ Asking(Lists!FlattenSeq(s13))
      BY <1>2, <2>1, <2>2, AskEach
    <2>4. PerformanceTests!Lists!FlattenSeq(s9) = Lists!FlattenSeq(s9)
          /\ PerformanceTests!Lists!FlattenSeq(s13) = Lists!FlattenSeq(s13)
      BY DEF PerformanceTests!Lists!FlattenSeq, Lists!FlattenSeq
    <2>5. \A q : P(q) => P(PerformanceTests!IfDomains(PerformanceTests!WhenAny(q)))
      BY <1>1 DEF PerformanceTests!IfDomains, PerformanceTests!IfSome, PerformanceTests!WhenAny
    <2>6. /\ P(PerformanceTests!IfDomains(PerformanceTests!WhenAny(
                 PerformanceTests!Lists!FlattenSeq(s9))))
          /\ P(PerformanceTests!IfDomains(PerformanceTests!WhenAny(
                 PerformanceTests!Lists!FlattenSeq(s13))))
      BY <2>3, <2>4, <2>5
    <2>7. P(PerformanceTests!TestD009) /\ P(PerformanceTests!TestD013)
      BY <2>6 DEF PerformanceTests!TestD009, PerformanceTests!TestD013, PerformanceTests!ForDomains,
         PerformanceTests!ForCapable, PerformanceTests!ForEach
    <2>8. \/ ProgramOf(p, t) = PerformanceTests!TestD009
          \/ ProgramOf(p, t) = PerformanceTests!TestD013
      BY <1>3 DEF ProgramOf, PerformanceTests!Program
    <2> QED BY <2>7, <2>8
  <1>4. ASSUME p = "performance", t \in {"d026", "d027"} PROVE P(ProgramOf(p, t))
    <2>1. \A l \in {"limits_notified", "level_notified"} : P(PerformanceTests!FindFrom(0, l))
      BY <1>1, Questions, PerformanceIds DEF PerformanceTests!FindFrom, Asking
    <2>2. \/ ProgramOf(p, t) = PerformanceTests!FindFrom(0, "limits_notified")
          \/ ProgramOf(p, t) = PerformanceTests!FindFrom(0, "level_notified")
      BY <1>4 DEF ProgramOf, PerformanceTests!Program, PerformanceTests!TestD026,
         PerformanceTests!TestD027
    <2> QED BY <2>1, <2>2
  <1>5. ASSUME p = "clock", t \in {"c009", "c010"} PROVE P(ProgramOf(p, t))
    <2>1. ASSUME NEW l \in {"rate", "rate_async"} PROVE P(ClockTests!RateLearn(l))
      <3> DEFINE n == table.clock.clocks
                 U == {ClockTests!ClockLearn(CLOCK_RATE_GET, <<i - 1>>, l) : i \in 1..n}
                 ss == [i \in 1..n |-> <<ClockTests!ClockLearn(ClockTests!CLOCK_RATE_GET,
                         <<i - 1>>, l)>>]
      <3>1. \A z \in U : Asks(z)
        BY Questions
      <3>2. \A i \in 1..n : ss[i] \in Seq(U)
        <4> TAKE i \in 1..n
        <4>1. ClockTests!ClockLearn(ClockTests!CLOCK_RATE_GET, <<i - 1>>, l) \in U
          BY ClockIds
        <4> HIDE DEF U
        <4> QED BY <4>1
      <3> HIDE DEF U
      <3>3. Asking(Lists!FlattenSeq(ss))
        BY <1>2, <3>1, <3>2, AskEach
      <3>4. ClockTests!Lists!FlattenSeq(ss) = Lists!FlattenSeq(ss)
        BY DEF ClockTests!Lists!FlattenSeq, Lists!FlattenSeq
      <3>5. P(ClockTests!IfClocks(ClockTests!Lists!FlattenSeq(ss)))
        BY <1>1, <3>3, <3>4 DEF ClockTests!IfClocks, ClockTests!IfSome
      <3> QED BY <3>5 DEF ClockTests!RateLearn, ClockTests!ForEach
    <2>2. P(ClockTests!TestC009) /\ P(ClockTests!TestC010)
      BY <1>1, <2>1 DEF ClockTests!TestC009, ClockTests!TestC010
    <2>3. ProgramOf(p, t) = ClockTests!TestC009 \/ ProgramOf(p, t) = ClockTests!TestC010
      BY <1>5 DEF ProgramOf, ClockTests!Program
    <2> QED BY <2>2, <2>3
  <1>6. ASSUME p = "voltage", t = "v012" PROVE P(ProgramOf(p, t))
    <2> DEFINE n == table.voltage.domains
               U == {VoltageTests!VoltageLearn(VOLTAGE_LEVEL_GET, <<i - 1>>, "default")
                       : i \in 1..n}
               ss == [i \in 1..n |->
                        <<VoltageTests!VoltageLearn(VoltageTests!VOLTAGE_LEVEL_GET, <<i - 1>>,
                                                    "default")>>]
    <2>1. \A z \in U : Asks(z)
      BY Questions
    <2>2. \A i \in 1..n : ss[i] \in Seq(U)
      <3> TAKE i \in 1..n
      <3>1. VoltageTests!VoltageLearn(VoltageTests!VOLTAGE_LEVEL_GET, <<i - 1>>, "default") \in U
        BY VoltageIds
      <3> HIDE DEF U
      <3> QED BY <3>1
    <2> HIDE DEF U
    <2>3. Asking(Lists!FlattenSeq(ss))
      BY <1>2, <2>1, <2>2, AskEach
    <2>4. VoltageTests!Lists!FlattenSeq(ss) = Lists!FlattenSeq(ss)
      BY DEF VoltageTests!Lists!FlattenSeq, Lists!FlattenSeq
    <2>5. P(VoltageTests!IfDomains(VoltageTests!Lists!FlattenSeq(ss)))
      BY <1>1, <2>3, <2>4 DEF VoltageTests!IfDomains, VoltageTests!IfSome
    <2>6. P(VoltageTests!TestV012)
      BY <2>5 DEF VoltageTests!TestV012, VoltageTests!ForEach
    <2> QED BY <1>6, <2>6 DEF ProgramOf, VoltageTests!Program
  <1>7. \/ p = "performance" /\ t \in {"d009", "d013", "d026", "d027"}
        \/ p = "clock" /\ t \in {"c009", "c010"}
        \/ p = "voltage" /\ t = "v012"
    BY DEF TestsOf, Restoring, Keeper
  <1> QED BY <1>3, <1>4, <1>5, <1>6, <1>7

=============================================================================
