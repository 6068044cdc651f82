--------------------------- MODULE VoltagePlatform ---------------------------
(***************************************************************************)
(* A platform with voltage domains (external): the repository simulates    *)
(* none, but the voltage suite is written for one.  It does what the suite *)
(* says it expects: it lists levels in pages, or as a triplet, and keeps   *)
(* the level and the operating mode it is told.                            *)
(*                                                                         *)
(* The tables are one record, voltage:                                     *)
(*   domains    their number                                               *)
(*   levels[d]  the levels of domain d, lowest first; of a domain of       *)
(*              triplet, the lowest, the highest and the step              *)
(*   page       how many levels an answer has room for                     *)
(***************************************************************************)
EXTENDS MockerHandler, FiniteSetsExt

CONSTANTS voltage

VARIABLES voltage_level, voltage_mode    \* by domain

VoltageDomain == DOMAIN voltage.levels

VoltageReport(m, a, st, v) ==
  Respond(PROTOCOL_VOLTAGE, m, a, st, v) /\ UNCHANGED <<voltage_level, voltage_mode>>

-----------------------------------------------------------------------------
VoltageVersion == VoltageReport(PROTOCOL_VERSION, <<>>, SCMI_SUCCESS, [version |-> 1])

VoltageAttributes ==
  VoltageReport(PROTOCOL_ATTRIBUTES, <<>>, SCMI_SUCCESS,
                [reserved |-> 0, domains |-> voltage.domains])

VoltageMessageAttributes(id) ==
  VoltageReport(PROTOCOL_MESSAGE_ATTRIBUTES, <<id>>,
                FoundThen(id <= VOLTAGE_LEVEL_GET, SCMI_SUCCESS), [attributes |-> 0])

DomainAttributes(d) ==
  VoltageReport(VOLTAGE_DOMAIN_ATTRIBUTES, <<d>>,
                FoundThen(d \in VoltageDomain, SCMI_SUCCESS), [reserved |-> 0, name |-> d])

\* The page of domain d that begins with level `index', from 0.
Page(d, index) ==
  LET listed == voltage.levels[d]
      past == IF d \in voltage.triplet THEN Len(listed)
              ELSE Min({Len(listed), index + voltage.page})
  IN [reserved |-> 0, triplet |-> d \in voltage.triplet,
      levels |-> SubSeq(listed, index + 1, past), remaining |-> Len(listed) - past]

DescribeLevels(d, index) ==
  VoltageReport(VOLTAGE_DESCRIBE_LEVELS, <<d, index>>,
    FoundThen(d \in VoltageDomain,
              IF index < Len(voltage.levels[d]) THEN SCMI_SUCCESS ELSE SCMI_OUT_OF_RANGE),
    Page(d, index))

ConfigSet(d, mode) ==
  /\ Respond(PROTOCOL_VOLTAGE, VOLTAGE_CONFIG_SET, <<d, mode>>,
             FoundThen(d \in VoltageDomain, SCMI_SUCCESS), NoValues)
  /\ voltage_mode' = [x \in VoltageDomain |-> IF x = d THEN mode ELSE voltage_mode[x]]
  /\ UNCHANGED voltage_level

ConfigGet(d) ==
  VoltageReport(VOLTAGE_CONFIG_GET, <<d>>, FoundThen(d \in VoltageDomain, SCMI_SUCCESS),
                [reserved |-> 0, config |-> voltage_mode[d]])

\* A level of the domain, which no flag may come with.
Allowed(d, flags, level) ==
  LET listed == voltage.levels[d]
  IN /\ flags = 0
     /\ IF d \in voltage.triplet
        THEN /\ listed[1] <= level /\ level <= listed[2]
             /\ (level - listed[1]) % listed[3] = 0
        ELSE \E i \in DOMAIN listed : listed[i] = level

LevelSetStatus(d, flags, level) ==
  FoundThen(d \in VoltageDomain,
            IF Allowed(d, flags, level) THEN SCMI_SUCCESS ELSE SCMI_INVALID_PARAMETERS)

LevelSet(d, flags, level) ==
  /\ Respond(PROTOCOL_VOLTAGE, VOLTAGE_LEVEL_SET, <<d, flags, level>>,
             LevelSetStatus(d, flags, level), NoValues)
  /\ voltage_level' = IF LevelSetStatus(d, flags, level) = SCMI_SUCCESS
                      THEN [voltage_level EXCEPT ![d] = level] ELSE voltage_level
  /\ UNCHANGED voltage_mode

LevelGet(d) ==
  VoltageReport(VOLTAGE_LEVEL_GET, <<d>>, FoundThen(d \in VoltageDomain, SCMI_SUCCESS),
                [level |-> voltage_level[d]])

VoltageUnknown(id) == VoltageReport(id, <<>>, SCMI_NOT_FOUND, NoValues)

-----------------------------------------------------------------------------
\* Each domain is at its highest level, in the first architectural mode.
VoltageInit ==
  /\ voltage_level = [d \in VoltageDomain |->
                        voltage.levels[d][IF d \in voltage.triplet THEN 2
                                          ELSE Len(voltage.levels[d])]]
  /\ voltage_mode = [d \in VoltageDomain |-> 0]

HandleVoltage(m, a) ==
  \/ m = PROTOCOL_VERSION /\ VoltageVersion
  \/ m = PROTOCOL_ATTRIBUTES /\ VoltageAttributes
  \/ m = PROTOCOL_MESSAGE_ATTRIBUTES /\ VoltageMessageAttributes(a[1])
  \/ m = VOLTAGE_DOMAIN_ATTRIBUTES /\ DomainAttributes(a[1])
  \/ m = VOLTAGE_DESCRIBE_LEVELS /\ DescribeLevels(a[1], a[2])
  \/ m = VOLTAGE_CONFIG_SET /\ ConfigSet(a[1], a[2])
  \/ m = VOLTAGE_CONFIG_GET /\ ConfigGet(a[1])
  \/ m = VOLTAGE_LEVEL_SET /\ LevelSet(a[1], a[2], a[3])
  \/ m = VOLTAGE_LEVEL_GET /\ LevelGet(a[1])
  \/ m > VOLTAGE_LEVEL_GET /\ VoltageUnknown(m)

=============================================================================
