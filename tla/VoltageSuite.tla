---------------------------- MODULE VoltageSuite -----------------------------
(***************************************************************************)
(* The voltage suite: val_voltage.c and test_pool/voltage.                 *)
(*                                                                         *)
(* A domain lists its levels (array) or the lowest, the highest and the    *)
(* step between them (triplet).  The value of DESCRIBE_LEVELS is a record  *)
(* of triplet, levels (three of them if it is a triplet) and remaining.    *)
(***************************************************************************)
EXTENDS TestEngine

VARIABLES info, expected

VOLTAGE_INVALID_COMMAND == 9
ARCHITECTURAL_MODE      == 0
IMPLEMENTATION_DEFINED  == 1
START_LEVEL_INDEX       == 0
SECOND_LEVEL_INDEX      == 1

Voltage(m, a, e)      == Ask(PROTOCOL_VOLTAGE, m, a, e)
VoltageValue(m, a, w) == AskValue(PROTOCOL_VOLTAGE, m, a, w)
VoltageLearn(m, a, l) == AskAndLearn(PROTOCOL_VOLTAGE, m, a, l)

-----------------------------------------------------------------------------
(* The table, which nothing clears but the start of the program.           *)

NoRow == [triplet |-> FALSE, lowest |-> 0, highest |-> 0, levels |-> <<>>, config |-> 0,
          operational |-> 0]

NothingLearnt == [domains |-> 0, row |-> <<>>]

Domain(d) == IF d \in DOMAIN info.row THEN info.row[d] ELSE NoRow
WithDomain(d, row) ==
  [info EXCEPT !.row = [x \in DOMAIN info.row \cup {d} |-> IF x = d THEN row ELSE @[x]]]

InvalidDomain == info.domains + 1
IfDomains(program) == IfSome(info.domains, program)

\* val_voltage_get_level.  v007 writes from index 1 on.
SavedLevel(d, index) == IF index \in DOMAIN Domain(d).levels THEN Domain(d).levels[index] ELSE 0

\* The step is kept in the field of the highest level.
SavedStep(d) == Domain(d).highest

\* Unsigned: what falls below zero is above every level there is.
Highest == 2147483647
Minus(a, b) == IF a < b THEN Highest ELSE a - b

val_voltage_operating_mode_create(type, id) == type * 8 + id

-----------------------------------------------------------------------------
TestV001 == VersionTest(PROTOCOL_VOLTAGE)

TestV002 ==
  <<[VoltageValue(PROTOCOL_ATTRIBUTES, <<>>, [reserved |-> 0, domains |-> expected.domains])
       EXCEPT !.learn = "attributes"]>>

TestV003 ==
  <<VoltageValue(PROTOCOL_MESSAGE_ATTRIBUTES, <<VOLTAGE_DOMAIN_ATTRIBUTES>>, [attributes |-> 0]),
    VoltageValue(PROTOCOL_MESSAGE_ATTRIBUTES, <<VOLTAGE_DESCRIBE_LEVELS>>, [attributes |-> 0])>>

TestV004 == UnknownCommandTest(PROTOCOL_VOLTAGE, VOLTAGE_INVALID_COMMAND)

TestV005 ==
  LET Check(d) == <<VoltageValue(VOLTAGE_DOMAIN_ATTRIBUTES, <<d>>, [reserved |-> 0, name |-> d])>>
  IN IfDomains(ForEach(info.domains, Check))

TestV006 == <<Voltage(VOLTAGE_DOMAIN_ATTRIBUTES, <<InvalidDomain>>, SCMI_NOT_FOUND)>>

\* `seen' are the levels of earlier pages.
LevelsFrom(d, index, seen) ==
  [VoltageValue(VOLTAGE_DESCRIBE_LEVELS, <<d, index>>, [reserved |-> 0])
     EXCEPT !.learn = "levels", !.seen = seen]

TestV007 ==
  LET Discover(d) == <<LevelsFrom(d, 0, <<>>)>> IN IfDomains(ForEach(info.domains, Discover))

TestV008 == <<Voltage(VOLTAGE_DESCRIBE_LEVELS, <<InvalidDomain, 0>>, SCMI_NOT_FOUND)>>

\* Domain 0, whether or not there is one.
ConfigSet(d, type, e) ==
  Voltage(VOLTAGE_CONFIG_SET, <<d, val_voltage_operating_mode_create(type, 0)>>, e)

TestV009 == <<ConfigSet(0, ARCHITECTURAL_MODE, SCMI_SUCCESS),
              ConfigSet(0, IMPLEMENTATION_DEFINED, SCMI_SUCCESS)>>
TestV010 == <<ConfigSet(InvalidDomain, ARCHITECTURAL_MODE, SCMI_NOT_FOUND),
              ConfigSet(InvalidDomain, IMPLEMENTATION_DEFINED, SCMI_NOT_FOUND)>>

TestV011 ==
  LET Read(d) == <<[VoltageValue(VOLTAGE_CONFIG_GET, <<d>>, [reserved |-> 0])
                      EXCEPT !.learn = "config"]>>
  IN IfDomains(ForEach(info.domains, Read)
               \o <<Voltage(VOLTAGE_CONFIG_GET, <<InvalidDomain + 1>>, SCMI_NOT_FOUND)>>)

LevelSet(d, flags, level, e) == Voltage(VOLTAGE_LEVEL_SET, <<d, flags, level>>, e)

TestV012 ==
  LET Change(d) == <<VoltageLearn(VOLTAGE_LEVEL_GET, <<d>>, "default")>>
  IN IfDomains(ForEach(info.domains, Change))

TestV013 == IfDomains(<<LevelSet(InvalidDomain, 0, 0, SCMI_NOT_FOUND)>>)

\* One step below the start, then the start itself with a reserved flag.
Start(d)       == IF Domain(d).triplet THEN Domain(d).lowest ELSE SavedLevel(d, START_LEVEL_INDEX)
StepSize(d)    == IF Domain(d).triplet THEN SavedStep(d)
                  ELSE SavedLevel(d, SECOND_LEVEL_INDEX) - SavedLevel(d, START_LEVEL_INDEX)

TestV014 ==
  LET Invalid(d) == <<LevelSet(d, 0, Minus(Start(d), StepSize(d)), SCMI_INVALID_PARAMETERS),
                      LevelSet(d, 1, Start(d), SCMI_INVALID_PARAMETERS)>>
  IN IfDomains(ForEach(info.domains, Invalid))

TestV015 ==
  LET Read(d) == <<VoltageLearn(VOLTAGE_LEVEL_GET, <<d>>, "operational")>>
  IN IfDomains(ForEach(info.domains, Read)
               \o <<Voltage(VOLTAGE_LEVEL_GET, <<InvalidDomain>>, SCMI_NOT_FOUND)>>)

Program(t) ==
  CASE t = "v001" -> TestV001 [] t = "v002" -> TestV002 [] t = "v003" -> TestV003
    [] t = "v004" -> TestV004 [] t = "v005" -> TestV005 [] t = "v006" -> TestV006
    [] t = "v007" -> TestV007 [] t = "v008" -> TestV008 [] t = "v009" -> TestV009
    [] t = "v010" -> TestV010 [] t = "v011" -> TestV011 [] t = "v012" -> TestV012
    [] t = "v013" -> TestV013 [] t = "v014" -> TestV014 [] t = "v015" -> TestV015

\* val_voltage_execute_tests.
Schedule(v) ==
  <<"v002", "v003", "v004", "v005", "v006", "v007", "v008", "v009", "v010", "v011", "v012",
    "v013", "v014", "v015">>

-----------------------------------------------------------------------------
(* What answer v to step s adds, and what the table becomes.               *)

\* The next page is asked for from as far on as levels remain, not as levels
\* were returned; a triplet is a page of its own.
MoreLevels(s, v) ==
  LET d == s.args[1]
      index == s.args[2]
  IN IF v.triplet THEN IF Len(v.levels) = 3 /\ v.remaining = 0 THEN <<>> ELSE <<Fail>>
     ELSE IF v.remaining > 0 THEN <<LevelsFrom(d, index + v.remaining, s.seen \o v.levels)>>
     ELSE <<Voltage(VOLTAGE_DESCRIBE_LEVELS, <<d, index + Len(v.levels) + 1>>, SCMI_OUT_OF_RANGE)>>

\* To the first level DESCRIBE_LEVELS tells and back.
TryStart(d, default) ==
  [VoltageLearn(VOLTAGE_DESCRIBE_LEVELS, <<d, 0>>, "start") EXCEPT !.seen = <<default>>]
ChangeLevel(d, default, start) ==
  <<LevelSet(d, 0, start, SCMI_SUCCESS),
    VoltageValue(VOLTAGE_LEVEL_GET, <<d>>, [level |-> start]),
    LevelSet(d, 0, default, SCMI_SUCCESS)>>

More(s, v) ==
  LET d == s.args[1]
  IN CASE s.learn = "levels"  -> MoreLevels(s, v)
       [] s.learn = "default" -> <<TryStart(d, v.level)>>
       [] s.learn = "start"   -> ChangeLevel(d, s.seen[1], v.levels[1])
       [] OTHER -> <<>>

\* val_voltage_save_info, val_voltage_save_level.
LearnLevels(s, v) ==
  LET d == s.args[1]
      levels == s.seen \o v.levels
      row == [Domain(d) EXCEPT !.triplet = v.triplet]
  IN WithDomain(d, IF ~v.triplet
                   THEN [row EXCEPT !.levels = [i \in DOMAIN @ \cup DOMAIN levels |->
                                                  IF i \in DOMAIN levels THEN levels[i] ELSE @[i]]]
                   ELSE IF Len(v.levels) = 3 /\ v.remaining = 0
                   THEN [row EXCEPT !.lowest = v.levels[1], !.highest = v.levels[3]]
                   ELSE row)

Learned(s, v) ==
  LET d == s.args[1]
  IN CASE s.learn = "attributes" /\ v.reserved = 0 /\ v.domains = expected.domains ->
            [info EXCEPT !.domains = v.domains]
       [] s.learn = "levels" /\ v.reserved = 0 -> LearnLevels(s, v)
       [] s.learn = "config" /\ v.reserved = 0 ->
            WithDomain(d, [Domain(d) EXCEPT !.config = v.config])
       [] s.learn = "operational" -> WithDomain(d, [Domain(d) EXCEPT !.operational = v.level])
       [] OTHER -> info

=============================================================================
