----------------------------- MODULE ClockSuite ------------------------------
(***************************************************************************)
(* The clock suite: val_clock.c and test_pool/clock.  info is              *)
(* g_clock_info_table, expected what pal_clock_get_expected_* tell (a      *)
(* record as MockerClock describes).  As in PerformanceSuite, Program,     *)
(* Schedule, More and Learned are what a composition needs.                *)
(*                                                                         *)
(* A rate is a record of its two words.  The value of DESCRIBE_RATES is a  *)
(* record of triplet, rates (the lowest, the highest and the step if it is *)
(* one), remaining and, for a triplet, beyond: the words of the caller's   *)
(* array that the answer does not reach.                                   *)
(***************************************************************************)
EXTENDS TestEngine

VARIABLES info, expected

CLOCK_INVALID_COMMAND   == 8
INVALID_ATTRIBUTE       == 15
CONFIG_SET_ENABLE       == 1
CONFIG_SET_DISABLE      == 0
CLOCK_SET_ASYNC_MODE    == 1
CLOCK_SET_SYNC_MODE     == 0
CLOCK_SET_INVALID_FLAG  == 255
CLOCK_RATE_SET_COMPLETE == 5

Clock(m, a, e)      == Ask(PROTOCOL_CLOCK, m, a, e)
ClockValue(m, a, w) == AskValue(PROTOCOL_CLOCK, m, a, w)
ClockLearn(m, a, l) == AskAndLearn(PROTOCOL_CLOCK, m, a, l)

-----------------------------------------------------------------------------
(* The table.                                                              *)

NoRate == [lower |-> 0, upper |-> 0]
NoRow  == [enabled |-> 0, lowest |-> NoRate, highest |-> NoRate]

NothingLearnt == [clocks |-> 0, async |-> 0, row |-> <<>>]

Row(c) == IF c \in DOMAIN info.row THEN info.row[c] ELSE NoRow
WithRow(c, row) ==
  [info EXCEPT !.row = [x \in DOMAIN info.row \cup {c} |-> IF x = c THEN row ELSE @[x]]]

InvalidClock == info.clocks + 1

IfClocks(program) == IfSome(info.clocks, program)

-----------------------------------------------------------------------------
(* The tests.                                                              *)

TestC001 == VersionTest(PROTOCOL_CLOCK)

TestC002 ==
  <<[ClockValue(PROTOCOL_ATTRIBUTES, <<>>, [clocks |-> expected.clocks, async |-> expected.async])
       EXCEPT !.learn = "attributes"]>>

TestC003 ==
  [i \in 1..5 |-> ClockValue(PROTOCOL_MESSAGE_ATTRIBUTES, <<CLOCK_ATTRIBUTES + i - 1>>,
                             [attributes |-> 0])]

TestC004 == UnknownCommandTest(PROTOCOL_CLOCK, CLOCK_INVALID_COMMAND)

\* The name is printed, not compared.
TestC005 ==
  LET Discover(c) == <<[ClockValue(CLOCK_ATTRIBUTES, <<c>>, [reserved |-> 0])
                          EXCEPT !.learn = "attribute"]>>
  IN IfClocks(ForEach(info.clocks, Discover))

TestC006 == <<Clock(CLOCK_ATTRIBUTES, <<InvalidClock>>, SCMI_NOT_FOUND)>>

RatesFrom(c, rates) ==
  [ClockLearn(CLOCK_DESCRIBE_RATES, <<c, Len(rates)>>, "rates") EXCEPT !.seen = rates]

TestC007 ==
  LET Discover(c) == <<RatesFrom(c, <<>>)>> IN IfClocks(ForEach(info.clocks, Discover))

TestC008 == <<Clock(CLOCK_DESCRIBE_RATES, <<InvalidClock, 0>>, SCMI_NOT_FOUND)>>

RateSet(flags, c, rate, e) == [Clock(CLOCK_RATE_SET, <<flags, c, rate>>, e) EXCEPT !.sent = 4]
RateLearn(l) ==
  LET Read(c) == <<ClockLearn(CLOCK_RATE_GET, <<c>>, l)>>
  IN IfClocks(ForEach(info.clocks, Read))

TestC009 == RateLearn("rate")

TestC010 == IF info.async = 0 THEN <<Skip>> ELSE RateLearn("rate_async")

\* The lower word of one end, the upper word of the other.
MixedRate(c) == [lower |-> Row(c).lowest.lower, upper |-> Row(c).highest.upper]
PastRate(c)  == [lower |-> MixedRate(c).lower + 1, upper |-> MixedRate(c).upper + 1]

TestC011 ==
  LET Invalid(c) ==
        <<RateSet(CLOCK_SET_SYNC_MODE, c, PastRate(c), SCMI_INVALID_PARAMETERS),
          RateSet(CLOCK_SET_INVALID_FLAG, c, MixedRate(c), SCMI_INVALID_PARAMETERS)>>
  IN IfClocks(ForEach(info.clocks, Invalid))

TestC012 ==
  <<RateSet(CLOCK_SET_SYNC_MODE, InvalidClock, MixedRate(InvalidClock), SCMI_NOT_FOUND)>>

TestC013 ==
  LET Read(c) == <<Clock(CLOCK_RATE_GET, <<c>>, SCMI_SUCCESS)>>
  IN IfClocks(ForEach(info.clocks, Read))

TestC014 == <<Clock(CLOCK_RATE_GET, <<InvalidClock>>, SCMI_NOT_FOUND)>>

ConfigSet(c, attributes, e) == Clock(CLOCK_CONFIG_SET, <<c, attributes>>, e)

TestC015 ==
  LET Invalid(c) == <<ConfigSet(c, INVALID_ATTRIBUTE, SCMI_INVALID_PARAMETERS)>>
  IN IfClocks(ForEach(info.clocks, Invalid))

TestC016 == <<ConfigSet(InvalidClock, CONFIG_SET_ENABLE, SCMI_NOT_FOUND)>>

Toggled(attribute) ==
  IF attribute = CONFIG_SET_DISABLE THEN CONFIG_SET_ENABLE ELSE CONFIG_SET_DISABLE

\* Mutant: the clock is left as the test put it.
LeaveToggled(c) ==
  <<ConfigSet(c, Toggled(Row(c).enabled), SCMI_SUCCESS),
    ClockValue(CLOCK_ATTRIBUTES, <<c>>, [reserved |-> 0, enabled |-> Toggled(Row(c).enabled)])>>

\* To the other state and back to the one c005 kept: a clock no attribute was
\* kept of is enabled and then disabled.
ToggleClock(c) ==
  <<ConfigSet(c, Toggled(Row(c).enabled), SCMI_SUCCESS),
    ClockValue(CLOCK_ATTRIBUTES, <<c>>, [reserved |-> 0, enabled |-> Toggled(Row(c).enabled)]),
    ConfigSet(c, Row(c).enabled, SCMI_SUCCESS)>>

TestC017 ==
  LET Configurable(c) == c \notin expected.fixed
  IN IfClocks(WhenAny(ForCapable(info.clocks, Configurable, ToggleClock)))

Program(t) ==
  CASE t = "c001" -> TestC001 [] t = "c002" -> TestC002 [] t = "c003" -> TestC003
    [] t = "c004" -> TestC004 [] t = "c005" -> TestC005 [] t = "c006" -> TestC006
    [] t = "c007" -> TestC007 [] t = "c008" -> TestC008 [] t = "c009" -> TestC009
    [] t = "c010" -> TestC010 [] t = "c011" -> TestC011 [] t = "c012" -> TestC012
    [] t = "c013" -> TestC013 [] t = "c014" -> TestC014 [] t = "c015" -> TestC015
    [] t = "c016" -> TestC016 [] t = "c017" -> TestC017

\* val_clock_execute_tests: any version will do.
Schedule(v) ==
  <<"c002", "c003", "c004", "c005", "c006", "c007", "c008", "c009", "c010", "c011", "c012",
    "c013", "c014", "c015", "c016", "c017">>

-----------------------------------------------------------------------------
(* The steps answer v to step s adds, and what the table becomes.          *)

OtherRate(c, rate) == IF rate = Row(c).lowest THEN Row(c).highest ELSE Row(c).lowest

ChangeRate(c, rate) ==
  <<RateSet(CLOCK_SET_SYNC_MODE, c, OtherRate(c, rate), SCMI_SUCCESS),
    ClockValue(CLOCK_RATE_GET, <<c>>, [rate |-> OtherRate(c, rate)]),
    RateSet(CLOCK_SET_SYNC_MODE, c, rate, SCMI_SUCCESS)>>

ChangeRateAsync(c, rate) ==
  <<RateSet(CLOCK_SET_ASYNC_MODE, c, OtherRate(c, rate), SCMI_SUCCESS),
    Receive(PROTOCOL_CLOCK, CLOCK_RATE_SET_COMPLETE, <<c, OtherRate(c, rate)>>),
    RateSet(CLOCK_SET_SYNC_MODE, c, rate, SCMI_SUCCESS)>>

AllRates(s, v) == s.seen \o v.rates
WholeTriplet(v) == Len(v.rates) = 3 /\ v.remaining = 0
MoreRates(s, v) ==
  LET c == s.args[1]
      rates == AllRates(s, v)
  IN IF v.triplet /\ v.rates # <<>> /\ ~WholeTriplet(v) THEN <<Fail>>
     ELSE IF v.remaining > 0 THEN <<RatesFrom(c, rates)>>
     ELSE IF Len(rates) # expected.rates[c] THEN <<Fail>>
     ELSE IF v.triplet THEN <<>>
     ELSE <<Clock(CLOCK_DESCRIBE_RATES, <<c, Len(rates)>>, SCMI_OUT_OF_RANGE)>>

More(s, v) ==
  CASE s.learn = "rates"      -> MoreRates(s, v)
    [] s.learn = "rate"       -> ChangeRate(s.args[1], v.rate)
    [] s.learn = "rate_async" -> ChangeRateAsync(s.args[1], v.rate)
    [] OTHER -> <<>>

\* Of each page the first rate is kept as the lowest and the last as the
\* highest, whether or not there turn out to be as many as expected.  The loop
\* over the three rates of a triplet takes each for a triplet: what is kept is
\* what lies past the answer where a third would be.
LearnRates(c, v) ==
  IF v.triplet
  THEN IF WholeTriplet(v)
       THEN WithRow(c, [Row(c) EXCEPT !.lowest = v.beyond.lowest, !.highest = v.beyond.highest])
       ELSE info
  ELSE WithRow(c, [Row(c) EXCEPT !.lowest = v.rates[1], !.highest = v.rates[Len(v.rates)]])

\* val_clock_save_info, val_clock_save_rate.
Learned(s, v) ==
  LET c == s.args[1]
  IN CASE s.learn = "attributes" /\ v.clocks = expected.clocks /\ v.async = expected.async ->
            [info EXCEPT !.clocks = v.clocks, !.async = v.async]
       [] s.learn = "attribute" /\ v.reserved = 0 ->
            WithRow(c, [Row(c) EXCEPT !.enabled = v.enabled])
       [] s.learn = "rates" /\ v.rates # <<>> -> LearnRates(c, v)
       [] OTHER -> info

=============================================================================
