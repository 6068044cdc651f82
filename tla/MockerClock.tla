----------------------------- MODULE MockerClock -----------------------------
(***************************************************************************)
(* The simulated platform's clock handler, clock_send_message of           *)
(* transport_clock.c.  It keeps the rate each clock was last set to, zero  *)
(* before that, and whether the clock is enabled.                          *)
(*                                                                         *)
(* The tables of pal_clock_expected.h are one record, clock:               *)
(*   clocks    num_clocks                                                  *)
(*   async     max_num_pending_async_rate_chg_supported                    *)
(*   rates[c]  how many rates clock c has: more than c, so that it has one  *)
(*             to run at before one is set                                 *)
(***************************************************************************)
EXTENDS MockerHandler

CONSTANTS clock

ClockId == 0..(clock.clocks - 1)

VARIABLES
  clock_rate,     \* the rate set, as its two words
  clock_status    \* 1: enabled

clockSettings == <<clock_rate, clock_status>>

-----------------------------------------------------------------------------
\* The i-th rate of any clock, from 1 on.
Rate(i)  == [lower |-> 100 * i, upper |-> 100 * i + 50]
Rates(c) == [i \in 1..clock.rates[c] |-> Rate(i)]
NoRate   == [lower |-> 0, upper |-> 0]

ClockRespond(m, a, st, v) == Respond(PROTOCOL_CLOCK, m, a, st, v)
ClockReport(m, a, st, v)  == ClockRespond(m, a, st, v) /\ UNCHANGED clockSettings

Version ==
  ClockReport(PROTOCOL_VERSION, <<>>, SCMI_SUCCESS, [version |-> 1])

Attributes ==
  ClockReport(PROTOCOL_ATTRIBUTES, <<>>, SCMI_SUCCESS,
              [clocks |-> clock.clocks, async |-> clock.async])

MessageAttributes(id) ==
  ClockReport(PROTOCOL_MESSAGE_ATTRIBUTES, <<id>>, FoundThen(id <= CLOCK_CONFIG_SET, SCMI_SUCCESS),
              [attributes |-> 0])

Unknown(id) == ClockReport(id, <<>>, SCMI_NOT_FOUND, NoValues)

ClockAttributes(c) ==
  ClockReport(CLOCK_ATTRIBUTES, <<c>>, FoundThen(c \in ClockId, SCMI_SUCCESS),
              IF c \in ClockId THEN [reserved |-> 0, enabled |-> clock_status[c], name |-> c]
              ELSE NoValues)

\* All the rates, whatever the index asked for; none remain.
DescribeRates(c, index) ==
  ClockReport(CLOCK_DESCRIBE_RATES, <<c, index>>,
              IF c \notin ClockId THEN SCMI_NOT_FOUND
              ELSE IF index >= clock.rates[c] THEN SCMI_OUT_OF_RANGE
              ELSE SCMI_SUCCESS,
              IF c \in ClockId THEN [triplet |-> FALSE, rates |-> Rates(c), remaining |-> 0]
              ELSE NoValues)

\* The flags are not looked at.
RateSetStatus(c, rate) ==
  IF c \notin ClockId THEN SCMI_NOT_FOUND
  ELSE IF \A i \in 1..clock.rates[c] : rate # Rate(i) THEN SCMI_INVALID_PARAMETERS
  ELSE SCMI_SUCCESS

\* Mutant: the rate is stored before it is looked up.
RateSetEarly(flags, c, rate) ==
  /\ ClockRespond(CLOCK_RATE_SET, <<flags, c, rate>>, RateSetStatus(c, rate), NoValues)
  /\ clock_rate' = IF c \in ClockId THEN [clock_rate EXCEPT ![c] = rate] ELSE clock_rate
  /\ UNCHANGED clock_status

RateSet(flags, c, rate) ==
  /\ ClockRespond(CLOCK_RATE_SET, <<flags, c, rate>>, RateSetStatus(c, rate), NoValues)
  /\ clock_rate' = IF RateSetStatus(c, rate) = SCMI_SUCCESS
                   THEN [clock_rate EXCEPT ![c] = rate] ELSE clock_rate
  /\ UNCHANGED clock_status

\* What RATE_GET tells.
CurrentRate(c) == IF clock_rate[c].lower = 0 THEN Rate(c + 1) ELSE clock_rate[c]

RateGet(c) ==
  ClockReport(CLOCK_RATE_GET, <<c>>, FoundThen(c \in ClockId, SCMI_SUCCESS),
              IF c \in ClockId THEN [rate |-> CurrentRate(c)] ELSE NoValues)

ConfigSetStatus(c, attributes) == FoundThen(c \in ClockId, OnOff(attributes))

ConfigSet(c, attributes) ==
  /\ ClockRespond(CLOCK_CONFIG_SET, <<c, attributes>>, ConfigSetStatus(c, attributes), NoValues)
  /\ clock_status' = IF ConfigSetStatus(c, attributes) = SCMI_SUCCESS
                     THEN [clock_status EXCEPT ![c] = attributes] ELSE clock_status
  /\ UNCHANGED clock_rate

-----------------------------------------------------------------------------
\* The arrays are static.
ClockInit ==
  /\ clock_rate = [c \in ClockId |-> NoRate]
  /\ clock_status = [c \in ClockId |-> 0]

\* clock_send_message.
Handle(m, a) ==
  \/ m = PROTOCOL_VERSION /\ Version
  \/ m = PROTOCOL_ATTRIBUTES /\ Attributes
  \/ m = PROTOCOL_MESSAGE_ATTRIBUTES /\ MessageAttributes(a[1])
  \/ m = CLOCK_ATTRIBUTES /\ ClockAttributes(a[1])
  \/ m = CLOCK_DESCRIBE_RATES /\ DescribeRates(a[1], a[2])
  \/ m = CLOCK_RATE_SET /\ RateSet(a[1], a[2], a[3])
  \/ m = CLOCK_RATE_GET /\ RateGet(a[1])
  \/ m = CLOCK_CONFIG_SET /\ ConfigSet(a[1], a[2])
  \/ m > CLOCK_CONFIG_SET /\ Unknown(m)

=============================================================================
