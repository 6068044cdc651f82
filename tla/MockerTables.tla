---------------------------- MODULE MockerTables -----------------------------
(***************************************************************************)
(* The platform the mocker simulates: the tables of the headers            *)
(* platform/mocker/include/pal_*_expected.h, which are compiled both into  *)
(* its handlers and into the pal_*_get_expected_* functions the suite      *)
(* compares answers with.                                                  *)
(*                                                                         *)
(* Names (of domains, clocks, sensors) are their numbers.  Levels are in   *)
(* units of 100 kHz, which keeps their order and the room between them.    *)
(***************************************************************************)
EXTENDS Scmi, Sequences

\* An array, whose indexes begin at 0.
Array(values) == [i \in 0..(Len(values) - 1) |-> values[i + 1]]

\* A region of statistics or registers: the high address is the end.
Region(low, len) == [low |-> low, high |-> low + len, len |-> len]
NoRegion == Region(0, 0)

-----------------------------------------------------------------------------
(* pal_base_expected.h.                                                    *)

agents == <<"OSPM", "PSCI">>
supported_protocols ==
  <<PROTOCOL_POWER_DOMAIN, PROTOCOL_SYSTEM_POWER, PROTOCOL_PERFORMANCE, PROTOCOL_CLOCK,
    PROTOCOL_SENSOR, PROTOCOL_RESET, PROTOCOL_VOLTAGE>>

-----------------------------------------------------------------------------
(* pal_performance_expected.h.                                             *)

perf_level_values ==
  Array(<<<<6650, 9980, 13300>>, <<13130, 15310, 17500, 21000>>,
          <<4500, 4875, 5250, 5625, 6000>>, <<5500, 6875, 7250, 8625, 9000, 9100>>>>)

\* By domain and message, LIMITS_SET first.
perf_doorbell_support == <<<<1, 1, 0, 1>>, <<0, 1, 0, 1>>, <<0, 1, 1, 1>>, <<0, 1, 0, 1>>>>
perf_doorbell_data_width == <<<<0, 0, 0, 0>>, <<0, 1, 0, 0>>, <<0, 0, 2, 0>>, <<0, 0, 0, 3>>>>

\* The k-th channel, four to a domain: where it is,
FastChannelAddress(k) ==
  [chanLow |-> 1000 * k, chanHigh |-> 100000 * k, size |-> 10 * k, rateLimit |-> 1000 * k + 500]

\* and the doorbell to ring for it.
FastChannelDoorbell(k) ==
  [low |-> 100000 * k, high |-> 1000000 * k,
   setLow |-> 100000 * k + 1, setHigh |-> 1000000 * k + 1,
   preserveLow |-> 100000 * k + 2, preserveHigh |-> 1000000 * k + (IF k <= 12 THEN 2 ELSE 0)]

FastChannel(d, m) ==
  LET i == m - PERFORMANCE_LIMITS_SET + 1
  IN [doorbell |-> perf_doorbell_support[d + 1][i] = 1,
      width |-> perf_doorbell_data_width[d + 1][i],
      channel |-> FastChannelAddress(4 * d + i), ring |-> FastChannelDoorbell(4 * d + i)]

mocker_performance ==
  [domains |-> 4, statistics |-> Region(4660, 255),
   limitable |-> {0, 1, 2}, levelable |-> {0, 1, 2}, limitNotify |-> {}, levelNotify |-> {},
   fastMessages |-> {PERFORMANCE_LIMITS_SET, PERFORMANCE_LEVEL_SET}, fastDomains |-> {0, 1, 3},
   levels |-> perf_level_values,
   channel |-> [d \in 0..3 |->
                  [m \in PERFORMANCE_LIMITS_SET..PERFORMANCE_LEVEL_GET |-> FastChannel(d, m)]]]

-----------------------------------------------------------------------------
(* The other headers.                                                      *)

mocker_power == [domains |-> 3, statistics |-> Region(4660, 255)]

\* All its clocks list their rates (no range).
mocker_clock == [clocks |-> 3, async |-> 0, rates |-> Array(<<3, 4, 5>>), range |-> {}]

mocker_sensor ==
  [sensors |-> 2, registers |-> Region(4660, 255), async |-> {1}, notify |-> {1},
   trips |-> Array(<<0, 2>>), axes |-> Array(<<2, 1>>),
   intervals |-> Array(<<1, 2>>)]

mocker_reset ==
  [domains |-> 3, async |-> {0, 2}, notify |-> {1, 2},
   latency |-> Array(<<10000, 100000, 2000000>>)]

\* Its handler lists no levels.
mocker_voltage == [domains |-> 1, levels |-> <<>>, triplet |-> {}, page |-> 0]

-----------------------------------------------------------------------------
(* What the suite expects of a platform with given tables: the functions   *)
(* pal_*_get_expected_*, which it reaches through val_*_get_expected_*.    *)

ExpectedPower(power) == [domains |-> power.domains, statistics |-> power.statistics]

ExpectedPerformance(performance) ==
  [domains |-> performance.domains, statistics |-> performance.statistics,
   levels |-> [d \in DOMAIN performance.levels |-> Len(performance.levels[d])]]

\* No clock is fixed: pal_check_clock_config_change_support is SUPPORTED.
ExpectedClock(clock) ==
  [clocks |-> clock.clocks, async |-> clock.async, rates |-> clock.rates, fixed |-> {}]

ExpectedSensor(sensor) == [sensors |-> sensor.sensors, registers |-> sensor.registers]

ExpectedReset(reset) == [domains |-> reset.domains]

=============================================================================
