-------------------------- MODULE MCSuitesOnMocker ---------------------------
(* Model checking of SuitesOnMocker: the smallest platform on which every    *)
(* performance and clock test has something to try, notifications included.  *)
EXTENDS SuitesOnMocker

MCPower == [domains |-> 2, statistics |-> NoRegion]

MCChannel(m) ==
  [doorbell |-> m \in {PERFORMANCE_LIMITS_SET, PERFORMANCE_LEVEL_SET}]

MCPerformance ==
  [domains |-> 2, statistics |-> Region(3, 5), limitable |-> {0, 1}, levelable |-> {1},
   limitNotify |-> {0}, levelNotify |-> {1}, fastDomains |-> {0},
   fastMessages |-> PERFORMANCE_LIMITS_SET..PERFORMANCE_LEVEL_GET,
   levels |-> Array(<<<<5, 7, 9>>, <<4, 6>>>>),
   channel |-> [d \in 0..1 |-> [m \in PERFORMANCE_LIMITS_SET..PERFORMANCE_LEVEL_GET |->
                                  MCChannel(m)]]]

MCClock == [clocks |-> 2, async |-> 1, rates |-> Array(<<2, 3>>), range |-> {1}]

MCSensor == [sensors |-> 2, registers |-> NoRegion, async |-> {1}, notify |-> {0},
             trips |-> Array(<<1, 2>>), axes |-> Array(<<1, 1>>), intervals |-> Array(<<1, 1>>)]
MCReset   == [domains |-> 2, async |-> {1}, notify |-> {0}, latency |-> Array(<<1, 1>>)]
MCVoltage == [domains |-> 2, levels |-> Array(<<<<4, 5, 7>>, <<2, 8, 3>>>>), triplet |-> {1},
              page |-> 2]

MCFaultySuites == {"base", "power", "system", "performance", "clock", "sensor", "reset", "voltage"}

\* No step depends on how many tests passed or failed, nor on the table of a
\* suite that is over: states that differ in them only are explored once.
Over(p) == ProtocolOf(p) < ProtocolOf(suite)
TablesToCome == [p \in {q \in DOMAIN table : ~Over(q)} |-> table[p]]

\* Nor does a step depend on limits, levels and their notifications once the
\* performance suite is over: it matters only whether they are as they were.
PerformanceSettings ==
  LET OfSensors(set) == {n \in set : n[1] = SENSOR_CONTINUOUS_UPDATE_NOTIFY}
  IN
  IF Over("performance")
  THEN <<Settings.limits = before.limits, Settings.levels = before.levels,
         notifying \subseteq before.notifying, OfSensors(notifying), OfSensors(before.notifying)>>
  ELSE <<performanceVars, notifying, before.limits, before.levels, before.notifying>>

StateView == <<test, steps, queue, last, suiteVars, suite, TablesToCome, baseVars, clockVars,
               voltageVars, reply, stray, PerformanceSettings, faults, faulted, before.rates,
               before.clocks, before.voltages, before.modes, before.access>>

=============================================================================
