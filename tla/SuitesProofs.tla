---------------------------- MODULE SuitesProofs ----------------------------
(***************************************************************************)
(* SuitesOnMocker is typed, and no suite ever keeps anything of the        *)
(* platform that is not so, for all tables of the platform and whichever   *)
(* exchanges are lost or refused.                                          *)
(*                                                                         *)
(* KeptIsTrue alone is not inductive: what the next answer puts in a table *)
(* depends on the step in progress, and that on the program it is part of. *)
(* The invariant says that the steps left are good steps of the suite      *)
(* running, so that what one keeps comes from the command that tells it;   *)
(* SuiteSteps and SuitePrograms prove that all programs consist of such    *)
(* steps.  Of the platform it says what those answers depend on.           *)
(***************************************************************************)
EXTENDS SuitePrograms, FiniteSetTheorems

-----------------------------------------------------------------------------
(* What an answer tells.                                                   *)

\* What a suite may rely on in value v of the platform's answer to step s.
Told(p, s, v) ==
  LET d == s.args[1]
  IN /\ p = "performance" =>
          /\ s.learn \in {"domain", "domain_v1"} =>
               /\ v.limit => d \in performance.limitable
               /\ v.level => d \in performance.levelable
               /\ v.fast => d \in performance.fastDomains
          /\ s.learn = "levels" =>
               /\ d \in PerformanceHandler!DomainId
               /\ v.levels = performance.levels[d] /\ v.remaining = 0
     /\ p = "clock" =>
          /\ s.learn = "attribute" => v.enabled \in {0, 1}
          /\ s.learn = "rates" /\ d \notin clock.range =>
               /\ ~v.triplet
               /\ v.rates[1] = ClockHandler!Rate(1)
               /\ v.rates[Len(v.rates)] = ClockHandler!Rate(clock.rates[d])
     /\ p = "sensor" /\ s.learn \in {"sensors", "sensors_v3"} =>
          v.sensors = [i \in 1..sensor.sensors |-> SensorHandler!Descriptor(i - 1)]
     /\ p = "reset" /\ s.learn = "domain" =>
          (v.async => d \in resets.async) /\ (v.notify => d \in resets.notify)
     /\ p = "voltage" /\ s.learn = "levels" =>
          /\ v.levels \in Seq(Nat) /\ v.remaining \in Int
          /\ Listed(d, v.levels)
          /\ v.triplet => /\ d \in voltage.triplet
                          /\ Len(v.levels) = 3 => v.levels[1] = voltage.levels[d][1]

-----------------------------------------------------------------------------
(* What a table of the suites holds, whatever was lost or refused: its     *)
(* fields, and in each what the platform has, or nothing.                  *)

PowerTable(t) ==
  /\ DOMAIN t = {"domains", "statistics"}
  /\ t.domains \in {0, power.domains}

PerformanceRow(d, row) ==
  LET listed == performance.levels[d]
  IN /\ DOMAIN row =
          {"limitable", "levelable", "limitNotify", "levelNotify", "fast", "max", "mid", "min"}
     /\ row.limitable => d \in performance.limitable
     /\ row.levelable => d \in performance.levelable
     /\ row.fast => d \in performance.fastDomains
     /\ row.max = 0 \/ row.max = listed[Len(listed)]
     /\ row.min = 0 \/ row.min = listed[1]
     /\ row.mid = 0 \/ \E i \in 1..(Len(listed) - 1) : row.mid = listed[i]

PerformanceTable(t) ==
  /\ DOMAIN t = {"domains", "statistics", "fastSlots", "row"}
  /\ t.domains \in {0, performance.domains}
  /\ \A d \in DOMAIN t.row : PerformanceRow(d, t.row[d])

ClockRow(c, row) ==
  LET Ends == {ClockTests!NoRate, ClockHandler!Rate(1), ClockHandler!Rate(clock.rates[c])}
  IN /\ DOMAIN row = {"enabled", "lowest", "highest"}
     /\ row.enabled \in {0, 1}
     /\ c \notin clock.range => row.lowest \in Ends /\ row.highest \in Ends

ClockTable(t) ==
  /\ DOMAIN t = {"clocks", "async", "row"}
  /\ t.clocks \in {0, clock.clocks} /\ t.async \in {0, clock.async}
  /\ \A c \in DOMAIN t.row : ClockRow(c, t.row[c])

SensorRow(id, row) ==
  /\ DOMAIN row = {"trips", "async", "notify", "state"}
  /\ row.trips \in Nat
  /\ row.trips = 0 \/ row.trips = sensor.trips[id]
  /\ row.async => id \in sensor.async

SensorTable(t) ==
  /\ DOMAIN t = {"sensors", "registers", "row"}
  /\ t.sensors \in {0, sensor.sensors}
  /\ \A id \in DOMAIN t.row : SensorRow(id, t.row[id])

ResetTable(t) ==
  /\ DOMAIN t = {"domains", "async", "notify"}
  /\ t.domains \in {0, resets.domains}
  /\ t.async \subseteq resets.async /\ t.notify \subseteq resets.notify

VoltageRow(d, row) ==
  /\ DOMAIN row = {"triplet", "lowest", "highest", "levels", "config", "operational"}
  /\ row.triplet => d \in voltage.triplet
  /\ row.lowest = 0 \/ row.lowest = voltage.levels[d][1]
  /\ Listed(d, row.levels)

VoltageTable(t) ==
  /\ DOMAIN t = {"domains", "row"}
  /\ t.domains \in {0, voltage.domains}
  /\ \A d \in DOMAIN t.row : VoltageRow(d, t.row[d])

TableOf(p, t) ==
  CASE p = "power"       -> PowerTable(t)
    [] p = "system"      -> TRUE
    [] p = "performance" -> PerformanceTable(t)
    [] p = "clock"       -> ClockTable(t)
    [] p = "sensor"      -> SensorTable(t)
    [] p = "reset"       -> ResetTable(t)
    [] p = "voltage"     -> VoltageTable(t)

Keeper == {"power", "system", "performance", "clock", "sensor", "reset", "voltage"}

Tables == DOMAIN table = Keeper /\ \A p \in Keeper : TableOf(p, table[p])

-----------------------------------------------------------------------------
(* The inductive invariant.                                                *)

\* A test in progress has steps left, and verdicts are counted.
Progress ==
  /\ (steps = <<>>) <=> (test = "none")
  /\ count \in [Verdict -> Nat] /\ last.verdict \in Verdict \cup {"none"}

\* The test in progress, its program and the tests to come are the suite's.
EngineOK ==
  /\ Progress
  /\ test \in TestsOf(suite) \cup {"none"}
  /\ GoodProgram(suite, test, steps) /\ queue \in Seq(TestsOf(suite))

\* What the base suite keeps, its own list of protocols included.
BaseOK ==
  /\ found \subseteq 1..NumProtocols /\ list \subseteq 1..NumProtocols
  /\ DOMAIN info = {"agents", "protocols", "self"}
  /\ info.agents \in Nat

PlatformOK ==
  /\ device_access \in [0..(NumDevices - 1) -> BOOLEAN] /\ protocol_access \in BOOLEAN
  /\ DOMAIN max_limit = PerformanceHandler!DomainId
  /\ clock_status \in [ClockHandler!ClockId -> {0, 1}]

FaultsOK ==
  /\ faults \in 0..MaxFaults /\ faulted \subseteq FaultySuites
  /\ IsFiniteSet(faulted) /\ Cardinality(faulted) <= faults

IInv ==
  /\ suite \in Keeper \cup {"base"}
  /\ EngineOK /\ BaseOK /\ PlatformOK /\ FaultsOK /\ Tables

-----------------------------------------------------------------------------
(* What a suite keeps of an answer it may rely on is true if its table was.*)

\* The power table: the number of domains is what PROTOCOL_ATTRIBUTES tells.
LEMMA PowerKept ==
  ASSUME NEW s, NEW v, PowerTable(table.power)
  PROVE  PowerTable(LearnedOf("power", s, v))
  <1> DEFINE t == table.power
  <1>1. CASE s.learn # "attributes"
    BY <1>1 DEF LearnedOf, PowerTests!Learned
  <1>2. CASE s.learn = "attributes"
    <2>1. DOMAIN t = {"domains", "statistics"} /\ t.domains \in {0, power.domains}
      BY DEF PowerTable
    <2>2. ExpectedPower(power).domains = power.domains
      BY DEF ExpectedPower
    <2> QED BY <1>2, <2>1, <2>2 DEF LearnedOf, PowerTests!Learned, PowerTable
  <1> QED BY <1>1, <1>2

\* The reset table: a capability is kept only of a domain that has it.
LEMMA ResetKept ==
  ASSUME NEW s, NEW v, ResetTable(table.reset), Told("reset", s, v)
  PROVE  ResetTable(LearnedOf("reset", s, v))
  <1> DEFINE t == table.reset
  <1>1. /\ DOMAIN t = {"domains", "async", "notify"}
        /\ t.domains \in {0, resets.domains}
        /\ t.async \subseteq resets.async /\ t.notify \subseteq resets.notify
    BY DEF ResetTable
  <1>2. ExpectedReset(resets).domains = resets.domains
    BY DEF ExpectedReset
  <1> QED BY <1>1, <1>2 DEF LearnedOf, ResetTests!Learned, ResetTable, Told

\* Of the system power table nothing is claimed.
LEMMA SystemKept == \A s, v : TableOf("system", LearnedOf("system", s, v))
  BY DEF TableOf

\* The performance table: flags of the domain asked about, and levels of one page, which
\* holds all of them.
LEMMA PerformanceKept ==
  ASSUME NEW s, NEW v, PerformanceTable(table.performance),
         Told("performance", s, v), s.learn = "levels" => s.seen = <<>>
  PROVE  PerformanceTable(LearnedOf("performance", s, v))
  <1> DEFINE t == table.performance
             d == s.args[1]
             row == PerformanceTests!Domain(d)
             With(x) == PerformanceTests!WithDomain(d, x)
  <1>1. /\ DOMAIN t = {"domains", "statistics", "fastSlots", "row"}
        /\ t.domains \in {0, performance.domains}
        /\ \A x \in DOMAIN t.row : PerformanceRow(x, t.row[x])
    BY DEF PerformanceTable
  <1>2. ExpectedPerformance(performance).domains = performance.domains
    BY DEF ExpectedPerformance
  <1>3. PerformanceRow(d, row)
    <2>1. PerformanceRow(d, PerformanceTests!NoRow)
      BY DEF PerformanceRow, PerformanceTests!NoRow
    <2> QED BY <1>1, <2>1 DEF PerformanceTests!Domain
  <1>4. ASSUME NEW x, PerformanceRow(d, x) PROVE PerformanceTable(With(x))
    BY <1>1, <1>4 DEF PerformanceTests!WithDomain, PerformanceTable
  <1>5. CASE s.learn = "attributes"
    BY <1>1, <1>2, <1>5 DEF LearnedOf, PerformanceTests!Learned, PerformanceTests!LearnAttributes,
       PerformanceTable
  <1>6. CASE s.learn = "fast"
    BY <1>1, <1>6 DEF LearnedOf, PerformanceTests!Learned, PerformanceTests!LearnFast,
       PerformanceTable
  <1>7. ASSUME NEW fast, fast => d \in performance.fastDomains,
               v.limit => d \in performance.limitable, v.level => d \in performance.levelable
        PROVE  PerformanceTable(PerformanceTests!LearnDomain(d, v, fast))
    <2> HIDE DEF row
    <2>1. PerformanceRow(d, [row EXCEPT !.limitable = v.limit, !.levelable = v.level,
                                        !.limitNotify = v.limitNotify,
                                        !.levelNotify = v.levelNotify, !.fast = fast])
      BY <1>3, <1>7 DEF PerformanceRow
    <2> QED BY <1>4, <2>1 DEF PerformanceTests!LearnDomain, row
  <1>8. CASE s.learn = "domain"
    BY <1>7, <1>8 DEF LearnedOf, PerformanceTests!Learned, Told
  <1>9. CASE s.learn = "domain_v1"
    <2>1. row.fast => d \in performance.fastDomains
      BY <1>3 DEF PerformanceRow
    <2> QED BY <1>7, <1>9, <2>1 DEF LearnedOf, PerformanceTests!Learned, Told
  <1>10. CASE s.learn = "levels"
    <2> DEFINE listed == performance.levels[d]
               first == IF Len(v.levels) >= 2
                        THEN [row EXCEPT !.mid = PerformanceTests!Intermediate(v.levels)]
                        ELSE row
    <2>1. d \in PerformanceHandler!DomainId /\ v.levels = listed /\ v.remaining = 0
      BY <1>10 DEF Told
    <2>2. /\ listed \in Seq(Nat) \ {<<>>}
          /\ \A i \in DOMAIN listed : listed[1] <= listed[i] /\ listed[i] <= listed[Len(listed)]
      BY <2>1, TablesAssumption
    <2>3. PerformanceTests!AllLevels(s, v) = listed
      <3>1. <<>> \o listed = listed
        BY <2>2
      <3> QED BY <1>10, <2>1, <3>1 DEF PerformanceTests!AllLevels
    <2>4. PerformanceRow(d, first)
      <3> HIDE DEF row
      <3>1. CASE Len(listed) >= 2
        <4>1. \E i \in 1..(Len(listed) - 1) : PerformanceTests!Intermediate(listed) = listed[i]
          <5>1. CASE Len(listed) = 2
            BY <2>2, <5>1 DEF PerformanceTests!Intermediate
          <5>2. CASE Len(listed) # 2
            <6>1. 2 \in 1..(Len(listed) - 1)
              <7>1. PICK n \in Nat : n = Len(listed)
                BY <2>2
              <7>2. n >= 2 /\ n # 2
                BY <3>1, <5>2, <7>1
              <7>3. 2 \in 1..(n - 1)
                BY <7>2
              <7> QED BY <7>1, <7>3
            <6> QED BY <5>2, <6>1 DEF PerformanceTests!Intermediate
          <5> QED BY <5>1, <5>2
        <4> DEFINE mid == PerformanceTests!Intermediate(listed)
        <4>2. first = [row EXCEPT !.mid = mid]
          BY <2>1, <3>1
        <4> HIDE DEF first, mid
        <4>3. \E i \in 1..(Len(listed) - 1) : mid = listed[i]
          BY <4>1 DEF mid
        <4> QED BY <1>3, <4>2, <4>3 DEF PerformanceRow
      <3>2. CASE ~(Len(listed) >= 2)
        BY <1>3, <2>1, <3>2
      <3> QED BY <3>1, <3>2
    <2>5. PerformanceTests!Largest(listed) = listed[Len(listed)]
      <3>1. Len(listed) \in DOMAIN listed
        BY <2>2
      <3>2. \A i \in DOMAIN listed : listed[i] \in Nat
        BY <2>2
      <3> HIDE DEF listed
      <3> QED BY <2>2, <3>1, <3>2 DEF PerformanceTests!Largest, PerformanceTests!Lists!Max,
              PerformanceTests!Lists!ToSet
    <2>6. PerformanceTests!Smallest(listed) = listed[1]
      <3>1. 1 \in DOMAIN listed
        BY <2>2
      <3>2. \A i \in DOMAIN listed : listed[i] \in Nat
        BY <2>2
      <3> HIDE DEF listed
      <3> QED BY <2>2, <3>1, <3>2 DEF PerformanceTests!Smallest, PerformanceTests!Lists!Min,
              PerformanceTests!Lists!ToSet
    <2>7. PerformanceRow(d, [first EXCEPT !.max = listed[Len(listed)], !.min = listed[1]])
      <3> HIDE DEF first
      <3> QED BY <2>4 DEF PerformanceRow
    <2> HIDE DEF first
    <2>8. PerformanceTable(PerformanceTests!LearnLevels(s, v))
      BY <1>4, <2>3, <2>4, <2>5, <2>6, <2>7 DEF PerformanceTests!LearnLevels, first
    <2> QED BY <1>10, <2>8 DEF LearnedOf, PerformanceTests!Learned
  <1>11. CASE s.learn \notin {"attributes", "fast", "domain", "domain_v1", "levels"}
    BY <1>11 DEF LearnedOf, PerformanceTests!Learned
  <1> QED BY <1>5, <1>6, <1>8, <1>9, <1>10, <1>11

\* The clock table: the ends of what CLOCK_DESCRIBE_RATES lists are the first rate and the
\* last, or the two ends of a triplet.
LEMMA ClockKept ==
  ASSUME NEW s, NEW v, ClockTable(table.clock), Told("clock", s, v)
  PROVE  ClockTable(LearnedOf("clock", s, v))
  <1> DEFINE t == table.clock
             c == s.args[1]
             row == ClockTests!Row(c)
             With(x) == ClockTests!WithRow(c, x)
  <1>1. /\ DOMAIN t = {"clocks", "async", "row"}
        /\ t.clocks \in {0, clock.clocks} /\ t.async \in {0, clock.async}
        /\ \A x \in DOMAIN t.row : ClockRow(x, t.row[x])
    BY DEF ClockTable
  <1>2. ExpectedClock(clock).clocks = clock.clocks /\ ExpectedClock(clock).async = clock.async
    BY DEF ExpectedClock
  <1>3. ClockRow(c, row)
    <2>1. ClockRow(c, ClockTests!NoRow)
      BY DEF ClockRow, ClockTests!NoRow
    <2> QED BY <1>1, <2>1 DEF ClockTests!Row
  <1>4. ASSUME NEW x, ClockRow(c, x) PROVE ClockTable(With(x))
    BY <1>1, <1>4 DEF ClockTests!WithRow, ClockTable
  <1>5. CASE s.learn = "attributes"
    BY <1>1, <1>2, <1>5 DEF LearnedOf, ClockTests!Learned, ClockTable
  <1>6. CASE s.learn = "attribute"
    <2>1. v.enabled \in {0, 1}
      BY <1>6 DEF Told
    <2> HIDE DEF row
    <2>2. ClockRow(c, [row EXCEPT !.enabled = v.enabled])
      BY <1>3, <2>1 DEF ClockRow
    <2>3. ClockTable(With([row EXCEPT !.enabled = v.enabled]))
      BY <1>4, <2>2
    <2> QED BY <1>6, <2>3 DEF LearnedOf, ClockTests!Learned, row
  <1>7. CASE s.learn = "rates"
    <2>1. c \notin clock.range =>
            /\ ~v.triplet
            /\ v.rates[1] = ClockHandler!Rate(1)
            /\ v.rates[Len(v.rates)] = ClockHandler!Rate(clock.rates[c])
      BY <1>7 DEF Told
    <2> HIDE DEF row
    <2>2. ASSUME NEW x, NEW y,
                 c \notin clock.range => /\ x = ClockHandler!Rate(1)
                                         /\ y = ClockHandler!Rate(clock.rates[c])
          PROVE  ClockTable(With([row EXCEPT !.lowest = x, !.highest = y]))
      <3>1. ClockRow(c, [row EXCEPT !.lowest = x, !.highest = y])
        BY <1>3, <2>2 DEF ClockRow
      <3> QED BY <1>4, <3>1
    <2>3. ClockTable(t)
      OBVIOUS
    <2>4. ClockTable(ClockTests!LearnRates(c, v))
      BY <2>1, <2>2, <2>3 DEF ClockTests!LearnRates, row
    <2> QED BY <1>7, <2>3, <2>4 DEF LearnedOf, ClockTests!Learned
  <1>8. CASE s.learn \notin {"attributes", "attribute", "rates"}
    BY <1>8 DEF LearnedOf, ClockTests!Learned
  <1> QED BY <1>5, <1>6, <1>7, <1>8

\* The voltage table: the levels kept are those of the earlier pages and of this one.
LEMMA VoltageKept ==
  ASSUME NEW t, NEW s, NEW v, VoltageTable(table.voltage), Told("voltage", s, v),
         Good("voltage", t, s)
  PROVE  VoltageTable(LearnedOf("voltage", s, v))
  <1> DEFINE old == table.voltage
             d == s.args[1]
             row == VoltageTests!Domain(d)
             With(x) == VoltageTests!WithDomain(d, x)
  <1>1. /\ DOMAIN old = {"domains", "row"}
        /\ old.domains \in {0, voltage.domains}
        /\ \A x \in DOMAIN old.row : VoltageRow(x, old.row[x])
    BY DEF VoltageTable
  <1>2. VoltageRow(d, row)
    <2>1. VoltageRow(d, VoltageTests!NoRow)
      BY DEF VoltageRow, VoltageTests!NoRow, Listed
    <2> QED BY <1>1, <2>1 DEF VoltageTests!Domain
  <1>3. ASSUME NEW x, VoltageRow(d, x) PROVE VoltageTable(With(x))
    BY <1>1, <1>3 DEF VoltageTests!WithDomain, VoltageTable
  <1>4. CASE s.learn = "attributes"
    BY <1>1, <1>4 DEF LearnedOf, VoltageTests!Learned, VoltageTable
  <1>5. CASE s.learn = "config"
    <2> HIDE DEF row
    <2>1. VoltageRow(d, [row EXCEPT !.config = v.config])
      BY <1>2 DEF VoltageRow
    <2>2. VoltageTable(With([row EXCEPT !.config = v.config]))
      BY <1>3, <2>1
    <2> QED BY <1>5, <2>2 DEF LearnedOf, VoltageTests!Learned, row
  <1>6. CASE s.learn = "operational"
    <2> HIDE DEF row
    <2>1. VoltageRow(d, [row EXCEPT !.operational = v.level])
      BY <1>2 DEF VoltageRow
    <2>2. VoltageTable(With([row EXCEPT !.operational = v.level]))
      BY <1>3, <2>1
    <2> QED BY <1>6, <2>2 DEF LearnedOf, VoltageTests!Learned, row
  <1>7. CASE s.learn = "levels"
    <2> DEFINE levels == s.seen \o v.levels
               shape == [row EXCEPT !.triplet = v.triplet]
               merged == [i \in DOMAIN shape.levels \cup DOMAIN levels |->
                            IF i \in DOMAIN levels THEN levels[i] ELSE shape.levels[i]]
    <2>1. /\ v.levels \in Seq(Nat) /\ Listed(d, v.levels)
          /\ v.triplet => /\ d \in voltage.triplet
                          /\ Len(v.levels) = 3 => v.levels[1] = voltage.levels[d][1]
      BY <1>7 DEF Told
    <2>2. s.seen \in Seq(Nat) /\ Listed(d, s.seen)
      BY <1>7 DEF Good, Teaches
    <2>3. Listed(d, levels)
      BY <2>1, <2>2, ListedBoth
    <2> HIDE DEF row, levels
    <2>4. VoltageRow(d, shape)
      BY <1>2, <2>1 DEF VoltageRow
    <2> HIDE DEF shape
    <2>5. VoltageRow(d, [shape EXCEPT !.levels = merged])
      <3>1. Listed(d, merged)
        BY <2>3, <2>4 DEF VoltageRow, Listed
      <3> HIDE DEF merged
      <3> QED BY <2>4, <3>1 DEF VoltageRow
    <2>6. ASSUME v.triplet, Len(v.levels) = 3
          PROVE  VoltageRow(d, [shape EXCEPT !.lowest = v.levels[1], !.highest = v.levels[3]])
      BY <2>1, <2>4, <2>6 DEF VoltageRow
    <2>7. VoltageTable(With([shape EXCEPT !.levels = merged]))
      BY <1>3, <2>5
    <2>8. ASSUME v.triplet, Len(v.levels) = 3
          PROVE  VoltageTable(With([shape EXCEPT !.lowest = v.levels[1], !.highest = v.levels[3]]))
      BY <1>3, <2>6, <2>8
    <2>9. VoltageTable(With(shape))
      BY <1>3, <2>4
    <2> HIDE DEF With
    <2>10. VoltageTable(VoltageTests!LearnLevels(s, v))
      BY <2>7, <2>8, <2>9 DEF VoltageTests!LearnLevels, shape, row, levels, With
    <2> QED BY <1>7, <2>10 DEF LearnedOf, VoltageTests!Learned
  <1>8. CASE s.learn \notin {"attributes", "levels", "config", "operational"}
    BY <1>8 DEF LearnedOf, VoltageTests!Learned
  <1> QED BY <1>4, <1>5, <1>6, <1>7, <1>8

\* The sensor table: descriptors come in the order of the sensors, all in one answer.
LEMMA SensorKept ==
  ASSUME NEW s, NEW v, SensorTable(table.sensor), Told("sensor", s, v)
  PROVE  SensorTable(LearnedOf("sensor", s, v))
  <1> DEFINE t == table.sensor
             row(id) == SensorTests!Row(id)
  <1>1. /\ DOMAIN t = {"sensors", "registers", "row"}
        /\ t.sensors \in {0, sensor.sensors}
        /\ \A id \in DOMAIN t.row : SensorRow(id, t.row[id])
    BY DEF SensorTable
  <1>2. ExpectedSensor(sensor).sensors = sensor.sensors
    BY DEF ExpectedSensor
  <1>3. \A id : SensorRow(id, row(id))
    <2>1. \A id : SensorRow(id, SensorTests!NoRow)
      BY DEF SensorRow, SensorTests!NoRow
    <2> QED BY <1>1, <2>1 DEF SensorTests!Row
  <1>4. CASE s.learn = "attributes"
    <2>1. /\ DOMAIN SensorTests!LearnAttributes(v) = {"sensors", "registers", "row"}
          /\ SensorTests!LearnAttributes(v).sensors \in {0, sensor.sensors}
          /\ SensorTests!LearnAttributes(v).row = t.row
      BY <1>1, <1>2 DEF SensorTests!LearnAttributes
    <2> QED BY <1>1, <1>4, <2>1 DEF LearnedOf, SensorTests!Learned, SensorTable
  <1>5. ASSUME s.learn \in {"sensors", "sensors_v3"}, NEW v3
        PROVE  SensorTable(SensorTests!LearnSensors(s, v, v3))
    <2> DEFINE kept == SensorTests!Kept(s, v, v3)
               Last(id) == CHOOSE i \in kept : /\ v.sensors[i].id = id
                                               /\ \A j \in kept : v.sensors[j].id = id => j <= i
               ids == {v.sensors[i].id : i \in kept}
               New(id) == [row(id) EXCEPT !.trips = v.sensors[Last(id)].trips,
                                          !.async = v.sensors[Last(id)].async,
                                          !.notify = IF v3 THEN v.sensors[Last(id)].notify ELSE @]
    <2>1. v.sensors = [i \in 1..sensor.sensors |-> SensorHandler!Descriptor(i - 1)]
      BY <1>5 DEF Told
    <2>2. kept \subseteq 1..sensor.sensors
      BY <2>1 DEF SensorTests!Kept
    <2>3. ASSUME NEW i \in kept
          PROVE  /\ v.sensors[i].id = i - 1
                 /\ v.sensors[i].trips = sensor.trips[i - 1]
                 /\ v.sensors[i].async => i - 1 \in sensor.async
                 /\ i - 1 \in SensorHandler!SensorId
      <3>1. i \in 1..sensor.sensors
        BY <2>2
      <3>2. v.sensors[i] = SensorHandler!Descriptor(i - 1)
        BY <2>1, <3>1
      <3>3. i - 1 \in SensorHandler!SensorId
        BY <3>1, TablesAssumption DEF SensorHandler!SensorId
      <3>4. \A id : LET x == SensorHandler!Descriptor(id)
                    IN x.id = id /\ x.trips = sensor.trips[id] /\ (x.async => id \in sensor.async)
        BY DEF SensorHandler!Descriptor
      <3> QED BY <3>2, <3>3, <3>4
    <2> HIDE DEF kept
    <2>4. ASSUME NEW id \in ids PROVE SensorRow(id, New(id))
      <3>1. PICK i \in kept : v.sensors[i].id = id
        OBVIOUS
      <3>2. \A j \in kept : v.sensors[j].id = id => j <= i
        BY <2>2, <2>3, <3>1, TablesAssumption
      <3>3. Last(id) \in kept /\ v.sensors[Last(id)].id = id
        BY <3>1, <3>2
      <3>4. Last(id) - 1 = id
        BY <2>3, <3>3
      <3> HIDE DEF Last, ids, row
      <3>5. /\ v.sensors[Last(id)].trips = sensor.trips[id]
            /\ v.sensors[Last(id)].async => id \in sensor.async
            /\ sensor.trips[id] \in Nat
        BY <2>3, <3>3, <3>4, TablesAssumption
      <3> QED BY <1>3, <3>5 DEF SensorRow
    <2> HIDE DEF New, ids
    <2>5. SensorTable([t EXCEPT !.row = [id \in DOMAIN @ \cup ids |->
                                           IF id \in ids THEN New(id) ELSE @[id]]])
      BY <1>1, <2>4 DEF SensorTable
    <2> QED BY <2>5 DEF SensorTests!LearnSensors, New, ids, kept
  <1>6. CASE s.learn = "state"
    <2> DEFINE id == s.args[1]
               new == [row(id) EXCEPT !.state = v.state]
    <2>1. SensorRow(id, new)
      <3> HIDE DEF row
      <3> QED BY <1>3 DEF SensorRow
    <2> HIDE DEF new
    <2>2. SensorTable([t EXCEPT !.row = [x \in DOMAIN @ \cup {id} |->
                                           IF x = id THEN new ELSE @[x]]])
      BY <1>1, <2>1 DEF SensorTable
    <2> QED BY <1>6, <2>2 DEF LearnedOf, SensorTests!Learned, new
  <1>7. SensorTable(t)
    OBVIOUS
  <1>8. CASE s.learn \in {"sensors", "sensors_v3"}
    BY <1>5, <1>7, <1>8 DEF LearnedOf, SensorTests!Learned
  <1>9. CASE s.learn \notin {"attributes", "sensors", "sensors_v3", "state"}
    BY <1>9 DEF LearnedOf, SensorTests!Learned
  <1> QED BY <1>4, <1>6, <1>8, <1>9

-----------------------------------------------------------------------------
(* What the platform answers may be relied on.                             *)

\* pal_send_message gives a command to the handler of its protocol.
LEMMA Handled ==
  ASSUME NEW s, Dispatch(s)
  PROVE  /\ s.proto = PROTOCOL_BASE => BaseHandler!BaseHandle(s.msg, s.args)
         /\ s.proto = PROTOCOL_PERFORMANCE => PerformanceHandler!Handle(s.msg, s.args)
         /\ s.proto = PROTOCOL_CLOCK => HandleClock(s.msg, s.args)
         /\ s.proto = PROTOCOL_SENSOR => SensorHandler!Handle(s.msg, s.args)
         /\ s.proto = PROTOCOL_RESET => ResetHandler!Handle(s.msg, s.args)
         /\ s.proto = PROTOCOL_VOLTAGE =>
              IF VoltageServed THEN VoltageHandler!HandleVoltage(s.msg, s.args)
              ELSE SystemHandler!HandleVoltage(s.msg, s.args)
  BY DEF Dispatch, PROTOCOL_BASE, PROTOCOL_POWER_DOMAIN, PROTOCOL_SYSTEM_POWER,
     PROTOCOL_PERFORMANCE, PROTOCOL_CLOCK, PROTOCOL_SENSOR, PROTOCOL_RESET, PROTOCOL_VOLTAGE

\* The answer read is the one the handler gave, but for SENSOR_CONFIG_GET.
LEMMA Read ==
  ASSUME NEW s, ~FromBaseHandler(s)
  PROVE  /\ Answered(s).status = reply'.status
         /\ ~(s.proto = PROTOCOL_SENSOR /\ s.msg = SENSOR_CONFIG_GET) =>
              Answered(s).value = reply'.value
  BY DEF Answered, FromBaseHandler

\* Performance: PERFORMANCE_DOMAIN_ATTRIBUTES and PERFORMANCE_DESCRIBE_LEVELS.
LEMMA PerformanceTold ==
  ASSUME NEW t, NEW s, Good("performance", t, s), s.learn # "nothing", Execute(s),
         Answered(s).status = SCMI_SUCCESS
  PROVE  Told("performance", s, Answered(s).value)
  <1> DEFINE d == s.args[1]
             v == Answered(s).value
  <1>1. s.proto = PROTOCOL_PERFORMANCE
    BY Protocols DEF Good
  <1>2. PerformanceHandler!Handle(s.msg, s.args)
    BY <1>1, Handled DEF Execute
  <1>3. reply'.status = SCMI_SUCCESS /\ v = reply'.value
    BY <1>1, Read DEF FromBaseHandler, PROTOCOL_BASE, PROTOCOL_POWER_DOMAIN,
       PROTOCOL_PERFORMANCE, PROTOCOL_SENSOR
  <1>4. ASSUME s.learn \in {"domain", "domain_v1"}
        PROVE  /\ v.limit => d \in performance.limitable
               /\ v.level => d \in performance.levelable
               /\ v.fast => d \in performance.fastDomains
    <2>1. s.msg = PERFORMANCE_DOMAIN_ATTRIBUTES
      BY <1>4 DEF Good, Teaches
    <2>2. PerformanceHandler!DomainAttributes(d)
      BY <1>2, <2>1 DEF PerformanceHandler!Handle, PERFORMANCE_DOMAIN_ATTRIBUTES,
         PerformanceHandler!PROTOCOL_VERSION, PerformanceHandler!PROTOCOL_ATTRIBUTES,
         PerformanceHandler!PROTOCOL_MESSAGE_ATTRIBUTES,
         PerformanceHandler!PERFORMANCE_DOMAIN_ATTRIBUTES,
         PerformanceHandler!PERFORMANCE_DESCRIBE_LEVELS, PerformanceHandler!PERFORMANCE_LIMITS_SET,
         PerformanceHandler!PERFORMANCE_LIMITS_GET, PerformanceHandler!PERFORMANCE_LEVEL_SET,
         PerformanceHandler!PERFORMANCE_LEVEL_GET, PerformanceHandler!PERFORMANCE_NOTIFY_LIMITS,
         PerformanceHandler!PERFORMANCE_NOTIFY_LEVEL,
         PerformanceHandler!PERFORMANCE_DESCRIBE_FASTCHANNEL
    <2>3. v = [limit       |-> d \in performance.limitable,
               level       |-> d \in performance.levelable,
               limitNotify |-> d \in performance.limitNotify,
               levelNotify |-> d \in performance.levelNotify,
               fast        |-> d \in performance.fastDomains,
               name        |-> d]
      BY <1>3, <2>2 DEF PerformanceHandler!DomainAttributes, PerformanceHandler!Report,
         PerformanceHandler!PerformanceRespond, PerformanceHandler!Respond, SCMI_SUCCESS,
         PerformanceHandler!SCMI_SUCCESS
    <2> HIDE DEF v, d
    <2>4. /\ v.limit = (d \in performance.limitable)
          /\ v.level = (d \in performance.levelable)
          /\ v.fast = (d \in performance.fastDomains)
      BY <2>3
    <2> QED BY <2>4
  <1>5. ASSUME s.learn = "levels"
        PROVE  /\ d \in PerformanceHandler!DomainId
               /\ v.levels = performance.levels[d] /\ v.remaining = 0
    <2>1. s.msg = PERFORMANCE_DESCRIBE_LEVELS
      BY <1>5 DEF Good, Teaches
    <2>2. PerformanceHandler!DescribeLevels(d, s.args[2])
      BY <1>2, <2>1 DEF PerformanceHandler!Handle, PERFORMANCE_DESCRIBE_LEVELS,
         PerformanceHandler!PROTOCOL_VERSION, PerformanceHandler!PROTOCOL_ATTRIBUTES,
         PerformanceHandler!PROTOCOL_MESSAGE_ATTRIBUTES,
         PerformanceHandler!PERFORMANCE_DOMAIN_ATTRIBUTES,
         PerformanceHandler!PERFORMANCE_DESCRIBE_LEVELS, PerformanceHandler!PERFORMANCE_LIMITS_SET,
         PerformanceHandler!PERFORMANCE_LIMITS_GET, PerformanceHandler!PERFORMANCE_LEVEL_SET,
         PerformanceHandler!PERFORMANCE_LEVEL_GET, PerformanceHandler!PERFORMANCE_NOTIFY_LIMITS,
         PerformanceHandler!PERFORMANCE_NOTIFY_LEVEL,
         PerformanceHandler!PERFORMANCE_DESCRIBE_FASTCHANNEL
    <2>3. reply'.status = PerformanceHandler!DescribeLevelsStatus(d, s.args[2])
      BY <2>2 DEF PerformanceHandler!DescribeLevels, PerformanceHandler!Report,
         PerformanceHandler!PerformanceRespond, PerformanceHandler!Respond
    <2>4. d \in PerformanceHandler!DomainId
      BY <1>3, <2>3 DEF PerformanceHandler!DescribeLevelsStatus, SCMI_SUCCESS,
         PerformanceHandler!SCMI_NOT_FOUND
    <2>5. v = [levels |-> performance.levels[d], remaining |-> 0]
      BY <1>3, <2>2, <2>4 DEF PerformanceHandler!DescribeLevels, PerformanceHandler!Report,
         PerformanceHandler!PerformanceRespond, PerformanceHandler!Respond, SCMI_SUCCESS,
         PerformanceHandler!SCMI_SUCCESS
    <2> QED BY <2>4, <2>5
  <1> QED BY <1>4, <1>5 DEF Told

\* Clocks: CLOCK_ATTRIBUTES and CLOCK_DESCRIBE_RATES.
LEMMA ClockTold ==
  ASSUME NEW t, NEW s, Good("clock", t, s), s.learn # "nothing", Execute(s), PlatformOK,
         Answered(s).status = SCMI_SUCCESS
  PROVE  Told("clock", s, Answered(s).value)
  <1> DEFINE c == s.args[1]
             v == Answered(s).value
  <1>1. s.proto = PROTOCOL_CLOCK
    BY Protocols DEF Good
  <1>2. HandleClock(s.msg, s.args)
    BY <1>1, Handled DEF Execute
  <1>3. reply'.status = SCMI_SUCCESS /\ v = reply'.value
    BY <1>1, Read DEF FromBaseHandler, PROTOCOL_BASE, PROTOCOL_POWER_DOMAIN,
       PROTOCOL_CLOCK, PROTOCOL_SENSOR
  <1>4. ASSUME s.learn = "attribute" PROVE v.enabled \in {0, 1}
    <2>1. s.msg = CLOCK_ATTRIBUTES
      BY <1>4 DEF Good, Teaches
    <2>2. ClockHandler!ClockAttributes(c)
      BY <1>2, <2>1 DEF HandleClock, ClockHandler!Handle, CLOCK_ATTRIBUTES, CLOCK_DESCRIBE_RATES,
         ClockHandler!PROTOCOL_VERSION, ClockHandler!PROTOCOL_ATTRIBUTES,
         ClockHandler!PROTOCOL_MESSAGE_ATTRIBUTES, ClockHandler!CLOCK_ATTRIBUTES,
         ClockHandler!CLOCK_DESCRIBE_RATES, ClockHandler!CLOCK_RATE_SET,
         ClockHandler!CLOCK_RATE_GET, ClockHandler!CLOCK_CONFIG_SET
    <2>3. reply'.status = ClockHandler!FoundThen(c \in ClockHandler!ClockId,
                                                 ClockHandler!SCMI_SUCCESS)
      BY <2>2 DEF ClockHandler!ClockAttributes, ClockHandler!ClockReport,
         ClockHandler!ClockRespond, ClockHandler!Respond
    <2>4. c \in ClockHandler!ClockId
      BY <1>3, <2>3 DEF ClockHandler!FoundThen, SCMI_SUCCESS, ClockHandler!SCMI_NOT_FOUND
    <2>5. v = [reserved |-> 0, enabled |-> clock_status[c], name |-> c]
      BY <1>3, <2>2, <2>4 DEF ClockHandler!ClockAttributes, ClockHandler!ClockReport,
         ClockHandler!ClockRespond, ClockHandler!Respond, SCMI_SUCCESS, ClockHandler!SCMI_SUCCESS
    <2> QED BY <2>4, <2>5 DEF PlatformOK
  <1>5. ASSUME s.learn = "rates", c \notin clock.range
        PROVE  /\ ~v.triplet
               /\ v.rates[1] = ClockHandler!Rate(1)
               /\ v.rates[Len(v.rates)] = ClockHandler!Rate(clock.rates[c])
    <2>1. s.msg = CLOCK_DESCRIBE_RATES
      BY <1>5 DEF Good, Teaches
    <2>2. ClockHandler!DescribeRates(c, s.args[2])
      BY <1>2, <1>5, <2>1 DEF HandleClock, ClockHandler!Handle, CLOCK_DESCRIBE_RATES,
         ClockHandler!PROTOCOL_VERSION, ClockHandler!PROTOCOL_ATTRIBUTES,
         ClockHandler!PROTOCOL_MESSAGE_ATTRIBUTES, ClockHandler!CLOCK_ATTRIBUTES,
         ClockHandler!CLOCK_DESCRIBE_RATES, ClockHandler!CLOCK_RATE_SET,
         ClockHandler!CLOCK_RATE_GET, ClockHandler!CLOCK_CONFIG_SET
    <2>3. c \in ClockHandler!ClockId
      BY <1>3, <2>2 DEF ClockHandler!DescribeRates, ClockHandler!ClockReport,
         ClockHandler!ClockRespond, ClockHandler!Respond, SCMI_SUCCESS,
         ClockHandler!SCMI_NOT_FOUND
    <2>4. v = [triplet |-> FALSE, rates |-> ClockHandler!Rates(c), remaining |-> 0]
      BY <1>3, <2>2, <2>3 DEF ClockHandler!DescribeRates, ClockHandler!ClockReport,
         ClockHandler!ClockRespond, ClockHandler!Respond, SCMI_SUCCESS, ClockHandler!SCMI_SUCCESS
    <2>5. PICK n \in Nat \ {0} : n = clock.rates[c]
      BY <2>3, TablesAssumption
    <2> HIDE DEF v, c
    <2>6. v.triplet = FALSE /\ v.rates = [i \in 1..n |-> ClockHandler!Rate(i)]
      BY <2>4, <2>5 DEF ClockHandler!Rates
    <2>7. Len(v.rates) = n
      BY <2>6
    <2> QED BY <2>5, <2>6, <2>7
  <1> QED BY <1>4, <1>5 DEF Told

\* Sensors: SENSOR_DESCRIPTION_GET.
LEMMA SensorTold ==
  ASSUME NEW t, NEW s, Good("sensor", t, s), s.learn # "nothing", Execute(s),
         Answered(s).status = SCMI_SUCCESS
  PROVE  Told("sensor", s, Answered(s).value)
  <1> DEFINE v == Answered(s).value
  <1>1. s.proto = PROTOCOL_SENSOR
    BY Protocols DEF Good
  <1>2. SensorHandler!Handle(s.msg, s.args)
    BY <1>1, Handled DEF Execute
  <1>3. reply'.status = SCMI_SUCCESS
    BY <1>1, Read DEF FromBaseHandler, PROTOCOL_BASE, PROTOCOL_POWER_DOMAIN, PROTOCOL_SENSOR
  <1>4. ASSUME s.learn \in {"sensors", "sensors_v3"}
        PROVE  v.sensors = [i \in 1..sensor.sensors |-> SensorHandler!Descriptor(i - 1)]
    <2>1. s.msg = SENSOR_DESCRIPTION_GET
      BY <1>4 DEF Good, Teaches
    <2>2. SensorHandler!DescriptionGet(s.args[1])
      BY <1>2, <2>1 DEF SensorHandler!Handle, SENSOR_DESCRIPTION_GET,
         SensorHandler!PROTOCOL_VERSION, SensorHandler!PROTOCOL_ATTRIBUTES,
         SensorHandler!PROTOCOL_MESSAGE_ATTRIBUTES, SensorHandler!SENSOR_DESCRIPTION_GET,
         SensorHandler!SENSOR_TRIP_POINT_NOTIFY, SensorHandler!SENSOR_TRIP_POINT_CONFIG,
         SensorHandler!SENSOR_READING_GET, SensorHandler!SENSOR_AXIS_DESCRIPTION_GET,
         SensorHandler!SENSOR_LIST_UPDATE_INTERVALS, SensorHandler!SENSOR_CONFIG_GET,
         SensorHandler!SENSOR_CONFIG_SET, SensorHandler!SENSOR_CONTINUOUS_UPDATE_NOTIFY
    <2>3. v = reply'.value
      BY <1>1, <2>1, Read DEF FromBaseHandler, PROTOCOL_BASE, PROTOCOL_POWER_DOMAIN,
         PROTOCOL_SENSOR, SENSOR_DESCRIPTION_GET, SENSOR_CONFIG_GET
    <2>4. reply'.value =
            [reserved |-> 0, remaining |-> 0,
             sensors |-> [i \in 1..sensor.sensors |-> SensorHandler!Descriptor(i - 1)]]
      BY <1>3, <2>2 DEF SensorHandler!DescriptionGet, SensorHandler!SensorReport,
         SensorHandler!Respond, SCMI_SUCCESS, SensorHandler!SCMI_SUCCESS
    <2> QED BY <2>3, <2>4
  <1> QED BY <1>4 DEF Told

\* Reset domains: RESET_DOMAIN_ATTRIBUTES.
LEMMA ResetTold ==
  ASSUME NEW t, NEW s, Good("reset", t, s), s.learn # "nothing", Execute(s),
         Answered(s).status = SCMI_SUCCESS
  PROVE  Told("reset", s, Answered(s).value)
  <1> DEFINE d == s.args[1]
             v == Answered(s).value
  <1>1. s.proto = PROTOCOL_RESET
    BY Protocols DEF Good
  <1>2. ResetHandler!Handle(s.msg, s.args)
    BY <1>1, Handled DEF Execute
  <1>3. reply'.status = SCMI_SUCCESS /\ v = reply'.value
    BY <1>1, Read DEF FromBaseHandler, PROTOCOL_BASE, PROTOCOL_POWER_DOMAIN, PROTOCOL_RESET,
       PROTOCOL_SENSOR
  <1>4. ASSUME s.learn = "domain"
        PROVE  (v.async => d \in resets.async) /\ (v.notify => d \in resets.notify)
    <2>1. s.msg = RESET_DOMAIN_ATTRIBUTES
      BY <1>4 DEF Good, Teaches
    <2>2. ResetHandler!DomainAttributes(d)
      BY <1>2, <2>1 DEF ResetHandler!Handle, RESET_DOMAIN_ATTRIBUTES,
         ResetHandler!PROTOCOL_VERSION, ResetHandler!PROTOCOL_ATTRIBUTES,
         ResetHandler!PROTOCOL_MESSAGE_ATTRIBUTES, ResetHandler!RESET_DOMAIN_ATTRIBUTES,
         ResetHandler!RESET_PROTOCOL_RESET, ResetHandler!RESET_PROTOCOL_NOTIFY
    <2>3. d \in ResetHandler!ResetDomain
      BY <1>3, <2>2 DEF ResetHandler!DomainAttributes, ResetHandler!ResetReport,
         ResetHandler!Respond, ResetHandler!FoundThen, SCMI_SUCCESS, ResetHandler!SCMI_NOT_FOUND
    <2>4. v = [reserved |-> 0, async |-> d \in resets.async, notify |-> d \in resets.notify,
               latency |-> resets.latency[d], name |-> d]
      BY <1>3, <2>2, <2>3 DEF ResetHandler!DomainAttributes, ResetHandler!ResetReport,
         ResetHandler!Respond, SCMI_SUCCESS, ResetHandler!SCMI_SUCCESS
    <2> HIDE DEF v, d
    <2>5. v.async = (d \in resets.async) /\ v.notify = (d \in resets.notify)
      BY <2>4
    <2> QED BY <2>5
  <1> QED BY <1>4 DEF Told

\* A page of voltage levels, wherever it starts, holds levels of its domain, and is a triplet
\* only if the domain has one.
LEMMA PagesListed ==
  ASSUME NEW d \in VoltageHandler!VoltageDomain, NEW index \in Nat,
         index < Len(voltage.levels[d])
  PROVE  LET page == VoltageHandler!Page(d, index)
         IN /\ page.levels \in Seq(Nat) /\ page.remaining \in Int
            /\ Listed(d, page.levels)
            /\ page.triplet => /\ d \in voltage.triplet
                               /\ Len(page.levels) = 3 => page.levels[1] = voltage.levels[d][1]
  <1> DEFINE listed == voltage.levels[d]
             past == IF d \in voltage.triplet THEN Len(listed)
                     ELSE VoltageHandler!Min({Len(listed), index + voltage.page})
             levels == SubSeq(listed, index + 1, past)
             page == VoltageHandler!Page(d, index)
  <1>1. listed \in Seq(Nat) /\ Len(listed) \in Nat /\ voltage.page \in Nat
    BY TablesAssumption
  <1>2. past \in index..Len(listed)
    <2>1. \A m, n \in Nat : VoltageHandler!Min({m, n}) = IF m <= n THEN m ELSE n
      BY DEF VoltageHandler!Min
    <2>2. PICK n, m \in Nat : n = Len(listed) /\ m = index + voltage.page /\ index <= m
      BY <1>1
    <2>3. index < n
      BY <2>2
    <2>4. VoltageHandler!Min({n, m}) \in index..n
      BY <2>1, <2>2, <2>3
    <2>5. past = IF d \in voltage.triplet THEN n ELSE VoltageHandler!Min({n, m})
      BY <2>2
    <2>6. n \in index..n
      BY <2>3
    <2> HIDE DEF past
    <2> QED BY <2>2, <2>4, <2>5, <2>6
  <1>3. past \in Nat /\ index <= past /\ past <= Len(listed)
    BY <1>1, <1>2
  <1>4. page = [reserved |-> 0, triplet |-> d \in voltage.triplet, levels |-> levels,
                remaining |-> Len(listed) - past]
    BY DEF VoltageHandler!Page
  <1> HIDE DEF past, listed
  <1>5. /\ levels \in Seq(Nat) /\ Len(levels) = past - index
        /\ \A i \in DOMAIN levels : levels[i] = listed[index + i] /\ index + i \in DOMAIN listed
    <2>1. \A i \in (index + 1)..past : i \in 1..Len(listed) /\ listed[i] \in Nat
      BY <1>1, <1>3
    <2>2. levels = [i \in 1..(past - index) |-> listed[index + i]]
      BY <1>1, <1>3, SubSeqProperties
    <2> QED BY <1>1, <1>3, <2>1, <2>2
  <1>6. Listed(d, levels)
    BY <1>5 DEF Listed, listed
  <1>7. ASSUME d \in voltage.triplet, Len(levels) = 3 PROVE levels[1] = listed[1]
    <2>1. Len(listed) = 3
      BY <1>7, TablesAssumption DEF listed
    <2>2. index = 0
      BY <1>3, <1>5, <1>7, <2>1
    <2> QED BY <1>5, <1>7, <2>2
  <1>8. Len(listed) - past \in Int
    BY <1>1, <1>3
  <1> HIDE DEF page, levels
  <1>9. /\ page.levels = levels /\ page.remaining = Len(listed) - past
        /\ page.triplet = (d \in voltage.triplet)
    BY <1>4
  <1> QED BY <1>5, <1>6, <1>7, <1>8, <1>9 DEF listed, page

\* Voltage domains: VOLTAGE_DESCRIBE_LEVELS.
LEMMA VoltageTold ==
  ASSUME NEW t, NEW s, Good("voltage", t, s), s.learn # "nothing", Execute(s),
         Answered(s).status = SCMI_SUCCESS
  PROVE  Told("voltage", s, Answered(s).value)
  <1> DEFINE d == s.args[1]
             v == Answered(s).value
  <1>1. s.proto = PROTOCOL_VOLTAGE
    BY Protocols DEF Good
  <1>2. IF VoltageServed THEN VoltageHandler!HandleVoltage(s.msg, s.args)
        ELSE SystemHandler!HandleVoltage(s.msg, s.args)
    BY <1>1, Handled DEF Execute
  <1>3. reply'.status = SCMI_SUCCESS /\ v = reply'.value
    BY <1>1, Read DEF FromBaseHandler, PROTOCOL_BASE, PROTOCOL_POWER_DOMAIN, PROTOCOL_VOLTAGE,
       PROTOCOL_SENSOR
  <1>4. ASSUME s.learn = "levels"
        PROVE  \E index \in Nat : /\ d \in VoltageHandler!VoltageDomain
                                  /\ index < Len(voltage.levels[d])
                                  /\ v = VoltageHandler!Page(d, index)
    <2>1. s.msg = VOLTAGE_DESCRIBE_LEVELS /\ s.args[2] \in Nat
      BY <1>4 DEF Good, Teaches
    <2>2. VoltageServed
      <3>1. CASE ~VoltageServed
        <4>1. SystemHandler!HandleVoltage(s.msg, s.args)
          BY <1>2, <3>1
        <4>2. reply'.status = SystemHandler!SCMI_NOT_FOUND
          BY <2>1, <4>1 DEF SystemHandler!HandleVoltage, SystemHandler!Respond,
             SystemHandler!FoundThen, SystemHandler!PROTOCOL_VERSION, VOLTAGE_DESCRIBE_LEVELS
        <4> QED BY <1>3, <4>2 DEF SystemHandler!SCMI_NOT_FOUND, SCMI_SUCCESS
      <3> QED BY <3>1
    <2>3. VoltageHandler!HandleVoltage(s.msg, s.args)
      BY <1>2, <2>2
    <2>4. VoltageHandler!DescribeLevels(d, s.args[2])
      BY <2>1, <2>3 DEF VoltageHandler!HandleVoltage, VOLTAGE_DESCRIBE_LEVELS,
         VoltageHandler!PROTOCOL_VERSION, VoltageHandler!PROTOCOL_ATTRIBUTES,
         VoltageHandler!PROTOCOL_MESSAGE_ATTRIBUTES, VoltageHandler!VOLTAGE_DOMAIN_ATTRIBUTES,
         VoltageHandler!VOLTAGE_DESCRIBE_LEVELS, VoltageHandler!VOLTAGE_CONFIG_SET,
         VoltageHandler!VOLTAGE_CONFIG_GET, VoltageHandler!VOLTAGE_LEVEL_SET,
         VoltageHandler!VOLTAGE_LEVEL_GET
    <2>5. d \in VoltageHandler!VoltageDomain /\ s.args[2] < Len(voltage.levels[d])
      BY <1>3, <2>4 DEF VoltageHandler!DescribeLevels, VoltageHandler!VoltageReport,
         VoltageHandler!Respond, VoltageHandler!FoundThen, SCMI_SUCCESS,
         VoltageHandler!SCMI_NOT_FOUND, VoltageHandler!SCMI_OUT_OF_RANGE
    <2>6. v = VoltageHandler!Page(d, s.args[2])
      BY <1>3, <2>4 DEF VoltageHandler!DescribeLevels, VoltageHandler!VoltageReport,
         VoltageHandler!Respond, SCMI_SUCCESS, VoltageHandler!SCMI_SUCCESS
    <2> QED BY <2>1, <2>5, <2>6
  <1> HIDE DEF v, d
  <1> QED BY <1>4, PagesListed DEF Told, v, d

\* BASE_DISCOVER_LIST_PROTOCOLS counts no protocol past the last.
LEMMA BaseTold ==
  ASSUME NEW t, NEW s, Good("base", t, s), s.learn = "page", Execute(s),
         Answered(s).status = SCMI_SUCCESS
  PROVE  PageEnd(s, Answered(s)) \in 0..NumProtocols
  <1>1. s.proto = PROTOCOL_BASE /\ s.msg = BASE_DISCOVER_LIST_PROTOCOLS
        /\ s.args[1] \in 0..NumProtocols
    BY Protocols DEF Good, Teaches
  <1>2. Answered(s).value = BaseHandler!BaseValue(s.msg, s.args)
    BY <1>1 DEF Answered, PROTOCOL_BASE, PROTOCOL_POWER_DOMAIN, PROTOCOL_SENSOR
  <1>3. Answered(s).value = NumProtocols - s.args[1]
    BY <1>1, <1>2 DEF BaseHandler!BaseValue, BASE_DISCOVER_LIST_PROTOCOLS,
       BaseHandler!BASE_DISCOVER_LIST_PROTOCOLS, BaseHandler!PROTOCOL_VERSION,
       BaseHandler!PROTOCOL_ATTRIBUTES, BaseHandler!PROTOCOL_MESSAGE_ATTRIBUTES,
       BaseHandler!BASE_DISCOVER_AGENT
  <1>4. PageEnd(s, Answered(s)) = s.args[1] + (NumProtocols - s.args[1])
    BY <1>3 DEF PageEnd
  <1>5. NumProtocols \in Nat
    BY ExpectedAssumption
  <1> QED BY <1>1, <1>4, <1>5

-----------------------------------------------------------------------------
(* A command leaves the platform in order.                                 *)

\* The base and the power handler: access is granted or denied, for the devices there are.
LEMMA AccessKept ==
  ASSUME NEW m, NEW a,
         device_access \in [0..(NumDevices - 1) -> BOOLEAN], protocol_access \in BOOLEAN,
         BaseHandler!BaseHandle(m, a) \/ BaseHandler!PowerHandle(m, a)
  PROVE  device_access' \in [0..(NumDevices - 1) -> BOOLEAN] /\ protocol_access' \in BOOLEAN
  <1> DEFINE K == UNCHANGED <<device_access, protocol_access>>
  <1>1. CASE K
    BY <1>1
  <1>2. CASE \E agent, d, flags : BaseHandler!BaseSetDevicePermissions(agent, d, flags)
    <2>1. PICK agent, d, flags : BaseHandler!BaseSetDevicePermissions(agent, d, flags)
      BY <1>2
    <2>2. protocol_access' = protocol_access
      BY <2>1 DEF BaseHandler!BaseSetDevicePermissions
    <2>3. \/ device_access' = device_access
          \/ device_access' =
               [e \in 0..(NumDevices - 1) |->
                  IF e = d THEN flags = BaseHandler!FLAG_ACCESS_ALLOW ELSE device_access[e]]
      BY <2>1 DEF BaseHandler!BaseSetDevicePermissions, BaseHandler!AccessDevice
    <2>4. ASSUME NEW e \in 0..(NumDevices - 1)
          PROVE  (IF e = d THEN flags = BaseHandler!FLAG_ACCESS_ALLOW ELSE device_access[e])
                   \in BOOLEAN
      OBVIOUS
    <2>5. device_access' \in [0..(NumDevices - 1) -> BOOLEAN]
      BY <2>3, <2>4, Zenon
    <2> QED BY <2>2, <2>5
  <1>3. CASE \E agent, d, p, flags : BaseHandler!BaseSetProtocolPermissions(agent, d, p, flags)
    <2>1. PICK agent, d, p, flags : BaseHandler!BaseSetProtocolPermissions(agent, d, p, flags)
      BY <1>3
    <2>2. device_access' = device_access
      BY <2>1 DEF BaseHandler!BaseSetProtocolPermissions
    <2>3. \/ protocol_access' = protocol_access
          \/ protocol_access' = (flags = BaseHandler!FLAG_ACCESS_ALLOW)
      BY <2>1, Zenon DEF BaseHandler!BaseSetProtocolPermissions
    <2>4. (flags = BaseHandler!FLAG_ACCESS_ALLOW) \in BOOLEAN
      OBVIOUS
    <2>5. protocol_access' \in BOOLEAN
      BY <2>3, <2>4, Zenon
    <2> QED BY <2>2, <2>5
  <1>4. CASE \E agent, flags : BaseHandler!BaseResetAgentConfiguration(agent, flags)
    <2>1. PICK agent, flags : BaseHandler!BaseResetAgentConfiguration(agent, flags)
      BY <1>4
    <2>2. \/ K
          \/ device_access' = [device_access EXCEPT ![0] = TRUE] /\ protocol_access' = TRUE
      BY <2>1 DEF BaseHandler!BaseResetAgentConfiguration
    <2>3. [device_access EXCEPT ![0] = TRUE] \in [0..(NumDevices - 1) -> BOOLEAN]
      BY Zenon
    <2> QED BY <1>1, <2>2, <2>3
  <1>5. CASE BaseHandler!BaseHandle(m, a)
    BY <1>1, <1>2, <1>3, <1>4, <1>5 DEF BaseHandler!BaseHandle, BaseHandler!BaseQuery,
       BaseHandler!BaseSubVendor, BaseHandler!BaseMsgAttr, BaseHandler!BaseListProtocols,
       BaseHandler!BaseDiscoverAgent, BaseHandler!BaseNotifyErrors, BaseHandler!BaseUnknown,
       BaseHandler!tables
  <1>6. CASE BaseHandler!PowerHandle(m, a)
    BY <1>1, <1>6 DEF BaseHandler!PowerHandle, BaseHandler!PowerQuery, BaseHandler!PowerMsgAttr,
       BaseHandler!PowerDomainAttributes, BaseHandler!PowerStateSet, BaseHandler!PowerStateGet,
       BaseHandler!PowerStateNotify, BaseHandler!PowerStateChangeRequestedNotify,
       BaseHandler!PowerUnknown, BaseHandler!PowerRespond, BaseHandler!tables
  <1> QED BY <1>5, <1>6

\* The performance handler: there are limits for the same domains.
LEMMA LimitsKept ==
  ASSUME NEW m, NEW a, PerformanceHandler!Handle(m, a)
  PROVE  DOMAIN max_limit' = DOMAIN max_limit
  <1>1. CASE \E d, max, min : PerformanceHandler!LimitsSet(d, max, min)
    BY <1>1 DEF PerformanceHandler!LimitsSet
  <1>2. CASE UNCHANGED max_limit
    BY <1>2
  <1> QED BY <1>1, <1>2 DEF PerformanceHandler!Handle, PerformanceHandler!Version,
          PerformanceHandler!Attributes, PerformanceHandler!MessageAttributes,
          PerformanceHandler!Unknown, PerformanceHandler!DomainAttributes,
          PerformanceHandler!DescribeLevels, PerformanceHandler!LimitsGet,
          PerformanceHandler!LevelSet, PerformanceHandler!LevelGet,
          PerformanceHandler!NotifyLimits, PerformanceHandler!NotifyLevel,
          PerformanceHandler!DescribeFastChannel, PerformanceHandler!Report,
          PerformanceHandler!settings

\* The clock handler: a clock is on or off, whatever number it is sent.
LEMMA StatusKept ==
  ASSUME NEW m, NEW a, HandleClock(m, a), m = CLOCK_CONFIG_SET => a[2] \in Nat,
         clock_status \in [ClockHandler!ClockId -> {0, 1}]
  PROVE  clock_status' \in [ClockHandler!ClockId -> {0, 1}]
  <1>1. CASE m = ClockHandler!CLOCK_CONFIG_SET /\ ClockHandler!ConfigSet(a[1], a[2])
    <2>1. a[2] \in Nat
      BY <1>1 DEF CLOCK_CONFIG_SET, ClockHandler!CLOCK_CONFIG_SET
    <2>2. CASE ClockHandler!ConfigSetStatus(a[1], a[2]) = ClockHandler!SCMI_SUCCESS
      <3>1. a[2] \in {0, 1}
        BY <2>1, <2>2 DEF ClockHandler!ConfigSetStatus, ClockHandler!FoundThen, ClockHandler!OnOff,
           ClockHandler!SCMI_SUCCESS, ClockHandler!SCMI_NOT_FOUND,
           ClockHandler!SCMI_INVALID_PARAMETERS
      <3>2. clock_status' = [clock_status EXCEPT ![a[1]] = a[2]]
        BY <1>1, <2>2 DEF ClockHandler!ConfigSet
      <3> QED BY <3>1, <3>2
    <2>3. CASE ClockHandler!ConfigSetStatus(a[1], a[2]) # ClockHandler!SCMI_SUCCESS
      BY <1>1, <2>3 DEF ClockHandler!ConfigSet
    <2> QED BY <2>2, <2>3
  <1>2. CASE UNCHANGED clock_status
    BY <1>2
  <1> QED BY <1>1, <1>2 DEF HandleClock, ClockHandler!Handle, ClockHandler!Version,
          ClockHandler!Attributes, ClockHandler!MessageAttributes, ClockHandler!Unknown,
          ClockHandler!ClockAttributes, ClockHandler!DescribeRates, ClockHandler!RateSet,
          ClockHandler!RateGet, ClockHandler!ClockReport, ClockHandler!clockSettings

\* Whatever handler a command of a test goes to.
LEMMA PlatformKept ==
  ASSUME PlatformOK, NEW p, NEW t, NEW s, Good(p, t, s), Execute(s)
  PROVE  PlatformOK'
  <1>1. Dispatch(s) /\ (s.proto = PROTOCOL_CLOCK /\ s.msg = CLOCK_CONFIG_SET => s.args[2] \in Nat)
    BY DEF Execute, Good
  <1>2. /\ device_access \in [0..(NumDevices - 1) -> BOOLEAN] /\ protocol_access \in BOOLEAN
        /\ DOMAIN max_limit = PerformanceHandler!DomainId
        /\ clock_status \in [ClockHandler!ClockId -> {0, 1}]
    BY DEF PlatformOK
  <1>3. device_access' \in [0..(NumDevices - 1) -> BOOLEAN] /\ protocol_access' \in BOOLEAN
    <2>1. CASE BaseHandler!BaseHandle(s.msg, s.args) \/ BaseHandler!PowerHandle(s.msg, s.args)
      BY <1>2, <2>1, AccessKept
    <2>2. CASE UNCHANGED <<device_access, protocol_access>>
      BY <1>2, <2>2
    <2> QED BY <1>1, <2>1, <2>2 DEF Dispatch, baseVars
  <1>4. DOMAIN max_limit' = PerformanceHandler!DomainId
    <2>1. CASE PerformanceHandler!Handle(s.msg, s.args)
      BY <1>2, <2>1, LimitsKept
    <2>2. CASE UNCHANGED max_limit
      BY <1>2, <2>2
    <2> QED BY <1>1, <2>1, <2>2 DEF Dispatch, performanceVars
  <1>5. clock_status' \in [ClockHandler!ClockId -> {0, 1}]
    <2>1. CASE s.proto = PROTOCOL_CLOCK /\ HandleClock(s.msg, s.args)
      BY <1>1, <1>2, <2>1, StatusKept
    <2>2. CASE UNCHANGED clock_status
      BY <1>2, <2>2
    <2> QED BY <1>1, <2>1, <2>2 DEF Dispatch, clockVars
  <1>6. ClockHandler!ClockId' = ClockHandler!ClockId
        /\ PerformanceHandler!DomainId' = PerformanceHandler!DomainId
    BY DEF ClockHandler!ClockId, PerformanceHandler!DomainId
  <1> QED BY <1>3, <1>4, <1>5, <1>6 DEF PlatformOK

-----------------------------------------------------------------------------
(* The engine.                                                             *)

\* val_report_status: a verdict is counted and no step is left.
LEMMA Reported ==
  ASSUME NEW t, NEW v \in Verdict, count \in [Verdict -> Nat], val_report_status(t, v)
  PROVE  Progress' /\ steps' = <<>> /\ test' = "none"
  <1>1. /\ count' = [count EXCEPT ![v] = @ + 1] /\ last' = [test |-> t, verdict |-> v]
        /\ test' = "none" /\ steps' = <<>>
    BY DEF val_report_status
  <1>2. count' \in [Verdict -> Nat]
    BY <1>1
  <1>3. last'.verdict = v
    BY <1>1
  <1> QED BY <1>1, <1>2, <1>3 DEF Progress, Verdict

\* A test begins with its program, or ends at once.
LEMMA BeginKept ==
  ASSUME Progress, NEW t, t # "none", NEW program, Begin(t, program)
  PROVE  /\ Progress' /\ steps' \in {<<>>, program}
         /\ test' = IF steps' = <<>> THEN "none" ELSE t
  <1>1. CASE Ended(program) # "none"
    <2>1. Ended(program) \in Verdict
      BY <1>1 DEF Ended, Verdict
    <2>2. val_report_status(t, Ended(program))
      BY <1>1 DEF Begin
    <2> QED BY <2>1, <2>2, Reported DEF Progress
  <1>2. CASE Ended(program) = "none"
    <2>1. program # <<>>
      BY <1>2 DEF Ended
    <2> QED BY <1>2, <2>1 DEF Begin, Progress
  <1> QED BY <1>1, <1>2

\* After an answer a test goes on with what it has left, or ends.
LEMMA ProceedKept ==
  ASSUME Progress, test # "none", NEW r, NEW more, Proceed(r, more)
  PROVE  /\ Progress' /\ steps' \in {<<>>, more}
         /\ test' = IF steps' = <<>> THEN "none" ELSE test
  <1> DEFINE v == Verdicts(Head(steps), r, more)
  <1>1. CASE v = "none"
    <2>1. more # <<>>
      BY <1>1 DEF Verdicts, Ended
    <2> QED BY <1>1, <2>1 DEF Proceed, Progress
  <1>2. CASE v # "none"
    <2>1. v \in Verdict
      BY <1>2 DEF Verdicts, Ended, Verdict
    <2>2. val_report_status(test, v)
      BY <1>2 DEF Proceed
    <2> HIDE DEF v
    <2> QED BY <2>1, <2>2, Reported DEF Progress
  <1> QED BY <1>1, <1>2

\* Steps added for an answer leave a program of the suite.
LEMMA ExtendedGood ==
  ASSUME NEW p, NEW t, GoodProgram(p, t, steps), steps # <<>>,
         NEW added, GoodProgram(p, t, added)
  PROVE  GoodProgram(p, t, Extended(added))
  <1> DEFINE rest == Tail(steps)
  <1>1. GoodProgram(p, t, rest)
    BY RestOfProgram
  <1>2. CASE rest = <<>>
    BY <1>1, <1>2, ProgramsAppend DEF Extended
  <1>3. CASE rest # <<>>
    <2>1. GoodProgram(p, t, Lists!Front(rest))
      BY <1>1, <1>3, RestOfProgram
    <2> QED BY <1>1, <1>3, <2>1, ProgramsAppend DEF Extended
  <1> QED BY <1>2, <1>3

\* One exchange more went wrong, in one suite more at most.
LEMMA FaultKept ==
  ASSUME FaultsOK, Fault
  PROVE  FaultsOK'
  <1>1. /\ suite \in FaultySuites /\ faults < MaxFaults
        /\ faults' = faults + 1 /\ faulted' = faulted \cup {suite}
    BY DEF Fault
  <1>2. /\ faults \in 0..MaxFaults /\ faulted \subseteq FaultySuites
        /\ IsFiniteSet(faulted) /\ Cardinality(faulted) <= faults
    BY DEF FaultsOK
  <1>3. IsFiniteSet(faulted') /\ Cardinality(faulted') <= Cardinality(faulted) + 1
        /\ Cardinality(faulted) \in Nat /\ Cardinality(faulted') \in Nat
    <2>1. IsFiniteSet(faulted')
      BY <1>1, <1>2, FS_AddElement
    <2>2. \/ Cardinality(faulted') = Cardinality(faulted)
          \/ Cardinality(faulted') = Cardinality(faulted) + 1
      BY <1>1, <1>2, FS_AddElement
    <2>3. Cardinality(faulted) \in Nat /\ Cardinality(faulted') \in Nat
      BY <1>2, <2>1, FS_CardinalityType
    <2> QED BY <2>1, <2>2, <2>3
  <1>4. faults' \in 0..MaxFaults
    BY <1>1, <1>2, FaultsAssumption
  <1>5. Cardinality(faulted') <= faults'
    BY <1>1, <1>2, <1>3
  <1> QED BY <1>1, <1>2, <1>3, <1>4, <1>5 DEF FaultsOK

\* Each suite schedules its own tests, whatever version it was told.
LEMMA Schedules ==
  ASSUME NEW p \in Keeper, NEW v
  PROVE  ScheduleOf(p, v) \in Seq(TestsOf(p))
  BY PowerSchedule, SystemSchedule, PerformanceSchedule, ClockSchedule, SensorSchedule,
     ResetSchedule, VoltageSchedule DEF Keeper

\* Each test of a suite is a program of it, whatever its table holds.
LEMMA Programs ==
  ASSUME Tables, BaseOK, NEW p \in Keeper \cup {"base"}, NEW t \in TestsOf(p)
  PROVE  GoodProgram(p, t, ProgramOf(p, t))
  <1>1. CASE p = "base"
    BY <1>1, BasePrograms DEF BaseOK
  <1>2. CASE p = "power"
    <2>1. table.power.domains \in Nat
      BY TablesAssumption DEF Tables, Keeper, TableOf, PowerTable
    <2> QED BY <1>2, <2>1, PowerPrograms
  <1>3. CASE p = "system"
    BY <1>3, SystemPrograms
  <1>4. CASE p = "performance"
    <2>1. table.performance.domains \in Nat
      BY TablesAssumption DEF Tables, Keeper, TableOf, PerformanceTable
    <2> QED BY <1>4, <2>1, PerformancePrograms
  <1>5. CASE p = "clock"
    <2>1. ClockTable(table.clock)
      BY DEF Tables, Keeper, TableOf
    <2>2. table.clock.clocks \in Nat
      BY <2>1, TablesAssumption DEF ClockTable
    <2>3. \A c : ClockTests!Row(c).enabled \in Nat
      BY <2>1 DEF ClockTable, ClockRow, ClockTests!Row, ClockTests!NoRow
    <2> QED BY <1>5, <2>2, <2>3, ClockPrograms
  <1>6. CASE p = "sensor"
    <2>1. SensorTable(table.sensor)
      BY DEF Tables, Keeper, TableOf
    <2>2. table.sensor.sensors \in Nat
      BY <2>1, TablesAssumption DEF SensorTable
    <2>3. \A id : SensorTests!Row(id).trips \in Nat
      BY <2>1 DEF SensorTable, SensorRow, SensorTests!Row, SensorTests!NoRow
    <2> QED BY <1>6, <2>2, <2>3, SensorPrograms
  <1>7. CASE p = "reset"
    <2>1. table.reset.domains \in Nat
      BY TablesAssumption DEF Tables, Keeper, TableOf, ResetTable
    <2> QED BY <1>7, <2>1, ResetPrograms
  <1>8. CASE p = "voltage"
    <2>1. table.voltage.domains \in Nat
      BY TablesAssumption DEF Tables, Keeper, TableOf, VoltageTable
    <2> QED BY <1>8, <2>1, VoltagePrograms
  <1> QED BY <1>1, <1>2, <1>3, <1>4, <1>5, <1>6, <1>7, <1>8 DEF Keeper

-----------------------------------------------------------------------------
(* An answer is taken.                                                     *)

\* What a step that keeps something is told on SCMI_SUCCESS may be relied on.
LEMMA Answers ==
  ASSUME NEW p \in Keeper, PlatformOK, NEW t, NEW s, Good(p, t, s), s.learn # "nothing",
         Execute(s), Answered(s).status = SCMI_SUCCESS
  PROVE  Told(p, s, Answered(s).value)
  <1>1. CASE p \in {"power", "system"}
    BY <1>1 DEF Told
  <1> QED BY <1>1, PerformanceTold, ClockTold, SensorTold, ResetTold, VoltageTold DEF Keeper

\* No table is made untrue by what may be relied on.
LEMMA Kept ==
  ASSUME NEW p \in Keeper, Tables, NEW t, NEW s, Good(p, t, s), NEW v, Told(p, s, v)
  PROVE  TableOf(p, LearnedOf(p, s, v))
  <1>1. TableOf(p, table[p])
    BY DEF Tables
  <1>2. CASE p = "power"
    BY <1>1, <1>2, PowerKept DEF TableOf
  <1>3. CASE p = "system"
    BY <1>3, SystemKept
  <1>4. CASE p = "performance"
    <2>1. s.learn = "levels" => s.seen = <<>>
      BY <1>4 DEF Good, Teaches
    <2> QED BY <1>1, <1>4, <2>1, PerformanceKept DEF TableOf
  <1>5. CASE p = "clock"
    BY <1>1, <1>5, ClockKept DEF TableOf
  <1>6. CASE p = "sensor"
    BY <1>1, <1>6, SensorKept DEF TableOf
  <1>7. CASE p = "reset"
    BY <1>1, <1>7, ResetKept DEF TableOf
  <1>8. CASE p = "voltage"
    BY <1>1, <1>8, VoltageKept DEF TableOf
  <1> QED BY <1>2, <1>3, <1>4, <1>5, <1>6, <1>7, <1>8 DEF Keeper

\* The steps an answer adds are steps of the suite.
LEMMA MoreGood ==
  ASSUME NEW p \in Keeper, NEW t, NEW s, Good(p, t, s), NEW v, Told(p, s, v)
  PROVE  GoodProgram(p, t, MoreOf(p, s, v))
  <1>1. CASE p = "performance"
    <2>1. s.learn = "levels" => v.remaining = 0
      BY <1>1 DEF Told
    <2> QED BY <1>1, <2>1, PerformanceMore
  <1>2. CASE p = "voltage"
    <2>1. s.learn = "levels" => /\ v.levels \in Seq(Nat) /\ Listed(s.args[1], v.levels)
                                /\ v.remaining \in Int
      BY <1>2 DEF Told
    <2> QED BY <1>2, <2>1, VoltageMore
  <1> QED BY <1>1, <1>2, PowerMore, SystemMore, ClockMore, SensorMore, ResetMore DEF Keeper

\* An answer in a suite other than base: what is kept is only what may be relied on, since
\* no step that keeps something expects another status.
LEMMA SuiteTake ==
  ASSUME suite \in Keeper, EngineOK, BaseOK, Tables, test # "none", suite' = suite,
         NEW s, s = Head(steps), NEW r, TakeAnswer(r),
         s.kind = "check" /\ s.learn # "nothing" /\ r.status = SCMI_SUCCESS
           => Told(suite, s, r.value)
  PROVE  EngineOK' /\ BaseOK' /\ Tables'
  <1> DEFINE rc == [r EXCEPT !.value = Comparable(s, @)]
             read == s.kind = "check" /\ val_compare_status(s, r) /\ val_compare_msg_hdr(s, r)
             good == s.kind \in {"probe", "refute"} \/ Holds(s, rc)
             added == IF read /\ good THEN MoreOf(suite, s, r.value) ELSE <<>>
  <1>1. /\ Proceed(rc, Extended(added))
        /\ table' = IF read THEN [table EXCEPT ![suite] = LearnedOf(suite, s, r.value)] ELSE table
        /\ queue' = IF s.learn # "version" THEN queue
                    ELSE IF good THEN ScheduleOf(suite, r.value.version) ELSE <<>>
        /\ UNCHANGED suiteVars
    BY DEF TakeAnswer
  <1>2. /\ Progress /\ test \in TestsOf(suite) /\ GoodProgram(suite, test, steps)
        /\ queue \in Seq(TestsOf(suite)) /\ steps # <<>>
    BY DEF EngineOK, Progress
  <1>3. Good(suite, test, s)
    BY <1>2, RestOfProgram
  <1>4. read => Told(suite, s, r.value)
    <2>1. CASE s.learn = "nothing"
      BY <2>1 DEF Told
    <2>2. CASE s.learn # "nothing"
      BY <1>3, <2>2 DEF Good, val_compare_status
    <2> QED BY <2>1, <2>2
  <1> HIDE DEF rc, read, good
  <1>5. GoodProgram(suite, test, added)
    BY <1>3, <1>4, MoreGood, ShortPrograms
  <1> HIDE DEF added
  <1>6. GoodProgram(suite, test, Extended(added))
    BY <1>2, <1>5, ExtendedGood
  <1>7. EngineOK'
    <2>1. /\ Progress' /\ steps' \in {<<>>, Extended(added)}
          /\ test' = IF steps' = <<>> THEN "none" ELSE test
      <3> PICK q : q = Extended(added)
        OBVIOUS
      <3> QED BY <1>1, <1>2, ProceedKept
    <2>2. GoodProgram(suite, test, steps)'
      BY <1>6, <2>1, ShortPrograms
    <2>3. queue' \in Seq(TestsOf(suite))
      <3>1. <<>> \in Seq(TestsOf(suite))
        OBVIOUS
      <3> QED BY <1>1, <1>2, <3>1, Schedules
    <2>4. test' \in TestsOf(suite') \cup {"none"}
      BY <1>2, <2>1
    <2> QED BY <2>1, <2>2, <2>3, <2>4 DEF EngineOK
  <1>8. BaseOK'
    BY <1>1 DEF BaseOK, suiteVars
  <1>9. Tables'
    <2>1. DOMAIN table = Keeper /\ \A p \in Keeper : TableOf(p, table[p])
      BY DEF Tables
    <2>2. read => TableOf(suite, LearnedOf(suite, s, r.value))
      BY <1>3, <1>4, Kept
    <2> PICK new : new = LearnedOf(suite, s, r.value)
      OBVIOUS
    <2>3. DOMAIN table' = Keeper /\ \A p \in Keeper : TableOf(p, table'[p])
      BY <1>1, <2>1, <2>2
    <2> QED BY <2>3 DEF Tables
  <1> QED BY <1>7, <1>8, <1>9

\* An answer in the base suite: the list holds the protocols of the pages read so far.
LEMMA BaseTake ==
  ASSUME suite = "base", EngineOK, BaseOK, Tables, test # "none", suite' = suite,
         NEW s, s = Head(steps), NEW r, Answer(r), UNCHANGED table,
         s.learn = "page" /\ r.status = SCMI_SUCCESS => PageEnd(s, r) \in 0..NumProtocols
  PROVE  EngineOK' /\ BaseOK' /\ Tables'
  <1> DEFINE good == s.kind = "probe" \/ Holds(s, r)
             more == IF good THEN More(s, r) ELSE <<>>
  <1>1. /\ Proceed(r, more)
        /\ IF good THEN Learn(s, r) ELSE UNCHANGED <<version, info, found, list>>
        /\ queue' = IF test # "b001" THEN queue ELSE IF good THEN Schedule(r.value) ELSE <<>>
    BY DEF Answer
  <1>2. /\ Progress /\ test \in TestsOf("base") /\ GoodProgram("base", test, steps)
        /\ queue \in Seq(TestsOf("base")) /\ steps # <<>>
    BY DEF EngineOK, Progress
  <1>3. Good("base", test, s)
    BY <1>2, RestOfProgram
  <1>4. good /\ s.learn = "page" =>
          PageEnd(s, r) \in 0..NumProtocols /\ s.args[1] \in 0..NumProtocols
    BY <1>3 DEF Good, Teaches, Holds, val_compare_status
  <1> HIDE DEF good
  <1>5. GoodProgram("base", test, more)
    BY <1>2, <1>4, BaseMore, ShortPrograms
  <1> HIDE DEF more
  <1>6. EngineOK'
    <2>1. /\ Progress' /\ steps' \in {<<>>, more}
          /\ test' = IF steps' = <<>> THEN "none" ELSE test
      BY <1>1, <1>2, ProceedKept
    <2>2. GoodProgram(suite, test, steps)'
      BY <1>5, <2>1, ShortPrograms
    <2>3. queue' \in Seq(TestsOf("base"))
      <3>1. <<>> \in Seq(TestsOf("base"))
        OBVIOUS
      <3> QED BY <1>1, <1>2, <3>1, BaseSchedule
    <2>4. test' \in TestsOf(suite') \cup {"none"}
      BY <1>2, <2>1
    <2> QED BY <2>1, <2>2, <2>3, <2>4 DEF EngineOK
  <1>7. BaseOK'
    <2>1. CASE ~good
      BY <1>1, <2>1 DEF BaseOK
    <2>2. CASE good
      <3>1. found' \subseteq 1..NumProtocols /\ list' \subseteq 1..NumProtocols
        <4>1. s.learn = "page" => (s.args[1] + 1)..PageEnd(s, r) \subseteq 1..NumProtocols
          BY <1>4, <2>2, ExpectedAssumption
        <4> PICK read : read = (s.args[1] + 1)..PageEnd(s, r)
          OBVIOUS
        <4> QED BY <1>1, <2>2, <4>1 DEF BaseOK, Learn
      <3>2. DOMAIN info' = {"agents", "protocols", "self"} /\ info'.agents \in Nat
        <4>1. \/ info' = info
              \/ info' = [info EXCEPT !.agents = NumAgents, !.protocols = NumProtocols]
              \/ info' = [info EXCEPT !.self = r.value]
          <5>1. Learn(s, r)
            BY <1>1, <2>2
          <5> QED BY <5>1, Zenon DEF Learn
        <4>2. NumAgents \in Nat
          BY ExpectedAssumption
        <4> QED BY <4>1, <4>2 DEF BaseOK
      <3> QED BY <3>1, <3>2 DEF BaseOK
    <2> QED BY <2>1, <2>2
  <1>8. Tables'
    BY DEF Tables
  <1> QED BY <1>6, <1>7, <1>8

\* The same for whichever suite is running.
LEMMA TakeKept ==
  ASSUME suite \in Keeper \cup {"base"}, EngineOK, BaseOK, Tables, test # "none", suite' = suite,
         NEW s, s = Head(steps), NEW r, Take(r),
         r.status = SCMI_SUCCESS =>
           /\ suite = "base" /\ s.learn = "page" => PageEnd(s, r) \in 0..NumProtocols
           /\ suite \in Keeper /\ s.learn # "nothing" => Told(suite, s, r.value)
  PROVE  EngineOK' /\ BaseOK' /\ Tables'
  <1>1. CASE suite = "base"
    BY <1>1, BaseTake DEF Take
  <1>2. CASE suite \in Keeper
    <2>1. suite # "base"
      BY <1>2 DEF Keeper
    <2> QED BY <1>2, <2>1, SuiteTake DEF Take
  <1> QED BY <1>1, <1>2

\* The answer to the step in progress may be relied on.
LEMMA AnswerTold ==
  ASSUME suite \in Keeper \cup {"base"}, EngineOK, PlatformOK, test # "none",
         NEW s, s = Head(steps), Execute(s), NEW r, r = Answered(s), r.status = SCMI_SUCCESS
  PROVE  /\ suite = "base" /\ s.learn = "page" => PageEnd(s, r) \in 0..NumProtocols
         /\ suite \in Keeper /\ s.learn # "nothing" => Told(suite, s, r.value)
  <1>1. Good(suite, test, s)
    BY RestOfProgram DEF EngineOK, Progress
  <1>2. ASSUME suite = "base", s.learn = "page" PROVE PageEnd(s, r) \in 0..NumProtocols
    BY <1>1, <1>2, BaseTold
  <1>3. ASSUME suite \in Keeper, s.learn # "nothing" PROVE Told(suite, s, r.value)
    BY <1>1, <1>3, Answers
  <1> QED BY <1>2, <1>3

\* What does not touch the platform leaves it in order.
LEMMA Unmoved ==
  ASSUME PlatformOK, UNCHANGED platformVars
  PROVE  PlatformOK'
  <1>1. /\ device_access' = device_access /\ protocol_access' = protocol_access
        /\ max_limit' = max_limit /\ clock_status' = clock_status
    BY DEF platformVars
  <1>2. ClockHandler!ClockId' = ClockHandler!ClockId
        /\ PerformanceHandler!DomainId' = PerformanceHandler!DomainId
    BY DEF ClockHandler!ClockId, PerformanceHandler!DomainId
  <1> QED BY <1>1, <1>2 DEF PlatformOK

-----------------------------------------------------------------------------
(* The invariant is inductive.                                             *)

\* Exchange: the command is handled and its answer taken.
LEMMA ExchangeKept ==
  ASSUME IInv, Exchange
  PROVE  IInv'
  <1> PICK s : s = Head(steps)
    OBVIOUS
  <1> PICK r : r = Answered(s)
    OBVIOUS
  <1>1. /\ suite \in Keeper \cup {"base"} /\ EngineOK /\ BaseOK /\ PlatformOK /\ FaultsOK /\ Tables
    BY DEF IInv
  <1>2. /\ test # "none" /\ Execute(s) /\ Take(r)
        /\ suite' = suite /\ faults' = faults /\ faulted' = faulted
    BY DEF Exchange
  <1>3. EngineOK' /\ BaseOK' /\ Tables'
    BY <1>1, <1>2, AnswerTold, TakeKept
  <1>4. PlatformOK'
    <2>1. Good(suite, test, s)
      BY <1>1, <1>2, RestOfProgram DEF EngineOK, Progress
    <2> QED BY <1>1, <1>2, <2>1, PlatformKept
  <1>5. FaultsOK'
    BY <1>1, <1>2 DEF FaultsOK
  <1> QED BY <1>1, <1>2, <1>3, <1>4, <1>5 DEF IInv

\* A test that waits for a message takes what there is as an answer.
LEMMA MessageTaken ==
  ASSUME ReceiveMessage
  PROVE  \E r : Take(r) /\ DOMAIN r = {"echo", "status", "value"}
  <1>1. CASE Take(Nothing)
    <2>1. DOMAIN Nothing = {"echo", "status", "value"}
      BY DEF Nothing
    <2> QED BY <1>1, <2>1
  <1>2. CASE \E words : Take([echo |-> TRUE, status |-> SCMI_SUCCESS, value |-> words])
    <2>1. PICK words : Take([echo |-> TRUE, status |-> SCMI_SUCCESS, value |-> words])
      BY <1>2
    <2>2. PICK r : r = [echo |-> TRUE, status |-> SCMI_SUCCESS, value |-> words]
      OBVIOUS
    <2>3. Take(r)
      BY <2>1, <2>2
    <2>4. DOMAIN r = {"echo", "status", "value"}
      BY <2>2
    <2> QED BY <2>3, <2>4
  <1>3. \/ Take(Nothing)
        \/ \E words : Take([echo |-> TRUE, status |-> SCMI_SUCCESS, value |-> words])
    BY Zenon DEF ReceiveMessage
  <1> QED BY <1>1, <1>2, <1>3

\* ReceiveMessage: a step that waits for a message keeps nothing of it.
LEMMA ReceiveKept ==
  ASSUME IInv, ReceiveMessage
  PROVE  IInv'
  <1> PICK s : s = Head(steps)
    OBVIOUS
  <1> PICK r : Take(r)
    BY MessageTaken
  <1>1. /\ suite \in Keeper \cup {"base"} /\ EngineOK /\ BaseOK /\ PlatformOK /\ FaultsOK /\ Tables
    BY DEF IInv
  <1>2. /\ test # "none" /\ s.kind = "receive" /\ Take(r) /\ UNCHANGED platformVars
        /\ suite' = suite /\ faults' = faults /\ faulted' = faulted
    BY DEF ReceiveMessage
  <1>3. s.learn = "nothing"
    <2>1. Good(suite, test, s)
      BY <1>1, <1>2, RestOfProgram DEF EngineOK, Progress
    <2> QED BY <1>2, <2>1 DEF Good
  <1>4. EngineOK' /\ BaseOK' /\ Tables'
    BY <1>1, <1>2, <1>3, TakeKept
  <1>5. PlatformOK'
    BY <1>1, <1>2, Unmoved
  <1>6. FaultsOK'
    BY <1>1, <1>2 DEF FaultsOK
  <1> QED BY <1>1, <1>2, <1>4, <1>5, <1>6 DEF IInv

\* What the agent goes on with when an exchange went wrong is no SCMI_SUCCESS.
LEMMA FaultyTaken ==
  ASSUME IInv, Fault, NEW r \in {Nothing, Refusal}, Take(r)
  PROVE  /\ suite' \in Keeper \cup {"base"}
         /\ EngineOK' /\ BaseOK' /\ FaultsOK' /\ Tables'
  <1> PICK s : s = Head(steps)
    OBVIOUS
  <1>1. /\ suite \in Keeper \cup {"base"} /\ EngineOK /\ BaseOK /\ FaultsOK /\ Tables
    BY DEF IInv
  <1>2. test # "none" /\ suite' = suite
    BY DEF Fault
  <1>3. r.status # SCMI_SUCCESS
    BY DEF Nothing, Refusal, SCMI_GENERIC_ERROR, SCMI_SUCCESS
  <1>4. EngineOK' /\ BaseOK' /\ Tables'
    BY <1>1, <1>2, <1>3, TakeKept
  <1>5. FaultsOK'
    BY <1>1, FaultKept
  <1> QED BY <1>1, <1>2, <1>4, <1>5

\* LoseCommand, LeaveUnanswered, Refuse: nothing is learnt, and the platform has at most done
\* what it was asked.
LEMMA FaultyKept ==
  ASSUME IInv, LoseCommand \/ LeaveUnanswered \/ Refuse
  PROVE  IInv'
  <1>1. CASE LoseCommand
    BY <1>1, FaultyTaken, Unmoved DEF LoseCommand, IInv
  <1>2. CASE LeaveUnanswered
    <2> PICK s : s = Head(steps)
      OBVIOUS
    <2>1. Good(suite, test, s)
      BY <1>2, RestOfProgram DEF IInv, EngineOK, Progress, LeaveUnanswered, Fault
    <2>2. PlatformOK'
      BY <1>2, <2>1, PlatformKept DEF IInv, LeaveUnanswered
    <2> QED BY <1>2, <2>2, FaultyTaken DEF LeaveUnanswered, IInv
  <1>3. CASE Refuse
    BY <1>3, FaultyTaken, Unmoved DEF Refuse, IInv
  <1> QED BY <1>1, <1>2, <1>3

\* RunTest: the test at the head of the queue begins with its program.
LEMMA RunTestKept ==
  ASSUME IInv, RunTest
  PROVE  IInv'
  <1>1. /\ suite \in Keeper \cup {"base"} /\ EngineOK /\ BaseOK /\ PlatformOK /\ FaultsOK /\ Tables
    BY DEF IInv
  <1>2. /\ queue # <<>> /\ UNCHANGED platformVars /\ suite' = suite /\ table' = table
        /\ faults' = faults /\ faulted' = faulted
    BY DEF RunTest
  <1>3. queue \in Seq(TestsOf(suite)) /\ Progress
    BY <1>1 DEF EngineOK
  <1> PICK t : t = Head(queue)
    OBVIOUS
  <1> PICK program : program = ProgramOf(suite, t)
    OBVIOUS
  <1>4. t \in TestsOf(suite) /\ Tail(queue) \in Seq(TestsOf(suite))
    BY <1>2, <1>3
  <1>5. t # "none"
    BY <1>1, <1>4 DEF Keeper, TestsOf
  <1>6. GoodProgram(suite, t, program)
    BY <1>1, <1>4, Programs
  <1>7. Begin(t, program) /\ queue' = Tail(queue)
    <2>1. CASE suite = "base"
      BY <2>1 DEF RunTest, StartTest, ProgramOf
    <2>2. CASE suite # "base"
      BY <2>2 DEF RunTest
    <2> QED BY <2>1, <2>2
  <1>8. EngineOK'
    <2>1. /\ Progress' /\ steps' \in {<<>>, program}
          /\ test' = IF steps' = <<>> THEN "none" ELSE t
      BY <1>3, <1>5, <1>7, BeginKept
    <2>2. GoodProgram(suite, test, steps)'
      BY <1>2, <1>6, <2>1, ShortPrograms
    <2>3. queue' \in Seq(TestsOf(suite'))
      BY <1>2, <1>4, <1>7
    <2>4. test' \in TestsOf(suite') \cup {"none"}
      BY <1>2, <1>4, <2>1
    <2> QED BY <2>1, <2>2, <2>3, <2>4 DEF EngineOK
  <1>9. BaseOK'
    <2>1. CASE suite = "base"
      BY <1>1, <2>1 DEF RunTest, StartTest, BaseOK
    <2>2. CASE suite # "base"
      BY <1>1, <2>2 DEF RunTest, suiteVars, BaseOK
    <2> QED BY <2>1, <2>2
  <1>10. PlatformOK' /\ FaultsOK' /\ Tables'
    <2>1. PlatformOK'
      BY <1>1, <1>2, Unmoved
    <2>2. FaultsOK'
      BY <1>1, <1>2 DEF FaultsOK
    <2>3. Tables'
      BY <1>1, <1>2 DEF Tables
    <2> QED BY <2>1, <2>2, <2>3
  <1> QED BY <1>1, <1>2, <1>8, <1>9, <1>10 DEF IInv

\* NextSuite: the next suite begins with its version test, or has none.
LEMMA NextSuiteKept ==
  ASSUME IInv, NextSuite
  PROVE  IInv'
  <1>1. /\ suite \in Keeper \cup {"base"} /\ EngineOK /\ BaseOK /\ PlatformOK /\ FaultsOK /\ Tables
    BY DEF IInv
  <1>2. /\ Finished /\ suite # "voltage"
        /\ UNCHANGED <<test, steps, count, last, suiteVars, table, platformVars, faults, faulted>>
        /\ queue' \in {<<>>, <<VersionTestOf[suite']>>}
    BY DEF NextSuite
  <1>3. suite' \in Keeper
    <2>1. \A p \in Keeper \cup {"base"} : \E i \in 1..8 : SuiteName[i] = p
      BY DEF Keeper, SuiteName
    <2>2. DOMAIN SuiteName = 1..8
      BY DEF SuiteName
    <2>3. PICK n \in 1..8 : SuiteName[n] = suite /\ suite' = SuiteName[1 + n]
      <3> DEFINE n == CHOOSE i \in DOMAIN SuiteName : SuiteName[i] = suite
      <3>1. n \in 1..8 /\ SuiteName[n] = suite
        BY <1>1, <2>1, <2>2
      <3>2. suite' = SuiteName[1 + n]
        BY DEF NextSuite
      <3> QED BY <3>1, <3>2
    <2>4. SuiteName[8] = "voltage" /\ \A i \in 2..8 : SuiteName[i] \in Keeper
      BY DEF Keeper, SuiteName
    <2>5. n # 8
      BY <1>2, <2>3, <2>4
    <2>6. 1 + n \in 2..8
      BY <2>5
    <2> QED BY <2>3, <2>4, <2>6
  <1>4. EngineOK'
    <2>1. steps' = <<>> /\ test' = "none" /\ Progress'
      BY <1>1, <1>2 DEF EngineOK, Progress, Finished
    <2>2. GoodProgram(suite, test, steps)'
      BY <2>1, ShortPrograms
    <2>3. VersionTestOf[suite'] \in TestsOf(suite')
      BY <1>3 DEF Keeper, TestsOf, VersionTestOf
    <2>4. queue' \in Seq(TestsOf(suite'))
      <3>1. <<>> \in Seq(TestsOf(suite')) /\ <<VersionTestOf[suite']>> \in Seq(TestsOf(suite'))
        BY <2>3
      <3> QED BY <1>2, <3>1
    <2> QED BY <2>1, <2>2, <2>4 DEF EngineOK
  <1>5. BaseOK'
    BY <1>1, <1>2 DEF suiteVars, BaseOK
  <1>6. PlatformOK'
    BY <1>1, <1>2, Unmoved
  <1>7. FaultsOK'
    BY <1>1, <1>2 DEF FaultsOK
  <1>8. Tables'
    BY <1>1, <1>2 DEF Tables
  <1> QED BY <1>3, <1>4, <1>5, <1>6, <1>7, <1>8 DEF IInv

\* Nothing moves.
LEMMA StutterKept ==
  ASSUME IInv, UNCHANGED vars
  PROVE  IInv'
  <1>1. /\ EngineOK /\ BaseOK /\ PlatformOK /\ FaultsOK /\ Tables
    BY DEF IInv
  <1>2. UNCHANGED <<engineVars, suiteVars, suite, table, platformVars, faults, faulted>>
    BY DEF vars
  <1>3. EngineOK'
    BY <1>1, <1>2 DEF EngineOK, engineVars, Progress
  <1>4. BaseOK'
    BY <1>1, <1>2 DEF suiteVars, BaseOK
  <1>5. PlatformOK'
    BY <1>1, <1>2, Unmoved
  <1>6. FaultsOK'
    BY <1>1, <1>2 DEF FaultsOK
  <1>7. Tables'
    BY <1>1, <1>2 DEF Tables
  <1> QED BY <1>2, <1>3, <1>4, <1>5, <1>6, <1>7 DEF IInv

\* Tables that are clear tell nothing untrue.
LEMMA TablesStart == Init => Tables
  <1> SUFFICES ASSUME Init PROVE Tables
    OBVIOUS
  <1>1. table = [power |-> PowerTests!NothingLearnt, system |-> SystemTests!NothingLearnt,
                 performance |-> PerformanceTests!NothingLearnt,
                 clock |-> ClockTests!NothingLearnt, sensor |-> SensorTests!NothingLearnt,
                 reset |-> ResetTests!NothingLearnt, voltage |-> VoltageTests!NothingLearnt]
    BY DEF Init
  <1>2. DOMAIN table = Keeper
    BY <1>1 DEF Keeper
  <1>3. PowerTable(table.power)
    BY <1>1 DEF PowerTable, PowerTests!NothingLearnt
  <1>4. PerformanceTable(table.performance)
    BY <1>1 DEF PerformanceTable, PerformanceTests!NothingLearnt
  <1>5. ClockTable(table.clock)
    BY <1>1 DEF ClockTable, ClockTests!NothingLearnt
  <1>6. SensorTable(table.sensor)
    BY <1>1 DEF SensorTable, SensorTests!NothingLearnt
  <1>7. ResetTable(table.reset)
    BY <1>1 DEF ResetTable, ResetTests!NothingLearnt
  <1>8. VoltageTable(table.voltage)
    BY <1>1 DEF VoltageTable, VoltageTests!NothingLearnt
  <1> QED BY <1>2, <1>3, <1>4, <1>5, <1>6, <1>7, <1>8 DEF Tables, TableOf, Keeper

\* The initial states.
LEMMA InvStart == Init => IInv
  <1> SUFFICES ASSUME Init PROVE IInv
    OBVIOUS
  <1>1. /\ suite = "base" /\ queue = <<"b001">> /\ test = "none" /\ steps = <<>>
        /\ count = [v \in Verdict |-> 0] /\ last = [test |-> "none", verdict |-> "none"]
        /\ info = [agents |-> 0, protocols |-> 0, self |-> 0] /\ found = {} /\ list = {}
    BY DEF Init, SuiteInit, EngineInit
  <1>2. EngineOK
    <2>1. Progress
      BY <1>1 DEF Progress
    <2>2. GoodProgram(suite, test, steps) /\ test \in TestsOf(suite) \cup {"none"}
      BY <1>1, ShortPrograms
    <2>3. queue \in Seq(TestsOf(suite))
      <3>1. "b001" \in TestsOf("base")
        BY DEF TestsOf
      <3> QED BY <1>1, <3>1
    <2> QED BY <2>1, <2>2, <2>3 DEF EngineOK
  <1>3. BaseOK
    BY <1>1 DEF BaseOK
  <1>4. PlatformOK
    <2>1. device_access = [d \in 0..(NumDevices - 1) |-> TRUE] /\ protocol_access = TRUE
      BY DEF Init, BaseHandler!Init, BaseHandler!AccessDevice
    <2>2. DOMAIN max_limit = PerformanceHandler!DomainId
      BY DEF Init, PerformanceHandler!Init, PerformanceHandler!PerformanceInit
    <2>3. clock_status = [c \in ClockHandler!ClockId |-> ClockStart] /\ ClockStart \in {0, 1}
      BY TablesAssumption DEF Init
    <2> QED BY <2>1, <2>2, <2>3 DEF PlatformOK
  <1>5. FaultsOK
    BY FaultsAssumption, FS_EmptySet DEF Init, FaultsOK
  <1> QED BY <1>1, <1>2, <1>3, <1>4, <1>5, TablesStart DEF IInv

\* Every step keeps the invariant.
LEMMA InvStep == IInv /\ [Next]_vars => IInv'
  BY RunTestKept, ExchangeKept, ReceiveKept, NextSuiteKept, FaultyKept, StutterKept
     DEF Next, Terminated

\* The invariant has the types.
LEMMA InvTyped == IInv => TypeOK
  <1> SUFFICES ASSUME IInv PROVE TypeOK
    OBVIOUS
  <1>1. suite \in {SuiteName[i] : i \in DOMAIN SuiteName}
    <2>1. suite \in Keeper \cup {"base"}
      BY DEF IInv
    <2>2. DOMAIN SuiteName = 1..8
      BY DEF SuiteName
    <2>3. \E i \in 1..8 : suite = SuiteName[i]
      BY <2>1 DEF Keeper, SuiteName
    <2> QED BY <2>2, <2>3
  <1> QED BY <1>1 DEF TypeOK, IInv, EngineOK, Progress, BaseOK, PlatformOK, FaultsOK

-----------------------------------------------------------------------------
(* The theorems.                                                           *)

\* The suites run one at a time and in order, a test in progress has steps left, every
\* verdict is counted, the list of protocols names only those there are, and no more suites
\* met a fault than there were faults: app.c, val_interface.c and the handlers, for all
\* tables, whatever is lost or refused.
THEOREM TypeCorrect == Spec => []TypeOK
  BY InvStart, InvStep, InvTyped, PTL DEF Spec

\* Tables that hold say nothing untrue.
LEMMA TablesTrue == Tables => KeptIsTrue
  <1> SUFFICES ASSUME Tables PROVE KeptIsTrue
    OBVIOUS
  <1>1. /\ PowerTable(table.power) /\ PerformanceTable(table.performance)
        /\ ClockTable(table.clock) /\ SensorTable(table.sensor)
        /\ ResetTable(table.reset) /\ VoltageTable(table.voltage)
    BY DEF Tables, TableOf, Keeper
  <1>2. /\ table.power.domains \in {0, power.domains}
        /\ table.performance.domains \in {0, performance.domains}
        /\ table.clock.clocks \in {0, clock.clocks} /\ table.clock.async \in {0, clock.async}
        /\ table.sensor.sensors \in {0, sensor.sensors}
        /\ table.voltage.domains \in {0, voltage.domains}
        /\ table.reset.async \subseteq resets.async /\ table.reset.notify \subseteq resets.notify
    BY <1>1 DEF PowerTable, PerformanceTable, ClockTable, SensorTable, ResetTable, VoltageTable
  <1>3. ASSUME NEW d \in DOMAIN table.performance.row
        PROVE  LET listed == performance.levels[d]
                   row == table.performance.row[d]
               IN /\ row.limitable => d \in performance.limitable
                  /\ row.levelable => d \in performance.levelable
                  /\ row.fast => d \in performance.fastDomains
                  /\ row.max = 0 \/ row.max \in {listed[Len(listed)]}
                  /\ row.min = 0 \/ row.min \in {listed[1]}
                  /\ row.mid = 0 \/ row.mid \in {listed[i] : i \in 1..(Len(listed) - 1)}
    BY <1>1 DEF PerformanceTable, PerformanceRow
  <1>4. ASSUME NEW c \in DOMAIN table.clock.row \ clock.range
        PROVE  LET Ends == {ClockTests!NoRate, ClockHandler!Rate(1),
                            ClockHandler!Rate(clock.rates[c])}
               IN table.clock.row[c].lowest \in Ends /\ table.clock.row[c].highest \in Ends
    <2>1. ClockRow(c, table.clock.row[c]) /\ c \notin clock.range
      BY <1>1 DEF ClockTable
    <2> QED BY <2>1 DEF ClockRow
  <1>5. ASSUME NEW d \in DOMAIN table.voltage.row
        PROVE  LET listed == voltage.levels[d]
                   row == table.voltage.row[d]
               IN /\ row.triplet => d \in voltage.triplet
                  /\ row.lowest = 0 \/ row.lowest \in {listed[1]}
                  /\ \A i \in DOMAIN row.levels :
                       \E j \in DOMAIN listed : row.levels[i] = listed[j]
    <2>1. VoltageRow(d, table.voltage.row[d])
      BY <1>1 DEF VoltageTable
    <2> QED BY <2>1 DEF VoltageRow, Listed
  <1>6. ASSUME NEW id \in DOMAIN table.sensor.row
        PROVE  /\ \/ table.sensor.row[id].trips = 0
                  \/ table.sensor.row[id].trips \in {sensor.trips[id]}
               /\ table.sensor.row[id].async => id \in sensor.async
    <2>1. SensorRow(id, table.sensor.row[id])
      BY <1>1 DEF SensorTable
    <2> QED BY <2>1 DEF SensorRow
  <1> QED BY <1>2, <1>3, <1>4, <1>5, <1>6 DEF KeptIsTrue

\* What the suites keep in g_*_info_table is what the platform has, or nothing, for all
\* tables of the platform, any number of pages, and whatever exchanges are lost or refused.
THEOREM TablesTruthful == Spec => []KeptIsTrue
  <1>1. IInv => KeptIsTrue
    BY TablesTrue DEF IInv
  <1> QED BY <1>1, InvStart, InvStep, PTL DEF Spec

=============================================================================
