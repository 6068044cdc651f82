--------------------------- MODULE SuitesOnMocker ---------------------------
(***************************************************************************)
(* The application on a platform made of the mocker's handlers: app.c runs *)
(* the eight suites one after the other, each test sends its commands, and *)
(* pal_send_message hands each to the handler of its protocol.             *)
(*                                                                         *)
(* The tables of the platform are constants; MockerTables holds those the  *)
(* mocker ships with.  Exchanges may go wrong in some of the suites: a     *)
(* command never arrives, it is carried out and never answered, or it is   *)
(* refused.  An answer that is merely late is not among these: it stays    *)
(* with the driver and meets the next command, whatever test and suite     *)
(* that belongs to, which is the subject of module Mailbox.                *)
(***************************************************************************)
EXTENDS BaseSuite, MockerTables, FiniteSets

CONSTANTS
  power, performance, clock, sensor, resets, voltage,   \* the tables
  NumDevices,
  ClockStart,      \* the state of the clocks at the start: 0 on the mocker
  Delivery,        \* how notifications reach a test: "whole", one word "early" (on
                   \* transport_mailbox.c) or "never" (on the mocker)
  FaultySuites,    \* the suites in which exchanges may go wrong
  MaxFaults        \* how many of them do at most

VARIABLES
  suite,        \* the suite running
  table,        \* g_*_info_table of each suite but base
  supported, device_access, past_end, protocol_access, base_reply,   \* base and power handlers
  max_limit, min_limit, current,                            \* performance handler
  clock_rate, clock_status,                                 \* clock handler
  voltage_level, voltage_mode,                              \* voltage domains
  reply,        \* what the other handlers answered last
  stray,        \* what a test finds in words nobody wrote, and how the message it
                \* waits for is handed over
  notifying,    \* the notifications the platform was asked for
  faults,       \* how many exchanges went wrong
  faulted,      \* in which suites
  before        \* the platform's settings when the last test started

platformVars == <<supported, device_access, past_end, protocol_access, base_reply, max_limit,
                  min_limit, current, clock_rate, clock_status, voltage_level, voltage_mode, reply>>
vars == <<engineVars, suiteVars, suite, table, platformVars, stray, notifying, faults,
          faulted, before>>

PowerTests == INSTANCE PowerSuite
                WITH info <- table.power, expected <- ExpectedPower(power)
SystemTests == INSTANCE SystemPowerSuite WITH info <- table.system
PerformanceTests == INSTANCE PerformanceSuite
                      WITH info <- table.performance, expected <- ExpectedPerformance(performance)
ClockTests == INSTANCE ClockSuite
                WITH info <- table.clock, expected <- ExpectedClock(clock)
SensorTests == INSTANCE SensorSuite
                 WITH info <- table.sensor, expected <- ExpectedSensor(sensor)
ResetTests == INSTANCE ResetSuite
                WITH info <- table.reset, expected <- ExpectedReset(resets)
VoltageTests == INSTANCE VoltageSuite WITH info <- table.voltage, expected <- voltage

BaseHandler == INSTANCE Mocker
                 WITH Id <- {}, Number <- {}, Protocol <- {}, NumDomains <- power.domains,
                      reply <- base_reply
PerformanceHandler == INSTANCE MockerPerformance WITH Id <- {}, Level <- {}
ClockHandler  == INSTANCE MockerClock
SensorHandler == INSTANCE MockerSensor
ResetHandler  == INSTANCE MockerReset
SystemHandler == INSTANCE MockerSystem
VoltageHandler == INSTANCE VoltagePlatform

\* What the headers of the mocker and of every platform like it have: counts,
\* for each domain and clock at least one level or rate, and levels between the
\* first and the last.
ASSUME FaultsAssumption == MaxFaults \in Nat
ASSUME TablesAssumption ==
  /\ {power.domains, performance.domains, clock.clocks, sensor.sensors, resets.domains,
      voltage.domains, voltage.page} \subseteq Nat
  /\ ClockStart \in {0, 1}
  /\ \A c \in ClockHandler!ClockId : clock.rates[c] \in Nat \ {0}
  /\ \A id \in SensorHandler!SensorId : sensor.trips[id] \in Nat
  /\ \A d \in PerformanceHandler!DomainId :
       LET listed == performance.levels[d]
       IN /\ listed \in Seq(Nat) \ {<<>>}
          /\ \A i \in DOMAIN listed : listed[1] <= listed[i] /\ listed[i] <= listed[Len(listed)]
  /\ \A d \in VoltageHandler!VoltageDomain :
       /\ voltage.levels[d] \in Seq(Nat)
       /\ d \in voltage.triplet => Len(voltage.levels[d]) = 3

\* agent_get_accessible_device names the first device of the agent's table,
\* agent_get_inaccessible_device what lies past the last.
ASSUME AccessTableAssumption == Device = 0 /\ ForeignDevice \notin 0..(NumDevices - 1)

\* What no step expects is neither what CLOCK_ATTRIBUTES tells nor what it is
\* compared with.
ASSUME GarbageAssumption ==
  Garbage \notin {[reserved |-> 0]}
                 \cup {[reserved |-> 0, enabled |-> e, name |-> c] :
                         e \in {0, 1}, c \in ClockHandler!ClockId}

-----------------------------------------------------------------------------
(* The suites, by name.                                                    *)

SuiteName == <<"base", "power", "system", "performance", "clock", "sensor", "reset", "voltage">>

ProtocolOf(p) == PROTOCOL_BASE - 1 + CHOOSE i \in DOMAIN SuiteName : SuiteName[i] = p

ProgramOf(p, t) ==
  CASE p = "base"        -> Program(t)
    [] p = "power"       -> PowerTests!Program(t)
    [] p = "system"      -> SystemTests!Program(t)
    [] p = "performance" -> PerformanceTests!Program(t)
    [] p = "clock"       -> ClockTests!Program(t)
    [] p = "sensor"      -> SensorTests!Program(t)
    [] p = "reset"       -> ResetTests!Program(t)
    [] p = "voltage"     -> VoltageTests!Program(t)

VersionTestOf == [base |-> "b001", power |-> "p001", system |-> "s001", performance |-> "d001",
                  clock |-> "c001", sensor |-> "m001", reset |-> "r001", voltage |-> "v001"]

ScheduleOf(p, v) ==
  CASE p = "power"       -> PowerTests!Schedule(v)
    [] p = "system"      -> SystemTests!Schedule(v)
    [] p = "performance" -> PerformanceTests!Schedule(v)
    [] p = "clock"       -> ClockTests!Schedule(v)
    [] p = "sensor"      -> SensorTests!Schedule(v)
    [] p = "reset"       -> ResetTests!Schedule(v)
    [] p = "voltage"     -> VoltageTests!Schedule(v)

MoreOf(p, s, v) ==
  CASE p = "power"       -> PowerTests!More(s, v)
    [] p = "system"      -> SystemTests!More(s, v)
    [] p = "performance" -> PerformanceTests!More(s, v)
    [] p = "clock"       -> ClockTests!More(s, v)
    [] p = "sensor"      -> SensorTests!More(s, v)
    [] p = "reset"       -> ResetTests!More(s, v)
    [] p = "voltage"     -> VoltageTests!More(s, v)

LearnedOf(p, s, v) ==
  CASE p = "power"       -> PowerTests!Learned(s, v)
    [] p = "system"      -> SystemTests!Learned(s, v)
    [] p = "performance" -> PerformanceTests!Learned(s, v)
    [] p = "clock"       -> ClockTests!Learned(s, v)
    [] p = "sensor"      -> SensorTests!Learned(s, v)
    [] p = "reset"       -> ResetTests!Learned(s, v)
    [] p = "voltage"     -> VoltageTests!Learned(s, v)

-----------------------------------------------------------------------------
(* The platform.                                                           *)

performanceVars == <<max_limit, min_limit, current>>
clockVars == <<clock_rate, clock_status>>
voltageVars == <<voltage_level, voltage_mode>>
baseVars  == <<supported, device_access, past_end, protocol_access, base_reply>>

\* Of the voltage protocol the mocker has the version only: another platform
\* takes its place if the tables have levels.
VoltageServed == VoltageHandler!VoltageDomain # {}

\* A clock of another platform (external) may tell the lowest and the highest of
\* its rates and the step between them.
RateStep == [lower |-> 100, upper |-> 100]

HandleClock(m, a) ==
  IF m = CLOCK_DESCRIBE_RATES /\ a[1] \in clock.range
  THEN ClockHandler!ClockReport(m, a, SCMI_SUCCESS,
         [triplet |-> TRUE, remaining |-> 0, beyond |-> stray,
          rates |-> <<ClockHandler!Rate(1), ClockHandler!Rate(clock.rates[a[1]]), RateStep>>])
  ELSE ClockHandler!Handle(m, a)

\* pal_send_message: the handler of the protocol.
Dispatch(s) ==
  \/ /\ \/ s.proto = PROTOCOL_BASE /\ BaseHandler!BaseHandle(s.msg, s.args)
        \/ s.proto = PROTOCOL_POWER_DOMAIN /\ BaseHandler!PowerHandle(s.msg, s.args)
     /\ UNCHANGED <<performanceVars, clockVars, voltageVars, reply>>
  \/ /\ s.proto = PROTOCOL_PERFORMANCE /\ PerformanceHandler!Handle(s.msg, s.args)
     /\ UNCHANGED <<baseVars, clockVars, voltageVars>>
  \/ /\ s.proto = PROTOCOL_CLOCK /\ HandleClock(s.msg, s.args)
     /\ UNCHANGED <<baseVars, performanceVars, voltageVars>>
  \/ /\ \/ s.proto = PROTOCOL_SYSTEM_POWER /\ SystemHandler!HandleSystem(s.msg, s.args)
        \/ s.proto = PROTOCOL_SENSOR /\ SensorHandler!Handle(s.msg, s.args)
        \/ s.proto = PROTOCOL_RESET /\ ResetHandler!Handle(s.msg, s.args)
        \/ /\ s.proto = PROTOCOL_VOLTAGE /\ ~VoltageServed
           /\ SystemHandler!HandleVoltage(s.msg, s.args)
     /\ UNCHANGED <<baseVars, performanceVars, clockVars, voltageVars>>
  \/ /\ s.proto = PROTOCOL_VOLTAGE /\ VoltageServed
     /\ VoltageHandler!HandleVoltage(s.msg, s.args)
     /\ UNCHANGED <<baseVars, performanceVars, clockVars>>

FromBaseHandler(s) == s.proto \in {PROTOCOL_BASE, PROTOCOL_POWER_DOMAIN}

\* What the agent reads of the answer the handlers have just given to step s.
\* SENSOR_CONFIG_GET writes one word less than its tests read.
Answered(s) ==
  [echo   |-> TRUE,
   status |-> IF FromBaseHandler(s) THEN base_reply'.status ELSE reply'.status,
   value  |->
     CASE s.proto = PROTOCOL_BASE -> BaseHandler!BaseValue(s.msg, s.args)
       [] s.proto = PROTOCOL_POWER_DOMAIN ->
            BaseHandler!PowerValue(s.msg, s.args, power.statistics)
       [] s.proto = PROTOCOL_SENSOR /\ s.msg = SENSOR_CONFIG_GET -> stray
       [] OTHER -> reply'.value]

\* Notifications the agent asks for and no longer wants.
IsNotify(s) ==
  \/ s.proto = PROTOCOL_PERFORMANCE
     /\ s.msg \in {PERFORMANCE_NOTIFY_LIMITS, PERFORMANCE_NOTIFY_LEVEL}
  \/ s.proto = PROTOCOL_SENSOR /\ s.msg = SENSOR_CONTINUOUS_UPDATE_NOTIFY

Execute(s) ==
  /\ Dispatch(s)
  /\ notifying' = IF ~IsNotify(s) \/ reply'.status # SCMI_SUCCESS THEN notifying
                  ELSE IF s.args[2] = 1 THEN notifying \cup {<<s.msg, s.args[1]>>}
                  ELSE notifying \ {<<s.msg, s.args[1]>>}

\* The settings of the platform that tests change and put back.
Settings ==
  [limits |-> [d \in PerformanceHandler!DomainId |->
                 <<PerformanceHandler!RangeMax(d), PerformanceHandler!RangeMin(d)>>],
   levels |-> [d \in PerformanceHandler!DomainId |-> PerformanceHandler!CurrentLevel(d)],
   rates  |-> [c \in ClockHandler!ClockId |-> ClockHandler!CurrentRate(c)],
   clocks |-> clock_status,
   voltages |-> voltage_level, modes |-> voltage_mode,
   access |-> <<device_access, protocol_access>>,
   notifying |-> notifying]

-----------------------------------------------------------------------------
(* Tests.                                                                  *)

\* The words on the stack where three tests look past the end of an answer are
\* as they happen to be when the test starts: zero, or left by earlier ones.
SensorStray == [reserved: {0, 1}, state: {0, 1}]
LeftOver    == [lower |-> 7, upper |-> 0]
ClockStray  == [lowest: {ClockTests!NoRate, LeftOver}, highest: {ClockTests!NoRate, LeftOver}]
NoStray == [reserved |-> 0, state |-> 0]

\* Four tests wait for a message.  A delayed response is stored where c010 and m014
\* look for it on every transport that delivers one.
Handed(t) ==
  IF t \in {"d026", "d027"} THEN Delivery
  ELSE {IF h = "early" THEN "whole" ELSE h : h \in Delivery}

Stray(t) ==
  CASE t \in {"m020", "m022"}            -> SensorStray
    [] t \in {"d026", "d027", "c010", "m014"} -> [handed: Handed(t)]
    [] t = "c007" /\ clock.range # {}     -> ClockStray
    [] OTHER                              -> {NoStray}

RunTest ==
  /\ test = "none" /\ queue # <<>>
  /\ IF suite = "base" THEN StartTest
     ELSE /\ Begin(Head(queue), ProgramOf(suite, Head(queue)))
          /\ queue' = Tail(queue)
          /\ UNCHANGED suiteVars
  /\ stray' \in Stray(Head(queue))
  /\ before' = Settings
  /\ UNCHANGED <<suite, table, platformVars, notifying, faults, faulted>>

\* The tests compare some of the fields of an answer.
Comparable(s, v) ==
  IF s.want = Any \/ (v # Garbage /\ \A f \in DOMAIN s.want : f \in DOMAIN v /\ v[f] = s.want[f])
  THEN s.want ELSE Garbage

\* Answer r to the step in progress of a suite other than base.
TakeAnswer(r) ==
  LET s == Head(steps)
      rc == [r EXCEPT !.value = Comparable(s, @)]
      read == s.kind = "check" /\ val_compare_status(s, r) /\ val_compare_msg_hdr(s, r)
      good == s.kind \in {"probe", "refute"} \/ Holds(s, rc)
  IN /\ Proceed(rc, Extended(IF read /\ good THEN MoreOf(suite, s, r.value) ELSE <<>>))
     /\ table' = IF read THEN [table EXCEPT ![suite] = LearnedOf(suite, s, r.value)] ELSE table
     /\ queue' = IF s.learn # "version" THEN queue
                 ELSE IF good THEN ScheduleOf(suite, r.value.version) ELSE <<>>
     /\ UNCHANGED suiteVars

Take(r) == IF suite = "base" THEN Answer(r) /\ UNCHANGED table ELSE TakeAnswer(r)

\* A command and its answer.
Exchange ==
  LET s == Head(steps)
  IN /\ test # "none" /\ s.kind # "receive"
     /\ Execute(s)
     /\ Take(Answered(s))
     /\ UNCHANGED <<suite, stray, faults, faulted, before>>

\* What the agent goes on with when it has waited in vain, and when the
\* platform would not do what it was asked.
Nothing == [echo |-> FALSE, status |-> SCMI_GENERIC_ERROR, value |-> Garbage]
Refusal == [Nothing EXCEPT !.echo = TRUE]

Fault ==
  /\ test # "none"
  /\ suite \in FaultySuites
  /\ faults < MaxFaults /\ faults' = faults + 1 /\ faulted' = faulted \cup {suite}
  /\ UNCHANGED <<suite, stray, before>>

\* The command does not reach the platform, as when linux_send_message finds no memory
\* or no descriptor; the platform carries it out and never answers, on a transport that
\* comes back all the same (external: pal_send_message of the mocker always has an
\* answer, read() of the mailbox driver may wait for ever); it refuses.
LoseCommand == Fault /\ Take(Nothing) /\ UNCHANGED <<platformVars, notifying>>

LeaveUnanswered ==
  /\ Fault /\ Head(steps).kind # "receive"
  /\ Execute(Head(steps)) /\ Take(Nothing)

Refuse ==
  /\ Fault /\ Head(steps).kind # "receive"
  /\ Take(Refusal) /\ UNCHANGED <<platformVars, notifying>>

\* What the platform tells of the id that step s waits for (external): the limits, the
\* level or the rate it has now.
News(s) ==
  LET id == s.want[1]
  IN CASE s.proto = PROTOCOL_CLOCK -> <<id, ClockHandler!CurrentRate(id)>>
       [] s.proto = PROTOCOL_SENSOR -> <<id>>
       [] s.msg = PerformanceTests!PERFORMANCE_LIMITS_CHANGED ->
            <<id, PerformanceHandler!RangeMax(id), PerformanceHandler!RangeMin(id)>>
       [] OTHER -> <<id, PerformanceHandler!CurrentLevel(id)>>

\* Where the test looks for these words it may find each in place of the one before,
\* and in the last place what was there already, be it the word it looks for.
WordsRead(s) ==
  IF stray.handed = "whole" THEN {News(s)}
  ELSE {Append(Tail(News(s)), left) : left \in {Garbage, Lists!Last(s.want)}}

\* val_receive_notification, val_receive_delayed_response: a test compares the words
\* it reads, and finds no header at all if there was no message.
ReceiveMessage ==
  /\ test # "none" /\ Head(steps).kind = "receive"
  /\ \/ stray.handed = "never" /\ Take(Nothing)
     \/ /\ stray.handed # "never"
        /\ \E words \in WordsRead(Head(steps)) :
             Take([echo |-> TRUE, status |-> SCMI_SUCCESS, value |-> words])
  /\ UNCHANGED <<suite, platformVars, stray, notifying, faults, faulted, before>>

\* The app goes on to the next suite, which looks its protocol up in the list
\* the base suite has left and begins with the version.
NextSuite ==
  /\ Finished /\ suite # "voltage"
  /\ suite' = SuiteName[1 + CHOOSE i \in DOMAIN SuiteName : SuiteName[i] = suite]
  /\ queue' = IF ProtocolOf(suite') - PROTOCOL_BASE \in list
              THEN <<VersionTestOf[suite']>> ELSE <<>>
  /\ UNCHANGED <<test, steps, count, last, suiteVars, table, platformVars, stray, notifying,
                 faults, faulted, before>>

Terminated == Finished /\ suite = "voltage" /\ UNCHANGED vars

-----------------------------------------------------------------------------
\* pal_initialize_system; the tables of the suites are clear.
Init ==
  /\ SuiteInit /\ trusted = TRUE
  /\ suite = "base"
  /\ table = [power |-> PowerTests!NothingLearnt, system |-> SystemTests!NothingLearnt,
              performance |-> PerformanceTests!NothingLearnt, clock |-> ClockTests!NothingLearnt,
              sensor |-> SensorTests!NothingLearnt, reset |-> ResetTests!NothingLearnt,
              voltage |-> VoltageTests!NothingLearnt]
  /\ BaseHandler!Init
  /\ PerformanceHandler!Init
  /\ clock_rate = [c \in ClockHandler!ClockId |-> ClockHandler!NoRate]
  /\ clock_status = [c \in ClockHandler!ClockId |-> ClockStart]
  /\ VoltageHandler!VoltageInit
  /\ stray = NoStray /\ notifying = {} /\ faults = 0 /\ faulted = {}
  /\ before = Settings

Next ==
  \/ RunTest \/ Exchange \/ ReceiveMessage \/ NextSuite \/ Terminated
  \/ LoseCommand \/ LeaveUnanswered \/ Refuse

Spec == Init /\ [][Next]_vars

\* One thread, and every call of the transport comes back: those of the mocker do, each
\* a call of the handler itself; Mailbox!CallReturns says when those of the mailbox do.
FairSpec == Spec /\ WF_vars(Next)

-----------------------------------------------------------------------------
(* Properties.                                                             *)

TypeOK ==
  /\ suite \in {SuiteName[i] : i \in DOMAIN SuiteName}
  /\ (steps = <<>>) <=> (test = "none")
  /\ count \in [Verdict -> Nat] /\ last.verdict \in Verdict \cup {"none"}
  /\ list \subseteq 1..NumProtocols
  /\ device_access \in [0..(NumDevices - 1) -> BOOLEAN] /\ protocol_access \in BOOLEAN
  /\ DOMAIN max_limit = PerformanceHandler!DomainId
  /\ clock_status \in [ClockHandler!ClockId -> {0, 1}]
  /\ faults \in 0..MaxFaults /\ faulted \subseteq FaultySuites
  /\ Cardinality(faulted) <= faults

\* The tests that fail, whatever happens.  m008 and m015 run before the sensors
\* are described, m020 and m022 read a word more than they are sent, c009 and
\* c010 set rates that were kept of words past a triplet, and of the voltage
\* protocol the mocker has only the version.
Shortfalls ==
  {"m008", "m015", "m020", "m022"}
  \cup (IF clock.range = {} THEN {} ELSE {"c009", "c010"})
  \cup (IF VoltageServed THEN {} ELSE {"v002", "v003", "v009"})

\* A test that waits for a message and was not handed it where it looks has failed in
\* the middle of its changes: d026 and d027 do on transport_mailbox.c, without fail.
Misled ==
  last.test \in {"d026", "d027", "c010"} /\ last.verdict = "FAIL" /\ stray.handed # "whole"

\* A test fails only because of something that went wrong in its own suite, of a
\* message that was not handed to it whole, or of what a base test has left behind: a
\* command that is refused or never answered in one suite costs no other suite a
\* verdict.  (A late answer does; no exchange has one here.)
NoFalseAlarm ==
  [][count'["FAIL"] # count["FAIL"] =>
       \/ suite \in faulted' \/ last'.test \in Shortfalls \/ Misled'
       \/ suite = "power" /\ "base" \in faulted]_vars

\* What each test that may be skipped looks for in vain.
Lacks(t) ==
  LET limitable == performance.limitable
      levelable == performance.levelable
      Fast(m)   == performance.fastDomains # {} /\ m \in performance.fastMessages
  IN CASE t = "p008" -> TRUE    \* every domain can be set
       [] t \in {"d009", "d010"} -> limitable = {}
       [] t \in {"d013", "d014"} -> levelable = {}
       [] t = "d017" -> performance.limitNotify = {}
       [] t = "d019" -> performance.levelNotify = {}
       [] t \in {"d021", "d023", "d025"} -> performance.fastDomains = {}
       [] t = "d026" -> limitable \cap performance.limitNotify = {}
       [] t = "d027" -> levelable \cap performance.levelNotify = {}
       [] t = "d028" -> ~Fast(PERFORMANCE_LEVEL_GET)
       [] t = "d029" -> ~Fast(PERFORMANCE_LIMITS_GET)
       [] t = "c010" -> clock.async = 0
       [] t \in {"m010", "m014"} -> table.sensor.row = <<>>
       [] t \in {"v005", "v007", "v011", "v012", "v013", "v014", "v015"} -> ~VoltageServed
       [] OTHER -> FALSE

\* A test is skipped only if the platform has nothing to try it on, as long as
\* nothing has gone wrong in its suite: no test is left out in silence.  The
\* sensor tests that come before the sensors are described are the exception.
SkipsJustified ==
  [][count'["SKIP"] # count["SKIP"] => suite \in faulted' \/ Lacks(last'.test)]_vars

\* The tests that are to change settings and put them back, all access at once or
\* one by one, and two that leave them changed.
Regranting == {"b012", "b014", "b016", "b017"}
Restoring  == {"d009", "d013", "d026", "d027", "c009", "c010", "c017", "v012"}
Moving     == Regranting \cup Restoring \cup {"m024", "v009"}

\* The settings are as they were, but for what is back as at the start: all
\* access granted, fewer notifications.
Regained ==
  LET granted == FALSE \notin {device_access[d] : d \in DOMAIN device_access}
                 /\ protocol_access
  IN /\ Settings.access = before.access \/ granted
     /\ notifying \subseteq before.notifying
     /\ \A kind \in DOMAIN Settings \ {"access", "notifying"} : Settings[kind] = before[kind]

\* A test that did not fail has put the platform's settings back, whatever was
\* lost or refused before it; it may even have put back what an earlier test
\* left.  Three do not: m024 leaves the updates it enables, v009 the mode it
\* sets, and c017 restores the state c005 kept, not the one it found.
StateRestored ==
  test = "none" /\ last.verdict \in {"PASS", "SKIP"} =>
    \/ Regained
    \/ last.test \in {"m024", "v009"}
    \/ last.test = "c017" /\ "clock" \in faulted

\* As long as no exchange went wrong, so has a test that failed: it fails before
\* its first change or after the last.  The tests that were not handed the message
\* they wait for are the exception: they leave the limits, level or rate they had
\* changed, and the notification enabled.
CleanRunRestores ==
  test = "none" /\ faulted = {} => Regained \/ last.test \in {"m024", "v009"} \/ Misled

\* "No sensor support async mode" (test_pool/sensor/test_m014.c:105): m014 is
\* skipped only if there is no sensor to read asynchronously.
AsyncReadTried == last = [test |-> "m014", verdict |-> "SKIP"] => sensor.async = {}

\* What the suites keep of the platform is what the platform has, or nothing:
\* no exchange that went wrong leaves anything else in a table.  The ends of a
\* range of rates are the exception.
KeptIsTrue ==
  LET domains == table.performance.row
      clocks  == table.clock.row
      sensors == table.sensor.row
      voltages == table.voltage.row
      In(x, set) == x = 0 \/ x \in set
  IN /\ table.power.domains \in {0, power.domains}
     /\ table.performance.domains \in {0, performance.domains}
     /\ table.clock.clocks \in {0, clock.clocks} /\ table.clock.async \in {0, clock.async}
     /\ table.sensor.sensors \in {0, sensor.sensors}
     /\ table.voltage.domains \in {0, voltage.domains}
     /\ table.reset.async \subseteq resets.async /\ table.reset.notify \subseteq resets.notify
     /\ \A d \in DOMAIN domains :
          LET listed == performance.levels[d]
              row == domains[d]
          IN /\ row.limitable => d \in performance.limitable
             /\ row.levelable => d \in performance.levelable
             /\ row.fast => d \in performance.fastDomains
             /\ In(row.max, {listed[Len(listed)]}) /\ In(row.min, {listed[1]})
             /\ In(row.mid, {listed[i] : i \in 1..(Len(listed) - 1)})
     /\ \A c \in DOMAIN clocks \ clock.range :
          LET Ends == {ClockTests!NoRate, ClockHandler!Rate(1), ClockHandler!Rate(clock.rates[c])}
          IN clocks[c].lowest \in Ends /\ clocks[c].highest \in Ends
     /\ \A d \in DOMAIN voltages :
          LET listed == voltage.levels[d]
              row == voltages[d]
          IN /\ row.triplet => d \in voltage.triplet
             /\ In(row.lowest, {listed[1]})
             /\ \A i \in DOMAIN row.levels : \E j \in DOMAIN listed : row.levels[i] = listed[j]
     /\ \A id \in DOMAIN sensors :
          /\ In(sensors[id].trips, {sensor.trips[id]})
          /\ sensors[id].async => id \in sensor.async

\* Whatever was lost or refused, a setting changes only in a test that is to
\* change settings, by a command it expects to succeed; or else the test that
\* sent the command FAILs: no change goes unseen.
ChangesMeant ==
  [][Settings' # Settings =>
       \/ test \in Moving /\ Head(steps).expect = SCMI_SUCCESS
       \/ test' = "none" /\ last' = [test |-> test, verdict |-> "FAIL"]]_vars

\* A command that the suite expects to be refused changes no setting, unless
\* something went wrong in its suite before and the platform accepts it: d018
\* enables the notifications of every domain if d005 could not ask for them.
RefusalsHarmless ==
  [][test # "none" /\ Head(steps).kind = "check" /\ Head(steps).expect # SCMI_SUCCESS
     /\ faults' = faults /\ Settings' # Settings
     => suite \in faulted /\ Answered(Head(steps)).status = SCMI_SUCCESS]_vars

\* The application comes to its end.
AppEnds == <>(Finished /\ suite = "voltage")

=============================================================================
