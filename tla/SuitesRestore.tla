---------------------------- MODULE SuitesRestore ----------------------------
(***************************************************************************)
(* Tests of SuitesOnMocker put the platform's settings back, and no change *)
(* of a setting goes unseen, for all tables of the platform and whichever  *)
(* exchanges are lost or refused.                                          *)
(*                                                                         *)
(* StateRestored says nothing while a test runs; the invariant says what   *)
(* the steps it has left do to what it has changed so far:                 *)
(*   - for each setting, the last step left that puts it somewhere puts it *)
(*     where the test found it, and if there is none it is there already   *)
(*     (PutBack); an answer may add steps, so that a question counts as    *)
(*     the commands it leads to (WillPut);                                 *)
(*   - the tests that deny themselves access end with a step that only     *)
(*     passes with the access they began with (GivesAccess);               *)
(*   - the other tests have changed nothing (Undone).                      *)
(* c017 goes back to the state c005 kept.  That it is the one it finds     *)
(* rests on all that came between: while nothing goes wrong in the suite,  *)
(* the tests come in order (At), c005 asks for each clock c002 counted     *)
(* (Finds), and no test in between disables one (KnownFrom).               *)
(***************************************************************************)
EXTENDS SuitesSettings

-----------------------------------------------------------------------------
(* What becomes of a test with an answer.                                  *)

\* An answer has an echo, a status and a value.
IsAnswer(r) == DOMAIN r = {"echo", "status", "value"}

\* A check or a wait ends in FAIL, or the status is the one expected, and the
\* test goes on with what the answer adds.
LEMMA Outcome ==
  ASSUME NEW s, s = Head(steps), s.kind \in {"check", "receive"}, NEW r, IsAnswer(r),
         TakeAnswer(r)
  PROVE  \/ test' = "none" /\ last' = [test |-> test, verdict |-> "FAIL"]
         \/ /\ r.status = s.expect
            /\ LET more == Extended(IF s.kind = "check" THEN MoreOf(suite, s, r.value) ELSE <<>>)
               IN IF Ended(more) = "none"
                  THEN test' = test /\ steps' = more /\ last' = last
                  ELSE test' = "none" /\ last' = [test |-> test, verdict |-> Ended(more)]
  <1> DEFINE rc == [r EXCEPT !.value = Comparable(s, @)]
             read == s.kind = "check" /\ val_compare_status(s, r) /\ val_compare_msg_hdr(s, r)
             good == s.kind \in {"probe", "refute"} \/ Holds(s, rc)
             more == Extended(IF read /\ good THEN MoreOf(suite, s, r.value) ELSE <<>>)
             added == IF s.kind = "check" THEN MoreOf(suite, s, r.value) ELSE <<>>
  <1>1. Proceed(rc, more)
    BY DEF TakeAnswer
  <1>2. rc.status = r.status /\ rc.echo = r.echo
    BY DEF IsAnswer
  <1> HIDE DEF rc
  <1>3. CASE ~Holds(s, rc)
    <2>1. Verdicts(s, rc, more) = "FAIL"
      BY <1>3 DEF Verdicts
    <2> QED BY <1>1, <2>1 DEF Proceed, val_report_status
  <1>4. CASE Holds(s, rc)
    <2>1. r.status = s.expect
      BY <1>2, <1>4 DEF Holds, val_compare_status
    <2>2. read /\ good <=> s.kind = "check"
      BY <1>2, <1>4 DEF Holds, val_compare_status, val_compare_msg_hdr
    <2>3. more = Extended(added)
      BY <2>2
    <2> HIDE DEF more, added
    <2>4. Verdicts(s, rc, more) = Ended(more)
      BY <1>4, Zenon DEF Verdicts
    <2>5. IF Ended(more) = "none" THEN test' = test /\ steps' = more /\ last' = last
          ELSE test' = "none" /\ last' = [test |-> test, verdict |-> Ended(more)]
      BY <1>1, <2>4 DEF Proceed, val_report_status
    <2> QED BY <2>1, <2>3, <2>5 DEF added
  <1> QED BY <1>3, <1>4

\* Whatever the answer, the test goes on or reports its verdict.
LEMMA OnOrOver ==
  ASSUME NEW r, Take(r)
  PROVE  test' = test \/ (test' = "none" /\ last'.test = test)
  <1>1. \A rc, more : Proceed(rc, more) =>
          test' = test \/ (test' = "none" /\ last'.test = test)
    BY DEF Proceed, val_report_status
  <1> QED BY <1>1, Zenon DEF Take, TakeAnswer, Answer

\* A check or a wait for another status ends in FAIL.
LEMMA WrongStatus ==
  ASSUME NEW s, s = Head(steps), s.kind \in {"check", "receive"}, NEW r, IsAnswer(r),
         r.status # s.expect, Take(r)
  PROVE  test' = "none" /\ last' = [test |-> test, verdict |-> "FAIL"]
  <1>1. CASE suite = "base"
    <2>1. PICK more : Proceed(r, more)
      BY <1>1, Zenon DEF Take, Answer
    <2>2. Verdicts(s, r, more) = "FAIL"
      BY DEF Verdicts, Holds, val_compare_status
    <2> QED BY <2>1, <2>2 DEF Proceed, val_report_status
  <1>2. CASE suite # "base"
    BY <1>2, Outcome DEF Take
  <1> QED BY <1>1, <1>2

\* The answers there are.
LEMMA AnswersAre ==
  /\ \A s : IsAnswer(Answered(s))
  /\ IsAnswer(Nothing) /\ IsAnswer(Refusal)
  /\ Nothing.status = SCMI_GENERIC_ERROR /\ Refusal.status = SCMI_GENERIC_ERROR
  BY DEF IsAnswer, Answered, Nothing, Refusal

-----------------------------------------------------------------------------
(* A test that changes settings one by one goes on, or is over.            *)

\* The step in progress.
LEMMA InProgress ==
  ASSUME IInv, test # "none", NEW s, s = Head(steps)
  PROVE  /\ Good(suite, test, s) /\ steps # <<>> /\ test \in TestsOf(suite)
         /\ GoodProgram(suite, test, steps) /\ s = steps[1] /\ 1 \in DOMAIN steps
  <1>1. test \in TestsOf(suite) /\ GoodProgram(suite, test, steps) /\ steps # <<>>
    BY DEF IInv, EngineOK, Progress
  <1>2. PICK U : steps \in Seq(U)
    BY <1>1, ProgramIsSequence
  <1>3. s = steps[1] /\ 1 \in DOMAIN steps
    BY <1>1, <1>2
  <1>4. Good(suite, test, s)
    BY <1>1, RestOfProgram
  <1> QED BY <1>1, <1>3, <1>4

\* The tests that change settings one by one are of three suites.
LEMMA RestoringSuites ==
  ASSUME IInv, test \in Restoring
  PROVE  suite \in {"performance", "clock", "voltage"} /\ suite \in Keeper /\ test # "none"
  <1>1. test \in TestsOf(suite) /\ suite \in Keeper \cup {"base"}
    BY DEF IInv, EngineOK, Restoring
  <1> QED BY <1>1 DEF TestsOf, Restoring, Keeper

\* It is over with its changes put back, or has a program left that puts them back.
LEMMA OnOrBack ==
  ASSUME Shapes', BeforeOK, before' = before, NEW U, NEW more \in Seq(U),
         PutBack(more, Settings', before) \/ (Skipped(more) /\ AllBack(Settings', before)),
         IF Ended(more) = "none"
         THEN test' = test /\ steps' = more
         ELSE test' = "none"
  PROVE  \/ test' = "none" /\ Regained'
         \/ test' = test /\ PutBack(steps', Settings', before)
  <1>1. CASE more = <<>>
    <2>1. AllBack(Settings', before)
      BY <1>1, EndsNow DEF AllBack, PutBack, Skipped
    <2> QED BY <1>1, <2>1, BackRegained DEF Ended
  <1>2. CASE Skipped(more) /\ AllBack(Settings', before)
    <2>1. Ended(more) = "SKIP"
      BY <1>2 DEF Skipped, Ended
    <2> QED BY <1>2, <2>1, BackRegained
  <1>3. CASE more # <<>> /\ PutBack(more, Settings', before)
    <2>1. Head(more) = more[1] /\ 1 \in DOMAIN more
      BY <1>3
    <2>2. Head(more).kind \in {"check", "receive"}
      BY <1>3, <2>1 DEF PutBack, RestorableProgram, Restorable
    <2>3. Ended(more) = "none"
      BY <1>3, <2>2 DEF Ended
    <2> QED BY <1>3, <2>3
  <1> QED BY <1>1, <1>2, <1>3

\* Exchange.
LEMMA ExchangeRestores ==
  ASSUME IInv, Shapes, BeforeOK, Exchange, test \in Restoring, PutBack(steps, Settings, before)
  PROVE  \/ test' = "none" /\ (last'.verdict = "FAIL" \/ Regained')
         \/ test' = test /\ PutBack(steps', Settings', before)
  <1> PICK s : s = Head(steps)
    OBVIOUS
  <1> PICK r : r = Answered(s)
    OBVIOUS
  <1>1. /\ suite \in {"performance", "clock", "voltage"} /\ suite \in Keeper /\ test # "none"
        /\ suite # "base"
    BY RestoringSuites
  <1>2. /\ Good(suite, test, s) /\ steps # <<>> /\ GoodProgram(suite, test, steps)
        /\ s = steps[1] /\ 1 \in DOMAIN steps
    BY <1>1, InProgress
  <1>3. Execute(s) /\ TakeAnswer(r) /\ before' = before /\ s.kind # "receive"
    BY <1>1 DEF Exchange, Take
  <1>4. Restorable(s) /\ s.kind = "check" /\ s.expect = SCMI_SUCCESS
    BY <1>2, <1>3 DEF PutBack, RestorableProgram, Restorable
  <1>5. Shapes'
    BY <1>2, <1>3, ShapesKept DEF IInv
  <1> DEFINE added == MoreOf(suite, s, r.value)
             more == Extended(added)
  <1>6. CASE test' = "none" /\ last'.verdict = "FAIL"
    BY <1>6
  <1>7. CASE /\ r.status = SCMI_SUCCESS
             /\ IF Ended(more) = "none" THEN test' = test /\ steps' = more ELSE test' = "none"
    <2>1. GoodProgram(suite, test, added)
      <3>1. Told(suite, s, r.value)
        <4>1. CASE s.learn = "nothing"
          BY <4>1 DEF Told
        <4>2. CASE s.learn # "nothing"
          BY <1>1, <1>2, <1>3, <1>7, <4>2, Answers DEF IInv
        <4> QED BY <4>1, <4>2
      <3> QED BY <1>1, <1>2, <3>1, MoreGood
    <2>2. PICK U : added \in Seq(U)
      BY <2>1, ProgramIsSequence
    <2>3. /\ Adds(added, s) \/ (Skipped(added) /\ Finding(s))
          /\ \A k, x : Setting(k, x) =>
               Returns(k, x, added, Found(k, x, Settings'), After(k, x, s, Found(k, x, Settings)))
      BY <1>1, <1>2, <1>3, <1>4, <1>7, Added
    <2>4. Settings'.modes = Settings.modes /\ Settings'.access = Settings.access
      BY <1>3, <1>4, <1>7, Moved
    <2>5. GoodProgram(suite, test, more)
      BY <1>2, <2>1, ExtendedGood
    <2>6. PICK V : more \in Seq(V)
      BY <2>5, ProgramIsSequence
    <2> HIDE DEF added
    <2>7. PutBack(more, Settings', before) \/ (Skipped(more) /\ AllBack(Settings', before))
      BY <1>1, <1>2, <2>2, <2>3, <2>4, GoesOn
    <2> HIDE DEF more
    <2> QED BY <1>3, <1>5, <1>7, <2>6, <2>7, OnOrBack
  <1>8. \/ test' = "none" /\ last' = [test |-> test, verdict |-> "FAIL"]
        \/ /\ r.status = SCMI_SUCCESS
           /\ IF Ended(more) = "none" THEN test' = test /\ steps' = more ELSE test' = "none"
    BY <1>3, <1>4, Outcome, AnswersAre
  <1> QED BY <1>6, <1>7, <1>8

\* ReceiveMessage: nothing is sent.
LEMMA ReceiveRestores ==
  ASSUME IInv, Shapes, BeforeOK, ReceiveMessage, test \in Restoring,
         PutBack(steps, Settings, before)
  PROVE  \/ test' = "none" /\ (last'.verdict = "FAIL" \/ Regained')
         \/ test' = test /\ PutBack(steps', Settings', before)
  <1> PICK s : s = Head(steps)
    OBVIOUS
  <1> PICK r : Take(r) /\ IsAnswer(r)
    BY MessageTaken DEF IsAnswer
  <1>1. /\ suite \in {"performance", "clock", "voltage"} /\ test # "none" /\ suite # "base"
    BY RestoringSuites
  <1>2. /\ Good(suite, test, s) /\ steps # <<>> /\ GoodProgram(suite, test, steps)
        /\ s = steps[1] /\ 1 \in DOMAIN steps
    BY <1>1, InProgress
  <1>3. TakeAnswer(r) /\ before' = before /\ s.kind = "receive" /\ IsAnswer(r)
    BY <1>1 DEF ReceiveMessage, Take
  <1>4. Restorable(s) /\ s.learn = "nothing"
    BY <1>2, <1>3 DEF PutBack, RestorableProgram, Restorable
  <1>5. Settings' = Settings /\ Shapes'
    <2>1. UNCHANGED settingVars
      BY DEF ReceiveMessage, platformVars, settingVars
    <2>2. /\ PerformanceHandler!DomainId' = PerformanceHandler!DomainId
          /\ ClockHandler!ClockId' = ClockHandler!ClockId
          /\ VoltageHandler!VoltageDomain' = VoltageHandler!VoltageDomain
      BY DEF ClockHandler!ClockId, PerformanceHandler!DomainId, VoltageHandler!VoltageDomain
    <2> QED BY <2>1, <2>2, SettingsSame DEF settingVars, Shapes
  <1> DEFINE added == <<>>
             more == Extended(added)
  <1>6. CASE test' = "none" /\ last'.verdict = "FAIL"
    BY <1>6
  <1>7. CASE IF Ended(more) = "none" THEN test' = test /\ steps' = more ELSE test' = "none"
    <2>1. Adds(added, s) /\ added \in Seq({})
      BY DEF Adds
    <2>2. ASSUME NEW k, NEW x, Setting(k, x)
          PROVE  Returns(k, x, added, Found(k, x, Settings'), After(k, x, s, Found(k, x, Settings)))
      <3>1. ~Put(k, x, s)
        BY <1>3, <1>4 DEF Put, Puts, WillPut, Sends
      <3> QED BY <1>5, <3>1, EndsSteps DEF Returns, After
    <2>3. GoodProgram(suite, test, more)
      BY <1>2, ShortPrograms, ExtendedGood
    <2>4. PICK V : more \in Seq(V)
      BY <2>3, ProgramIsSequence
    <2> HIDE DEF added
    <2>5. PutBack(more, Settings', before) \/ (Skipped(more) /\ AllBack(Settings', before))
      BY <1>1, <1>2, <1>5, <2>1, <2>2, GoesOn
    <2> HIDE DEF more
    <2> QED BY <1>3, <1>5, <1>7, <2>4, <2>5, OnOrBack
  <1>8. \/ test' = "none" /\ last' = [test |-> test, verdict |-> "FAIL"]
        \/ IF Ended(more) = "none" THEN test' = test /\ steps' = more ELSE test' = "none"
    BY <1>3, Outcome
  <1> QED BY <1>6, <1>7, <1>8

-----------------------------------------------------------------------------
(* Tests that change nothing, and exchanges that go wrong.                 *)

\* The tests that begin and end with the same settings are no movers.
LEMMA SameRegained == Settings' = before' => Regained'
  <1> SUFFICES ASSUME Settings' = before' PROVE Regained'
    OBVIOUS
  <1>1. Settings'.notifying = notifying'
    <2>1. Settings' = [limits |-> Settings'.limits, levels |-> Settings'.levels,
                       rates |-> Settings'.rates, clocks |-> clock_status',
                       voltages |-> voltage_level', modes |-> voltage_mode',
                       access |-> <<device_access', protocol_access'>>, notifying |-> notifying']
      BY DEF Settings
    <2> QED BY <2>1
  <1> QED BY <1>1 DEF Regained

\* What such a test is answered changes no setting, or the test fails.
LEMMA Quiet ==
  ASSUME IInv, Shapes, test # "none", test \notin Moving, NEW s, s = Head(steps),
         s.kind # "receive", Execute(s), NEW r, r = Answered(s), Take(r)
  PROVE  Settings' = Settings \/ (test' = "none" /\ last'.verdict = "FAIL")
  <1>1. Good(suite, test, s)
    BY InProgress
  <1>2. CASE ~Mover(s) \/ r.status # SCMI_SUCCESS
    BY <1>1, <1>2, Frame DEF IInv
  <1>3. CASE Mover(s) /\ r.status = SCMI_SUCCESS
    <2>1. s.kind = "check" /\ s.expect # SCMI_SUCCESS
      BY <1>1, <1>3 DEF Good, Allowed
    <2> QED BY <1>3, <2>1, WrongStatus, AnswersAre
  <1> QED BY <1>2, <1>3

\* An exchange that goes wrong fails the test, or changes no setting: probes do
\* not, and a test goes on only after a probe.
LEMMA Faulty ==
  ASSUME IInv, Shapes, LoseCommand \/ LeaveUnanswered \/ Refuse, NEW s, s = Head(steps)
  PROVE  /\ test # "none" /\ suite' = suite /\ before' = before /\ suite \in faulted'
         /\ Shapes'
         /\ \/ test' = "none" /\ last'.verdict = "FAIL"
            \/ s.kind \notin {"check", "receive"} /\ Settings' = Settings
               /\ (test' = test \/ (test' = "none" /\ last'.test = test))
               /\ \E r \in {Nothing, Refusal} : Take(r)
  <1>1. /\ test # "none" /\ suite' = suite /\ before' = before /\ suite \in faulted'
        /\ \E r \in {Nothing, Refusal} : Take(r)
    BY DEF LoseCommand, LeaveUnanswered, Refuse, Fault
  <1>2. PICK r \in {Nothing, Refusal} : Take(r)
    BY <1>1
  <1>3. Good(suite, test, s)
    BY <1>1, InProgress
  <1>4. ASSUME s.kind \in {"check", "receive"} PROVE test' = "none" /\ last'.verdict = "FAIL"
    <2>1. r.status # s.expect /\ IsAnswer(r)
      BY <1>3, AnswersAre DEF Good
    <2> QED BY <1>2, <1>4, <2>1, WrongStatus
  <1>5. CASE LeaveUnanswered
    <2>1. Execute(s)
      BY <1>5 DEF LeaveUnanswered
    <2>2. Shapes'
      BY <1>3, <2>1, ShapesKept DEF IInv
    <2>3. s.kind \notin {"check", "receive"} => Settings' = Settings
      BY <1>3, <2>1, Frame DEF IInv, Good, Allowed
    <2> QED BY <1>1, <1>2, <1>4, <2>2, <2>3, OnOrOver
  <1>6. CASE LoseCommand \/ Refuse
    <2>1. UNCHANGED settingVars
      BY <1>6 DEF LoseCommand, Refuse, platformVars, settingVars
    <2>2. /\ PerformanceHandler!DomainId' = PerformanceHandler!DomainId
          /\ ClockHandler!ClockId' = ClockHandler!ClockId
          /\ VoltageHandler!VoltageDomain' = VoltageHandler!VoltageDomain
      BY DEF ClockHandler!ClockId, PerformanceHandler!DomainId, VoltageHandler!VoltageDomain
    <2>3. Settings' = Settings /\ Shapes'
      BY <2>1, <2>2, SettingsSame DEF settingVars, Shapes
    <2> QED BY <1>1, <1>2, <1>4, <2>3, OnOrOver
  <1> QED BY <1>5, <1>6

-----------------------------------------------------------------------------
(* Tests that deny the agent access and grant it again.                    *)

ForAccess(s) ==
  /\ s.kind \in {"probe", "check"} /\ s.learn = "nothing"
  /\ s.proto \in {PROTOCOL_BASE, PROTOCOL_POWER_DOMAIN}

\* The last step sees that it has access.
Regrants(s) ==
  s.kind = "check" /\ s.expect = SCMI_SUCCESS /\ s.proto = PROTOCOL_POWER_DOMAIN

\* They ask what there is before they change anything.
RegrantingProgram(q) ==
  /\ q # <<>> /\ \A i \in DOMAIN q : ForAccess(q[i])
  /\ Regrants(q[Len(q)])
  /\ \A i \in DOMAIN q : q[i].kind = "probe" => \A j \in 1..i : q[j].kind = "probe"

AccessOnly(now, was) == \A kind \in DOMAIN now \ {"access"} : now[kind] = was[kind]

GivesAccess(q, now, was) ==
  /\ RegrantingProgram(q) /\ AccessOnly(now, was)
  /\ q[1].kind = "probe" => now = was

\* Commands of the base and the power protocol change no other setting.
LEMMA OnlyAccess ==
  ASSUME Shapes, PlatformOK, NEW p, NEW t, NEW s, Good(p, t, s), FromBaseHandler(s), Execute(s)
  PROVE  AccessOnly(Settings', Settings) /\ DOMAIN Settings' = DOMAIN Settings
  <1>1. s.proto = PROTOCOL_BASE /\ s.msg = BASE_SET_DEVICE_PERMISSIONS =>
          s.args[2] \in {Device, ForeignDevice}
    BY DEF Good, Allowed
  <1>2. UNCHANGED <<performanceVars, clockVars, voltageVars, notifying>>
    BY <1>1, AccessEffect
  <1>3. /\ PerformanceHandler!DomainId' = PerformanceHandler!DomainId
        /\ ClockHandler!ClockId' = ClockHandler!ClockId
    BY DEF ClockHandler!ClockId, PerformanceHandler!DomainId
  <1>4. \A d : LimitsNow(d)' = LimitsNow(d) /\ LevelNow(d)' = LevelNow(d)
    BY <1>2 DEF LimitsNow, LevelNow, performanceVars, PerformanceHandler!RangeMax,
       PerformanceHandler!RangeMin, PerformanceHandler!NoLimits, PerformanceHandler!Top,
       PerformanceHandler!Bottom, PerformanceHandler!CurrentLevel
  <1>5. \A c : RateNow(c)' = RateNow(c)
    BY <1>2 DEF RateNow, clockVars, ClockHandler!CurrentRate, ClockHandler!Rate
  <1>6. Settings = [limits |-> [d \in PerformanceHandler!DomainId |-> LimitsNow(d)],
                    levels |-> [d \in PerformanceHandler!DomainId |-> LevelNow(d)],
                    rates  |-> [c \in ClockHandler!ClockId |-> RateNow(c)],
                    clocks |-> clock_status,
                    voltages |-> voltage_level, modes |-> voltage_mode,
                    access |-> <<device_access, protocol_access>>, notifying |-> notifying]
    BY DEF Settings, LimitsNow, LevelNow, RateNow
  <1>7. Settings' = [limits |-> [d \in PerformanceHandler!DomainId |-> LimitsNow(d)'],
                     levels |-> [d \in PerformanceHandler!DomainId |-> LevelNow(d)'],
                     rates  |-> [c \in ClockHandler!ClockId |-> RateNow(c)'],
                     clocks |-> clock_status',
                     voltages |-> voltage_level', modes |-> voltage_mode',
                     access |-> <<device_access', protocol_access'>>, notifying |-> notifying']
    BY <1>3 DEF Settings, LimitsNow, LevelNow, RateNow
  <1>8. /\ [d \in PerformanceHandler!DomainId |-> LimitsNow(d)']
             = [d \in PerformanceHandler!DomainId |-> LimitsNow(d)]
        /\ [d \in PerformanceHandler!DomainId |-> LevelNow(d)']
             = [d \in PerformanceHandler!DomainId |-> LevelNow(d)]
        /\ [c \in ClockHandler!ClockId |-> RateNow(c)']
             = [c \in ClockHandler!ClockId |-> RateNow(c)]
    BY <1>4, <1>5
  <1> HIDE <1>4, <1>5
  <1> QED BY <1>2, <1>6, <1>7, <1>8 DEF AccessOnly, clockVars, voltageVars

\* What is left of such a test after its first step is such a program again.
LEMMA RegrantingRest ==
  ASSUME NEW U, NEW q \in Seq(U), RegrantingProgram(q)
  PROVE  \/ Tail(q) = <<>> /\ Regrants(q[1])
         \/ /\ RegrantingProgram(Tail(q)) /\ Ended(Tail(q)) = "none"
            /\ Tail(q)[1].kind = "probe" => q[1].kind = "probe"
  <1> PICK r : r = Tail(q)
    OBVIOUS
  <1>1. Len(q) \in Nat /\ Len(q) > 0 /\ DOMAIN q = 1..Len(q)
    BY DEF RegrantingProgram
  <1>2. r \in Seq(U) /\ Len(r) = Len(q) - 1 /\ DOMAIN r = 1..Len(r)
        /\ \A i \in DOMAIN r : i + 1 \in DOMAIN q /\ r[i] = q[i + 1]
    BY <1>1
  <1>3. CASE Len(q) = 1
    <2>1. r = <<>>
      BY <1>2, <1>3
    <2> QED BY <1>3, <2>1 DEF RegrantingProgram
  <1>4. CASE Len(q) > 1
    <2>1. r # <<>> /\ 1 \in DOMAIN r /\ Head(r) = r[1] /\ Len(r) \in DOMAIN r
          /\ r[Len(r)] = q[Len(q)]
      <3>1. Len(r) \in 1..Len(r) /\ 1 \in 1..Len(r) /\ Len(r) + 1 = Len(q)
        BY <1>1, <1>2, <1>4
      <3>2. \A y \in Seq(U) : 1 \in 1..Len(y) => y # <<>> /\ Head(y) = y[1]
        OBVIOUS
      <3> QED BY <1>2, <3>1, <3>2
    <2>2. \A i \in DOMAIN r : ForAccess(r[i])
      BY <1>2 DEF RegrantingProgram
    <2>3. Regrants(r[Len(r)])
      BY <2>1 DEF RegrantingProgram
    <2>4. ASSUME NEW i \in DOMAIN r, r[i].kind = "probe", NEW j \in 1..i
          PROVE  r[j].kind = "probe"
      <3>1. i + 1 \in DOMAIN q /\ q[i + 1].kind = "probe" /\ j + 1 \in 1..(i + 1) /\ j \in DOMAIN r
        BY <1>1, <1>2, <2>4
      <3> QED BY <1>2, <3>1 DEF RegrantingProgram
    <2>5. r[1].kind = "probe" => q[1].kind = "probe"
      <3>1. 2 \in DOMAIN q /\ r[1] = q[2] /\ 1 \in 1..2
        BY <1>1, <1>2, <1>4, <2>1
      <3> QED BY <3>1 DEF RegrantingProgram
    <2>6. Ended(r) = "none"
      BY <2>1, <2>2 DEF Ended, ForAccess
    <2>7. RegrantingProgram(r)
      BY <2>1, <2>2, <2>3, <2>4, Zenon DEF RegrantingProgram
    <2> QED BY <2>5, <2>6, <2>7
  <1>5. Len(q) = 1 \/ Len(q) > 1
    BY <1>1
  <1> QED BY <1>3, <1>4, <1>5, Zenon

\* The answer to a step of such a test ends it, or it goes on with the next.
LEMMA BaseOutcome ==
  ASSUME suite = "base", NEW s, s = Head(steps), ForAccess(s), NEW r, Take(r)
  PROVE  \/ test' = "none" /\ last'.verdict = "FAIL"
         \/ test' = "none" /\ s.kind = "probe" /\ r.status = s.expect
         \/ /\ s.kind = "check" => r.status = s.expect
            /\ IF Ended(Tail(steps)) = "none" THEN test' = test /\ steps' = Tail(steps)
               ELSE test' = "none"
  <1> DEFINE good == s.kind = "probe" \/ Holds(s, r)
             more == IF good THEN More(s, r) ELSE <<>>
  <1>1. Proceed(r, more)
    BY DEF Take, Answer
  <1>2. More(s, r) = Tail(steps)
    BY DEF More, ForAccess
  <1>3. CASE s.kind = "check" /\ ~Holds(s, r)
    <2>1. Verdicts(s, r, more) = "FAIL"
      BY <1>3 DEF Verdicts
    <2> QED BY <1>1, <2>1 DEF Proceed, val_report_status
  <1>4. CASE s.kind = "probe" /\ r.status = s.expect
    <2>1. Verdicts(s, r, more) = "SKIP"
      BY <1>4 DEF Verdicts
    <2> QED BY <1>1, <1>4, <2>1 DEF Proceed, val_report_status
  <1>5. CASE \/ s.kind = "check" /\ Holds(s, r)
             \/ s.kind = "probe" /\ r.status # s.expect
    <2>1. more = Tail(steps)
      BY <1>2, <1>5
    <2> HIDE DEF more
    <2>2. Verdicts(s, r, more) = Ended(Tail(steps))
      BY <1>5, <2>1 DEF Verdicts
    <2>3. s.kind = "check" => r.status = s.expect
      BY <1>5 DEF Holds, val_compare_status
    <2> QED BY <1>1, <2>1, <2>2, <2>3 DEF Proceed, val_report_status
  <1> QED BY <1>3, <1>4, <1>5 DEF ForAccess

\* The tests that deny access are of the base suite.
LEMMA RegrantingSuite ==
  ASSUME IInv, test \in Regranting
  PROVE  suite = "base" /\ test # "none"
  <1>1. test \in TestsOf(suite) /\ suite \in Keeper \cup {"base"}
    BY DEF IInv, EngineOK, Regranting
  <1> QED BY <1>1 DEF TestsOf, Regranting, Keeper

\* All access granted, and nothing else changed.
LEMMA GrantedRegained ==
  ASSUME AccessOnly(Settings', before'),
         FALSE \notin {device_access'[d] : d \in DOMAIN device_access'}, protocol_access'
  PROVE  Regained'
  <1>1. DOMAIN Settings' = {"limits", "levels", "rates", "clocks", "voltages", "modes", "access",
                            "notifying"}
        /\ Settings'.notifying = notifying'
    <2>1. Settings' = [limits |-> Settings'.limits, levels |-> Settings'.levels,
                       rates |-> Settings'.rates, clocks |-> clock_status',
                       voltages |-> voltage_level', modes |-> voltage_mode',
                       access |-> <<device_access', protocol_access'>>, notifying |-> notifying']
      BY DEF Settings
    <2> QED BY <2>1
  <1>2. notifying' = before'.notifying
    BY <1>1 DEF AccessOnly
  <1>3. \A kind \in DOMAIN Settings' \ {"access", "notifying"} : Settings'[kind] = before'[kind]
    BY DEF AccessOnly
  <1> QED BY <1>2, <1>3 DEF Regained

\* Exchange.
LEMMA ExchangeRegrants ==
  ASSUME IInv, Shapes, Exchange, test \in Regranting, GivesAccess(steps, Settings, before)
  PROVE  \/ test' = "none" /\ (last'.verdict = "FAIL" \/ Regained')
         \/ test' = test /\ GivesAccess(steps', Settings', before)
  <1> PICK s : s = Head(steps)
    OBVIOUS
  <1> PICK r : r = Answered(s)
    OBVIOUS
  <1>1. suite = "base" /\ test # "none"
    BY RegrantingSuite
  <1>2. /\ Good(suite, test, s) /\ steps # <<>> /\ GoodProgram(suite, test, steps)
        /\ s = steps[1] /\ 1 \in DOMAIN steps
    BY <1>1, InProgress
  <1>3. PICK U : steps \in Seq(U)
    BY <1>2, ProgramIsSequence
  <1>4. Execute(s) /\ Take(r) /\ before' = before
    BY DEF Exchange
  <1>5. ForAccess(s) /\ FromBaseHandler(s)
    BY <1>2 DEF GivesAccess, RegrantingProgram, ForAccess, FromBaseHandler
  <1>6. AccessOnly(Settings', before) /\ DOMAIN Settings' = DOMAIN Settings
    <2>1. AccessOnly(Settings', Settings) /\ DOMAIN Settings' = DOMAIN Settings
      BY <1>2, <1>4, <1>5, OnlyAccess DEF IInv
    <2>2. AccessOnly(Settings, before)
      BY DEF GivesAccess
    <2> QED BY <2>1, <2>2 DEF AccessOnly
  <1>7. s.kind = "probe" => Settings' = before
    <2>1. s.kind = "probe" => ~Mover(s) /\ Settings = before
      BY <1>2 DEF Good, Allowed, GivesAccess
    <2> QED BY <1>2, <1>4, <2>1, Frame DEF IInv
  <1>8. CASE test' = "none" /\ last'.verdict = "FAIL"
    BY <1>8
  <1>9. CASE test' = "none" /\ s.kind = "probe"
    BY <1>4, <1>7, <1>9, SameRegained
  <1>10. CASE /\ s.kind = "check" => r.status = s.expect
              /\ IF Ended(Tail(steps)) = "none" THEN test' = test /\ steps' = Tail(steps)
                 ELSE test' = "none"
    <2>1. RegrantingProgram(steps)
      BY DEF GivesAccess
    <2>2. CASE Tail(steps) = <<>> /\ Regrants(s)
      <3>1. test' = "none"
        BY <1>10, <2>2 DEF Ended
      <3>2. /\ UNCHANGED <<device_access, protocol_access>>
            /\ \A d \in DOMAIN device_access' \ {0} : device_access'[d] = TRUE
            /\ device_access[0] /\ protocol_access
        <4>1. s.proto = PROTOCOL_POWER_DOMAIN /\ r.status = SCMI_SUCCESS /\ s.proto # PROTOCOL_BASE
          BY <1>10, <2>2 DEF Regrants, PROTOCOL_POWER_DOMAIN, PROTOCOL_BASE
        <4> QED BY <1>4, <1>5, <4>1, AccessEffect DEF IInv
      <3>3. device_access' \in [0..(NumDevices - 1) -> BOOLEAN]
        BY <3>2 DEF IInv, PlatformOK
      <3>4. FALSE \notin {device_access'[d] : d \in DOMAIN device_access'} /\ protocol_access'
        BY <3>2, <3>3
      <3> QED BY <1>4, <1>6, <3>1, <3>4, GrantedRegained
    <2>3. CASE /\ RegrantingProgram(Tail(steps)) /\ Ended(Tail(steps)) = "none"
               /\ Tail(steps)[1].kind = "probe" => s.kind = "probe"
      <3>1. test' = test /\ steps' = Tail(steps)
        BY <1>10, <2>3
      <3> QED BY <1>6, <1>7, <2>3, <3>1 DEF GivesAccess
    <2> QED BY <1>2, <1>3, <2>1, <2>2, <2>3, RegrantingRest
  <1>11. \/ test' = "none" /\ last'.verdict = "FAIL"
         \/ test' = "none" /\ s.kind = "probe"
         \/ /\ s.kind = "check" => r.status = s.expect
            /\ IF Ended(Tail(steps)) = "none" THEN test' = test /\ steps' = Tail(steps)
               ELSE test' = "none"
    BY <1>1, <1>4, <1>5, BaseOutcome
  <1> QED BY <1>8, <1>9, <1>10, <1>11

\* LoseCommand, LeaveUnanswered, Refuse: the question whether there is a command is over.
LEMMA FaultyRegrants ==
  ASSUME IInv, Shapes, LoseCommand \/ LeaveUnanswered \/ Refuse, test \in Regranting,
         GivesAccess(steps, Settings, before)
  PROVE  \/ test' = "none" /\ (last'.verdict = "FAIL" \/ Regained')
         \/ test' = test /\ GivesAccess(steps', Settings', before)
  <1> PICK s : s = Head(steps)
    OBVIOUS
  <1>1. suite = "base" /\ test # "none"
    BY RegrantingSuite
  <1>2. /\ steps # <<>> /\ GoodProgram(suite, test, steps) /\ s = steps[1] /\ 1 \in DOMAIN steps
    BY <1>1, InProgress
  <1>3. PICK U : steps \in Seq(U)
    BY <1>2, ProgramIsSequence
  <1>4. ForAccess(s) /\ RegrantingProgram(steps) /\ AccessOnly(Settings, before)
    BY <1>2 DEF GivesAccess, RegrantingProgram
  <1>5. before' = before
    BY Faulty
  <1>6. CASE s.kind \notin {"check", "receive"} /\ Settings' = Settings
             /\ \E r \in {Nothing, Refusal} : Take(r)
    <2>1. PICK r \in {Nothing, Refusal} : Take(r)
      BY <1>6
    <2>2. Settings' = before /\ s.kind = "probe"
      BY <1>2, <1>4, <1>6 DEF GivesAccess, ForAccess
    <2>3. CASE test' = "none"
      BY <1>5, <2>2, <2>3, SameRegained
    <2>4. CASE test' # "none"
      <3>1. test' = test /\ steps' = Tail(steps) /\ Ended(Tail(steps)) = "none"
        BY <1>1, <1>4, <2>1, <2>4, BaseOutcome
      <3>2. RegrantingProgram(Tail(steps))
        <4>1. Tail(steps) # <<>>
          BY <3>1 DEF Ended
        <4> QED BY <1>3, <1>4, <4>1, RegrantingRest
      <3> QED BY <1>4, <1>6, <2>2, <3>1, <3>2 DEF GivesAccess
    <2> QED BY <2>3, <2>4
  <1>7. CASE test' = "none" /\ last'.verdict = "FAIL"
    BY <1>7
  <1> QED BY <1>6, <1>7, Faulty

\* No step of such a test waits for a message.
LEMMA NoneReceived ==
  ASSUME IInv, test \in Regranting, GivesAccess(steps, Settings, before)
  PROVE  ~ReceiveMessage
  <1>1. test # "none"
    BY RegrantingSuite
  <1>2. Head(steps) = steps[1] /\ 1 \in DOMAIN steps
    BY <1>1, InProgress
  <1> QED BY <1>2 DEF GivesAccess, RegrantingProgram, ForAccess, ReceiveMessage

\* They begin with questions too, or what they need is not supported.
LEMMA RegrantingBegins ==
  ASSUME NEW t \in Regranting
  PROVE  Skipped(Program(t)) \/ (RegrantingProgram(Program(t)) /\ Program(t)[1].kind = "probe")
  <1> DEFINE P(q) == Skipped(q) \/ (RegrantingProgram(q) /\ q[1].kind = "probe")
             give(a, e) == Base(BASE_SET_DEVICE_PERMISSIONS, a, e)
  <1>1. P(<<Skip>>)
    <2>1. Skip.kind = "skip" /\ Skip.learn = "nothing"
      BY DEF Skip, Ask
    <2> QED BY <2>1 DEF Skipped
  <1>2. /\ \A m, a, e : LET z == Base(m, a, e) IN ForAccess(z) /\ z.kind = "check"
        /\ \A e : LET z == Access(e)
                      y == [Access(e) EXCEPT !.header = FALSE]
                  IN ForAccess(z) /\ z.kind = "check" /\ ForAccess(y) /\ y.kind = "check"
        /\ \A m, a, e : LET z == [Base(m, a, e) EXCEPT !.header = FALSE]
                        IN ForAccess(z) /\ z.kind = "check"
        /\ \A m : ForAccess(Supports(m)) /\ Supports(m).kind = "probe"
        /\ Regrants(Access(SCMI_SUCCESS))
    BY DEF Base, Access, Ask, Supports, ProbeUncounted, Probe, AskStatus, ForAccess, Regrants
  <1>3. ASSUME NEW a, NEW b, NEW c, NEW d, NEW e, Regrants(e),
               \A z \in {a, b, c, d, e} : ForAccess(z), a.kind = "probe",
               \A z \in {b, c, d, e} : z.kind = "check"
        PROVE  P(<<a, b, c, d, e>>)
    <2> PICK q : q = <<a, b, c, d, e>>
      OBVIOUS
    <2>1. Len(q) = 5 /\ DOMAIN q = 1..5 /\ q[1] = a /\ q[2] = b /\ q[3] = c /\ q[4] = d /\ q[5] = e
          /\ q # <<>>
      OBVIOUS
    <2>2. \A i \in DOMAIN q : ForAccess(q[i]) /\ (q[i].kind = "probe" => i = 1)
      BY <1>3, <2>1
    <2>3. \A i \in DOMAIN q : q[i].kind = "probe" => \A j \in 1..i : q[j].kind = "probe"
      BY <1>3, <2>1, <2>2
    <2>4. RegrantingProgram(q)
      BY <1>3, <2>1, <2>2, <2>3 DEF RegrantingProgram
    <2> QED BY <1>3, <2>1, <2>4
  <1>4. ASSUME NEW a, NEW b, NEW c, NEW d, NEW e, NEW f, Regrants(f),
               \A z \in {a, b, c, d, e, f} : ForAccess(z), a.kind = "probe", b.kind = "probe",
               \A z \in {c, d, e, f} : z.kind = "check"
        PROVE  P(<<a, b, c, d, e, f>>)
    <2> PICK q : q = <<a, b, c, d, e, f>>
      OBVIOUS
    <2>1. Len(q) = 6 /\ DOMAIN q = 1..6 /\ q[1] = a /\ q[2] = b /\ q[3] = c /\ q[4] = d
          /\ q[5] = e /\ q[6] = f /\ q # <<>>
      OBVIOUS
    <2>2. \A i \in DOMAIN q : ForAccess(q[i]) /\ (q[i].kind = "probe" => i <= 2)
      BY <1>4, <2>1
    <2>3. \A i \in DOMAIN q : q[i].kind = "probe" => \A j \in 1..i : q[j].kind = "probe"
      BY <1>4, <2>1, <2>2
    <2>4. RegrantingProgram(q)
      BY <1>4, <2>1, <2>2, <2>3 DEF RegrantingProgram
    <2> QED BY <1>4, <2>1, <2>4
  <1>5. \A q : P(q) => P(IfTrusted(q))
    BY <1>1 DEF IfTrusted
  <1> DEFINE dev == Supports(BASE_SET_DEVICE_PERMISSIONS)
             pro == Supports(BASE_SET_PROTOCOL_PERMISSIONS)
             res == Supports(BASE_RESET_AGENT_CONFIGURATION)
             denyd == SetDevice(info.self, Device, FLAG_ACCESS_DENY, SCMI_SUCCESS)
             givd == SetDevice(info.self, Device, FLAG_ACCESS_ALLOW, SCMI_SUCCESS)
             denyp == SetProtocol(info.self, Device, PROTOCOL_POWER_DOMAIN, FLAG_ACCESS_DENY,
                                  SCMI_SUCCESS)
             givp == [SetProtocol(info.self, Device, PROTOCOL_POWER_DOMAIN, FLAG_ACCESS_ALLOW,
                                  SCMI_SUCCESS) EXCEPT !.header = FALSE]
             back == Reset(info.self, FLAG_RESET_ACCESS, SCMI_SUCCESS)
             denied == Access(SCMI_DENIED)
             denieds == [Access(SCMI_DENIED) EXCEPT !.header = FALSE]
             granted == Access(SCMI_SUCCESS)
  <1>6. /\ \A z \in {dev, pro, res} : ForAccess(z) /\ z.kind = "probe"
        /\ \A z \in {denyd, givd, denyp, givp, back, denied, denieds, granted} :
             ForAccess(z) /\ z.kind = "check"
        /\ Regrants(granted)
    <2>1. /\ ForAccess(dev) /\ dev.kind = "probe" /\ ForAccess(pro) /\ pro.kind = "probe"
          /\ ForAccess(res) /\ res.kind = "probe"
      BY <1>2, Zenon
    <2>2. /\ ForAccess(denyd) /\ denyd.kind = "check" /\ ForAccess(givd) /\ givd.kind = "check"
          /\ ForAccess(denyp) /\ denyp.kind = "check" /\ ForAccess(back) /\ back.kind = "check"
      BY <1>2, Zenon DEF SetDevice, SetProtocol, Reset
    <2>3. ForAccess(givp) /\ givp.kind = "check"
      BY <1>2, Zenon DEF SetProtocol
    <2>4. /\ ForAccess(denied) /\ denied.kind = "check" /\ ForAccess(denieds)
          /\ denieds.kind = "check" /\ ForAccess(granted) /\ granted.kind = "check"
          /\ Regrants(granted)
      BY <1>2, Zenon
    <2> HIDE DEF dev, pro, res, denyd, givd, denyp, givp, back, denied, denieds, granted
    <2> QED BY <2>1, <2>2, <2>3, <2>4
  <1> HIDE DEF P, dev, pro, res, denyd, givd, denyp, givp, back, denied, denieds, granted
  <1>7. /\ P(<<dev, denyd, denied, givd, granted>>) /\ P(<<pro, denyp, denied, givp, granted>>)
        /\ P(<<dev, res, denyd, denieds, back, granted>>)
        /\ P(<<pro, res, denyp, denied, back, granted>>)
    BY <1>3, <1>4, <1>6
  <1>8. P(TestB012) /\ P(TestB014) /\ P(TestB016) /\ P(TestB017)
    BY <1>5, <1>7 DEF TestB012, TestB014, TestB016, TestB017, dev, pro, res, denyd, givd, denyp,
       givp, back, denied, denieds, granted
  <1>9. Program(t) \in {TestB012, TestB014, TestB016, TestB017}
    BY DEF Program, Regranting
  <1> QED BY <1>8, <1>9 DEF P

-----------------------------------------------------------------------------
(* What each step leaves to be undone.                                     *)

\* c017 puts the clocks to where c005 found them, if nothing went wrong.
Exempt == test = "c017" /\ "clock" \in faulted

\* What the test in progress has changed is undone by the steps it has left.
Undone ==
  /\ test \in Restoring /\ ~Exempt => PutBack(steps, Settings, before)
  /\ test \in Regranting => GivesAccess(steps, Settings, before)
  /\ test \notin Moving \cup {"none"} => Settings = before

InOrder == Shapes /\ BeforeOK /\ Undone /\ StateRestored

\* c017 has no clock to try, or puts all of them back.
TogglesBack == Skipped(ClockTests!TestC017) \/ PutBack(ClockTests!TestC017, Settings, Settings)

\* Settings that change no more are settings of the same shape.
LEMMA SettingsKept ==
  ASSUME Shapes, UNCHANGED settingVars
  PROVE  Shapes' /\ Settings' = Settings
  <1>1. /\ PerformanceHandler!DomainId' = PerformanceHandler!DomainId
        /\ ClockHandler!ClockId' = ClockHandler!ClockId
        /\ VoltageHandler!VoltageDomain' = VoltageHandler!VoltageDomain
    BY DEF ClockHandler!ClockId, PerformanceHandler!DomainId, VoltageHandler!VoltageDomain
  <1> QED BY <1>1, SettingsSame DEF settingVars, Shapes

\* What a test has found stays as it was.
LEMMA BeforeKept == BeforeOK /\ before' = before => BeforeOK'
  <1>1. /\ PerformanceHandler!DomainId' = PerformanceHandler!DomainId
        /\ ClockHandler!ClockId' = ClockHandler!ClockId
        /\ VoltageHandler!VoltageDomain' = VoltageHandler!VoltageDomain
    BY DEF ClockHandler!ClockId, PerformanceHandler!DomainId, VoltageHandler!VoltageDomain
  <1> QED BY <1>1 DEF BeforeOK

\* A test that begins finds settings.
LEMMA SettingsFound ==
  ASSUME Shapes, NEW b, b = Settings
  PROVE  b = [limits |-> [d \in PerformanceHandler!DomainId |-> b.limits[d]],
              levels |-> [d \in PerformanceHandler!DomainId |-> b.levels[d]],
              rates  |-> [c \in ClockHandler!ClockId |-> b.rates[c]],
              clocks |-> [c \in ClockHandler!ClockId |-> b.clocks[c]],
              voltages |-> [d \in VoltageHandler!VoltageDomain |-> b.voltages[d]],
              modes  |-> b.modes, access |-> b.access, notifying |-> b.notifying]
  <1>1. Settings = [limits |-> [d \in PerformanceHandler!DomainId |-> LimitsNow(d)],
                    levels |-> [d \in PerformanceHandler!DomainId |-> LevelNow(d)],
                    rates  |-> [c \in ClockHandler!ClockId |-> RateNow(c)],
                    clocks |-> clock_status,
                    voltages |-> voltage_level, modes |-> voltage_mode,
                    access |-> <<device_access, protocol_access>>, notifying |-> notifying]
    BY DEF Settings, LimitsNow, LevelNow, RateNow
  <1>2. PICK limits, levels, rates :
          /\ Settings = [limits |-> limits, levels |-> levels, rates |-> rates,
                         clocks |-> clock_status, voltages |-> voltage_level,
                         modes |-> voltage_mode,
                         access |-> <<device_access, protocol_access>>, notifying |-> notifying]
          /\ limits = [d \in PerformanceHandler!DomainId |-> limits[d]]
          /\ levels = [d \in PerformanceHandler!DomainId |-> levels[d]]
          /\ rates = [c \in ClockHandler!ClockId |-> rates[c]]
    <2>1. \A x : LET limits == [d \in PerformanceHandler!DomainId |-> LimitsNow(d)]
                     levels == [d \in PerformanceHandler!DomainId |-> LevelNow(d)]
                     rates == [c \in ClockHandler!ClockId |-> RateNow(c)]
                 IN /\ limits = [d \in PerformanceHandler!DomainId |-> limits[d]]
                    /\ levels = [d \in PerformanceHandler!DomainId |-> levels[d]]
                    /\ rates = [c \in ClockHandler!ClockId |-> rates[c]]
      OBVIOUS
    <2> QED BY <1>1, <2>1, Zenon
  <1>3. /\ b.limits = limits /\ b.levels = levels /\ b.rates = rates
        /\ b.clocks = clock_status /\ b.voltages = voltage_level
        /\ b.modes = voltage_mode /\ b.notifying = notifying
        /\ b.access = <<device_access, protocol_access>>
    BY <1>2
  <1> QED BY <1>2, <1>3 DEF Shapes

\* Settings that are as they were are put back by a program that changes none.
LEMMA AskingPutsBack ==
  ASSUME NEW q, Asking(q), NEW now PROVE PutBack(q, now, now)
  BY DEF Asking, PutBack, RestorableProgram, Ends, Within

\* A test begins.
LEMMA BeginsInOrder ==
  ASSUME IInv, Shapes, RunTest,
         suite = "clock" /\ Head(queue) = "c017" => "clock" \in faulted \/ TogglesBack
  PROVE  InOrder'
  <1> PICK t : t = Head(queue)
    OBVIOUS
  <1> PICK program : program = IF suite = "base" THEN Program(t) ELSE ProgramOf(suite, t)
    OBVIOUS
  <1>1. /\ before' = Settings /\ UNCHANGED settingVars /\ faulted' = faulted
        /\ Begin(t, program)
    BY DEF RunTest, StartTest, platformVars, settingVars
  <1>2. Shapes' /\ Settings' = before'
    BY <1>1, SettingsKept
  <1>3. BeforeOK'
    <2>1. /\ PerformanceHandler!DomainId' = PerformanceHandler!DomainId
          /\ ClockHandler!ClockId' = ClockHandler!ClockId
          /\ VoltageHandler!VoltageDomain' = VoltageHandler!VoltageDomain
      BY DEF ClockHandler!ClockId, PerformanceHandler!DomainId, VoltageHandler!VoltageDomain
    <2> PICK b : b = before'
      OBVIOUS
    <2>2. b = Settings
      BY <1>1
    <2> QED BY <2>1, <2>2, SettingsFound DEF BeforeOK
  <1>4. t \in TestsOf(suite) /\ suite \in Keeper \cup {"base"} /\ Tables /\ t # "none"
    <2>1. queue \in Seq(TestsOf(suite)) /\ queue # <<>>
      BY DEF IInv, EngineOK, RunTest
    <2>2. t \in TestsOf(suite)
      BY <2>1
    <2>3. suite \in Keeper \cup {"base"} /\ Tables
      BY DEF IInv
    <2>4. "none" \notin TestsOf(suite)
      BY <2>3 DEF TestsOf, Keeper
    <2> QED BY <2>2, <2>3, <2>4
  <1>5. CASE Ended(program) # "none"
    <2>1. test' = "none"
      BY <1>1, <1>5 DEF Begin, val_report_status
    <2>2. Regained'
      BY <1>2, SameRegained
    <2> QED BY <1>2, <1>3, <2>1, <2>2 DEF InOrder, Undone, StateRestored, Restoring, Regranting
  <1>6. CASE Ended(program) = "none"
    <2>1. test' = t /\ steps' = program
      BY <1>1, <1>6 DEF Begin
    <2>2. ~Skipped(program)
      BY <1>6 DEF Skipped, Ended
    <2>3. t \in Restoring /\ ~Exempt' => PutBack(program, Settings', before')
      <3>1. CASE t \in Restoring \ {"c017"}
        <4>1. suite \in Keeper
          BY <1>4, <3>1 DEF TestsOf, Restoring
        <4>2. Asking(program)
          BY <1>4, <2>2, <3>1, <4>1, Beginnings DEF Keeper
        <4> QED BY <1>2, <4>2, AskingPutsBack
      <3>2. CASE t = "c017" /\ ~Exempt'
        <4>1. suite = "clock"
          BY <1>4, <3>2 DEF TestsOf, Keeper
        <4>2. program = ClockTests!TestC017
          BY <3>2, <4>1 DEF ProgramOf, ClockTests!Program
        <4>3. TogglesBack
          BY <1>1, <2>1, <3>2, <4>1 DEF Exempt
        <4> QED BY <1>1, <1>2, <2>2, <4>2, <4>3 DEF TogglesBack
      <3> QED BY <3>1, <3>2
    <2>4. t \in Regranting => GivesAccess(program, Settings', before')
      <3> SUFFICES ASSUME t \in Regranting PROVE GivesAccess(program, Settings', before')
        OBVIOUS
      <3>1. suite = "base"
        BY <1>4 DEF TestsOf, Regranting, Keeper
      <3>2. RegrantingProgram(program)
        BY <2>2, <3>1, RegrantingBegins
      <3> QED BY <1>2, <3>2 DEF GivesAccess, AccessOnly
    <2>5. Undone'
      BY <1>2, <2>1, <2>3, <2>4 DEF Undone
    <2>6. StateRestored'
      BY <1>4, <2>1 DEF StateRestored
    <2> QED BY <1>2, <1>3, <2>5, <2>6 DEF InOrder
  <1> QED BY <1>5, <1>6

\* A step of a test that leaves the rest in order.
LEMMA OverOrOn ==
  ASSUME Shapes', BeforeOK', test # "none",
         \/ /\ test' = "none"
            /\ \/ last'.verdict = "FAIL" \/ Regained' \/ last'.test \in {"m024", "v009"}
               \/ last'.test = "c017" /\ "clock" \in faulted'
         \/ /\ test' = test
            /\ test \in Restoring => Exempt' \/ PutBack(steps', Settings', before')
            /\ test \in Regranting => GivesAccess(steps', Settings', before')
            /\ test \notin Moving => Settings' = before'
  PROVE  InOrder'
  <1>1. "none" \notin Restoring \cup Regranting
    BY DEF Restoring, Regranting
  <1>2. CASE test' = "none"
    <2>1. last'.verdict = "FAIL" => last'.verdict \notin {"PASS", "SKIP"}
      OBVIOUS
    <2> QED BY <1>1, <1>2, <2>1 DEF InOrder, Undone, StateRestored
  <1>3. CASE test' # "none"
    BY <1>1, <1>3 DEF InOrder, Undone, StateRestored
  <1> QED BY <1>2, <1>3

\* Three tests leave settings as they should not, or do not know better.
LEMMA ExcusedInOrder ==
  ASSUME Shapes', BeforeOK', test # "none", test' = test \/ (test' = "none" /\ last'.test = test),
         test \in {"m024", "v009"} \/ (test = "c017" /\ "clock" \in faulted')
  PROVE  InOrder'
  <1>1. test \notin Regranting /\ test \in Moving /\ (test \in Restoring => test = "c017")
    BY DEF Moving, Regranting, Restoring
  <1>2. test' = test /\ test \in Restoring => Exempt'
    BY <1>1 DEF Exempt
  <1> QED BY <1>1, <1>2, OverOrOn

\* An answered command.
LEMMA ExchangeInOrder ==
  ASSUME IInv, InOrder, Exchange
  PROVE  InOrder'
  <1> PICK s : s = Head(steps)
    OBVIOUS
  <1> PICK r : r = Answered(s)
    OBVIOUS
  <1>1. /\ test # "none" /\ s.kind # "receive" /\ Execute(s) /\ Take(r) /\ before' = before
        /\ faulted' = faulted
    BY DEF Exchange
  <1>2. Shapes /\ BeforeOK /\ Undone
    BY DEF InOrder
  <1>3. Shapes'
    BY <1>1, <1>2, InProgress, ShapesKept DEF IInv
  <1>4. BeforeOK'
    BY <1>1, <1>2, BeforeKept
  <1>5. test' = test \/ (test' = "none" /\ last'.test = test)
    BY <1>1, OnOrOver
  <1>6. CASE test \in {"m024", "v009"} \/ Exempt
    BY <1>1, <1>3, <1>4, <1>5, <1>6, ExcusedInOrder DEF Exempt
  <1>7. CASE test \in Restoring /\ ~Exempt
    <2>1. test \in Moving /\ test \notin Regranting
      BY <1>7 DEF Moving, Restoring, Regranting
    <2>2. PutBack(steps, Settings, before)
      BY <1>2, <1>7 DEF Undone
    <2> QED BY <1>1, <1>2, <1>3, <1>4, <1>7, <2>1, <2>2, ExchangeRestores, OverOrOn
  <1>8. CASE test \in Regranting
    <2>1. test \in Moving /\ test \notin Restoring
      BY <1>8 DEF Moving, Restoring, Regranting
    <2>2. GivesAccess(steps, Settings, before)
      BY <1>2, <1>8 DEF Undone
    <2> QED BY <1>1, <1>2, <1>3, <1>4, <1>8, <2>1, <2>2, ExchangeRegrants, OverOrOn
  <1>9. CASE test \notin Moving
    <2>1. test \notin Restoring \cup Regranting
      BY <1>9 DEF Moving
    <2>2. Settings = before
      BY <1>1, <1>2, <1>9 DEF Undone
    <2>3. Settings' = before' \/ (test' = "none" /\ last'.verdict = "FAIL")
      BY <1>1, <1>2, <1>9, <2>2, Quiet
    <2>4. test' = "none" /\ Settings' = before' => Regained'
      BY SameRegained
    <2> QED BY <1>1, <1>3, <1>4, <1>5, <2>1, <2>3, <2>4, OverOrOn
  <1> QED BY <1>6, <1>7, <1>8, <1>9 DEF Moving

\* A message that comes.
LEMMA ReceiveInOrder ==
  ASSUME IInv, InOrder, ReceiveMessage
  PROVE  InOrder'
  <1>1. /\ test # "none" /\ before' = before /\ faulted' = faulted /\ UNCHANGED settingVars
        /\ \E r : Take(r)
    BY DEF ReceiveMessage, platformVars, settingVars
  <1>2. Shapes /\ BeforeOK /\ Undone
    BY DEF InOrder
  <1>3. Shapes' /\ Settings' = Settings
    BY <1>1, <1>2, SettingsKept
  <1>4. BeforeOK'
    BY <1>1, <1>2, BeforeKept
  <1>5. test' = test \/ (test' = "none" /\ last'.test = test)
    BY <1>1, OnOrOver
  <1>6. CASE test \in {"m024", "v009"} \/ Exempt
    BY <1>1, <1>3, <1>4, <1>5, <1>6, ExcusedInOrder DEF Exempt
  <1>7. CASE test \in Restoring /\ ~Exempt
    <2>1. test \in Moving /\ test \notin Regranting
      BY <1>7 DEF Moving, Restoring, Regranting
    <2>2. PutBack(steps, Settings, before)
      BY <1>2, <1>7 DEF Undone
    <2> QED BY <1>1, <1>2, <1>3, <1>4, <1>7, <2>1, <2>2, ReceiveRestores, OverOrOn
  <1>8. CASE test \in Regranting
    BY <1>2, <1>8, NoneReceived DEF Undone
  <1>9. CASE test \notin Moving
    <2>1. test \notin Restoring \cup Regranting
      BY <1>9 DEF Moving
    <2>2. Settings' = before'
      BY <1>1, <1>2, <1>3, <1>9 DEF Undone
    <2>3. test' = "none" => Regained'
      BY <2>2, SameRegained
    <2> QED BY <1>1, <1>3, <1>4, <1>5, <2>1, <2>2, <2>3, OverOrOn
  <1> QED BY <1>6, <1>7, <1>8, <1>9 DEF Moving

\* An exchange that goes wrong.
LEMMA FaultyInOrder ==
  ASSUME IInv, InOrder, LoseCommand \/ LeaveUnanswered \/ Refuse
  PROVE  InOrder'
  <1> PICK s : s = Head(steps)
    OBVIOUS
  <1>1. Shapes /\ BeforeOK /\ Undone
    BY DEF InOrder
  <1>2. /\ test # "none" /\ suite' = suite /\ before' = before /\ Shapes'
        /\ \/ test' = "none" /\ last'.verdict = "FAIL"
           \/ s.kind \notin {"check", "receive"} /\ Settings' = Settings
              /\ (test' = test \/ (test' = "none" /\ last'.test = test))
    BY <1>1, Faulty
  <1>3. faulted \subseteq faulted'
    BY DEF LoseCommand, LeaveUnanswered, Refuse, Fault
  <1>4. BeforeOK'
    BY <1>1, <1>2, BeforeKept
  <1>5. CASE test' = "none" /\ last'.verdict = "FAIL"
    BY <1>2, <1>4, <1>5, OverOrOn
  <1>6. CASE s.kind \notin {"check", "receive"} /\ Settings' = Settings
              /\ (test' = test \/ (test' = "none" /\ last'.test = test))
    <2>1. CASE test \in {"m024", "v009"} \/ Exempt
      BY <1>2, <1>3, <1>4, <1>6, <2>1, ExcusedInOrder DEF Exempt
    <2>2. CASE test \in Restoring /\ ~Exempt
      <3>1. PutBack(steps, Settings, before)
        BY <1>1, <2>2 DEF Undone
      <3>2. s = steps[1] /\ 1 \in DOMAIN steps
        BY <1>2, InProgress
      <3> QED BY <1>6, <3>1, <3>2 DEF PutBack, RestorableProgram, Restorable
    <2>3. CASE test \in Regranting
      <3>1. test \in Moving /\ test \notin Restoring
        BY <2>3 DEF Moving, Restoring, Regranting
      <3>2. GivesAccess(steps, Settings, before)
        BY <1>1, <2>3 DEF Undone
      <3> QED BY <1>1, <1>2, <1>4, <2>3, <3>1, <3>2, FaultyRegrants, OverOrOn
    <2>4. CASE test \notin Moving
      <3>1. test \notin Restoring \cup Regranting
        BY <2>4 DEF Moving
      <3>2. Settings' = before'
        BY <1>1, <1>2, <1>6, <2>4 DEF Undone
      <3>3. test' = "none" => Regained'
        BY <3>2, SameRegained
      <3> QED BY <1>2, <1>4, <1>6, <3>1, <3>2, <3>3, OverOrOn
    <2> QED BY <2>1, <2>2, <2>3, <2>4 DEF Moving
  <1> QED BY <1>2, <1>5, <1>6

\* Between tests nothing changes.
LEMMA RestInOrder ==
  ASSUME IInv, InOrder, NextSuite \/ UNCHANGED vars
  PROVE  InOrder'
  <1>1. UNCHANGED <<test, steps, last, before, faulted, notifying>> /\ UNCHANGED settingVars
    BY DEF NextSuite, vars, engineVars, platformVars, settingVars
  <1>2. Shapes /\ BeforeOK /\ Undone /\ StateRestored
    BY DEF InOrder
  <1>3. Shapes' /\ Settings' = Settings /\ BeforeOK'
    BY <1>1, <1>2, SettingsKept, BeforeKept
  <1>4. Undone'
    BY <1>1, <1>2, <1>3 DEF Undone, Exempt
  <1>5. Regained' <=> Regained
    BY <1>1, <1>3 DEF Regained, settingVars
  <1>6. StateRestored'
    BY <1>1, <1>2, <1>5 DEF StateRestored
  <1> QED BY <1>3, <1>4, <1>6 DEF InOrder

\* At the start all is as it was found.
LEMMA StartInOrder == Init => InOrder
  <1> SUFFICES ASSUME Init PROVE InOrder
    OBVIOUS
  <1>1. test = "none" /\ last.verdict = "none" /\ before = Settings
    BY DEF Init, SuiteInit, EngineInit
  <1>2. Shapes
    <2>1. \A d \in DOMAIN device_access : device_access[d] = TRUE
      BY DEF Init, BaseHandler!Init, BaseHandler!AccessDevice
    <2>2. /\ DOMAIN max_limit = PerformanceHandler!DomainId
          /\ DOMAIN min_limit = PerformanceHandler!DomainId
          /\ DOMAIN current = PerformanceHandler!DomainId
      BY DEF Init, PerformanceHandler!Init, PerformanceHandler!PerformanceInit
    <2>3. /\ DOMAIN clock_rate = ClockHandler!ClockId
          /\ clock_status = [c \in ClockHandler!ClockId |-> ClockStart]
      BY DEF Init
    <2>4. clock_status = [c \in ClockHandler!ClockId |-> clock_status[c]]
      BY <2>3
    <2>5. /\ voltage_level = [d \in VoltageHandler!VoltageDomain |-> voltage_level[d]]
          /\ voltage_mode = [d \in VoltageHandler!VoltageDomain |-> voltage_mode[d]]
      BY DEF Init, VoltageHandler!VoltageInit
    <2> QED BY <2>1, <2>2, <2>3, <2>4, <2>5 DEF Shapes
  <1>3. BeforeOK
    BY <1>1, <1>2, SettingsFound DEF BeforeOK
  <1>4. Undone /\ StateRestored
    BY <1>1 DEF Undone, StateRestored, Restoring, Regranting
  <1> QED BY <1>2, <1>3, <1>4 DEF InOrder

-----------------------------------------------------------------------------
(* c017 when nothing went wrong: it puts each clock to the state c005 kept. *)

\* Whether clock c is enabled is known of each clock there is to try.
ClockCount == 0..(table.clock.clocks - 1)
Known(c) == ClockTests!Row(c).enabled = clock_status[c]
AllKnown == \A c \in ClockCount : Known(c)

\* A program that has put a clock elsewhere puts it back later.
Toggles(q) ==
  \A x : \A j \in DOMAIN q :
    Put("clocks", x, q[j]) =>
      \E i \in DOMAIN q : /\ j <= i /\ Put("clocks", x, q[i])
                          /\ Value("clocks", q[i]) = clock_status[x]

\* One after the other so do both.
LEMMA TogglesBoth ==
  ASSUME NEW U, NEW a \in Seq(U), NEW b \in Seq(U), Toggles(a), Toggles(b)
  PROVE  Toggles(a \o b)
  <1> PICK q : q = a \o b
    OBVIOUS
  <1>1. /\ DOMAIN q = 1..(Len(a) + Len(b)) /\ DOMAIN a = 1..Len(a) /\ DOMAIN b = 1..Len(b)
        /\ Len(a) \in Nat /\ Len(b) \in Nat
    BY LenProperties
  <1>2. /\ \A i \in DOMAIN a : i \in DOMAIN q /\ q[i] = a[i]
        /\ \A i \in DOMAIN b : i + Len(a) \in DOMAIN q /\ q[i + Len(a)] = b[i]
        /\ \A i \in DOMAIN q : i \in DOMAIN a \/ i - Len(a) \in DOMAIN b
    BY <1>1
  <1>3. SUFFICES ASSUME NEW x, NEW j \in DOMAIN q, Put("clocks", x, q[j])
                 PROVE  \E i \in DOMAIN q : /\ j <= i /\ Put("clocks", x, q[i])
                                            /\ Value("clocks", q[i]) = clock_status[x]
    BY DEF Toggles
  <1>4. CASE j \in DOMAIN a
    <2>1. PICK i \in DOMAIN a : /\ j <= i /\ Put("clocks", x, a[i])
                                /\ Value("clocks", a[i]) = clock_status[x]
      BY <1>2, <1>3, <1>4 DEF Toggles
    <2> QED BY <1>2, <2>1
  <1>5. CASE j - Len(a) \in DOMAIN b
    <2>1. q[j] = b[j - Len(a)]
      <3>1. (j - Len(a)) + Len(a) = j
        BY <1>1
      <3> QED BY <1>2, <1>5, <3>1
    <2>2. PICK i \in DOMAIN b : /\ j - Len(a) <= i /\ Put("clocks", x, b[i])
                                /\ Value("clocks", b[i]) = clock_status[x]
      BY <1>3, <1>5, <2>1 DEF Toggles
    <2>3. j <= i + Len(a)
      BY <1>1, <2>2
    <2> QED BY <1>2, <2>2, <2>3
  <1> QED BY <1>2, <1>4, <1>5

\* A known clock is toggled and put back.
LEMMA KnownToggles ==
  ASSUME NEW c, Known(c)
  PROVE  LET q == ClockTests!ToggleClock(c)
         IN /\ q = <<q[1], q[2], q[3]>> /\ DOMAIN q = 1..3 /\ Toggles(q)
            /\ \A i \in DOMAIN q :
                 /\ Restorable(q[i]) /\ ~Finding(q[i])
                 /\ \A k, x : Put(k, x, q[i]) => k = "clocks" /\ x = c
  <1> PICK v : v = ClockTests!Row(c).enabled
    OBVIOUS
  <1> PICK z1 : z1 = ClockTests!ConfigSet(c, ClockTests!Toggled(v), ClockTests!SCMI_SUCCESS)
    OBVIOUS
  <1> PICK z2 : z2 = ClockTests!ClockValue(ClockTests!CLOCK_ATTRIBUTES, <<c>>,
                       [reserved |-> 0, enabled |-> ClockTests!Toggled(v)])
    OBVIOUS
  <1> PICK z3 : z3 = ClockTests!ConfigSet(c, v, ClockTests!SCMI_SUCCESS)
    OBVIOUS
  <1>1. ClockTests!ToggleClock(c) = <<z1, z2, z3>>
    BY Zenon DEF ClockTests!ToggleClock
  <1> PICK q : q = <<z1, z2, z3>>
    OBVIOUS
  <1>2. /\ IsStep(z1, "check", PROTOCOL_CLOCK, CLOCK_CONFIG_SET, <<c, ClockTests!Toggled(v)>>,
                  SCMI_SUCCESS, "nothing")
        /\ IsStep(z3, "check", PROTOCOL_CLOCK, CLOCK_CONFIG_SET, <<c, v>>, SCMI_SUCCESS, "nothing")
    BY ClockFields, Zenon
  <1>3. IsStep(z2, "check", PROTOCOL_CLOCK, CLOCK_ATTRIBUTES, <<c>>, SCMI_SUCCESS, "nothing")
    BY ClockFields, ClockIds, Zenon
  <1>4. \A z \in {z1, z2, z3} : Restorable(z) /\ ~Finding(z)
    <2>1. Restorable(z1) /\ Restorable(z2) /\ Restorable(z3)
      BY <1>2, <1>3, ClockIds, RestorableStep
    <2>2. ~Finding(z1) /\ ~Finding(z2) /\ ~Finding(z3)
      BY <1>2, <1>3 DEF IsStep, Finding
    <2> QED BY <2>1, <2>2
  <1>5. \A k, x : /\ Put(k, x, z1) <=> k = "clocks" /\ x = c
                  /\ Put(k, x, z3) <=> k = "clocks" /\ x = c
                  /\ ~Put(k, x, z2)
    <2> TAKE k, x
    <2>1. <<c, v>>[1] = c /\ <<c, ClockTests!Toggled(v)>>[1] = c
      OBVIOUS
    <2>2. Put(k, x, z1) <=> k = "clocks" /\ x = c
      BY <1>2, <2>1, ClockPuts DEF IsStep
    <2>3. Put(k, x, z3) <=> k = "clocks" /\ x = c
      BY <1>2, <2>1, ClockPuts DEF IsStep
    <2>4. ~Put(k, x, z2)
      BY <1>3, ClockIds, ClockPuts DEF IsStep
    <2> QED BY <2>2, <2>3, <2>4
  <1>6. Value("clocks", z3) = clock_status[c]
    BY <1>2 DEF Value, IsStep, Known
  <1>7. Len(q) = 3 /\ DOMAIN q = 1..3 /\ q[1] = z1 /\ q[2] = z2 /\ q[3] = z3
    OBVIOUS
  <1>8. Toggles(q)
    <2> SUFFICES ASSUME NEW x, NEW j \in DOMAIN q, Put("clocks", x, q[j])
                 PROVE  \E i \in DOMAIN q : /\ j <= i /\ Put("clocks", x, q[i])
                                            /\ Value("clocks", q[i]) = clock_status[x]
      BY DEF Toggles
    <2>1. j \in 1..3 /\ x = c
      BY <1>5, <1>7
    <2>2. 3 \in DOMAIN q /\ j <= 3
      BY <1>7, <2>1
    <2> QED BY <1>5, <1>6, <1>7, <2>1, <2>2
  <1>9. \A i \in DOMAIN q : q[i] \in {z1, z2, z3}
    BY <1>7
  <1>10. q = <<q[1], q[2], q[3]>>
    BY <1>7
  <1> QED BY <1>1, <1>4, <1>5, <1>7, <1>8, <1>9, <1>10

\* c017 puts all clocks back if it knows how they are.
LEMMA KnownTogglesBack ==
  ASSUME Tables, AllKnown
  PROVE  TogglesBack
  <1> PICK n : n = table.clock.clocks
    OBVIOUS
  <1>1. n \in Nat
    BY TablesAssumption DEF Tables, Keeper, TableOf, ClockTable
  <1> DEFINE toggle == [i \in 1..n |-> ClockTests!ToggleClock(i - 1)]
             U == UNION {{toggle[i][j] : j \in 1..3} : i \in 1..n}
             ss == [i \in 1..n |-> IF i - 1 \notin ExpectedClock(clock).fixed
                                   THEN ClockTests!ToggleClock(i - 1) ELSE <<>>]
             S == [i \in 0..n |-> {q \in Seq(U) : Toggles(q)}]
  <1>2. ASSUME NEW i \in 1..n
        PROVE  /\ toggle[i] = <<toggle[i][1], toggle[i][2], toggle[i][3]>>
               /\ Toggles(toggle[i])
               /\ \A j \in 1..3 :
                    /\ Restorable(toggle[i][j]) /\ ~Finding(toggle[i][j])
                    /\ \A k, x : Put(k, x, toggle[i][j]) => k = "clocks"
    <2>1. toggle[i] = ClockTests!ToggleClock(i - 1)
      OBVIOUS
    <2>2. Known(i - 1)
      BY <1>1 DEF AllKnown, ClockCount
    <2> HIDE DEF toggle
    <2> QED BY <2>1, <2>2, KnownToggles
  <1>3. \A z \in U : Restorable(z) /\ ~Finding(z) /\ \A k, x : Put(k, x, z) => k = "clocks"
    <2> HIDE DEF toggle
    <2> TAKE z \in U
    <2>1. PICK i \in 1..n : \E j \in 1..3 : z = toggle[i][j]
      OBVIOUS
    <2> QED BY <1>2, <2>1
  <1>4. \A i \in 1..n : ss[i] \in Seq(U) /\ Toggles(ss[i])
    <2> TAKE i \in 1..n
    <2>1. toggle[i][1] \in U /\ toggle[i][2] \in U /\ toggle[i][3] \in U
      OBVIOUS
    <2>2. ss[i] \in {toggle[i], <<>>}
      OBVIOUS
    <2> HIDE DEF U, toggle, ss
    <2>3. <<toggle[i][1], toggle[i][2], toggle[i][3]>> \in Seq(U) /\ <<>> \in Seq(U)
      BY <2>1
    <2>4. Toggles(<<>>)
      BY DEF Toggles
    <2> QED BY <1>2, <2>2, <2>3, <2>4
  <1>5. Len(ss) = n /\ ss \in Seq(Seq(U))
    <2>1. ss = [i \in 1..n |-> ss[i]]
      OBVIOUS
    <2> HIDE DEF ss, U
    <2> QED BY <1>1, <1>4, <2>1
  <1>6. <<>> \in S[0] /\ S[n] = {q \in Seq(U) : Toggles(q)}
        /\ \A i \in 1..n : S[i - 1] = S[i] /\ S[i] = {q \in Seq(U) : Toggles(q)}
    <2>1. Toggles(<<>>)
      BY DEF Toggles
    <2>2. \A i \in 1..n : i - 1 \in 0..n /\ i \in 0..n
      BY <1>1
    <2> HIDE DEF U
    <2> QED BY <1>1, <2>1, <2>2
  <1> HIDE DEF U, ss, S
  <1>7. \A i \in 1..Len(ss) : \A q \in S[i - 1] : q \o ss[i] \in S[i]
    BY <1>4, <1>5, <1>6, TogglesBoth, ConcatProperties
  <1>8. Lists!FlattenSeq(ss) \in Seq(U) /\ Toggles(Lists!FlattenSeq(ss))
    <2>1. Lists!FlattenSeq(ss) \in S[Len(ss)]
      BY <1>5, <1>6, <1>7, FlattenInto
    <2> QED BY <1>5, <1>6, <2>1
  <1> PICK q : q = Lists!FlattenSeq(ss)
    OBVIOUS
  <1>9. PutBack(q, Settings, Settings)
    <2>1. \A i \in DOMAIN q : q[i] \in U
      BY <1>8
    <2>2. RestorableProgram(q)
      BY <1>3, <2>1 DEF RestorableProgram
    <2>3. ASSUME NEW k, NEW x, Setting(k, x)
          PROVE  Ends(k, x, q, Found(k, x, Settings), Found(k, x, Settings))
      <3>1. CASE k = "clocks"
        <4>1. Found(k, x, Settings) = clock_status[x]
          BY <3>1, FoundNow
        <4>2. ASSUME NEW i \in DOMAIN q, Put(k, x, q[i]),
                     \A j \in DOMAIN q : Put(k, x, q[j]) => j <= i
              PROVE  Value(k, q[i]) = clock_status[x]
          <5>1. PICK j \in DOMAIN q : /\ i <= j /\ Put("clocks", x, q[j])
                                      /\ Value("clocks", q[j]) = clock_status[x]
            BY <1>8, <3>1, <4>2 DEF Toggles
          <5>2. j <= i
            BY <3>1, <4>2, <5>1
          <5>3. i \in Nat /\ j \in Nat
            BY <1>8
          <5>4. i = j
            BY <5>1, <5>2, <5>3
          <5> QED BY <3>1, <5>1, <5>4
        <4> QED BY <4>1, <4>2 DEF Ends, Within
      <3>2. CASE k # "clocks"
        BY <1>3, <2>1, <3>2 DEF Ends, Within
      <3> QED BY <3>1, <3>2
    <2> QED BY <2>2, <2>3 DEF PutBack
  <1>10. ClockTests!TestC017 = ClockTests!IfClocks(ClockTests!WhenAny(q))
    <2>1. ClockTests!Lists!FlattenSeq(ss) = Lists!FlattenSeq(ss)
      BY DEF ClockTests!Lists!FlattenSeq, Lists!FlattenSeq
    <2> QED BY <2>1 DEF ss, ClockTests!TestC017, ClockTests!ForCapable, ClockTests!ForEach
  <1>11. Skipped(<<ClockTests!Skip>>)
    <2>1. ClockTests!Skip.kind = "skip" /\ ClockTests!Skip.learn = "nothing"
      BY DEF ClockTests!Skip, ClockTests!Ask
    <2> QED BY <2>1 DEF Skipped
  <1> QED BY <1>9, <1>10, <1>11
     DEF TogglesBack, ClockTests!IfClocks, ClockTests!IfSome, ClockTests!WhenAny

-----------------------------------------------------------------------------
(* What an answer makes of the table of clocks.                            *)

EnabledIn(t, c) == IF c \in DOMAIN t.row THEN t.row[c].enabled ELSE 0

\* How many clocks there are and whether they are enabled change only with the
\* answers that tell it.
LEMMA LearnsEnabled ==
  ASSUME ClockTable(table.clock), NEW s, NEW v
  PROVE  LET t == LearnedOf("clock", s, v)
         IN /\ s.learn # "attributes" => t.clocks = table.clock.clocks
            /\ s.learn # "attribute" => \A x : EnabledIn(t, x) = EnabledIn(table.clock, x)
            /\ s.learn = "attribute" /\ v.reserved = 0 =>
                 \A x : EnabledIn(t, x) = IF x = s.args[1] THEN v.enabled
                                          ELSE EnabledIn(table.clock, x)
  <1> PICK info0 : info0 = table.clock
    OBVIOUS
  <1> PICK c : c = s.args[1]
    OBVIOUS
  <1> DEFINE t == LearnedOf("clock", s, v)
             row == ClockTests!Row(c)
  <1>1. DOMAIN info0 = {"clocks", "async", "row"}
    BY DEF ClockTable
  <1>2. /\ DOMAIN row = {"enabled", "lowest", "highest"}
        /\ row.enabled = EnabledIn(info0, c)
    BY DEF ClockTable, ClockRow, ClockTests!Row, ClockTests!NoRow, EnabledIn
  <1>3. t = ClockTests!Learned(s, v)
    BY DEF LearnedOf
  <1>4. ASSUME NEW new
        PROVE  LET u == ClockTests!WithRow(c, new)
               IN /\ u.clocks = info0.clocks
                  /\ \A x : EnabledIn(u, x) = IF x = c THEN new.enabled ELSE EnabledIn(info0, x)
    <2> PICK u : u = ClockTests!WithRow(c, new)
      OBVIOUS
    <2>1. u.clocks = info0.clocks
          /\ u.row = [x \in DOMAIN info0.row \cup {c} |-> IF x = c THEN new ELSE info0.row[x]]
      BY <1>1 DEF ClockTests!WithRow
    <2> QED BY <2>1 DEF EnabledIn
  <1> PICK row1 : row1 = row
    OBVIOUS
  <1>5. ASSUME NEW a, NEW b
        PROVE  [row1 EXCEPT !.lowest = a, !.highest = b].enabled = row1.enabled
    BY <1>2
  <1>6. ASSUME NEW a PROVE [row1 EXCEPT !.enabled = a].enabled = a
    BY <1>2
  <1>7. CASE s.learn = "attributes"
    <2>1. \/ t = info0
          \/ t = [info0 EXCEPT !.clocks = v.clocks, !.async = v.async]
      BY <1>3, <1>7 DEF ClockTests!Learned
    <2> HIDE DEF t
    <2>2. t.row = info0.row
      BY <1>1, <2>1
    <2> QED BY <1>7, <2>2 DEF t, EnabledIn
  <1>8. CASE s.learn = "attribute"
    <2>1. v.reserved = 0 => t = ClockTests!WithRow(c, [row1 EXCEPT !.enabled = v.enabled])
      BY <1>3, <1>8 DEF ClockTests!Learned
    <2>2. v.reserved # 0 => t = info0
      BY <1>3, <1>8 DEF ClockTests!Learned
    <2> HIDE DEF t
    <2>3. t.clocks = info0.clocks
      BY <1>4, <2>1, <2>2
    <2>4. v.reserved = 0 =>
            \A x : EnabledIn(t, x) = IF x = c THEN v.enabled ELSE EnabledIn(info0, x)
      <3> SUFFICES ASSUME v.reserved = 0
                   PROVE  \A x : EnabledIn(t, x) = IF x = c THEN v.enabled
                                                   ELSE EnabledIn(info0, x)
        OBVIOUS
      <3> PICK new : new = [row1 EXCEPT !.enabled = v.enabled]
        OBVIOUS
      <3>1. new.enabled = v.enabled
        BY <1>6
      <3>2. t = ClockTests!WithRow(c, new)
        BY <2>1
      <3>3. \A x : EnabledIn(t, x) = IF x = c THEN new.enabled ELSE EnabledIn(info0, x)
        BY <1>4, <3>2
      <3> QED BY <3>1, <3>3
    <2> QED BY <1>8, <2>3, <2>4 DEF t
  <1>9. CASE s.learn = "rates"
    <2>1. \/ t = info0
          \/ \E a, b : t = ClockTests!WithRow(c, [row1 EXCEPT !.lowest = a, !.highest = b])
      BY <1>3, <1>9 DEF ClockTests!Learned, ClockTests!LearnRates
    <2> HIDE DEF t
    <2>2. t.clocks = info0.clocks /\ \A x : EnabledIn(t, x) = EnabledIn(info0, x)
      <3>1. CASE t = info0
        BY <3>1
      <3>2. ASSUME NEW a, NEW b,
                   t = ClockTests!WithRow(c, [row1 EXCEPT !.lowest = a, !.highest = b])
            PROVE  t.clocks = info0.clocks /\ \A x : EnabledIn(t, x) = EnabledIn(info0, x)
        <4> PICK new : new = [row1 EXCEPT !.lowest = a, !.highest = b]
          OBVIOUS
        <4>1. new.enabled = EnabledIn(info0, c)
          BY <1>2, <1>5
        <4>2. t = ClockTests!WithRow(c, new)
          BY <3>2
        <4> QED BY <1>4, <4>1, <4>2
      <3> QED BY <2>1, <3>1, <3>2
    <2> QED BY <1>9, <2>2 DEF t
  <1>10. CASE s.learn \notin {"attributes", "attribute", "rates"}
    <2>1. t = info0
      BY <1>3, <1>10 DEF ClockTests!Learned
    <2> QED BY <1>10, <2>1
  <1> QED BY <1>7, <1>8, <1>9, <1>10

-----------------------------------------------------------------------------
(* c005 finds the state of every clock.                                    *)

\* A step that asks whether clock c is enabled, and keeps it.
AsksState(s, c) ==
  /\ s.kind = "check" /\ s.proto = PROTOCOL_CLOCK /\ s.msg = CLOCK_ATTRIBUTES /\ s.args = <<c>>
  /\ s.expect = SCMI_SUCCESS /\ s.learn = "attribute" /\ s.want = [reserved |-> 0]

\* What is left of c005 asks for all clocks that are not known yet.
Finds(q) ==
  /\ \A i \in DOMAIN q : \E c \in ClockCount : AsksState(q[i], c)
  /\ \A c \in ClockCount : Known(c) \/ \E i \in DOMAIN q : AsksState(q[i], c)

\* A function on 1..n is a sequence.
LEMMA SequenceOf ==
  ASSUME NEW n \in Nat, NEW V, NEW f, f = [i \in 1..n |-> f[i]], \A i \in 1..n : f[i] \in V
  PROVE  Len(f) = n /\ f \in Seq(V)
  <1>1. f \in [1..n -> V]
    OBVIOUS
  <1> QED BY <1>1

\* c005 asks for every clock, or there is none.
LEMMA FindsAll ==
  ASSUME Tables
  PROVE  LET q == ClockTests!TestC005
         IN IF Ended(q) = "none" THEN Finds(q) ELSE ClockCount = {}
  <1> PICK n : n = table.clock.clocks
    OBVIOUS
  <1>1. n \in Nat
    BY TablesAssumption DEF Tables, Keeper, TableOf, ClockTable
  <1>2. CASE n = 0
    <2>1. ClockTests!TestC005 = <<ClockTests!Skip>>
      BY <1>2 DEF ClockTests!TestC005, ClockTests!IfClocks, ClockTests!IfSome
    <2>2. ClockTests!Skip.kind = "skip"
      BY DEF ClockTests!Skip, ClockTests!Ask
    <2>3. \A z : z.kind = "skip" => Ended(<<z>>) # "none"
      BY DEF Ended
    <2>4. ClockCount = {}
      BY <1>2 DEF ClockCount
    <2> QED BY <2>1, <2>2, <2>3, <2>4
  <1>3. CASE n # 0
    <2> DEFINE z == [i \in 1..n |->
                       [ClockTests!ClockValue(ClockTests!CLOCK_ATTRIBUTES, <<i - 1>>,
                                              [reserved |-> 0]) EXCEPT !.learn = "attribute"]]
               U == {z[i] : i \in 1..n}
               ss == [i \in 1..n |-> <<z[i]>>]
               S == [i \in 0..n |->
                       {q \in Seq(U) :
                          \A c \in 0..(i - 1) : \E j \in DOMAIN q : AsksState(q[j], c)}]
    <2>1. ASSUME NEW i \in 1..n PROVE AsksState(z[i], i - 1)
      <3>1. \A a : AsksState([ClockTests!ClockValue(ClockTests!CLOCK_ATTRIBUTES, <<a>>,
                                              [reserved |-> 0]) EXCEPT !.learn = "attribute"], a)
        BY ClockIds DEF AsksState, ClockTests!ClockValue, ClockTests!AskValue, ClockTests!Ask,
           ClockTests!SCMI_SUCCESS, SCMI_SUCCESS, PROTOCOL_CLOCK, ClockTests!PROTOCOL_CLOCK
      <3>2. z[i] = [ClockTests!ClockValue(ClockTests!CLOCK_ATTRIBUTES, <<i - 1>>,
                                              [reserved |-> 0]) EXCEPT !.learn = "attribute"]
        OBVIOUS
      <3> HIDE DEF z
      <3> QED BY <3>1, <3>2, Zenon
    <2> HIDE DEF z
    <2>2. \A i \in 1..n : z[i] \in U
      OBVIOUS
    <2>3. Len(ss) = n /\ ss \in Seq(Seq(U)) /\ \A i \in 1..n : ss[i] = <<z[i]>>
      <3>1. ss = [i \in 1..n |-> ss[i]] /\ \A i \in 1..n : ss[i] = <<z[i]>>
        OBVIOUS
      <3> HIDE DEF U, ss
      <3>2. \A y \in U : <<y>> \in Seq(U)
        OBVIOUS
      <3>3. \A i \in 1..n : ss[i] \in Seq(U)
        BY <2>2, <3>1, <3>2
      <3>4. ss = [i \in 1..n |-> ss[i]]
        BY <3>1
      <3>5. Len(ss) = n /\ ss \in Seq(Seq(U))
        BY <1>1, <3>3, <3>4, SequenceOf
      <3> QED BY <3>1, <3>5
    <2>4. \A y \in U : \E i \in 1..n : y = z[i]
      OBVIOUS
    <2> HIDE DEF U, ss
    <2>5. <<>> \in S[0]
      BY <1>1
    <2>6. ASSUME NEW i \in 1..n, NEW q \in S[i - 1] PROVE q \o ss[i] \in S[i]
      <3>1. i - 1 \in 0..n /\ i \in 0..n
        BY <1>1
      <3>2. q \in Seq(U) /\ \A c \in 0..((i - 1) - 1) : \E j \in DOMAIN q : AsksState(q[j], c)
        BY <3>1
      <3> PICK r : r = q \o <<z[i]>>
        OBVIOUS
      <3>3. /\ r \in Seq(U) /\ Len(q) \in Nat
            /\ DOMAIN r = 1..(Len(q) + 1) /\ r[Len(q) + 1] = z[i]
            /\ \A j \in DOMAIN q : j \in DOMAIN r /\ r[j] = q[j]
        BY <2>2, <3>2
      <3>4. ASSUME NEW c \in 0..(i - 1)
            PROVE  \E j \in DOMAIN r : AsksState(r[j], c)
        <4>1. CASE c \in 0..((i - 1) - 1)
          BY <3>2, <3>3, <4>1
        <4>2. CASE c = i - 1
          <5>1. Len(q) + 1 \in DOMAIN r
            BY <3>3
          <5> QED BY <2>1, <3>3, <4>2, <5>1
        <4>3. c \in 0..((i - 1) - 1) \/ c = i - 1
          BY <1>1
        <4> QED BY <4>1, <4>2, <4>3
      <3> QED BY <2>3, <3>1, <3>3, <3>4
    <2>7. S[n] = {q \in Seq(U) : \A c \in 0..(n - 1) : \E j \in DOMAIN q : AsksState(q[j], c)}
      BY <1>1
    <2>8. \A i \in 1..Len(ss) : \A q \in S[i - 1] : q \o ss[i] \in S[i]
      BY <2>3, <2>6
    <2> HIDE DEF S
    <2> PICK q : q = Lists!FlattenSeq(ss)
      OBVIOUS
    <2>9. q \in Seq(U) /\ \A c \in 0..(n - 1) : \E j \in DOMAIN q : AsksState(q[j], c)
      <3>1. Lists!FlattenSeq(ss) \in S[Len(ss)]
        BY <2>3, <2>5, <2>8, FlattenInto
      <3> QED BY <2>3, <2>7, <3>1
    <2>10. ClockTests!TestC005 = q
      <3>1. ClockTests!Lists!FlattenSeq(ss) = Lists!FlattenSeq(ss)
        BY DEF ClockTests!Lists!FlattenSeq, Lists!FlattenSeq
      <3> QED BY <1>3, <3>1 DEF ss, z, ClockTests!TestC005, ClockTests!IfClocks, ClockTests!IfSome,
              ClockTests!ForEach
    <2>11. \A i \in DOMAIN q : \E c \in ClockCount : AsksState(q[i], c)
      <3> TAKE i \in DOMAIN q
      <3>1. q[i] \in U
        BY <2>9
      <3>2. PICK j \in 1..n : q[i] = z[j]
        BY <2>4, <3>1
      <3>3. j - 1 \in ClockCount
        BY <1>1 DEF ClockCount
      <3> QED BY <2>1, <3>2, <3>3
    <2>12. Finds(q)
      BY <2>9, <2>11 DEF Finds, ClockCount
    <2>13. Ended(q) = "none"
      <3>1. 0 \in 0..(n - 1)
        BY <1>1, <1>3
      <3>2. q # <<>> /\ 1 \in DOMAIN q /\ Head(q) = q[1]
        BY <2>9, <3>1
      <3>3. Head(q).kind = "check"
        BY <2>11, <3>2 DEF AsksState
      <3> QED BY <3>2, <3>3 DEF Ended
    <2> QED BY <2>10, <2>12, <2>13
  <1> QED BY <1>2, <1>3

\* What is known of a clock is what its row says.
LEMMA KnownIs ==
  /\ \A x : Known(x) <=> EnabledIn(table.clock, x) = clock_status[x]
  /\ \A x : Known(x)' <=> EnabledIn(table'.clock, x) = clock_status'[x]
  /\ ClockCount = 0..(table.clock.clocks - 1) /\ ClockCount' = 0..(table'.clock.clocks - 1)
  BY DEF Known, EnabledIn, ClockTests!Row, ClockTests!NoRow, ClockCount

\* The platform tells the state of a clock it has, and leaves it so.
LEMMA StateTold ==
  ASSUME Shapes, NEW s, NEW c \in ClockHandler!ClockId, AsksState(s, c), Execute(s)
  PROVE  LET r == Answered(s)
         IN /\ r.echo = TRUE /\ r.status = SCMI_SUCCESS
            /\ r.value = [reserved |-> 0, enabled |-> clock_status[c], name |-> c]
            /\ clock_status' = clock_status
  <1>1. s.proto = PROTOCOL_CLOCK /\ s.msg = CLOCK_ATTRIBUTES /\ s.args[1] = c
    BY DEF AsksState
  <1>2. HandleClock(s.msg, s.args)
    BY <1>1, Handled DEF Execute
  <1>3. ClockHandler!ClockAttributes(c)
    BY <1>1, <1>2 DEF HandleClock, ClockHandler!Handle, CLOCK_ATTRIBUTES, CLOCK_DESCRIBE_RATES,
       ClockHandler!PROTOCOL_VERSION, ClockHandler!PROTOCOL_ATTRIBUTES,
       ClockHandler!PROTOCOL_MESSAGE_ATTRIBUTES, ClockHandler!CLOCK_ATTRIBUTES,
       ClockHandler!CLOCK_DESCRIBE_RATES, ClockHandler!CLOCK_RATE_SET,
       ClockHandler!CLOCK_RATE_GET, ClockHandler!CLOCK_CONFIG_SET
  <1>4. /\ reply'.status = SCMI_SUCCESS
        /\ reply'.value = [reserved |-> 0, enabled |-> clock_status[c], name |-> c]
        /\ clock_status' = clock_status
    BY <1>3 DEF ClockHandler!ClockAttributes, ClockHandler!ClockReport,
       ClockHandler!ClockRespond, ClockHandler!Respond, ClockHandler!FoundThen, SCMI_SUCCESS,
       ClockHandler!SCMI_SUCCESS, ClockHandler!clockSettings
  <1>5. Answered(s).status = reply'.status /\ Answered(s).value = reply'.value
    BY <1>1, Read DEF FromBaseHandler, PROTOCOL_BASE, PROTOCOL_POWER_DOMAIN, PROTOCOL_CLOCK,
       PROTOCOL_SENSOR
  <1>6. Answered(s).echo = TRUE
    BY DEF Answered
  <1> QED BY <1>4, <1>5, <1>6

\* c005 keeps the state it is told, and goes on to the next clock.
LEMMA StateFound ==
  ASSUME IInv, Shapes, suite = "clock", test # "none", NEW s, s = Head(steps),
         NEW c \in ClockHandler!ClockId, AsksState(s, c), Execute(s), TakeAnswer(Answered(s))
  PROVE  /\ ClockCount' = ClockCount
         /\ \A x : Known(x)' <=> x = c \/ Known(x)
         /\ IF Ended(Tail(steps)) = "none" THEN test' = test /\ steps' = Tail(steps)
            ELSE test' = "none"
  <1> PICK r : r = Answered(s)
    OBVIOUS
  <1> DEFINE v == [reserved |-> 0, enabled |-> clock_status[c], name |-> c]
             rc == [r EXCEPT !.value = Comparable(s, @)]
             read == s.kind = "check" /\ val_compare_status(s, r) /\ val_compare_msg_hdr(s, r)
             good == s.kind \in {"probe", "refute"} \/ Holds(s, rc)
             more == Extended(IF read /\ good THEN MoreOf(suite, s, r.value) ELSE <<>>)
  <1>1. r.echo = TRUE /\ r.status = SCMI_SUCCESS /\ r.value = v /\ clock_status' = clock_status
    BY StateTold
  <1>2. /\ s.kind = "check" /\ s.expect = SCMI_SUCCESS /\ s.learn = "attribute"
        /\ s.want = [reserved |-> 0] /\ s.args[1] = c
    BY DEF AsksState
  <1>3. read
    BY <1>1, <1>2 DEF val_compare_status, val_compare_msg_hdr
  <1>4. Tables /\ ClockTable(table.clock) /\ "clock" \in DOMAIN table /\ clock_status[c] \in {0, 1}
    BY DEF IInv, PlatformOK, Tables, Keeper, TableOf
  <1>5. Comparable(s, r.value) = s.want /\ s.want # Garbage
    <2>1. v # Garbage /\ [reserved |-> 0] # Garbage
      <3>1. v \in {[reserved |-> 0, enabled |-> e, name |-> x] :
                     e \in {0, 1}, x \in ClockHandler!ClockId}
        BY <1>4
      <3> HIDE DEF v
      <3> QED BY <3>1, GarbageAssumption
    <2>2. \A f \in DOMAIN s.want : f \in DOMAIN v /\ v[f] = s.want[f]
      BY <1>2
    <2> HIDE DEF v
    <2> QED BY <1>1, <1>2, <2>1, <2>2 DEF Comparable
  <1>6. Holds(s, rc)
    <2>1. IsAnswer(r)
      BY AnswersAre
    <2>2. rc.status = r.status /\ rc.echo = r.echo /\ rc.value = s.want
      BY <1>5, <2>1 DEF IsAnswer
    <2> HIDE DEF rc
    <2> QED BY <1>1, <1>2, <1>5, <2>2
       DEF Holds, val_compare, val_compare_status, val_compare_msg_hdr
  <1>7. MoreOf(suite, s, r.value) = <<>>
    BY <1>2 DEF MoreOf, ClockTests!More
  <1>8. more = Tail(steps)
    <2>1. PICK U : steps \in Seq(U)
      BY ProgramIsSequence DEF IInv, EngineOK
    <2>2. steps # <<>>
      BY DEF IInv, EngineOK, Progress
    <2>3. Tail(steps) \in Seq(U)
      BY <2>1, <2>2
    <2> HIDE DEF read, good
    <2>4. more = Extended(<<>>)
      BY <1>7
    <2>5. Extended(<<>>) = <<>> \o Tail(steps)
      BY Zenon DEF Extended
    <2>6. \A q \in Seq(U) : <<>> \o q = q
      OBVIOUS
    <2> QED BY <2>3, <2>4, <2>5, <2>6
  <1>9. /\ Proceed(rc, more)
        /\ table' = [table EXCEPT !["clock"] = LearnedOf("clock", s, r.value)]
    BY <1>3 DEF TakeAnswer
  <1>10. IF Ended(Tail(steps)) = "none" THEN test' = test /\ steps' = Tail(steps)
         ELSE test' = "none"
    <2> HIDE DEF rc, more
    <2>1. Verdicts(s, rc, more) = Ended(more)
      BY <1>2, <1>6, Zenon DEF Verdicts
    <2> QED BY <1>8, <1>9, <2>1 DEF Proceed, val_report_status
  <1>11. table'.clock = LearnedOf("clock", s, r.value)
    BY <1>4, <1>9
  <1>12. v.reserved = 0 /\ v.enabled = clock_status[c]
    OBVIOUS
  <1> HIDE DEF v
  <1>13. /\ table'.clock.clocks = table.clock.clocks
         /\ \A x : EnabledIn(table'.clock, x) =
                     IF x = c THEN clock_status[c] ELSE EnabledIn(table.clock, x)
    BY <1>1, <1>2, <1>4, <1>11, <1>12, LearnsEnabled
  <1>14. \A x : Known(x)' <=> x = c \/ Known(x)
    BY <1>1, <1>13, KnownIs
  <1> QED BY <1>10, <1>13, <1>14, KnownIs

-----------------------------------------------------------------------------
(* What is known of the clocks stays so up to c017.                        *)

\* No other test changes what is kept of their number and state.
LEMMA NothingLearns ==
  ASSUME IInv, suite = "clock", test \notin {"none", "c002", "c005"}, NEW r, TakeAnswer(r)
  PROVE  /\ table'.clock.clocks = table.clock.clocks
         /\ \A x : EnabledIn(table'.clock, x) = EnabledIn(table.clock, x)
  <1> PICK s : s = Head(steps)
    OBVIOUS
  <1>1. s.learn \notin {"attributes", "attribute"}
    BY InProgress DEF Good
  <1>2. ClockTable(table.clock) /\ "clock" \in DOMAIN table
    BY DEF IInv, Tables, Keeper, TableOf
  <1>3. \/ table' = [table EXCEPT !["clock"] = LearnedOf("clock", s, r.value)]
        \/ table' = table
    BY DEF TakeAnswer
  <1>4. table'.clock \in {LearnedOf("clock", s, r.value), table.clock}
    BY <1>2, <1>3
  <1> QED BY <1>1, <1>2, <1>4, LearnsEnabled

\* No other test but c017 changes the state of a clock the suite knows: c015
\* names none, and c016 a clock past the last.
LEMMA StatesStay ==
  ASSUME IInv, IInv', Shapes, suite = "clock", test \notin {"none", "c017"}, Exchange,
         test = "c016" => steps = ClockTests!TestC016, NEW c \in ClockCount
  PROVE  clock_status'[c] = clock_status[c]
  <1> PICK s : s = Head(steps)
    OBVIOUS
  <1>1. Execute(s) /\ Good("clock", test, s)
    BY InProgress DEF Exchange
  <1>2. /\ table.clock.clocks \in {0, clock.clocks} /\ clock.clocks \in Nat
        /\ PlatformOK'
    BY TablesAssumption DEF IInv, Tables, Keeper, TableOf, ClockTable
  <1>3. table.clock.clocks = clock.clocks /\ c \in ClockHandler!ClockId
    BY <1>2 DEF ClockCount, ClockHandler!ClockId
  <1>4. CASE s.proto # PROTOCOL_CLOCK
    BY <1>1, <1>4 DEF Execute, Dispatch, clockVars
  <1>5. CASE s.proto = PROTOCOL_CLOCK
    <2> DEFINE set == Answered(s).status = SCMI_SUCCESS /\ s.msg = CLOCK_CONFIG_SET
    <2>1. /\ clock_status' = [x \in ClockHandler!ClockId |->
                                IF set /\ s.args[1] = x THEN s.args[2] ELSE clock_status[x]]
          /\ set => s.args[1] \in ClockHandler!ClockId
      BY <1>1, <1>5, ClockEffect
    <2> HIDE DEF set
    <2>2. ~set
      <3> SUFFICES ASSUME set PROVE FALSE
        OBVIOUS
      <3>1. test \in {"c015", "c016"} /\ (test = "c015" => s.args[2] > 1)
        BY <1>1, <1>5 DEF set, Good
      <3>2. clock_status'[s.args[1]] = s.args[2]
        BY <2>1
      <3>3. clock_status'[s.args[1]] \in {0, 1}
        <4>1. ClockHandler!ClockId' = ClockHandler!ClockId
          BY DEF ClockHandler!ClockId
        <4> QED BY <1>2, <2>1, <4>1 DEF PlatformOK
      <3>4. CASE test = "c015"
        BY <3>1, <3>2, <3>3, <3>4
      <3>5. CASE test = "c016"
        <4>1. s = ClockTests!ConfigSet(ClockTests!InvalidClock, ClockTests!CONFIG_SET_ENABLE,
                                       ClockTests!SCMI_NOT_FOUND)
          BY <3>5 DEF ClockTests!TestC016
        <4>2. s.args[1] = clock.clocks + 1
          BY <1>3, <4>1 DEF ClockTests!ConfigSet, ClockTests!Clock, ClockTests!Ask,
             ClockTests!InvalidClock
        <4> QED BY <1>2, <2>1, <4>2 DEF ClockHandler!ClockId
      <3> QED BY <3>1, <3>4, <3>5
    <2> QED BY <1>3, <2>1, <2>2
  <1> QED BY <1>4, <1>5

\* c016 is over with its first answer.
LEMMA LastRefused ==
  ASSUME suite = "clock", steps = ClockTests!TestC016, Exchange
  PROVE  test' = "none"
  <1> PICK s : s = Head(steps)
    OBVIOUS
  <1>1. steps = <<s>> /\ s.kind = "check" /\ s.learn = "nothing"
    BY DEF ClockTests!TestC016, ClockTests!ConfigSet, ClockTests!Clock, ClockTests!Ask
  <1> PICK r : r = Answered(s)
    OBVIOUS
  <1>2. IsAnswer(r) /\ TakeAnswer(r)
    BY AnswersAre DEF Exchange, Take
  <1>3. MoreOf(suite, s, r.value) = <<>>
    BY <1>1 DEF MoreOf, ClockTests!More
  <1>4. Extended(<<>>) = <<>>
    <2>1. Tail(steps) = <<>> /\ <<>> \o <<>> = <<>>
      BY <1>1
    <2> QED BY <2>1 DEF Extended
  <1>5. Ended(<<>>) # "none"
    BY DEF Ended
  <1> QED BY <1>1, <1>2, <1>3, <1>4, <1>5, Outcome

-----------------------------------------------------------------------------
(* How far the clock suite is, and what it knows by then.                  *)

ClockOrder == ClockTests!Schedule(0)

\* The tests to come are those after the i-th.
At(i) == Len(queue) = 16 - i /\ \A j \in 1..(16 - i) : queue[j] = ClockOrder[i + j]

\* From c005 to c017 all clocks are known.
KnownFrom(i) ==
  /\ test = "c005" => Finds(steps)
  /\ i \in 4..15 /\ test # "c005" => AllKnown
  /\ test = "c016" => steps = ClockTests!TestC016

InTurn ==
  \/ test \in {"none", "c001"} /\ queue \in {<<>>, <<"c001">>}
  \/ \E i \in 0..16 : /\ At(i) /\ KnownFrom(i)
                      /\ test \in {"none", IF i = 0 THEN "c001" ELSE ClockOrder[i]}

\* Nothing went wrong in the clock suite so far.
Clean == suite = "clock" /\ "clock" \notin faulted

ClocksOK == Clean => InTurn

\* Where the tests that matter are.
LEMMA Order ==
  /\ Len(ClockOrder) = 16 /\ \A v : ClockTests!Schedule(v) = ClockOrder
  /\ \A i \in 1..16 :
       LET t == ClockOrder[i]
       IN /\ t \in TestsOf("clock") \ {"c001", "none"}
          /\ t = "c002" <=> i = 1
          /\ t = "c005" <=> i = 4
          /\ t = "c016" <=> i = 15
          /\ t = "c017" <=> i = 16
  <1>1. ClockOrder = <<"c002", "c003", "c004", "c005", "c006", "c007", "c008", "c009", "c010",
                       "c011", "c012", "c013", "c014", "c015", "c016", "c017">>
        /\ \A v : ClockTests!Schedule(v) = ClockOrder
    BY DEF ClockOrder, ClockTests!Schedule
  <1>2. Len(ClockOrder) = 16
    BY <1>1
  <1>3. /\ ClockOrder[1] = "c002" /\ ClockOrder[2] = "c003" /\ ClockOrder[3] = "c004"
        /\ ClockOrder[4] = "c005" /\ ClockOrder[5] = "c006" /\ ClockOrder[6] = "c007"
        /\ ClockOrder[7] = "c008" /\ ClockOrder[8] = "c009" /\ ClockOrder[9] = "c010"
        /\ ClockOrder[10] = "c011" /\ ClockOrder[11] = "c012" /\ ClockOrder[12] = "c013"
        /\ ClockOrder[13] = "c014" /\ ClockOrder[14] = "c015" /\ ClockOrder[15] = "c016"
        /\ ClockOrder[16] = "c017"
    BY <1>1
  <1>4. \A i \in 1..16 : i \in {1, 2, 3, 4, 5, 6, 7, 8, 9, 10, 11, 12, 13, 14, 15, 16}
    OBVIOUS
  <1>5. ASSUME NEW i \in 1..16
        PROVE  LET t == ClockOrder[i]
               IN /\ t = "c002" <=> i = 1
                  /\ t = "c005" <=> i = 4
                  /\ t = "c016" <=> i = 15
                  /\ t = "c017" <=> i = 16
    BY <1>3, <1>4
  <1>6. ASSUME NEW i \in 1..16 PROVE ClockOrder[i] \in TestsOf("clock") \ {"c001", "none"}
    BY <1>3, <1>4 DEF TestsOf
  <1> QED BY <1>1, <1>2, <1>5, <1>6

\* What is known depends on the table and the clocks alone.
LEMMA KnownSame ==
  ASSUME table'.clock.clocks = table.clock.clocks,
         \A x : EnabledIn(table'.clock, x) = EnabledIn(table.clock, x),
         \A c \in ClockCount : clock_status'[c] = clock_status[c]
  PROVE  AllKnown => AllKnown'
  BY KnownIs DEF AllKnown

\* The same, primed.
LEMMA FindsNext ==
  Finds(steps)' <=>
    /\ \A i \in DOMAIN steps' : \E c \in ClockCount' : AsksState(steps'[i], c)
    /\ \A c \in ClockCount' : Known(c)' \/ \E i \in DOMAIN steps' : AsksState(steps'[i], c)
  BY DEF Finds

\* A test of the suite begins, c017 with all clocks known.
LEMMA TurnBegins ==
  ASSUME IInv, ClocksOK, RunTest
  PROVE  ClocksOK' /\ (Clean /\ Head(queue) = "c017" => AllKnown)
  <1>1. SUFFICES ASSUME Clean, InTurn
                 PROVE  InTurn' /\ (Head(queue) = "c017" => AllKnown)
    BY DEF ClocksOK, Clean, RunTest
  <1> PICK t : t = Head(queue)
    OBVIOUS
  <1> PICK program : program = ClockTests!Program(t)
    OBVIOUS
  <1>2. /\ test = "none" /\ queue # <<>> /\ queue' = Tail(queue)
        /\ table' = table /\ clock_status' = clock_status
        /\ Begin(t, program)
    BY <1>1 DEF RunTest, Clean, platformVars, clockVars, ProgramOf
  <1>3. IF Ended(program) # "none" THEN test' = "none" ELSE test' = t /\ steps' = program
    BY <1>2 DEF Begin, val_report_status
  <1>4. (AllKnown => AllKnown') /\ (Finds(program) /\ steps' = program => Finds(steps)')
    <2>1. ClockCount' = ClockCount /\ \A c : Known(c)' <=> Known(c)
      BY <1>2, KnownIs
    <2> QED BY <2>1, FindsNext DEF AllKnown, Finds
  <1>5. CASE queue \in {<<>>, <<"c001">>}
    <2>1. t = "c001" /\ queue' = <<>>
      BY <1>2, <1>5
    <2> QED BY <1>3, <2>1 DEF InTurn
  <1>6. ASSUME NEW i \in 0..16, At(i), KnownFrom(i)
        PROVE  InTurn' /\ (t = "c017" => AllKnown)
    <2>1. queue \in Seq(TestsOf("clock"))
      BY <1>1 DEF IInv, EngineOK, Clean
    <2>2. i \in 0..15 /\ t = ClockOrder[i + 1]
          /\ Len(queue') = 16 - (i + 1)
          /\ \A j \in 1..(16 - (i + 1)) : queue'[j] = ClockOrder[(i + 1) + j]
      <3>1. Len(queue) \in Nat \ {0}
        BY <1>2, <2>1
      <3>2. Len(queue) = 16 - i /\ \A j \in 1..(16 - i) : queue[j] = ClockOrder[i + j]
        BY <1>6 DEF At
      <3>3. i \in 0..15
        BY <3>1, <3>2
      <3>4. t = queue[1] /\ 1 \in 1..(16 - i)
        BY <2>1, <3>1, <3>2
      <3>5. Len(queue') = Len(queue) - 1
            /\ \A j \in 1..(Len(queue) - 1) : queue'[j] = queue[j + 1]
        BY <1>2, <2>1
      <3>6. \A j \in 1..(16 - (i + 1)) : j + 1 \in 1..(16 - i) /\ i + (j + 1) = (i + 1) + j
        BY <3>3
      <3>7. Len(queue') = 16 - (i + 1)
        BY <3>2, <3>3, <3>5
      <3>8. \A j \in 1..(16 - (i + 1)) : j \in 1..(Len(queue) - 1)
        BY <3>2, <3>3
      <3>9. \A j \in 1..(16 - (i + 1)) : queue'[j] = ClockOrder[(i + 1) + j]
        BY <3>2, <3>5, <3>6, <3>8
      <3> QED BY <3>2, <3>3, <3>4, <3>7, <3>9
    <2> PICK k : k = i + 1
      OBVIOUS
    <2>3. k \in 1..16 /\ At(k)' /\ t = ClockOrder[k] /\ i = k - 1
      BY <2>2 DEF At
    <2>4. k \in 5..16 => AllKnown
      BY <1>2, <1>6, <2>3 DEF KnownFrom
    <2>5. /\ t \in TestsOf("clock") \ {"c001", "none"}
          /\ (t = "c005" <=> k = 4) /\ (t = "c016" <=> k = 15) /\ (t = "c017" <=> k = 16)
      BY <2>3, Order
    <2>6. k = 4 => IF Ended(program) = "none" THEN Finds(program) ELSE AllKnown
      <3>1. k = 4 => program = ClockTests!TestC005
        BY <2>5 DEF ClockTests!Program
      <3>2. ClockCount = {} => AllKnown
        BY DEF AllKnown
      <3> QED BY <3>1, <3>2, FindsAll DEF IInv
    <2>7. k = 15 => program = ClockTests!TestC016
      BY <2>5 DEF ClockTests!Program
    <2>8. KnownFrom(k)'
      <3>1. test' = "c005" => Finds(steps)'
        BY <1>3, <1>4, <2>5, <2>6
      <3>2. k \in 4..15 /\ test' # "c005" => AllKnown'
        BY <1>3, <1>4, <2>4, <2>5, <2>6
      <3>3. test' = "c016" => steps' = ClockTests!TestC016
        BY <1>3, <2>5, <2>7
      <3>4. ClockTests!TestC016' = ClockTests!TestC016
        BY <1>2 DEF ClockTests!TestC016, ClockTests!InvalidClock
      <3> QED BY <2>3, <3>1, <3>2, <3>3, <3>4 DEF KnownFrom
    <2>9. test' \in {"none", IF k = 0 THEN "c001" ELSE ClockOrder[k]}
      BY <1>3, <2>3
    <2>10. ClockOrder' = ClockOrder
      BY DEF ClockOrder, ClockTests!Schedule
    <2> QED BY <2>3, <2>4, <2>5, <2>8, <2>9, <2>10 DEF InTurn
  <1> QED BY <1>1, <1>5, <1>6, <1>2 DEF InTurn

\* c005 is told the state of one more clock.
LEMMA StateKept ==
  ASSUME IInv, Shapes, suite = "clock", test = "c005", Finds(steps), Exchange
  PROVE  \/ test' = "c005" /\ Finds(steps)'
         \/ test' = "none" /\ AllKnown'
  <1> PICK s : s = Head(steps)
    OBVIOUS
  <1>1. Execute(s) /\ TakeAnswer(Answered(s)) /\ s = steps[1] /\ 1 \in DOMAIN steps /\ steps # <<>>
    BY InProgress DEF Exchange, Take
  <1>2. PICK c \in ClockCount : AsksState(s, c)
    BY <1>1 DEF Finds
  <1>3. c \in ClockHandler!ClockId
    <2>1. table.clock.clocks \in {0, clock.clocks} /\ clock.clocks \in Nat
      BY TablesAssumption DEF IInv, Tables, Keeper, TableOf, ClockTable
    <2> QED BY <2>1 DEF ClockCount, ClockHandler!ClockId
  <1> PICK rest : rest = Tail(steps)
    OBVIOUS
  <1>4. /\ ClockCount' = ClockCount
        /\ \A x : Known(x)' <=> x = c \/ Known(x)
        /\ IF Ended(rest) = "none" THEN test' = test /\ steps' = rest ELSE test' = "none"
    BY <1>1, <1>2, <1>3, StateFound
  <1>5. /\ \A i \in DOMAIN rest : i + 1 \in DOMAIN steps /\ rest[i] = steps[i + 1]
        /\ \A i \in DOMAIN steps : i = 1 \/ (i - 1 \in DOMAIN rest /\ rest[i - 1] = steps[i])
        /\ rest # <<>> => 1 \in DOMAIN rest /\ Head(rest) = rest[1]
        /\ rest = <<>> => DOMAIN rest = {}
    <2>1. PICK U : steps \in Seq(U)
      BY ProgramIsSequence DEF IInv, EngineOK
    <2> QED BY <1>1, <2>1
  <1>6. \A i \in DOMAIN rest : \E x \in ClockCount : AsksState(rest[i], x)
    BY <1>5 DEF Finds
  <1>7. ASSUME NEW x \in ClockCount
        PROVE  Known(x)' \/ \E i \in DOMAIN rest : AsksState(rest[i], x)
    <2>1. CASE Known(x)
      BY <1>4, <2>1
    <2>2. CASE ~Known(x)
      <3>1. PICK i \in DOMAIN steps : AsksState(steps[i], x)
        BY <2>2 DEF Finds
      <3>2. CASE i = 1
        <4>1. <<x>> = <<c>>
          BY <1>1, <1>2, <3>1, <3>2 DEF AsksState
        <4>2. x = c
          BY <4>1
        <4> QED BY <1>4, <4>2
      <3>3. CASE i # 1
        BY <1>5, <3>1, <3>3
      <3> QED BY <3>2, <3>3
    <2> QED BY <2>1, <2>2
  <1>8. CASE Ended(rest) = "none"
    <2>1. steps' = rest
      BY <1>4, <1>8
    <2>2. Finds(steps)'
      BY <1>4, <1>6, <1>7, <2>1, FindsNext
    <2> QED BY <1>4, <1>8, <2>2
  <1>9. CASE Ended(rest) # "none"
    <2>1. rest = <<>>
      <3> SUFFICES ASSUME rest # <<>> PROVE FALSE
        OBVIOUS
      <3>1. 1 \in DOMAIN rest /\ Head(rest) = rest[1]
        BY <1>5
      <3>2. \E x \in ClockCount : AsksState(rest[1], x)
        BY <1>6, <3>1
      <3>3. Head(rest).kind = "check"
        BY <3>1, <3>2 DEF AsksState
      <3> QED BY <1>9, <3>3 DEF Ended
    <2>2. \A x \in ClockCount : Known(x)'
      BY <1>5, <1>7, <2>1
    <2> QED BY <1>4, <1>9, <2>2 DEF AllKnown
  <1> QED BY <1>8, <1>9

\* An answered command of the suite.
LEMMA TurnGoesOn ==
  ASSUME IInv, IInv', Shapes, ClocksOK, Exchange
  PROVE  ClocksOK'
  <1>1. SUFFICES ASSUME Clean, InTurn
                 PROVE  InTurn'
    BY DEF ClocksOK, Clean, Exchange
  <1> PICK s : s = Head(steps)
    OBVIOUS
  <1> PICK r : r = Answered(s)
    OBVIOUS
  <1>2. /\ suite = "clock" /\ test # "none" /\ TakeAnswer(r) /\ Good("clock", test, s)
        /\ ClockOrder' = ClockOrder
    BY <1>1, InProgress DEF Exchange, Take, Clean, ClockOrder, ClockTests!Schedule
  <1>3. test' \in {test, "none"}
    BY <1>1, OnOrOver DEF Exchange
  <1>4. /\ queue' \in {queue, ClockOrder, <<>>}
        /\ test # "c001" => queue' = queue
    <2>1. s.learn = "version" => test = "c001"
      BY <1>2 DEF Good
    <2>2. \A v : ScheduleOf("clock", v) = ClockOrder
      BY Order DEF ScheduleOf
    <2> QED BY <1>2, <2>1, <2>2 DEF TakeAnswer
  <1>5. CASE test = "c001"
    <2>1. test' \in {"c001", "none"}
      BY <1>3, <1>5
    <2>2. CASE queue' \in {<<>>, <<"c001">>}
      BY <2>1, <2>2 DEF InTurn
    <2>3. CASE queue' = ClockOrder
      <3>1. At(0)'
        BY <1>2, <2>3, Order DEF At
      <3>2. KnownFrom(0)'
        BY <2>1 DEF KnownFrom
      <3> QED BY <2>1, <3>1, <3>2 DEF InTurn
    <2>4. CASE queue' = queue /\ queue \notin {<<>>, <<"c001">>}
      <3>1. PICK i \in 0..16 : At(i) /\ test = IF i = 0 THEN "c001" ELSE ClockOrder[i]
        BY <1>1, <1>2, <2>4 DEF InTurn
      <3>2. i = 0
        BY <1>5, <3>1, Order
      <3>3. At(0)'
        BY <1>2, <2>4, <3>1, <3>2 DEF At
      <3>4. KnownFrom(0)'
        BY <2>1 DEF KnownFrom
      <3> QED BY <2>1, <3>3, <3>4 DEF InTurn
    <2> QED BY <1>4, <2>2, <2>3, <2>4
  <1>6. CASE test # "c001"
    <2>1. queue' = queue
      BY <1>4, <1>6
    <2>2. PICK i \in 1..16 : At(i) /\ KnownFrom(i) /\ test = ClockOrder[i]
      BY <1>1, <1>2, <1>6 DEF InTurn
    <2>3. /\ (test = "c002" <=> i = 1) /\ (test = "c005" <=> i = 4)
          /\ (test = "c016" <=> i = 15) /\ (test = "c017" <=> i = 16)
      BY <2>2, Order
    <2>4. At(i)'
      BY <1>2, <2>1, <2>2 DEF At
    <2>5. KnownFrom(i)'
      <3>1. CASE test = "c005"
        <4>1. Finds(steps)
          BY <2>2, <3>1 DEF KnownFrom
        <4>2. \/ test' = "c005" /\ Finds(steps)'
              \/ test' = "none" /\ AllKnown'
          BY <1>2, <3>1, <4>1, StateKept
        <4>3. test' # "c016"
          BY <4>2
        <4> QED BY <4>2, <4>3 DEF KnownFrom
      <3>2. CASE i \in 5..15
        <4>1. AllKnown /\ (test = "c016" => steps = ClockTests!TestC016)
          BY <2>2, <2>3, <3>2 DEF KnownFrom
        <4>2. test \notin {"none", "c002", "c005", "c017"}
          BY <1>2, <2>3, <3>2
        <4>3. /\ table'.clock.clocks = table.clock.clocks
              /\ \A x : EnabledIn(table'.clock, x) = EnabledIn(table.clock, x)
          BY <1>2, <4>2, NothingLearns
        <4>4. \A c \in ClockCount : clock_status'[c] = clock_status[c]
          BY <1>2, <4>1, <4>2, StatesStay
        <4>5. AllKnown'
          BY <4>1, <4>3, <4>4, KnownSame
        <4>6. test = "c016" => test' = "none"
          BY <1>2, <4>1, LastRefused
        <4>7. test' # "c005" /\ test' # "c016"
          BY <1>3, <4>2, <4>6
        <4> QED BY <4>5, <4>7 DEF KnownFrom
      <3>3. CASE i \notin 4..15
        <4>1. test' # "c005" /\ test' # "c016"
          BY <1>3, <2>3, <3>3
        <4> QED BY <3>3, <4>1 DEF KnownFrom
      <3>4. i \in 4..15 => i = 4 \/ i \in 5..15
        OBVIOUS
      <3> QED BY <2>3, <3>1, <3>2, <3>3, <3>4
    <2>6. test' \in {"none", IF i = 0 THEN "c001" ELSE ClockOrder'[i]}
      BY <1>2, <1>3, <2>2
    <2> QED BY <2>2, <2>4, <2>5, <2>6 DEF InTurn
  <1> QED BY <1>5, <1>6

\* A message that comes: no test of the suite that waits for one matters here.
LEMMA TurnReceives ==
  ASSUME IInv, ClocksOK, ReceiveMessage
  PROVE  ClocksOK'
  <1>1. SUFFICES ASSUME Clean, InTurn
                 PROVE  InTurn'
    BY DEF ClocksOK, Clean, ReceiveMessage
  <1> PICK s : s = Head(steps)
    OBVIOUS
  <1>2. /\ suite = "clock" /\ test # "none" /\ s.kind = "receive" /\ Good("clock", test, s)
        /\ s = steps[1] /\ 1 \in DOMAIN steps /\ clock_status' = clock_status
        /\ ClockOrder' = ClockOrder
    BY <1>1, InProgress DEF ReceiveMessage, Clean, platformVars, clockVars, ClockOrder,
       ClockTests!Schedule
  <1>3. test' \in {test, "none"}
    BY OnOrOver DEF ReceiveMessage
  <1>4. queue' = queue /\ table' = table
    <2>1. s.learn = "nothing"
      BY <1>2 DEF Good
    <2> QED BY <1>2, <2>1 DEF ReceiveMessage, Take, TakeAnswer
  <1>5. test = "c005" => ~Finds(steps)
    BY <1>2 DEF Finds, AsksState
  <1>6. steps # ClockTests!TestC016
    <2>1. ClockTests!TestC016[1].kind = "check"
      BY DEF ClockTests!TestC016, ClockTests!ConfigSet, ClockTests!Clock, ClockTests!Ask
    <2> QED BY <1>2, <2>1
  <1>7. AllKnown => AllKnown'
    BY <1>2, <1>4, KnownSame
  <1>8. CASE queue \in {<<>>, <<"c001">>} /\ test = "c001"
    BY <1>3, <1>4, <1>8 DEF InTurn
  <1>9. ASSUME NEW i \in 0..16, At(i), KnownFrom(i),
               test = IF i = 0 THEN "c001" ELSE ClockOrder[i]
        PROVE  InTurn'
    <2>1. At(i)'
      BY <1>2, <1>4, <1>9 DEF At
    <2>2. test \notin {"c005", "c016"}
      BY <1>5, <1>6, <1>9 DEF KnownFrom
    <2>3. KnownFrom(i)'
      BY <1>3, <1>7, <1>9, <2>2 DEF KnownFrom
    <2>4. test' \in {"none", IF i = 0 THEN "c001" ELSE ClockOrder'[i]}
      BY <1>2, <1>3, <1>9
    <2> QED BY <2>1, <2>3, <2>4 DEF InTurn
  <1> QED BY <1>1, <1>2, <1>8, <1>9 DEF InTurn

\* The suite begins with its version.
LEMMA TurnRests ==
  ASSUME IInv, ClocksOK, NextSuite \/ LoseCommand \/ LeaveUnanswered \/ Refuse \/ UNCHANGED vars
  PROVE  ClocksOK'
  <1>1. CASE NextSuite
    <2>1. test' = "none"
      BY <1>1 DEF NextSuite, Finished
    <2>2. suite' = "clock" => queue' \in {<<>>, <<"c001">>}
      <3>1. VersionTestOf["clock"] = "c001"
        BY DEF VersionTestOf
      <3>2. queue' \in {<<>>, <<VersionTestOf[suite']>>}
        BY <1>1 DEF NextSuite
      <3> QED BY <3>1, <3>2
    <2> QED BY <2>1, <2>2 DEF ClocksOK, Clean, InTurn
  <1>2. CASE LoseCommand \/ LeaveUnanswered \/ Refuse
    <2>1. suite' = suite /\ suite \in faulted'
      BY <1>2 DEF LoseCommand, LeaveUnanswered, Refuse, Fault
    <2> QED BY <2>1 DEF ClocksOK, Clean
  <1>3. CASE UNCHANGED vars
    <2>1. /\ UNCHANGED <<suite, faulted, queue, test, steps>> /\ table' = table
          /\ clock_status' = clock_status /\ ClockOrder' = ClockOrder
      BY <1>3 DEF vars, engineVars, platformVars, clockVars, ClockOrder, ClockTests!Schedule
    <2>2. Clean' <=> Clean
      BY <2>1 DEF Clean
    <2>3. AllKnown => AllKnown'
      BY <2>1, KnownSame
    <2>4. Finds(steps)' <=> Finds(steps)
      <3>1. ClockCount' = ClockCount /\ \A c : Known(c)' <=> Known(c)
        BY <2>1, KnownIs
      <3> QED BY <2>1, <3>1, FindsNext DEF Finds
    <2>5. ClockTests!TestC016' = ClockTests!TestC016
      BY <2>1 DEF ClockTests!TestC016, ClockTests!InvalidClock
    <2>6. \A i \in 0..16 : (At(i) => At(i)') /\ (KnownFrom(i) => KnownFrom(i)')
      BY <2>1, <2>3, <2>4, <2>5 DEF At, KnownFrom
    <2>7. InTurn => InTurn'
      BY <2>1, <2>6 DEF InTurn
    <2> QED BY <2>2, <2>7 DEF ClocksOK
  <1> QED BY <1>1, <1>2, <1>3

-----------------------------------------------------------------------------
(* All of it is inductive.                                                 *)

RestoreInv == IInv /\ InOrder /\ ClocksOK

\* It holds when the application starts.
LEMMA RestoreStart == Init => RestoreInv
  <1> SUFFICES ASSUME Init PROVE RestoreInv
    OBVIOUS
  <1>1. suite # "clock"
    BY DEF Init
  <1> QED BY <1>1, InvStart, StartInOrder DEF RestoreInv, ClocksOK, Clean

\* Every step keeps it.
LEMMA RestoreStep == RestoreInv /\ [Next]_vars => RestoreInv'
  <1> SUFFICES ASSUME RestoreInv, [Next]_vars PROVE RestoreInv'
    OBVIOUS
  <1>1. IInv /\ InOrder /\ ClocksOK /\ Shapes
    BY DEF RestoreInv, InOrder
  <1>2. IInv'
    BY <1>1, InvStep
  <1>3. CASE RunTest
    <2>1. ClocksOK' /\ (Clean /\ Head(queue) = "c017" => AllKnown)
      BY <1>1, <1>3, TurnBegins
    <2>2. suite = "clock" /\ Head(queue) = "c017" => "clock" \in faulted \/ TogglesBack
      BY <1>1, <2>1, KnownTogglesBack DEF IInv, Clean
    <2> QED BY <1>1, <1>2, <1>3, <2>1, <2>2, BeginsInOrder DEF RestoreInv
  <1>4. CASE Exchange
    BY <1>1, <1>2, <1>4, ExchangeInOrder, TurnGoesOn DEF RestoreInv
  <1>5. CASE ReceiveMessage
    BY <1>1, <1>2, <1>5, ReceiveInOrder, TurnReceives DEF RestoreInv
  <1>6. CASE LoseCommand \/ LeaveUnanswered \/ Refuse
    BY <1>1, <1>2, <1>6, FaultyInOrder, TurnRests DEF RestoreInv
  <1>7. CASE NextSuite \/ UNCHANGED vars
    BY <1>1, <1>2, <1>7, RestInOrder, TurnRests DEF RestoreInv
  <1>8. CASE Terminated
    BY <1>7, <1>8 DEF Terminated
  <1> QED BY <1>3, <1>4, <1>5, <1>6, <1>7, <1>8 DEF Next

\* A test that passes or is skipped has put the platform's settings back,
\* whatever was lost or refused before and for all tables of the platform.
THEOREM RunsRestore == Spec => []StateRestored
  <1>1. RestoreInv => StateRestored
    BY DEF RestoreInv, InOrder
  <1> QED BY <1>1, RestoreStart, RestoreStep, PTL DEF Spec

-----------------------------------------------------------------------------
(* No setting changes unseen.                                              *)

\* What an exchange changes is meant to change, or the test that made it fails:
\* the steps of the other tests that could change a setting expect a refusal.
LEMMA MeantOrFails ==
  ASSUME IInv, Shapes, test # "none", NEW s, s = Head(steps), s.kind # "receive", Execute(s),
         NEW r \in {Answered(s), Nothing}, Take(r)
  PROVE  \/ Settings' = Settings
         \/ test \in Moving /\ s.expect = SCMI_SUCCESS
         \/ test' = "none" /\ last' = [test |-> test, verdict |-> "FAIL"]
  <1>1. Good(suite, test, s)
    BY InProgress
  <1>2. CASE ~Mover(s) \/ Answered(s).status # SCMI_SUCCESS
    BY <1>1, <1>2, Frame DEF IInv
  <1>3. CASE Mover(s) /\ Answered(s).status = SCMI_SUCCESS
    <2>1. s.kind = "check" /\ s.expect # SCMI_GENERIC_ERROR
      BY <1>1, <1>3 DEF Good, Allowed
    <2>2. CASE s.expect = SCMI_SUCCESS
      BY <1>1, <1>3, <2>1, <2>2 DEF Good, Allowed
    <2>3. CASE s.expect # SCMI_SUCCESS
      <3>1. IsAnswer(r) /\ r.status # s.expect
        BY <1>3, <2>1, <2>3, AnswersAre
      <3> QED BY <2>1, <3>1, WrongStatus
    <2> QED BY <2>2, <2>3
  <1> QED BY <1>2, <1>3

\* Only exchanges change settings.
LEMMA OthersChangeNothing ==
  ASSUME Shapes, RunTest \/ ReceiveMessage \/ NextSuite \/ Terminated \/ LoseCommand \/ Refuse
                 \/ UNCHANGED vars
  PROVE  Settings' = Settings
  <1>1. UNCHANGED settingVars
    BY DEF RunTest, ReceiveMessage, NextSuite, Terminated, LoseCommand, Refuse, vars,
       platformVars, settingVars
  <1> QED BY <1>1, SettingsKept

\* A setting changes only in a test that is to change settings, by a command it
\* expects to succeed, or the test that sent the command FAILs: for all tables
\* of the platform and whatever is lost or refused.
THEOREM NoChangeUnseen == Spec => ChangesMeant
  <1> DEFINE Seen == Settings' # Settings =>
                       \/ test \in Moving /\ Head(steps).expect = SCMI_SUCCESS
                       \/ test' = "none" /\ last' = [test |-> test, verdict |-> "FAIL"]
  <1>1. RestoreInv /\ [Next]_vars => [Seen]_vars
    <2> SUFFICES ASSUME RestoreInv, [Next]_vars PROVE Seen
      OBVIOUS
    <2>1. IInv /\ Shapes
      BY DEF RestoreInv, InOrder
    <2>2. CASE Exchange
      <3>1. /\ test # "none" /\ Head(steps).kind # "receive"
            /\ Execute(Head(steps)) /\ Take(Answered(Head(steps)))
        BY <2>2 DEF Exchange
      <3> QED BY <2>1, <3>1, MeantOrFails
    <2>3. CASE LeaveUnanswered
      <3>1. /\ test # "none" /\ Head(steps).kind # "receive"
            /\ Execute(Head(steps)) /\ Take(Nothing)
        BY <2>3 DEF LeaveUnanswered, Fault
      <3> QED BY <2>1, <3>1, MeantOrFails
    <2>4. CASE ~Exchange /\ ~LeaveUnanswered
      <3>1. Settings' = Settings
        BY <2>1, <2>4, OthersChangeNothing DEF Next
      <3> QED BY <3>1
    <2> QED BY <2>2, <2>3, <2>4
  <1> QED BY <1>1, RestoreStart, RestoreStep, PTL DEF Spec, ChangesMeant
=============================================================================
