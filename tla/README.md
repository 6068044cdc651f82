# A TLA+ model of the SCMI compliance suite

The suite is the *agent* side of SCMI: a sequential C program that sends commands
to a platform, compares each answer with what it expects, and counts tests as
passed, failed or skipped. This directory models it in TLA+: TLC checks the models
on small instances, and TLAPS proves part of what they say for every value of the
constants. Source paths are relative to the repository.

## The system

| Part | Where | State | Operations |
|---|---|---|---|
| Applications | `linux_app`, `mocker_app`, `baremetal_app` | none | `main`: initialise, base suite, the suite of each protocol built in, totals |
| Test engine | `val/val_interface.c` | three counters, the protocol list | build a header, send, compare, report a verdict |
| Suites | `val/val_*.c`, `test_pool/*` | one information table per protocol, filled by earlier tests for later ones | `val_*_execute_tests` runs the tests in order; a test is a sequence of commands and comparisons |
| Linux transport | `platform/linux/common/transport_mailbox.c` | a buffer per call, descriptors | send a command and read the answer; wait for a delayed response; wait for a notification |
| Mocker | `platform/mocker` | access tables, feature flags, performance and clock state | one handler per protocol, answering at once |
| Bare-metal layer | `platform/baremetal` | tables supplied by the integrator | getters, a transport to be ported |

A test calls `val_send_message`, which calls the `pal_send_message` the build
selected: the mailbox transport or the mocker. What tests share is the state of the
platform, the information tables and the protocol list.

**What is hard.** The program has one thread, but the mailbox has another end: answers
are late, lost or unasked for, a header carries no token, the transport does not notice
when `poll` gives up and reads all the same, and the read may wait for ever. Tests change the
platform (permissions, limits, notifications) and return at the first failing check, whatever they had begun. Later tests trust what
earlier ones stored. The mocker decides twice, in its handlers and in
`MESSAGE_ATTRIBUTES`, what it supports.

**What makes each part correct.**

- Transport: a call comes back if the platform answers; no verdict rests on silence, on the
  agent's own bytes, or (until something has failed) on the answer to another command;
  descriptors last.
- Engine: each test is counted once; a verdict comes from the answers compared.
- Base suite: access taken away is given back unless a test fails; an untrusted agent
  changes nothing; the protocol list is all or nothing; the suite ends.
- Mocker: permissions, limits and levels are what the last successful requests say,
  limits and levels stay inside the range the domain lists; a refusal has no effect;
  probes tell the truth.
- Other suites: a test that passes has put back the settings it changed, what is kept
  for later tests is true of the platform, a test is skipped only where there is nothing
  to try it on, and no test fails for what went wrong in another suite.

## Modules

| Module | Models |
|---|---|
| `Mailbox` | The transport, with the driver and the platform around it and the shapes of check the test pool uses. One action per stretch of `linux_send_message` between two moments the platform can act: `SendCommand` (to the write), `RingDoorbell`, `ReadMessage` (poll, read, parse, return), then the verdict (`PassCheck`, `FailCheck`, `FinishProbe`, `FinishRefute`). `WaitFor` starts `linux_wait_for_response` and `linux_wait_for_notification` |
| `Scmi` | Numbers shared by the suite and the mocker |
| `TestEngine` | Tests as sequences of steps; comparing, verdicts, `val_report_status` |
| `BaseSuite` | All 18 base tests and `val_base_execute_tests` |
| `Permissions` | The abstract specification: what the suite assumes of a platform's access permissions |
| `BaseOnPlatform` | `BaseSuite` against any platform that keeps `Permissions`, over a transport that may hand over a wrong answer |
| `Mocker` | The base and power handlers: a reply is its status, the state is the access tables and the supported flags |
| `PowerSuite`, `SystemPowerSuite`, `PerformanceSuite`, `ClockSuite`, `SensorSuite`, `ResetSuite`, `VoltageSuite` | The tests of each protocol and what they keep for later ones |
| `MockerHandler`, `MockerPerformance`, `MockerClock`, `MockerSensor`, `MockerReset`, `MockerSystem` | The mocker's other handlers: status and the return values a test reads; performance and clock keep state. `MockerSystem` has system power and the one voltage command the mocker answers |
| `MockerTables` | The tables of `platform/mocker/include/pal_*_expected.h` |
| `VoltagePlatform` | A platform with voltage domains (external): the mocker has none, and without one most of `VoltageSuite` would do nothing |
| `PerformanceContract` | The abstract specification: what the performance tests assume of limits and levels |
| `SuitesOnMocker` | The application: eight suites one after the other, each test's commands handed to the handler of its protocol, exchanges that go wrong |
| `MailboxProofs`, `MockerProofs`, `PerformanceProofs`, `BaseProofs` | Theorems about the module of that name |
| `SuiteSteps` | What the proofs about `SuitesOnMocker` know of a step of a test |
| `SuitePrograms` | Lemmas: sequences of such steps, the programs of all tests |
| `SuitesProofs` | Theorems about `SuitesOnMocker`: types, what the suites keep |
| `SuitesSettings` | Lemmas: what each command does to each setting, programs that put settings back |
| `SuitesRestore` | Theorems about `SuitesOnMocker`: what tests do to the settings |
| `MC*` | Instances for TLC |

`Mailbox` and `BaseOnPlatform` cut the same call at different heights: the first takes
one command apart and abstracts what tests do, the second takes a command and what
the agent reads as its answer as one step and has every command of every test. What
the first shows can go wrong with an answer (late, missing, another command's) is
the second's `MangledAnswer`. `Mocker` implements `Permissions` through a refinement
mapping (`KeepsPermissions`): a platform that `BaseOnPlatform` assumes exists.
`MockerPerformance` implements `PerformanceContract` the same way (`KeepsContract`).

`BaseOnPlatform` leaves the platform open; `SuitesOnMocker` has a particular one, made of
the handlers, and the whole program on it: `BaseSuite` is extended, the other suites and the
handlers are instances. The tables are constants: those of `MockerTables`, from which the
handlers answer and with which the suites compare, as the headers are compiled into both, or
those of a smaller platform. What goes wrong with an exchange is `LoseCommand` (the command
does not reach the platform: no memory, or no descriptor), `LeaveUnanswered` (it is carried out
and never answered, on a transport that comes back all the same) and `Refuse` (the platform
answers with an error and does nothing). After the first two the agent finds the values
`VAL_INIT_TEST_PARAM` put in the outputs. An answer that is merely late is not among them: it
stays with the mailbox driver and meets the next command, whatever test and suite that belongs
to, so it does cost other suites verdicts. Late answers are the subject of `Mailbox`; the
mocker, which answers within the call, has none.

### Correspondence

`Mailbox`: `buf` is the malloc'ed buffer, `None` standing for zeroed; `out` is the
caller's `rsp_msg_hdr`, `status` and `return_values`; `tx` and `rx` are the driver's two
buffers; `work`, `owed` and `subs` belong to the platform. `seq`, `accepted`, `passes`,
`doubted` and the `from` of `out` are history variables: no guard of the code reads them
(`seq` only bounds the run). A failing `malloc`, in any of the three functions, and a failing
`open` are outcomes. The descriptor of a failed `open` is
-1 in a `uint32_t`, so the code's test never sees it and the call goes on without a
channel. The files are opened without `O_NONBLOCK` and the result of `poll` is not seen, so
whether a call waits for its message is up to `read` of the driver: `ReadWaits` is the driver of
`docs/guide_sgm_testing.md`, which sleeps in `read` until there is one; otherwise it returns at
once. `Silent` says whether the platform may leave a command unanswered. `pc = "crashed"` is the
store to `return_values[-1]` ending the process; it may also go unnoticed.

Which check shapes occur is read off the test pool: status and header
(`test_b016.c:74-86`), a probe whose header is not compared (`:47-57`), status alone
in the deny/restore tests (`:91-104`), a query whose answer must not be `NOT_FOUND` and is
otherwise not looked at (`test_r005_v3.c:46-57`, `StartRefute`; full checks of the same header
follow), a delayed response (`test_c010.c:121-143` with the parser of responses,
`test_m014.c:80-100` with that of notifications; both compare the id, `awaitedId`), a
notification (`test_d026.c:155-175`). Two facts are used: the base suite runs first and has no
asynchronous command, and of each protocol `MESSAGE_ATTRIBUTES` is queried with full checks
before it is used to probe, by one of the first tests of its suite.

`BaseSuite`: a step has the command, its parameters, the number of them the test counts
(`sent`; some probes send none), the expected status, whether the header is compared,
the value compared and what is learnt. Names and versions are equal to the expected
ones or not (`EXPECTED`, `Garbage`). `found` is `protocol_list` of `test_b008.c`,
`list` is `g_protocol_list`.

`Mocker`: `device_access` is `agent1_device_access`; `protocol_access` is the one entry of
`agent_protocol_access`; `supported` is the `*_cmd_supported` flags. A device id one past
the table is accepted by the code and its flag stored past the end of the table. `past_end`
records the elements past the end that were stored to; `TypeOK` says that it is never another
one than the first. What lies there is up to the linker and is taken to be none of the other
tables.

The suites: `info` is `g_*_info_table`, `expected` what `pal_*_get_expected_*` tell. `Program`
is the sequence of commands a test begins with; loops over domains are unrolled from
what `info` says when the test begins, which is when the code reads it. What depends on an
answer (the next page of levels, the value to put back, the search for the first capable
domain) is added by `More` when the answer is there, and `Learned` is what `val_*_save_info`
makes of it. `Schedule` is `val_*_execute_tests`. `IfSome`, `ForCapable` and `WhenAny` of
`TestEngine` are the `run_flag` and the early `VAL_STATUS_SKIP` of the tests.

The handlers: `reply` is the status and the words written to `return_values`, as a record
of the fields that tests compare or keep. `max_limit`, `min_limit` and `current` are
`perf_level_*`, `clock_rate` and `clock_status` the arrays of the clock handler.

`SuitesOnMocker`: `RunTest` begins the next test, `Exchange` is one `val_send_message` with
the comparisons after it, `ReceiveMessage` one wait for a notification or a delayed
response, `NextSuite` the next call in `main`. `stray` stands for words of `return_values`
that nobody wrote: `SENSOR_CONFIG_GET` writes one word less than `m020` and `m022` read, and
`c007` keeps what lies past a triplet of rates; each is chosen when the test starts. So is, in
the tests that wait for a message, how it is handed over (`Delivery`): `"never"` by the mocker,
`"early"` by `transport_mailbox.c`, which stores the words of a notification one place before
where `d026` and `d027` look (`WordsRead`), `"whole"` by a transport that stores them as its
comment says. `c010` and `m014` find a delayed response where they look on any transport that
delivers one (`DelayedAccepted`). `before`,
`notifying` and `faulted` are history variables: no guard of the code reads them.

## Runs

| Run | Property | What it shows |
|---|---|---|
| `mailbox` | `TrustedAnswers` | While nothing has failed, every verdict rests on the answer to its own command, although no header has a token and a silent poll is not noticed. One header is excepted, that `test_r005_v3` went on from without its answer: there the late answer passes for the next one (`doubted`), and no other header is touched |
| | `GenuineAnswers` | Even later, no check passes on silence or on the agent's own bytes (a check that an answer is not `NOT_FOUND` does, in `test_r005_v3`) |
| | `DescriptorBudget` | A passed command has cost two descriptors, whatever else happened: with `RLIMIT_NOFILE` at 1024 some 510 commands can pass in a run |
| | `DelayedAccepted` | A delayed response is taken for what it is with either parser, although that of notifications puts every word one place early |
| `mailbox_live` | `CallReturns` | On a driver that waits in `read` and a platform that answers, a call returns whatever else arrives and whatever descriptors are left, with two exceptions |
| `mailbox_received` (violated) | `NoErrorMeansReceived` | `NO_ERROR` without an answer: no descriptor was left, nothing was sent or received, against the function's comment |
| `mailbox_notification` (violated) | `NotificationFromZero` | Notification payload one word too early, against the comment above the line |
| `base_on_platform` | `AccessRestored`, `UntrustedIsHarmless`, `ListAllOrNothing`, `TotalIsTestsRun`, `SuiteEnds` | The base suite against every such platform |
| `base_header` (violated) | `HeaderAlwaysChecked` | `test_b014` passes on a message that answers something else, against the user guide |
| `mocker` | `ProbeTruthful`, `KeepsPermissions`, `RefusedChangesNothing` | Any sequence of base and power requests. The flag of a device one past the table is stored past its end, and no other store goes there (`TypeOK`) |
| `mocker_notify` (violated) | `RegistersAndUnregisters` | Unregistering disables the command for good, against the test list |
| `mocker_performance` | `LimitsInTable`, `LevelInTable`, `KeepsContract` | Any sequence of performance requests: whatever was asked for, the limits and levels told are in the listed range, although both are kept as zero until they are set |
| `app_on_mocker` | `NoFalseAlarm`, `SkipsJustified`, `KeptIsTrue` | The mocker application with its own tables |
| `suites_with_faults` | `StateRestored` | A test that passes or is skipped leaves the settings as it found them, whatever was lost before it |
| | `CleanRunRestores` | So does a test that fails, while nothing has gone wrong: it fails before its first change or after the last (but for a test that was not handed its message) |
| | `NoFalseAlarm` | A command refused or never answered in one suite costs no other suite a verdict, nor does what a test leaves that waits for its notification in vain |
| | `SkipsJustified` | While nothing went wrong in its suite, a test is skipped only where there is nothing to try it on |
| | `KeptIsTrue` | No lost exchange leaves anything in an information table that is not so (but for the ends of a range of clock rates) |
| | `RefusalsHarmless` | A command that is expected to be refused changes nothing |
| | `ChangesMeant` | Whatever was lost, a setting changes only in the 14 tests that are to change settings, by a command they expect to succeed, or the test that sent the command FAILs |
| | `AppEnds` | The application ends |
| `sensor_order` (violated) | `AsyncReadTried` | `m014` is skipped on a platform with an asynchronous sensor, against the test list |

Each passing run but `mailbox_live` and `app_on_mocker` also checks its module's type
invariant, `TypeOK`.

`CallReturns` excepts two calls that may wait for ever on such a driver, besides one the platform
never answers (`Silent`): the wait for a notification, which need not come, and the command that
opens its message file with the last descriptor and has none for its doorbell. As 1024 less the
three standard files is odd, that is the 511th command of a run.

The properties of `suites_with_faults` name the tests they are not about, each a weakness of the code,
and so say nothing of these tests:

- `Shortfalls`: tests that may fail although nothing went wrong. `m008` and `m015` run before
  the sensors are described and name a sensor there is; `m020` and `m022` compare a word
  that was not sent; `c009` and `c010` set the rates `c007` kept of words past a triplet;
  `v002`, `v003` and `v009` need commands the mocker does not have.
- `Misled`: a test that waits for a message and is not handed it where it looks. On
  `transport_mailbox.c` `d026` and `d027` always FAIL, a platform that does everything right
  notwithstanding: the domain is compared with the word after it. They return in the middle, with
  the limits or the level changed and the notification enabled (`NoFalseAlarm`,
  `CleanRunRestores`).
- `Lacks`: `p008` always, and `m010` and `m014` before the sensors are described, find nothing
  to try.
- The power suite after a fault in the base suite: `b012`, `b014` and `b016` return at the
  first failing check and leave access denied.
- `m024` leaves the updates it enables, `v009` the mode it sets, and `c017` restores
  the state `c005` kept, which is not the one it found if `c005` lost its answer.
- `d018` enables the notifications it expects to be refused if `d005` lost its answer.

`app_on_mocker` is deterministic but for `stray`. When the words `m020` meets are left over
and not zero, it ends as a build of this source was seen to end: of 138 tests, 114 pass, 7 fail
(608, 615, 620, 622, 802, 803, 809)
and 17 are skipped (208, 417, 419, 426 to 429, 510, 610, 614, 805, 807, 811 to 815).

### Bounds

- `mailbox`: one command of each role (attributes query, plain, asynchronous,
  subscribing; the plain one is also the one of `test_r005_v3`), four calls, seven descriptors,
  a `read` that may find nothing and a platform that may be silent. A late answer needs two calls
  to be mistaken, a status-only check after a passed one a third, and the fourth lets an
  asynchronous exchange follow. Seven descriptors run out in the fourth call, between
  its two files. `mailbox_live`: three calls and four descriptors, which run out before the
  third command, or between its two files if one of the calls before it was a wait; `read` waits
  and the platform answers. `mailbox_received`: two calls, two descriptors, so that the second finds
  none. `mailbox_notification`: three calls, to subscribe and then to wait.
- `base_on_platform`: two agents (the last valid one is not the first), four protocols
  (a list in up to four pages), the four statuses the tests tell apart and one they do
  not, versions 1, 2 and another. Nothing else bounds the run: a suite is finite.
- `mocker`: two devices, agents and devices 0 to 3 and flags 0 to 3 (both sides of each
  limit, device 2 being the one past the table), message ids 0 to 12, the base protocol, the
  power protocol, another one and the first that is not supported. The tables are finite.

- `mocker_performance`: two domains, one with two levels whose limits may be set and one
  with a single level, so that a limit can be inside, at and outside either end; ids on both
  sides of the last domain, levels 0 to 5, zero being what is kept before anything is set.
- `app_on_mocker`, `sensor_order`: the tables of the mocker, whole. The run is finite.
- `suites_with_faults`: two of everything, mostly one that is capable and one that is not, so
  that every test has something to try and something to leave
  alone; three levels in pages of two and a triplet in the voltage domains; a clock with a
  list of rates and one with a range; notifications arrive whole, a word early or never; clocks
  are on at the start.
  `MaxFaults` = 2: one exchange can be lost and the consequence of another met in a later
  test or suite; three have been explored only in part. TLC identifies states by
  `StateView`, which leaves out the counters and the tables of the suites that are over: no
  step depends on them, and the properties speak of changes of a counter. Once the performance
  suite is over, nothing but the properties reads limits, levels and their notifications, so of
  these the view keeps whether they are as before the test in progress.

### Fairness

`mailbox_live` has weak fairness on the agent's steps inside a call (`RingDoorbell`,
`ReadMessage`, the verdict): it is the only thread, and the operating system runs it. `ReadMessage`
is enabled only when there is a message, or no file to read from: `poll` does give up, but its
result is not seen and `read` then waits. So there is also weak fairness on the platform
answering the commands it has and completing asynchronous ones, which SCMI requires of it. It
need not notify.
`base_on_platform` has weak fairness on starting a test and on an exchange: every call of the
transport comes back. Those of the mocker do, each a call of the handler itself; those of the
mailbox under the conditions of `CallReturns`, or on a driver that does not wait. `SuiteEnds` and
`AppEnds` say nothing of a run whose transport waits for ever. `SuiteEnds` is for platforms whose
protocol pages are not empty, as SCMI requires; on an empty page the loop of
`test_b008.c:53-79` repeats its request. Pages never hold more than what is left of
the list. `FairSpec` of `SuitesOnMocker` has weak fairness on `Next`: one thread, and every
call of the transport comes back, on the same grounds. A lost exchange is not assumed to stop
happening; there are at most `MaxFaults`.

## Proofs

- `MailboxProofs!TypeCorrect`: types, the descriptor bound included, one lemma per
  actor, one step per action.
- `MailboxProofs!Genuine`: `GenuineAnswers`. It is not inductive: what a check accepts was
  in `out`, that came from `rx` or from the buffer, and the buffer holds the agent's
  own command until the doorbell is rung. The strengthening says that the driver's
  receive buffer and the outputs hold messages of the platform or nothing, and that
  while the agent polls its buffer is zeroed.
- `MailboxProofs!Trusted` and `MailboxProofs!Budget`: `TrustedAnswers` and
  `DescriptorBudget`, from the inductive invariant `IInv`. `TrustedAnswers` only speaks of
  the last check; what keeps it true is what may still be on its way. `Asked` is the set
  of calls an answer is at the platform for, in the receive buffer, or just read;
  `Promised` the same for delayed responses. `Order`: answers come in the order of the
  calls, so that the answer to the last call is the last of all. `DelayedOnce`: a delayed
  response comes once, after a SUCCESS. `BaseQuiet`: nothing asynchronous, and no query of
  `test_r005_v3`, before the base suite is left. `Synchronised`: while nothing has failed, every
  call in `Asked` is the one in progress, a probe, or has a header in `doubted`, every one in
  `Promised` is the one waited for, and a check that does not look at the header starts only when
  nothing else is on its way. A check that passes has then read its own answer, or one with a
  header in `doubted` (`PassedOnOwn`), after which nothing else is left (`AskedOrder`,
  `PromisedOrder`). `doubted` can only grow in `FinishRefute`, when the answer read was not the one
  to the command just sent. `Paid` counts two descriptors for every command that passed and for
  every one whose answer is still on its way, without assuming that none has failed: whatever a
  check passes on, it uses up an answer that had been paid for. Every step is first reduced to what it does to the
  messages (`StepMoves`), so that `Order` and `DelayedOnce` are proved over nine kinds of movement and not over every action.
- `MockerProofs!TypeCorrect`, `MockerProofs!Implements` (the mocker implements
  `Permissions`: initial states map to initial states, each request is a step the
  abstract specification allows) and `MockerProofs!Refused`. The first says for any size of the
  tables that the store past the end of the access table reaches one element and no more (and
  that there is one: it is not said to stay inside); it is what the second rests on. The third
  needs no invariant.
- `MockerProofs!Truthful`: `ProbeTruthful`, from `Steady`: of the optional commands only the
  registration for errors is ever switched off, so each of the others still has a request that
  it answers.

- `PerformanceProofs!LimitsStayInTable`, `LevelStaysInTable` and `TypeCorrect`: from `Inv`,
  the conjunction of `TypeOK`, `LimitsInTable` and `LevelInTable`. None of the last two holds
  by itself: `LEVEL_SET` compares with the limits as they are kept, so a level is in the
  listed range because limits are, or because both limits are zero and nothing is between
  them. `AcceptedLimits` and `AcceptedLevel` say what a request that is accepted has been
  compared with.
- `PerformanceProofs!ContractKept`: `KeepsContract`, the refinement of
  `PerformanceContract`. The mapping reads limits and level as the `GET` commands tell them,
  so setting limits from zero has to be seen to leave the level that is told where it was
  (`LimitsSetKeeps`), and the level told to be the one asked for (`LevelSetKeeps`).

- `BaseProofs!AccessIsRestored`, `UntrustedChangesNothing`, `ListIsAllOrNothing`,
  `TestsAreCounted` and `TypeCorrect`: the five invariants of `BaseOnPlatform`, for every number
  of agents and protocols, every paging of the list and all answers, from `IInv`. The
  first four speak of the time between two tests; what keeps them true is in the steps the test in
  progress has left. `GivesBack` says of those: a permission command that is to be
  carried out is followed, with no probe in between, by reading what needs access, and one
  that is to be refused compares the header. It holds of all 18 programs (`Programs`) and of
  whatever is left of one (`StepsKept`). So when the agent is without access and nothing has
  failed, the test in progress is `Returning`: it cannot pass or be skipped without the read,
  and an honest platform answers that one only if access is back. `ByTest` is what the list
  needs: a page is the first of the steps left, and begins where `found` ends (`PageAhead`).
  `TotalKept` says that every test is waiting, running or counted. `Permitting` is the only
  lemma about the platform.

- `SuitesProofs!TypeCorrect` and `SuitesProofs!TablesTruthful`: `TypeOK` and `KeptIsTrue` of
  `SuitesOnMocker`, for all tables of the platform, any number of domains and pages, and whatever
  is lost or refused, from `IInv`. `KeptIsTrue` is not inductive: what the next answer puts in a
  table is decided by the step in progress. `EngineOK` says that every step left is `Good`: one
  that keeps something is a check of the command that tells it, expects `SCMI_SUCCESS`, and has
  seen only what is listed; none expects `SCMI_GENERIC_ERROR`, which is what the agent reads
  when an exchange went wrong. `SuitePrograms` proves it of the programs of all the tests, whatever
  the tables hold, and of the steps `More` adds. They are put together by `ForEach`, which
  flattens a sequence of sequences by recursion; an induction theorem cannot be
  used (it takes an operator), so `SuitePrograms` argues by a smallest length for which there is no
  such function (`JoinedExists`). `Told` is what a suite may rely on in an answer; the
  lemmas `PerformanceTold` to `BaseTold` prove it of the handlers, `PowerKept` to `SensorKept` that
  nothing else gets into a table. `PlatformOK` is what the handlers' answers depend on.
  TLC has checked `IInv` on the instance of `suites_with_faults`.

- `SuitesRestore!RunsRestore`: `StateRestored` of `SuitesOnMocker`, for all tables and whatever is
  lost or refused, from `RestoreInv`, the conjunction of `IInv`, `InOrder` and `ClocksOK`.
  `StateRestored` speaks of the time between two tests; what makes it true is what the steps
  left of the test in progress do to what it has changed.
  - `SuitesSettings` starts from the handlers: one lemma for each (`PerformanceEffect` to
    `OtherEffect`) says which setting a command may change. `Frame`: a command that is refused, or
    that only asks, changes none. `Moved`: one that succeeds puts one setting where it says.
    `Reads`: putting a setting to what the platform answered changes nothing, which for limits
    and levels that were never set is not obvious, as both are kept as zero and told otherwise.
  - Of a program, `Ends` says for one setting that the last step that puts it somewhere puts it
    where the test found it, and if there is none, that it is there. A test that asks before it
    changes does not have those steps yet: `More` adds them with the answer. `WillPut` and `Value`
    therefore give a question the effect of the commands it leads to, and `PerformanceReturns`,
    `ClockReturns` and `VoltageReturns` show that what is added is what was announced.
  - `Undone` says of the steps left: of the tests that change settings one by one, that they put
    back every setting (`PutBack`); of the four that take access away, that they end in a read that
    only passes with access, and have changed nothing else (`GivesAccess`); of the others, that
    nothing has changed. An exchange keeps it (`ExchangeInOrder`) because either the answer
    is the one expected, and the setting is where the step puts it, or the test FAILs; a lost or
    refused one (`FaultyInOrder`) because no step expects the status the agent then reads.
  - `c017` does not ask: it puts each clock in the state `c005` kept. That this is the one it
    finds rests on the order of the suite. `ClocksOK` says that while nothing has gone wrong
    in the clock suite the tests come in the order of `Schedule` (`At`), that what `c005` has not yet
    found it still asks for (`Finds`), for each of the clocks `c002` counted, and that
    from then to `c017` no test disables a clock: `c015` and `c016` expect a refusal and get it
    (`StatesStay`).
  - TLC has checked the three parts of `RestoreInv` on the instance of `suites_with_faults` (with
    the settings ranged over explicitly).

- `SuitesRestore!NoChangeUnseen`: `ChangesMeant`, from the same invariant. `Frame` leaves
  commands that can change a setting and are accepted; `Good` says of them that only 14 tests have
  one that expects success, and a test that expects a refusal and is not refused FAILs
  (`WrongStatus`), also when it never sees the answer. Only exchanges change settings at all.

They assume what the modules' `ASSUME`s say: commands split into roles, words are
integers and `SCMI_GENERIC_ERROR` is not an answer (it is what the suite fills in
itself), table sizes are natural numbers with at least one device, every performance domain
lists at least one level, none of them zero, and the first is not above the last; base protocol
versions are positive numbers, the mark of a wrong value is none, agent and device ids are
natural numbers, and between 1 and 255 agents and protocols are expected. `SuitesOnMocker` assumes of its tables
(`TablesAssumption`) that counts are natural numbers, every clock has a rate, every performance
domain lists a level and none below its first or above its last, and a triplet of voltage
levels has three; that the device the agent is denied is the first of the table and the other
one is not in it (`AccessTableAssumption`: `agent_get_accessible_device` and
`agent_get_inaccessible_device`, `transport_base.c:74-97`; the second reads past the end of the
table, so this is an assumption about the build: where it does not hold, `b011` denies a device no
test gives back, and fails); and that the mark of a wrong value is
none of the values `CLOCK_ATTRIBUTES` is compared with (`GarbageAssumption`). The headers of the
mocker satisfy them (TLC evaluates them in `app_on_mocker`).

Only model-checked: of `SuitesOnMocker`, `NoFalseAlarm`, `SkipsJustified`, `CleanRunRestores` and
`RefusalsHarmless`. The first three are true of the tables of the mocker and of those of the run,
but not of all tables a platform may have (TLC finds the violation when the tables of
`suites_with_faults` are changed so), and there is no theorem without saying which:

- The mixed rate of `c011` is a rate of a clock that has only one; the platform accepts it
  although the flag is invalid, as it does not look at flags, and `c011` fails with nothing
  wrong (`NoFalseAlarm`).
- The mocker tells `Rate(c + 1)` for clock `c` until a rate is set, which a clock with fewer rates
  does not list; `c009` cannot set it again and leaves another (`CleanRunRestores`).
- On a platform without domains, clocks or sensors the tests that loop over them are skipped,
  which `Lacks` does not list (`SkipsJustified`).

`RefusalsHarmless` goes beyond `ChangesMeant` in that the platform refuses what a test expects to be
refused; that needs every table to be known exactly where it is used, which is proved of one
field only (`ClocksOK`).

Liveness (`AppEnds`, `SuiteEnds`, `CallReturns`) is out of TLAPS's reach here and stays with TLC.

## Not modelled

- Printing and logging; the copying and comparing of strings, so names are numbers or one
  model value; the packing of words in bytes and of protocol ids in words.
- The words of `return_values` that a short answer leaves behind, but for the words three
  tests read although nobody wrote them (`stray`).
- A platform that tells clock rates in several pages: `c007` asks for them in the model, and
  neither the mocker nor the external clock has any.
- Power cost, latency and the units of sensors: printed or compared with one table, kept by
  no test.
- A crash of the agent: nothing is persisted, a run begins anew. A platform that
  restarts in the middle of a run would lose its settings; the suite has no notion of it.
- The bare-metal layer (a transport left to be ported) and the tables of the boards tc0 and
  sgm776, whose firmware is not in the repository.

## Plan

1. Done: the transport, the engine, the eight suites, the mocker's handlers and tables, the
   application with and without faults.
2. An abstract call (one request, at most one answer) that `Mailbox` implements while
   nothing has failed, and that `SuitesOnMocker` can stand on in place of its three faults.
   Late answers would then come to `SuitesOnMocker` as well: an exchange would be handed the
   answer to an earlier one, in another test or suite.
3. Proofs: the conditions on the tables under which `NoFalseAlarm`, `SkipsJustified`,
   `RefusalsHarmless` and `CleanRunRestores` hold, as further assumptions, and the
   theorems from them (a table is complete once the tests that fill it are over and nothing
   went wrong: `ClocksOK` is that for one field).
4. A platform that restarts between two exchanges, as a fourth fault.
