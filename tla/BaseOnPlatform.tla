--------------------------- MODULE BaseOnPlatform ---------------------------
(***************************************************************************)
(* The base suite run against any platform that keeps access permissions   *)
(* honestly.                                                               *)
(*                                                                         *)
(* The platform (external) may refuse any command, support or not support  *)
(* anything, return wrong values, and page its protocol list as it likes.  *)
(* Its answer may also be lost, or what the agent reads instead may not be *)
(* the answer at all, whether or not the command was executed.  What it    *)
(* does not do is lie about permissions (module Permissions).              *)
(*                                                                         *)
(* pal_send_message returns before the test goes on, so a command and what *)
(* the agent reads as its answer are one step; module Mailbox takes that   *)
(* step apart.                                                             *)
(***************************************************************************)
EXTENDS BaseSuite

CONSTANTS
  Status,      \* statuses the platform answers with
  Version,     \* base protocol versions it may report
  TestAgent    \* the agent id it knows the test agent by

ASSUME VersionAssumption == Version \subseteq Nat \ {0} /\ Garbage \notin Version
ASSUME AgentAssumption   == TestAgent \in Nat

VARIABLES
  device,      \* the test agent may access Device
  protocol,    \* it may access the power protocol of Device
  mangled      \* a check of this test read something else as its answer

vars == <<engineVars, suiteVars, device, protocol, mangled>>

INSTANCE Permissions WITH TestAgents <- {TestAgent}, DeviceAliases <- {Device}

-----------------------------------------------------------------------------
\* Only what the step reads matters of the return values.
Values(s) ==
  CASE s.learn = "version" -> Version \cup {Garbage}
    [] s.learn = "self"    -> {PLATFORM, TestAgent}
    [] s.learn = "page"    -> 1..(NumProtocols - s.args[1])
    [] s.want # Any        -> {s.want, Garbage}
    [] OTHER               -> {0}

\* The platform's own answer.
HonestAnswer(s, r) ==
  /\ r.echo
  /\ Keep(s, r.status)
  /\ UNCHANGED mangled

\* Something else read in its place; the command may have been executed.
MangledAnswer(s, r) ==
  /\ ~r.echo
  /\ mangled' = (mangled \/ s.kind = "check")
  /\ Execute(s) \/ UNCHANGED <<device, protocol>>

-----------------------------------------------------------------------------
Init ==
  /\ SuiteInit
  /\ AllGranted /\ mangled = FALSE

RunTest ==
  /\ StartTest
  /\ mangled' = FALSE
  /\ UNCHANGED <<device, protocol>>

Exchange ==
  /\ test # "none"
  /\ \E e \in BOOLEAN, st \in Status, v \in Values(Head(steps)) :
       LET r == [echo |-> e, status |-> st, value |-> v]
       IN /\ HonestAnswer(Head(steps), r) \/ MangledAnswer(Head(steps), r)
          /\ Answer(r)

Terminated == Finished /\ UNCHANGED vars

Next == RunTest \/ Exchange \/ Terminated

Spec == Init /\ [][Next]_vars

\* One thread, and every call of the transport comes back, with an answer or without:
\* Mailbox!CallReturns says when those of the mailbox do.
FairSpec == Spec /\ WF_vars(RunTest) /\ WF_vars(Exchange)

-----------------------------------------------------------------------------
(* Properties.                                                             *)

TestName == {"b001", "b002", "b003", "b004", "b005", "b006", "b007", "b008", "b009_v1",
             "b009", "b010", "b011", "b012", "b013", "b014", "b015", "b016", "b017"}

TypeOK ==
  /\ queue \in Seq(TestName) /\ test \in TestName \cup {"none"}
  /\ (steps = <<>>) <=> (test = "none")
  /\ count \in [Verdict -> Nat]
  /\ last \in [test: TestName, verdict: Verdict]
              \cup {[test |-> "none", verdict |-> "none"]}
  /\ version \in Version \cup {0}
  /\ info \in [agents: {0, NumAgents}, protocols: {0, NumProtocols},
               self: {PLATFORM, TestAgent}]
  /\ found \subseteq 1..NumProtocols /\ list \subseteq found
  /\ trusted \in BOOLEAN /\ device \in BOOLEAN /\ protocol \in BOOLEAN
  /\ mangled \in BOOLEAN

\* The tests that take access away give it back: between two tests, and as
\* long as no test has failed, the agent has the access it started with,
\* whichever commands the platform supports, refuses or loses.
AccessRestored == test = "none" /\ count["FAIL"] = 0 => Granted

\* An agent the platform layer does not trust changes no permission.
UntrustedIsHarmless == ~trusted => Granted

\* However the platform pages its list, the list the other suites consult
\* when the base suite is over is empty or complete, and it is empty when
\* the protocol attributes were not what was expected.
ListAllOrNothing ==
  /\ test = "none" => list \in {{}, 1..NumProtocols}
  /\ list # {} => info.protocols = NumProtocols

\* Each test that was started is counted once: what app.c prints as the total
\* is 1 when the version test stops the suite, and otherwise the number of
\* tests of the version it read.
TotalIsTestsRun ==
  LET total == count["PASS"] + count["FAIL"] + count["SKIP"]
  IN Finished => total = IF version = 0 THEN 1 ELSE 1 + Len(Schedule(version))

\* The suite comes to its end.
SuiteEnds == <>Finished

\* "Message Header: The message header that is received from the platform is
\* checked against what is in the send command", "for every test case"
\* (docs/user_guide.md:148): the checks of a test that passed have
\* read nothing but the answers to their own commands.
HeaderAlwaysChecked == last.verdict = "PASS" /\ test = "none" => ~mangled

=============================================================================
