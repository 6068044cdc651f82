------------------------------ MODULE BaseProofs ------------------------------
(***************************************************************************)
(* Proofs about the base suite on any honest platform (BaseOnPlatform),    *)
(* for every number of agents and protocols and all answers.               *)
(*                                                                         *)
(* The invariants of BaseOnPlatform speak of the time between two tests;   *)
(* what keeps them true is in the steps a test has left.  GivesBack says   *)
(* of a sequence of steps that access taken away is asked for afterwards.  *)
(***************************************************************************)
EXTENDS BaseOnPlatform, SequenceTheorems, TLAPS

-----------------------------------------------------------------------------
(* Steps.                                                                  *)

StepRecord ==
  [kind: {"check", "probe"}, proto: Nat, msg: Nat, args: Seq(Int), sent: Nat, seen: {<<>>},
   expect: Int, header: BOOLEAN, want: Nat \cup {Any},
   learn: {"nothing", "version", "counts", "page", "self"}]

Step ==
  {s \in StepRecord :
     /\ s.learn \in {"version", "page", "self"} => s.want = Any
     /\ s.kind = "probe" => s.learn = "nothing"}

\* Steps that neither find out the version nor ask for a page of the list.
QuietStep == {s \in Step : s.learn \notin {"version", "page"}}

\* The commands that may take access away.
SetCommand(s) ==
  s.proto = PROTOCOL_BASE
  /\ s.msg \in {BASE_SET_DEVICE_PERMISSIONS, BASE_SET_PROTOCOL_PERMISSIONS}

\* Steps that take no access away unless the test fails by them.
MildStep ==
  {s \in QuietStep :
     SetCommand(s) => s.kind = "check" /\ s.header /\ s.expect # SCMI_SUCCESS}

\* Steps that do not ask for access to be changed.
PlainStep == {s \in QuietStep : ~SetCommand(s)}

\* After step i, the test ends by reading what only an agent with access can,
\* and cannot be skipped before.
Recovers(p, i) ==
  /\ i < Len(p)
  /\ p[Len(p)] = Access(SCMI_SUCCESS)
  /\ \A j \in (i + 1)..Len(p) : p[j].kind = "check"

GivesBack(p) ==
  \A i \in 1..Len(p) : SetCommand(p[i]) =>
    /\ p[i].kind = "check"
    /\ IF p[i].expect = SCMI_SUCCESS THEN Recovers(p, i) ELSE p[i].header

-----------------------------------------------------------------------------
(* The steps of the tests.                                                 *)

\* The statuses the suite expects.
LEMMA StatusesAreInt ==
  /\ SCMI_SUCCESS \in Int /\ SCMI_NOT_FOUND \in Int \ {SCMI_SUCCESS}
  /\ SCMI_INVALID_PARAMETERS \in Int \ {SCMI_SUCCESS} /\ SCMI_DENIED \in Int
BY DEF SCMI_SUCCESS, SCMI_NOT_FOUND, SCMI_INVALID_PARAMETERS, SCMI_DENIED

\* What the tests send are steps.
LEMMA AskIsStep ==
  ASSUME NEW p \in Nat, NEW m \in Nat, NEW a \in Seq(Int), NEW e \in Int
  PROVE  Ask(p, m, a, e) \in StepRecord /\ Ask(p, m, a, e) \in QuietStep
BY DEF Ask, StepRecord, Step, QuietStep

\* A field of a step may be changed.
LEMMA ChangedStep ==
  ASSUME NEW s \in StepRecord
  PROVE  /\ \A w \in Nat \cup {Any} : [s EXCEPT !.want = w] \in StepRecord
         /\ \A b \in BOOLEAN : [s EXCEPT !.header = b] \in StepRecord
         /\ \A n \in Nat : [s EXCEPT !.sent = n] \in StepRecord
         /\ \A k \in {"check", "probe"} : [s EXCEPT !.kind = k] \in StepRecord
         /\ \A l \in {"nothing", "version", "counts", "page", "self"} :
              [s EXCEPT !.learn = l] \in StepRecord
BY DEF StepRecord

\* Every command of the base protocol but the two is a plain step.
LEMMA BaseIsPlain ==
  ASSUME NEW m \in Nat \ {BASE_SET_DEVICE_PERMISSIONS, BASE_SET_PROTOCOL_PERMISSIONS},
         NEW a \in Seq(Int), NEW e \in Int
  PROVE  Base(m, a, e) \in PlainStep
<1>1. Ask(PROTOCOL_BASE, m, a, e) \in QuietStep
  BY AskIsStep DEF PROTOCOL_BASE
<1>2. Ask(PROTOCOL_BASE, m, a, e).msg = m
  BY DEF Ask
<1> QED
  BY <1>1, <1>2 DEF Base, PlainStep, SetCommand

\* And so is one whose value is compared.
LEMMA ValueIsPlain ==
  ASSUME NEW m \in Nat \ {BASE_SET_DEVICE_PERMISSIONS, BASE_SET_PROTOCOL_PERMISSIONS},
         NEW a \in Seq(Int), NEW w \in Nat
  PROVE  BaseValue(m, a, w) \in PlainStep
<1> DEFINE s == Ask(PROTOCOL_BASE, m, a, SCMI_SUCCESS)
           t == [s EXCEPT !.want = w]
<1>1. s \in StepRecord
  BY AskIsStep DEF PROTOCOL_BASE, SCMI_SUCCESS
<1>2. t \in StepRecord
  BY <1>1, ChangedStep
<1>3. t.msg = m /\ t.kind = "check" /\ t.learn = "nothing"
  BY DEF Ask
<1>4. BaseValue(m, a, w) = t
  BY DEF BaseValue, AskValue
<1> HIDE DEF t
<1> QED
  BY <1>2, <1>3, <1>4 DEF Step, QuietStep, PlainStep, SetCommand

\* Probes ask for nothing to be changed.
LEMMA ProbeIsPlain ==
  ASSUME NEW c \in Nat
  PROVE  /\ Probe(PROTOCOL_BASE, c) \in PlainStep
         /\ ProbeUncounted(PROTOCOL_BASE, c) \in PlainStep
<1> DEFINE s == Ask(PROTOCOL_BASE, PROTOCOL_MESSAGE_ATTRIBUTES, <<c>>, SCMI_NOT_FOUND)
           t == [s EXCEPT !.header = FALSE]
           u == [t EXCEPT !.kind = "probe"]
           v == [u EXCEPT !.sent = 0]
<1>0. <<c>> \in Seq(Int)
  OBVIOUS
<1>1. s \in StepRecord
  BY <1>0, AskIsStep, StatusesAreInt DEF PROTOCOL_BASE, PROTOCOL_MESSAGE_ATTRIBUTES
<1>2. t \in StepRecord
  BY <1>1, ChangedStep
<1>3. u \in StepRecord
  BY <1>2, ChangedStep
<1>4. v \in StepRecord
  BY <1>3, ChangedStep
<1>5. /\ u.msg = PROTOCOL_MESSAGE_ATTRIBUTES /\ u.learn = "nothing"
      /\ v.msg = PROTOCOL_MESSAGE_ATTRIBUTES /\ v.learn = "nothing"
  BY DEF Ask
<1>6. Probe(PROTOCOL_BASE, c) = u /\ ProbeUncounted(PROTOCOL_BASE, c) = v
  BY DEF Probe, ProbeUncounted, AskStatus
<1> HIDE DEF u, v
<1> QED
  BY <1>3, <1>4, <1>5, <1>6 DEF Step, QuietStep, PlainStep, SetCommand,
     PROTOCOL_MESSAGE_ATTRIBUTES, BASE_SET_DEVICE_PERMISSIONS, BASE_SET_PROTOCOL_PERMISSIONS

\* Reading the power protocol's version.
LEMMA AccessIsPlain ==
  ASSUME NEW e \in Int
  PROVE  /\ Access(e) \in PlainStep
         /\ [Access(e) EXCEPT !.header = FALSE] \in PlainStep
<1> DEFINE s == Ask(PROTOCOL_POWER_DOMAIN, PROTOCOL_VERSION, <<>>, e)
           t == [s EXCEPT !.header = FALSE]
<1>0. <<>> \in Seq(Int)
  OBVIOUS
<1>1. s \in StepRecord /\ s \in QuietStep
  BY <1>0, AskIsStep DEF PROTOCOL_POWER_DOMAIN, PROTOCOL_VERSION
<1>2. t \in StepRecord
  BY <1>1, ChangedStep
<1>3. /\ s.proto = PROTOCOL_POWER_DOMAIN
      /\ t.proto = PROTOCOL_POWER_DOMAIN /\ t.learn = "nothing" /\ t.kind = "check"
  BY DEF Ask
<1>4. Access(e) = s /\ [Access(e) EXCEPT !.header = FALSE] = t
  BY DEF Access
<1> HIDE DEF s, t
<1>5. s \in PlainStep
  BY <1>1, <1>3 DEF PlainStep, SetCommand, PROTOCOL_BASE, PROTOCOL_POWER_DOMAIN
<1>6. t \in PlainStep
  BY <1>2, <1>3 DEF Step, QuietStep, PlainStep, SetCommand, PROTOCOL_BASE,
     PROTOCOL_POWER_DOMAIN
<1> QED
  BY <1>4, <1>5, <1>6

\* A permission command that is to be refused takes nothing away.
LEMMA RefusedIsMild ==
  ASSUME NEW m \in Nat, NEW a \in Seq(Int), NEW e \in Int \ {SCMI_SUCCESS}
  PROVE  Base(m, a, e) \in MildStep
<1>1. Ask(PROTOCOL_BASE, m, a, e) \in QuietStep
  BY AskIsStep DEF PROTOCOL_BASE
<1>2. LET s == Ask(PROTOCOL_BASE, m, a, e) IN s.kind = "check" /\ s.header /\ s.expect = e
  BY DEF Ask
<1> QED
  BY <1>1, <1>2 DEF Base, MildStep

\* Sequences of plain or of mild steps give back what they take: nothing.
LEMMA MildGivesBack ==
  ASSUME NEW p \in Seq(MildStep)
  PROVE  p \in Seq(QuietStep) /\ GivesBack(p)
BY DEF MildStep, GivesBack

LEMMA PlainIsMild == PlainStep \subseteq MildStep
BY DEF PlainStep, MildStep

LEMMA PlainGivesBack ==
  ASSUME NEW p \in Seq(PlainStep)
  PROVE  p \in Seq(QuietStep) /\ GivesBack(p) /\ \A i \in 1..Len(p) : ~SetCommand(p[i])
BY DEF PlainStep, GivesBack

\* What is asked in order to keep it.
LEMMA LearnIsStep ==
  ASSUME NEW m \in Nat \ {BASE_SET_DEVICE_PERMISSIONS, BASE_SET_PROTOCOL_PERMISSIONS},
         NEW a \in Seq(Int), NEW l \in {"version", "page", "self"}
  PROVE  LET s == AskAndLearn(PROTOCOL_BASE, m, a, l)
         IN /\ s \in Step /\ ~SetCommand(s) /\ s.learn = l /\ s.kind = "check" /\ s.args = a
            /\ l = "self" => s \in PlainStep
<1> DEFINE s == Ask(PROTOCOL_BASE, m, a, SCMI_SUCCESS)
           t == [s EXCEPT !.learn = l]
<1>1. s \in StepRecord
  BY AskIsStep, StatusesAreInt DEF PROTOCOL_BASE
<1>2. t \in StepRecord
  BY <1>1, ChangedStep
<1>3. t.msg = m /\ t.learn = l /\ t.want = Any /\ t.kind = "check" /\ t.args = a
  BY <1>1 DEF Ask
<1>4. AskAndLearn(PROTOCOL_BASE, m, a, l) = t
  BY DEF AskAndLearn
<1> HIDE DEF t
<1> QED
  BY <1>2, <1>3, <1>4 DEF Step, QuietStep, PlainStep, SetCommand

-----------------------------------------------------------------------------
(* The tests that change no access are sequences of plain steps.           *)

\* The list of the messages that are not the two.
LEMMA OtherMessages ==
  /\ PROTOCOL_VERSION \in Nat /\ PROTOCOL_ATTRIBUTES \in Nat
  /\ PROTOCOL_MESSAGE_ATTRIBUTES \in Nat /\ BASE_DISCOVER_VENDOR \in Nat
  /\ {PROTOCOL_VERSION, PROTOCOL_ATTRIBUTES, PROTOCOL_MESSAGE_ATTRIBUTES, BASE_DISCOVER_VENDOR,
      BASE_DISCOVER_SUB_VENDOR, BASE_DISCOVER_IMPLEMENTATION_VERSION,
      BASE_DISCOVER_LIST_PROTOCOLS, BASE_DISCOVER_AGENT, BASE_NOTIFY_ERRORS,
      BASE_RESET_AGENT_CONFIGURATION, BASE_INVALID_COMMAND}
       \subseteq Nat \ {BASE_SET_DEVICE_PERMISSIONS, BASE_SET_PROTOCOL_PERMISSIONS}
  /\ BASE_SET_DEVICE_PERMISSIONS \in Nat /\ BASE_SET_PROTOCOL_PERMISSIONS \in Nat
BY DEF PROTOCOL_VERSION, PROTOCOL_ATTRIBUTES, PROTOCOL_MESSAGE_ATTRIBUTES, BASE_DISCOVER_VENDOR,
   BASE_DISCOVER_SUB_VENDOR, BASE_DISCOVER_IMPLEMENTATION_VERSION, BASE_DISCOVER_LIST_PROTOCOLS,
   BASE_DISCOVER_AGENT, BASE_NOTIFY_ERRORS, BASE_RESET_AGENT_CONFIGURATION,
   BASE_INVALID_COMMAND, BASE_SET_DEVICE_PERMISSIONS, BASE_SET_PROTOCOL_PERMISSIONS

\* Parameters of up to four words.
LEMMA Parameters ==
  /\ <<>> \in Seq(Int)
  /\ \A x \in Int : <<x>> \in Seq(Int)
  /\ \A x, y \in Int : <<x, y>> \in Seq(Int)
  /\ \A x, y, z \in Int : <<x, y, z>> \in Seq(Int)
  /\ \A x, y, z, u \in Int : <<x, y, z, u>> \in Seq(Int)
OBVIOUS

LEMMA PlainB002 == TestB002 \in Seq(PlainStep) \ {<<>>}
<1> DEFINE s == BaseValue(PROTOCOL_ATTRIBUTES, <<>>, AttributesWord)
           t == [s EXCEPT !.learn = "counts"]
<1>1. AttributesWord \in Nat
  BY ExpectedAssumption DEF AttributesWord
<1>2. s \in PlainStep
  BY <1>1, ValueIsPlain, OtherMessages, Parameters
<1>3. s \in StepRecord
  BY <1>2 DEF PlainStep, QuietStep, Step
<1>4. t \in StepRecord
  BY <1>3, ChangedStep
<1>5. t.learn = "counts" /\ t.kind = "check" /\ t.msg = PROTOCOL_ATTRIBUTES
  BY <1>3 DEF BaseValue, AskValue, Ask, StepRecord
<1>6. t \in PlainStep
  BY <1>4, <1>5, OtherMessages DEF Step, QuietStep, PlainStep, SetCommand
<1> HIDE DEF t
<1>7. TestB002 = <<t>>
  BY DEF TestB002, t
<1> QED
  BY <1>6, <1>7

LEMMA PlainB003 == TestB003 \in Seq(PlainStep) \ {<<>>}
<1> DEFINE Asks(id) == BaseValue(PROTOCOL_MESSAGE_ATTRIBUTES, <<id>>, 0)
<1>1. ASSUME NEW id \in Nat PROVE Asks(id) \in PlainStep
  <2>1. <<id>> \in Seq(Int)
    OBVIOUS
  <2> QED
    BY <2>1, ValueIsPlain, OtherMessages
<1> HIDE DEF Asks
<1>2. TestB003 = <<Asks(BASE_DISCOVER_VENDOR), Asks(BASE_DISCOVER_IMPLEMENTATION_VERSION),
                   Asks(BASE_DISCOVER_LIST_PROTOCOLS)>>
  BY DEF TestB003, Asks
<1> QED
  BY <1>1, <1>2, OtherMessages

LEMMA PlainB004 == TestB004 \in Seq(PlainStep) \ {<<>>}
<1> DEFINE s == Base(BASE_INVALID_COMMAND, <<>>, SCMI_NOT_FOUND)
           t == Base(PROTOCOL_MESSAGE_ATTRIBUTES, <<BASE_INVALID_COMMAND>>, SCMI_NOT_FOUND)
<1>0. <<BASE_INVALID_COMMAND>> \in Seq(Int) /\ <<>> \in Seq(Int)
  BY OtherMessages
<1>1. s \in PlainStep /\ t \in PlainStep
  BY <1>0, BaseIsPlain, OtherMessages, StatusesAreInt
<1> HIDE DEF s, t
<1>2. TestB004 = <<s, t>>
  BY DEF TestB004, s, t
<1> QED
  BY <1>1, <1>2

LEMMA PlainB005To007 ==
  /\ TestB005 \in Seq(PlainStep) \ {<<>>}
  /\ TestB006 \in Seq(PlainStep) \ {<<>>}
  /\ TestB007 \in Seq(PlainStep) \ {<<>>}
<1> DEFINE Named(m) == BaseValue(m, <<>>, EXPECTED)
           asks == ProbeUncounted(PROTOCOL_BASE, BASE_DISCOVER_SUB_VENDOR)
<1>1. asks \in PlainStep
  BY ProbeIsPlain, OtherMessages
<1>2. \A m \in Nat \ {BASE_SET_DEVICE_PERMISSIONS, BASE_SET_PROTOCOL_PERMISSIONS} :
        Named(m) \in PlainStep
  BY ValueIsPlain, Parameters DEF EXPECTED
<1> HIDE DEF Named, asks
<1>3. /\ TestB005 = <<Named(BASE_DISCOVER_VENDOR)>>
      /\ TestB006 = <<asks, Named(BASE_DISCOVER_SUB_VENDOR)>>
      /\ TestB007 = <<Named(BASE_DISCOVER_IMPLEMENTATION_VERSION)>>
  BY DEF TestB005, TestB006, TestB007, Named, asks
<1> QED
  BY <1>1, <1>2, <1>3, OtherMessages

\* The tests that name every agent there is, whichever number the platform told.
LEMMA PlainB009 ==
  ASSUME info.agents \in Nat
  PROVE  TestB009_v1 \in Seq(PlainStep) \ {<<>>} /\ TestB009 \in Seq(PlainStep) \ {<<>>}
<1> DEFINE asks == Probe(PROTOCOL_BASE, BASE_DISCOVER_AGENT)
           platform == BaseValue(BASE_DISCOVER_AGENT, <<PLATFORM>>, PLATFORM)
           own == AskAndLearn(PROTOCOL_BASE, BASE_DISCOVER_AGENT, <<OWN_AGENT>>, "self")
           Agent(i) == Base(BASE_DISCOVER_AGENT, <<i>>, SCMI_SUCCESS)
           Named(i) == BaseValue(BASE_DISCOVER_AGENT, <<i>>, i)
           past == Base(BASE_DISCOVER_AGENT, <<info.agents + 1>>, SCMI_NOT_FOUND)
<1>1. asks \in PlainStep
  BY ProbeIsPlain, OtherMessages
<1>2. platform \in PlainStep
  <2>1. <<PLATFORM>> \in Seq(Int) /\ PLATFORM \in Nat
    BY DEF PLATFORM
  <2> QED
    BY <2>1, ValueIsPlain, OtherMessages
<1>3. own \in PlainStep
  <2>1. <<OWN_AGENT>> \in Seq(Int)
    BY DEF OWN_AGENT
  <2> QED
    BY <2>1, LearnIsStep, OtherMessages
<1>4. ASSUME NEW i \in Nat PROVE Agent(i) \in PlainStep /\ Named(i) \in PlainStep
  <2>1. <<i>> \in Seq(Int)
    OBVIOUS
  <2>2. Agent(i) \in PlainStep
    BY <2>1, BaseIsPlain, OtherMessages, StatusesAreInt
  <2>3. Named(i) \in PlainStep
    BY <2>1, ValueIsPlain, OtherMessages
  <2> QED
    BY <2>2, <2>3
<1>6. past \in PlainStep
  <2>1. <<info.agents + 1>> \in Seq(Int)
    OBVIOUS
  <2> QED
    BY <2>1, BaseIsPlain, OtherMessages, StatusesAreInt
<1>7. /\ TestB009_v1 = <<asks, platform>> \o [i \in 1..info.agents |-> Agent(i)] \o <<past>>
      /\ TestB009 = <<asks, platform, own>> \o [i \in 1..info.agents |-> Named(i)] \o <<past>>
  BY DEF TestB009_v1, TestB009
<1> HIDE DEF asks, platform, own, Agent, Named, past
<1>8. /\ [i \in 1..info.agents |-> Agent(i)] \in Seq(PlainStep)
      /\ [i \in 1..info.agents |-> Named(i)] \in Seq(PlainStep)
  BY <1>4
<1>9. /\ <<asks, platform>> \in Seq(PlainStep) /\ <<asks, platform, own>> \in Seq(PlainStep)
      /\ <<past>> \in Seq(PlainStep)
  BY <1>1, <1>2, <1>3, <1>6
<1>10. /\ Len(<<asks, platform>>) > 0 /\ Len(<<asks, platform, own>>) > 0
  OBVIOUS
<1> QED
  BY <1>7, <1>8, <1>9, <1>10

LEMMA PlainB010 == TestB010 \in Seq(PlainStep) \ {<<>>}
<1> DEFINE asks == Probe(PROTOCOL_BASE, BASE_NOTIFY_ERRORS)
           t == Base(BASE_NOTIFY_ERRORS, <<INVALID_FLAG>>, SCMI_INVALID_PARAMETERS)
<1>0. <<INVALID_FLAG>> \in Seq(Int)
  BY DEF INVALID_FLAG
<1>1. asks \in PlainStep /\ t \in PlainStep
  BY <1>0, ProbeIsPlain, BaseIsPlain, OtherMessages, StatusesAreInt
<1> HIDE DEF asks, t
<1>2. TestB010 = <<asks, t>>
  BY DEF TestB010, asks, t
<1> QED
  BY <1>1, <1>2

-----------------------------------------------------------------------------
(* The permission tests of a trusted agent.                                *)

\* Permission commands, to be refused or to be carried out.
LEMMA SetDeviceIsQuiet ==
  ASSUME NEW a \in Int, NEW d \in Int, NEW f \in Int, NEW e \in Int
  PROVE  LET s == SetDevice(a, d, f, e)
         IN /\ s \in QuietStep /\ s.kind = "check" /\ s.expect = e
            /\ e # SCMI_SUCCESS => s \in MildStep
<1>0. <<a, d, f>> \in Seq(Int)
  OBVIOUS
<1> DEFINE s == SetDevice(a, d, f, e)
<1>1. s \in QuietStep
  BY <1>0, AskIsStep, OtherMessages DEF SetDevice, Base, PROTOCOL_BASE
<1>2. s.kind = "check" /\ s.expect = e
  BY DEF SetDevice, Base, Ask
<1>3. e # SCMI_SUCCESS => s \in MildStep
  BY <1>0, RefusedIsMild, OtherMessages DEF SetDevice
<1> QED
  BY <1>1, <1>2, <1>3

LEMMA SetProtocolIsQuiet ==
  ASSUME NEW a \in Int, NEW d \in Int, NEW p \in Int, NEW f \in Int, NEW e \in Int
  PROVE  LET s == SetProtocol(a, d, p, f, e)
         IN /\ s \in QuietStep /\ s.kind = "check" /\ s.expect = e
            /\ e # SCMI_SUCCESS => s \in MildStep
<1>0. <<a, d, p, f>> \in Seq(Int)
  OBVIOUS
<1> DEFINE s == SetProtocol(a, d, p, f, e)
<1>1. s \in QuietStep
  BY <1>0, AskIsStep, OtherMessages DEF SetProtocol, Base, PROTOCOL_BASE
<1>2. s.kind = "check" /\ s.expect = e
  BY DEF SetProtocol, Base, Ask
<1>3. e # SCMI_SUCCESS => s \in MildStep
  BY <1>0, RefusedIsMild, OtherMessages DEF SetProtocol
<1> QED
  BY <1>1, <1>2, <1>3

LEMMA ResetIsPlain ==
  ASSUME NEW a \in Int, NEW f \in Int, NEW e \in Int
  PROVE  Reset(a, f, e) \in PlainStep /\ Reset(a, f, e).kind = "check"
<1>0. <<a, f>> \in Seq(Int)
  OBVIOUS
<1>1. Reset(a, f, e) \in PlainStep
  BY <1>0, BaseIsPlain, OtherMessages DEF Reset
<1> QED
  BY <1>1 DEF Reset, Base, Ask

\* Tests b011, b013 and b015 send nothing that is not to be refused.
LEMMA MildPermissionTests ==
  ASSUME info.agents \in Nat, info.self \in Int
  PROVE  \A p \in {TestB011, TestB013, TestB015} :
           IF trusted THEN p \in Seq(MildStep) \ {<<>>} ELSE p = <<Skip>>
<1> DEFINE asks(m) == Supports(m)
           d1 == SetDevice(InvalidAgent, Device, FLAG_ACCESS_ALLOW, SCMI_NOT_FOUND)
           d2 == SetDevice(info.self, Device, INVALID_FLAG, SCMI_INVALID_PARAMETERS)
           d3 == SetDevice(info.self, ForeignDevice, FLAG_ACCESS_DENY, SCMI_NOT_FOUND)
           p1 == SetProtocol(InvalidAgent, Device, PROTOCOL_POWER_DOMAIN, FLAG_ACCESS_ALLOW,
                             SCMI_NOT_FOUND)
           p2 == SetProtocol(info.self, Device, PROTOCOL_BASE, FLAG_ACCESS_DENY, SCMI_NOT_FOUND)
           p3 == SetProtocol(info.self, Device, PROTOCOL_POWER_DOMAIN, INVALID_FLAG,
                             SCMI_INVALID_PARAMETERS)
           p4 == SetProtocol(info.self, ForeignDevice, PROTOCOL_POWER_DOMAIN, FLAG_ACCESS_DENY,
                             SCMI_NOT_FOUND)
           r1 == Reset(InvalidAgent, FLAG_ACCESS_ALLOW, SCMI_NOT_FOUND)
           r2 == Reset(info.self, INVALID_FLAG, SCMI_INVALID_PARAMETERS)
<1>1. /\ InvalidAgent \in Int /\ Device \in Int /\ ForeignDevice \in Int
      /\ FLAG_ACCESS_ALLOW \in Int /\ FLAG_ACCESS_DENY \in Int /\ INVALID_FLAG \in Int
      /\ PROTOCOL_BASE \in Int /\ PROTOCOL_POWER_DOMAIN \in Int
  BY DeviceAssumption DEF InvalidAgent, FLAG_ACCESS_ALLOW, FLAG_ACCESS_DENY, INVALID_FLAG,
     PROTOCOL_BASE, PROTOCOL_POWER_DOMAIN
<1>2. \A m \in Nat : asks(m) \in MildStep
  BY ProbeIsPlain, PlainIsMild DEF Supports
<1>3. d1 \in MildStep /\ d2 \in MildStep /\ d3 \in MildStep
  BY <1>1, SetDeviceIsQuiet, StatusesAreInt
<1>4. p1 \in MildStep /\ p2 \in MildStep /\ p3 \in MildStep /\ p4 \in MildStep
  BY <1>1, SetProtocolIsQuiet, StatusesAreInt
<1>5. r1 \in MildStep /\ r2 \in MildStep
  BY <1>1, ResetIsPlain, PlainIsMild, StatusesAreInt
<1>6. /\ TestB011 = IfTrusted(<<asks(BASE_SET_DEVICE_PERMISSIONS), d1, d2, d3>>)
      /\ TestB013 = IfTrusted(<<asks(BASE_SET_PROTOCOL_PERMISSIONS), p1, p2, p3, p4>>)
      /\ TestB015 = IfTrusted(<<asks(BASE_RESET_AGENT_CONFIGURATION), r1, r2>>)
  BY DEF TestB011, TestB013, TestB015
<1> HIDE DEF asks, d1, d2, d3, p1, p2, p3, p4, r1, r2
<1>7. /\ <<asks(BASE_SET_DEVICE_PERMISSIONS), d1, d2, d3>> \in Seq(MildStep) \ {<<>>}
      /\ <<asks(BASE_SET_PROTOCOL_PERMISSIONS), p1, p2, p3, p4>> \in Seq(MildStep) \ {<<>>}
      /\ <<asks(BASE_RESET_AGENT_CONFIGURATION), r1, r2>> \in Seq(MildStep) \ {<<>>}
  BY <1>2, <1>3, <1>4, <1>5, OtherMessages
<1> QED
  BY <1>6, <1>7 DEF IfTrusted

\* A test that begins with k questions, and then only asks for what it expects
\* to be carried out until it reads what it needs access for, gives it back.
ReadsInTheEnd(p, k) ==
  /\ \A i \in 1..k : ~SetCommand(p[i])
  /\ \A i \in (k + 1)..Len(p) : p[i].kind = "check"
  /\ \A i \in 1..Len(p) : SetCommand(p[i]) => p[i].expect = SCMI_SUCCESS
  /\ p[Len(p)] = Access(SCMI_SUCCESS)

LEMMA EndsWithAccess ==
  ASSUME NEW p \in Seq(QuietStep) \ {<<>>}, NEW k \in Nat, ReadsInTheEnd(p, k)
  PROVE  GivesBack(p)
<1> SUFFICES ASSUME NEW i \in 1..Len(p), SetCommand(p[i])
             PROVE  p[i].kind = "check" /\ p[i].expect = SCMI_SUCCESS /\ Recovers(p, i)
  BY DEF GivesBack, ReadsInTheEnd
<1>1. i > k
  BY DEF ReadsInTheEnd
<1>2. ~SetCommand(p[Len(p)])
  BY AccessIsPlain, StatusesAreInt DEF PlainStep, ReadsInTheEnd
<1>3. i < Len(p)
  BY <1>2
<1> QED
  BY <1>1, <1>3 DEF Recovers, ReadsInTheEnd

\* Tests b012, b014, b016 and b017 do.
LEMMA ReturningTests ==
  ASSUME info.self \in Int
  PROVE  \A p \in {TestB012, TestB014, TestB016, TestB017} :
           IF trusted THEN p \in Seq(QuietStep) \ {<<>>} /\ GivesBack(p) ELSE p = <<Skip>>
<1> DEFINE q1 == Supports(BASE_SET_DEVICE_PERMISSIONS)
           q2 == Supports(BASE_SET_PROTOCOL_PERMISSIONS)
           q3 == Supports(BASE_RESET_AGENT_CONFIGURATION)
           Dev(f) == SetDevice(info.self, Device, f, SCMI_SUCCESS)
           Pro(f) == SetProtocol(info.self, Device, PROTOCOL_POWER_DOMAIN, f, SCMI_SUCCESS)
           d0 == Dev(FLAG_ACCESS_DENY)
           d1 == Dev(FLAG_ACCESS_ALLOW)
           p0 == Pro(FLAG_ACCESS_DENY)
           p1 == [Pro(FLAG_ACCESS_ALLOW) EXCEPT !.header = FALSE]
           r  == Reset(info.self, FLAG_RESET_ACCESS, SCMI_SUCCESS)
           no == Access(SCMI_DENIED)
           nu == [Access(SCMI_DENIED) EXCEPT !.header = FALSE]
           ok == Access(SCMI_SUCCESS)
<1>1. /\ Device \in Int /\ FLAG_ACCESS_ALLOW \in Int /\ FLAG_ACCESS_DENY \in Int
      /\ PROTOCOL_POWER_DOMAIN \in Int /\ FLAG_RESET_ACCESS \in Int
  BY DeviceAssumption DEF FLAG_ACCESS_ALLOW, FLAG_ACCESS_DENY, PROTOCOL_POWER_DOMAIN,
     FLAG_RESET_ACCESS
<1>2. q1 \in PlainStep /\ q2 \in PlainStep /\ q3 \in PlainStep
  BY ProbeIsPlain, OtherMessages DEF Supports
<1>3. ASSUME NEW f \in Int
      PROVE  /\ Dev(f) \in QuietStep /\ Dev(f).kind = "check" /\ Dev(f).expect = SCMI_SUCCESS
             /\ Pro(f) \in QuietStep /\ Pro(f).kind = "check" /\ Pro(f).expect = SCMI_SUCCESS
  <2>1. SCMI_SUCCESS \in Int
    BY StatusesAreInt
  <2>2. Dev(f) \in QuietStep /\ Dev(f).kind = "check" /\ Dev(f).expect = SCMI_SUCCESS
    BY <1>1, <2>1, SetDeviceIsQuiet
  <2>3. Pro(f) \in QuietStep /\ Pro(f).kind = "check" /\ Pro(f).expect = SCMI_SUCCESS
    <3>1. Pro(f) \in QuietStep
      BY <1>1, <2>1, SetProtocolIsQuiet
    <3> QED
      BY <3>1 DEF SetProtocol, Base, Ask
  <2> QED
    BY <2>2, <2>3
<1>4. p1 \in QuietStep /\ p1.kind = "check" /\ p1.expect = SCMI_SUCCESS
  <2> DEFINE s == Pro(FLAG_ACCESS_ALLOW)
  <2>1. s \in QuietStep /\ s.kind = "check" /\ s.expect = SCMI_SUCCESS
    BY <1>1, <1>3
  <2>2. s \in StepRecord
    BY <2>1 DEF QuietStep, Step
  <2> HIDE DEF s
  <2>3. [s EXCEPT !.header = FALSE] \in StepRecord
    BY <2>2, ChangedStep
  <2>4. LET t == [s EXCEPT !.header = FALSE]
        IN t.kind = "check" /\ t.expect = SCMI_SUCCESS /\ t.learn = s.learn /\ t.want = s.want
    BY <2>1, <2>2 DEF StepRecord
  <2>5. [s EXCEPT !.header = FALSE] \in QuietStep
    BY <2>1, <2>3, <2>4 DEF QuietStep, Step
  <2> QED
    BY <2>4, <2>5 DEF s
<1>5. r \in PlainStep /\ r.kind = "check"
  BY <1>1, ResetIsPlain, StatusesAreInt
<1>6. /\ no \in PlainStep /\ nu \in PlainStep /\ ok \in PlainStep
      /\ no.kind = "check" /\ nu.kind = "check" /\ ok.kind = "check"
  <2>1. no \in PlainStep /\ nu \in PlainStep /\ ok \in PlainStep
    BY AccessIsPlain, StatusesAreInt
  <2> QED
    BY <2>1 DEF Access, Ask
<1>7. d0 \in QuietStep /\ d0.kind = "check" /\ d0.expect = SCMI_SUCCESS
  BY <1>1, <1>3
<1>8. d1 \in QuietStep /\ d1.kind = "check" /\ d1.expect = SCMI_SUCCESS
  BY <1>1, <1>3
<1>9. p0 \in QuietStep /\ p0.kind = "check" /\ p0.expect = SCMI_SUCCESS
  BY <1>1, <1>3
<1>10. /\ TestB012 = IfTrusted(<<q1, d0, no, d1, ok>>)
       /\ TestB014 = IfTrusted(<<q2, p0, no, p1, ok>>)
       /\ TestB016 = IfTrusted(<<q1, q3, d0, nu, r, ok>>)
       /\ TestB017 = IfTrusted(<<q2, q3, p0, no, r, ok>>)
  BY DEF TestB012, TestB014, TestB016, TestB017
<1>11. ok = Access(SCMI_SUCCESS)
  OBVIOUS
<1> HIDE DEF q1, q2, q3, d0, d1, p0, p1, r, no, nu, ok
<1>12. \A s \in {q1, q2, q3, no, nu, r, ok} : s \in QuietStep /\ ~SetCommand(s)
  BY <1>2, <1>5, <1>6 DEF PlainStep
<1>13. <<q1, d0, no, d1, ok>> \in Seq(QuietStep) \ {<<>>} /\ GivesBack(<<q1, d0, no, d1, ok>>)
  <2> DEFINE p == <<q1, d0, no, d1, ok>>
  <2>1. p \in Seq(QuietStep) \ {<<>>}
    BY <1>7, <1>8, <1>12
  <2>2. \A i \in 1..1 : ~SetCommand(p[i])
    BY <1>12
  <2>3. \A i \in 2..Len(p) : p[i].kind = "check"
    BY <1>6, <1>7, <1>8
  <2>4. \A i \in 1..Len(p) : SetCommand(p[i]) => p[i].expect = SCMI_SUCCESS
    BY <1>7, <1>8, <1>12
  <2>5. p[Len(p)] = Access(SCMI_SUCCESS)
    BY <1>11
  <2>6. ReadsInTheEnd(p, 1)
    BY <2>2, <2>3, <2>4, <2>5 DEF ReadsInTheEnd
  <2> HIDE DEF p
  <2>7. GivesBack(p)
    BY <2>1, <2>6, EndsWithAccess
  <2> QED
    BY <2>1, <2>7 DEF p
<1>14. <<q2, p0, no, p1, ok>> \in Seq(QuietStep) \ {<<>>} /\ GivesBack(<<q2, p0, no, p1, ok>>)
  <2> DEFINE p == <<q2, p0, no, p1, ok>>
  <2>1. p \in Seq(QuietStep) \ {<<>>}
    BY <1>4, <1>9, <1>12
  <2>2. \A i \in 1..1 : ~SetCommand(p[i])
    BY <1>12
  <2>3. \A i \in 2..Len(p) : p[i].kind = "check"
    BY <1>4, <1>6, <1>9
  <2>4. \A i \in 1..Len(p) : SetCommand(p[i]) => p[i].expect = SCMI_SUCCESS
    BY <1>4, <1>9, <1>12
  <2>5. p[Len(p)] = Access(SCMI_SUCCESS)
    BY <1>11
  <2>6. ReadsInTheEnd(p, 1)
    BY <2>2, <2>3, <2>4, <2>5 DEF ReadsInTheEnd
  <2> HIDE DEF p
  <2>7. GivesBack(p)
    BY <2>1, <2>6, EndsWithAccess
  <2> QED
    BY <2>1, <2>7 DEF p
<1>15. /\ <<q1, q3, d0, nu, r, ok>> \in Seq(QuietStep) \ {<<>>}
       /\ GivesBack(<<q1, q3, d0, nu, r, ok>>)
  <2> DEFINE p == <<q1, q3, d0, nu, r, ok>>
  <2>1. p \in Seq(QuietStep) \ {<<>>}
    BY <1>7, <1>12
  <2>2. \A i \in 1..2 : ~SetCommand(p[i])
    BY <1>12
  <2>3. \A i \in 3..Len(p) : p[i].kind = "check"
    BY <1>5, <1>6, <1>7
  <2>4. \A i \in 1..Len(p) : SetCommand(p[i]) => p[i].expect = SCMI_SUCCESS
    BY <1>7, <1>12
  <2>5. p[Len(p)] = Access(SCMI_SUCCESS)
    BY <1>11
  <2>6. ReadsInTheEnd(p, 2)
    BY <2>2, <2>3, <2>4, <2>5 DEF ReadsInTheEnd
  <2> HIDE DEF p
  <2>7. GivesBack(p)
    BY <2>1, <2>6, EndsWithAccess
  <2> QED
    BY <2>1, <2>7 DEF p
<1>16. /\ <<q2, q3, p0, no, r, ok>> \in Seq(QuietStep) \ {<<>>}
       /\ GivesBack(<<q2, q3, p0, no, r, ok>>)
  <2> DEFINE p == <<q2, q3, p0, no, r, ok>>
  <2>1. p \in Seq(QuietStep) \ {<<>>}
    BY <1>9, <1>12
  <2>2. \A i \in 1..2 : ~SetCommand(p[i])
    BY <1>12
  <2>3. \A i \in 3..Len(p) : p[i].kind = "check"
    BY <1>5, <1>6, <1>9
  <2>4. \A i \in 1..Len(p) : SetCommand(p[i]) => p[i].expect = SCMI_SUCCESS
    BY <1>9, <1>12
  <2>5. p[Len(p)] = Access(SCMI_SUCCESS)
    BY <1>11
  <2>6. ReadsInTheEnd(p, 2)
    BY <2>2, <2>3, <2>4, <2>5 DEF ReadsInTheEnd
  <2> HIDE DEF p
  <2>7. GivesBack(p)
    BY <2>1, <2>6, EndsWithAccess
  <2> QED
    BY <2>1, <2>7 DEF p
<1> QED
  BY <1>10, <1>13, <1>14, <1>15, <1>16 DEF IfTrusted

\* What the tests are made of, but for the two that learn the version and the
\* protocols: an agent that is not trusted never asks for a permission.
LEMMA Programs ==
  ASSUME info.agents \in Nat, info.self \in Int, NEW t \in TestName \ {"b001", "b008"}
  PROVE  \/ Program(t) = <<Skip>>
         \/ /\ Program(t) \in Seq(QuietStep) \ {<<>>}
            /\ GivesBack(Program(t))
            /\ ~trusted => \A i \in 1..Len(Program(t)) : ~SetCommand(Program(t)[i])
<1> DEFINE Good(p) == \/ p = <<Skip>>
                      \/ /\ p \in Seq(QuietStep) \ {<<>>} /\ GivesBack(p)
                         /\ ~trusted => \A i \in 1..Len(p) : ~SetCommand(p[i])
<1>1. ASSUME NEW p \in Seq(PlainStep) \ {<<>>} PROVE Good(p)
  BY PlainGivesBack
<1>2. ASSUME NEW p \in {TestB011, TestB013, TestB015} PROVE Good(p)
  BY MildPermissionTests, MildGivesBack
<1>3. ASSUME NEW p \in {TestB012, TestB014, TestB016, TestB017} PROVE Good(p)
  BY ReturningTests
<1>4. \A p \in {TestB002, TestB003, TestB004, TestB005, TestB006, TestB007, TestB009_v1,
               TestB009, TestB010} : p \in Seq(PlainStep) \ {<<>>}
  BY PlainB002, PlainB003, PlainB004, PlainB005To007, PlainB009, PlainB010
<1>5. Program(t) \in {TestB002, TestB003, TestB004, TestB005, TestB006, TestB007, TestB009_v1,
                    TestB009, TestB010, TestB011, TestB012, TestB013, TestB014, TestB015,
                    TestB016, TestB017}
  BY DEF Program, TestName
<1> HIDE DEF Good
<1>6. Good(Program(t))
  BY <1>1, <1>2, <1>3, <1>4, <1>5
<1> QED
  BY <1>6 DEF Good

-----------------------------------------------------------------------------
(* The inductive invariant.                                                *)

\* Test b001 has one step; no other learns the version.  Test b008 is the only
\* one to ask for pages, one after the other, each from where the last ended.
PageAhead(s) ==
  /\ s.args[1] \in 0..(NumProtocols - 1)
  /\ found = 1..s.args[1] /\ list = {}
  /\ info.protocols = NumProtocols

ByTest ==
  /\ steps \in Seq(Step)
  /\ test = "b001" => steps = TestB001
  /\ test = "b008" =>
       \A i \in 1..Len(steps) :
         /\ ~SetCommand(steps[i]) /\ steps[i].learn # "version"
         /\ steps[i].learn = "page" => i = 1 /\ PageAhead(steps[i])
  /\ test \notin {"b001", "b008"} => steps \in Seq(QuietStep)

\* The agent has access, or the test in progress cannot pass or be skipped
\* without reading what needs it.
Returning ==
  /\ steps # <<>> /\ steps[Len(steps)] = Access(SCMI_SUCCESS)
  /\ \A i \in 1..Len(steps) : steps[i].kind = "check"

AccessKept ==
  /\ GivesBack(steps)
  /\ count["FAIL"] = 0 => Granted \/ Returning

TrustKept == ~trusted => Granted /\ \A i \in 1..Len(steps) : ~SetCommand(steps[i])

ListKept ==
  /\ list \in {{}, 1..NumProtocols}
  /\ list # {} => info.protocols = NumProtocols

\* Every test is waiting, running or counted.
Counted == count["PASS"] + count["FAIL"] + count["SKIP"]
Running == IF test = "none" THEN 0 ELSE 1

TotalKept ==
  IF version = 0
  THEN \/ queue = <<"b001">> /\ test = "none" /\ Counted = 0
       \/ queue = <<>> /\ test = "b001" /\ Counted = 0
       \/ queue = <<>> /\ test = "none" /\ Counted = 1
  ELSE /\ test # "b001" /\ \A i \in 1..Len(queue) : queue[i] # "b001"
       /\ Counted + Running + Len(queue) = 1 + Len(Schedule(version))

IInv == TypeOK /\ ByTest /\ AccessKept /\ TrustKept /\ ListKept /\ TotalKept

-----------------------------------------------------------------------------
(* What a step of the suite does.                                          *)

\* A sequence of steps, its first and the rest.
LEMMA FirstStep ==
  ASSUME NEW p \in Seq(Step) \ {<<>>}
  PROVE  /\ Len(p) \in Nat \ {0} /\ Head(p) = p[1] /\ p[1] \in Step
         /\ Tail(p) \in Seq(Step) /\ Len(Tail(p)) = Len(p) - 1
         /\ \A i \in 1..(Len(p) - 1) : Tail(p)[i] = p[i + 1]
         /\ (Tail(p) = <<>>) <=> (Len(p) = 1)
<1>1. Len(p) \in Nat \ {0} /\ Head(p) = p[1] /\ p[1] \in Step
  OBVIOUS
<1>2. Tail(p) \in Seq(Step) /\ Len(Tail(p)) = Len(p) - 1
  OBVIOUS
<1>3. \A i \in 1..(Len(p) - 1) : Tail(p)[i] = p[i + 1]
  OBVIOUS
<1> QED
  BY <1>1, <1>2, <1>3

\* Only Skip and Fail, which are not steps, end a test before its last line.
LEMMA EndOfSteps ==
  ASSUME NEW p \in Seq(Step)
  PROVE  Ended(p) = IF p = <<>> THEN "PASS" ELSE "none"
<1>1. CASE p = <<>>
  BY <1>1 DEF Ended
<1>2. CASE p # <<>>
  <2>1. Head(p).kind \in {"check", "probe"}
    BY <1>2, FirstStep DEF Step, StepRecord
  <2> QED
    BY <1>2, <2>1 DEF Ended
<1> QED
  BY <1>1, <1>2

LEMMA PageIsStep ==
  ASSUME NEW k \in Nat
  PROVE  LET s == Page(k)
         IN /\ s \in Step /\ ~SetCommand(s) /\ s.learn = "page" /\ s.kind = "check"
            /\ s.args = <<k>>
<1> DEFINE s == AskAndLearn(PROTOCOL_BASE, BASE_DISCOVER_LIST_PROTOCOLS, <<k>>, "page")
<1>1. <<k>> \in Seq(Int)
  OBVIOUS
<1>2. s \in Step /\ ~SetCommand(s)
  BY <1>1, LearnIsStep, OtherMessages
<1>3. s.learn = "page" /\ s.kind = "check" /\ s.args = <<k>>
  BY DEF AskAndLearn, Ask
<1> QED
  BY <1>2, <1>3 DEF Page

LEMMA VersionIsStep ==
  /\ TestB001 \in Seq(Step) /\ Len(TestB001) = 1
  /\ LET s == TestB001[1] IN s.learn = "version" /\ s.kind = "check" /\ ~SetCommand(s)
<1>1. <<>> \in Seq(Int)
  OBVIOUS
<1> DEFINE s == AskAndLearn(PROTOCOL_BASE, PROTOCOL_VERSION, <<>>, "version")
<1>2. s \in Step /\ ~SetCommand(s)
  BY <1>1, LearnIsStep, OtherMessages
<1>3. s.learn = "version" /\ s.kind = "check"
  BY DEF AskAndLearn, Ask
<1>4. TestB001 = <<s>>
  BY DEF TestB001
<1> HIDE DEF s
<1> QED
  BY <1>2, <1>3, <1>4

LEMMA InvalidSkipIsPlain == InvalidSkip \in PlainStep
<1>1. <<INVALID_SKIP>> \in Seq(Int)
  BY DEF INVALID_SKIP
<1> QED
  BY <1>1, BaseIsPlain, OtherMessages, StatusesAreInt DEF InvalidSkip

\* A test begins with its steps or is over at once, and skipped.
LEMMA Beginning ==
  ASSUME IInv, RunTest
  PROVE  LET t == Head(queue)
             p == Program(t)
         IN /\ t \in TestName
            /\ \/ p = <<Skip>> /\ val_report_status(t, "SKIP")
               \/ /\ p \in Seq(Step) \ {<<>>}
                  /\ test' = t /\ steps' = p /\ UNCHANGED <<count, last>>
<1> DEFINE t == Head(queue)
           p == Program(t)
<1>1. t \in TestName
  BY DEF IInv, TypeOK, RunTest, StartTest
<1>2. info.agents \in Nat /\ info.self \in Int /\ info.protocols \in Nat
  BY ExpectedAssumption, AgentAssumption DEF IInv, TypeOK, PLATFORM
<1>3. p = <<Skip>> \/ p \in Seq(Step) \ {<<>>}
  <2>1. CASE t = "b001"
    <3>1. p = TestB001
      BY <2>1 DEF Program
    <3> QED
      BY <3>1, VersionIsStep
  <2>2. CASE t = "b008"
    <3>1. p = TestB008
      BY <2>2 DEF Program
    <3>2. Page(0) \in Step /\ InvalidSkip \in Step
      BY PageIsStep, InvalidSkipIsPlain DEF PlainStep, QuietStep
    <3>3. <<Page(0), InvalidSkip>> \in Seq(Step) \ {<<>>}
      BY <3>2
    <3> QED
      BY <3>1, <3>3 DEF TestB008
  <2>3. CASE t \notin {"b001", "b008"}
    <3>1. t \in TestName \ {"b001", "b008"}
      BY <1>1, <2>3
    <3>2. p = <<Skip>> \/ p \in Seq(QuietStep) \ {<<>>}
      BY <1>2, <3>1, Programs
    <3> QED
      BY <3>2 DEF QuietStep
  <2> QED
    BY <2>1, <2>2, <2>3
<1>4. Begin(t, p)
  BY DEF RunTest, StartTest
<1>5. CASE p = <<Skip>>
  <2>1. Ended(p) = "SKIP"
    BY <1>5 DEF Ended, Skip, Ask
  <2> QED
    BY <1>1, <1>4, <1>5, <2>1 DEF Begin
<1>6. CASE p \in Seq(Step) \ {<<>>}
  <2>1. Ended(p) = "none"
    BY <1>6, EndOfSteps
  <2> QED
    BY <1>1, <1>4, <1>6, <2>1 DEF Begin
<1> QED
  BY <1>3, <1>5, <1>6

\* The answer holds: a probe is over the message that is there.
Good(s, r) == IF s.kind = "probe" THEN r.status # s.expect ELSE Holds(s, r)

\* An answer ends the test, or the test goes on with what is left.
LEMMA Answering ==
  ASSUME steps \in Seq(Step) \ {<<>>}, NEW r, Answer(r), More(Head(steps), r) \in Seq(Step)
  PROVE  LET s == Head(steps)
             more == More(s, r)
         IN \/ /\ s.kind = "check" /\ ~Holds(s, r)
               /\ val_report_status(test, "FAIL") /\ UNCHANGED <<version, info, found, list>>
            \/ /\ s.kind = "probe" /\ val_report_status(test, "SKIP") /\ Learn(s, r)
            \/ /\ Good(s, r) /\ more = <<>>
               /\ val_report_status(test, "PASS") /\ Learn(s, r)
            \/ /\ Good(s, r) /\ more # <<>>
               /\ steps' = more /\ UNCHANGED <<test, count, last>> /\ Learn(s, r)
<1> DEFINE s == Head(steps)
           more == More(s, r)
<1>1. s.kind \in {"check", "probe"}
  BY FirstStep DEF Step, StepRecord
<1>2. Ended(more) = IF more = <<>> THEN "PASS" ELSE "none"
  BY EndOfSteps
<1>3. CASE s.kind = "probe"
  <2>1. Proceed(r, more) /\ Learn(s, r)
    BY <1>3 DEF Answer
  <2>2. CASE r.status = s.expect
    <3>1. Verdicts(s, r, more) = "SKIP"
      BY <1>3, <2>2 DEF Verdicts
    <3> QED
      BY <1>3, <2>1, <3>1 DEF Proceed
  <2>3. CASE r.status # s.expect
    <3>1. Verdicts(s, r, more) = Ended(more)
      BY <1>3, <2>3 DEF Verdicts
    <3> QED
      BY <1>2, <1>3, <2>1, <2>3, <3>1 DEF Proceed, Good
  <2> QED
    BY <2>2, <2>3
<1>4. CASE s.kind = "check" /\ ~Holds(s, r)
  <2>1. Proceed(r, <<>>) /\ UNCHANGED <<version, info, found, list>>
    BY <1>4 DEF Answer
  <2>2. Verdicts(s, r, <<>>) = "FAIL"
    BY <1>4 DEF Verdicts
  <2> QED
    BY <1>4, <2>1, <2>2 DEF Proceed
<1>5. CASE s.kind = "check" /\ Holds(s, r)
  <2>1. Proceed(r, more) /\ Learn(s, r)
    BY <1>5 DEF Answer
  <2>2. Verdicts(s, r, more) = Ended(more)
    BY <1>5 DEF Verdicts
  <2> QED
    BY <1>2, <1>5, <2>1, <2>2 DEF Proceed, Good
<1> QED
  BY <1>1, <1>3, <1>4, <1>5

\* What is left of a test after an answer: the rest of its steps, after another
\* page if there are protocols the platform has not listed.
LEMMA Going ==
  ASSUME IInv, test # "none", NEW e, NEW st, NEW v \in Values(Head(steps))
  PROVE  LET s == Head(steps)
             r == [echo |-> e, status |-> st, value |-> v]
         IN /\ steps \in Seq(Step) \ {<<>>} /\ More(s, r) \in Seq(Step)
            /\ s.learn # "page" => More(s, r) = Tail(steps)
            /\ s.learn = "page" =>
                 /\ test = "b008" /\ PageAhead(s) /\ ~SetCommand(s)
                 /\ PageEnd(s, r) \in (s.args[1] + 1)..NumProtocols
                 /\ More(s, r) = IF PageEnd(s, r) < NumProtocols
                                 THEN <<Page(PageEnd(s, r))>> \o Tail(steps) ELSE Tail(steps)
<1> DEFINE s == Head(steps)
           r == [echo |-> e, status |-> st, value |-> v]
<1>1. steps \in Seq(Step) \ {<<>>}
  BY DEF IInv, TypeOK, ByTest
<1>2. Tail(steps) \in Seq(Step) /\ s = steps[1] /\ s \in Step /\ Len(steps) \in Nat \ {0}
  BY <1>1, FirstStep
<1>3. CASE s.learn # "page"
  BY <1>1, <1>2, <1>3 DEF More
<1>4. CASE s.learn = "page"
  <2>1. test # "b001"
    BY <1>2, <1>4, VersionIsStep DEF IInv, ByTest
  <2>2. test = "b008"
    BY <1>1, <1>2, <1>4, <2>1 DEF IInv, ByTest, QuietStep
  <2>3. PageAhead(s) /\ ~SetCommand(s)
    <3>1. 1 \in 1..Len(steps)
      BY <1>2
    <3>2. steps[1].learn = "page"
      BY <1>2, <1>4
    <3>3. ByTest
      BY DEF IInv
    <3>4. \A i \in 1..Len(steps) : ~SetCommand(steps[i])
      BY <2>2, <3>3, Zenon DEF ByTest
    <3>5. \A i \in 1..Len(steps) : steps[i].learn = "page" => PageAhead(steps[i])
      BY <2>2, <3>3, Zenon DEF ByTest
    <3>6. PageAhead(steps[1]) /\ ~SetCommand(steps[1])
      BY <3>1, <3>2, <3>4, <3>5
    <3> QED
      BY <1>2, <3>6
  <2>4. Values(s) = 1..(NumProtocols - s.args[1])
    BY <1>2, <1>4 DEF Values, Step
  <2>5. PageEnd(s, r) \in (s.args[1] + 1)..NumProtocols /\ PageEnd(s, r) \in Nat
    BY <2>3, <2>4, ExpectedAssumption DEF PageEnd, PageAhead
  <2>6. More(s, r) = IF PageEnd(s, r) < NumProtocols
                     THEN <<Page(PageEnd(s, r))>> \o Tail(steps) ELSE Tail(steps)
    BY <1>4, <2>3 DEF More, PageAhead
  <2>7. Page(PageEnd(s, r)) \in Step
    BY <2>5, PageIsStep
  <2>8. More(s, r) \in Seq(Step)
    <3>1. <<Page(PageEnd(s, r))>> \in Seq(Step)
      BY <2>7
    <3>2. <<Page(PageEnd(s, r))>> \o Tail(steps) \in Seq(Step)
      BY <1>2, <3>1
    <3> QED
      BY <1>2, <2>6, <3>2
  <2> QED
    BY <1>1, <1>4, <2>2, <2>3, <2>5, <2>6, <2>8
<1> QED
  BY <1>3, <1>4

Info == [agents: {0, NumAgents}, protocols: {0, NumProtocols}, self: {PLATFORM, TestAgent}]

\* What the suite keeps of an answer that holds.
LEMMA Learning ==
  ASSUME IInv, test # "none", NEW e, NEW st, NEW v \in Values(Head(steps)),
         LET s == Head(steps)
             r == [echo |-> e, status |-> st, value |-> v]
         IN Learn(s, r) /\ (Good(s, r) \/ s.kind = "probe")
  PROVE  LET s == Head(steps)
             r == [echo |-> e, status |-> st, value |-> v]
         IN /\ IF s.learn = "version" THEN version' = v /\ v \in Version ELSE version' = version
            /\ info' \in Info /\ (info.protocols = NumProtocols => info'.protocols = NumProtocols)
            /\ found' \subseteq 1..NumProtocols /\ list' \subseteq found' /\ ListKept'
            /\ s.learn # "page" => UNCHANGED <<found, list>>
            /\ s.learn = "page" =>
                 /\ found' = 1..PageEnd(s, r)
                 /\ PageEnd(s, r) < NumProtocols => list' = {}
<1> DEFINE s == Head(steps)
           r == [echo |-> e, status |-> st, value |-> v]
<1>1. s \in Step
  BY Going, FirstStep
<1>2. s.learn \in {"nothing", "version", "counts", "page", "self"}
  BY <1>1 DEF Step, StepRecord
<1>3. info \in Info /\ found \subseteq 1..NumProtocols /\ list \subseteq found
  BY DEF IInv, TypeOK, Info
<1>4. CASE s.learn = "nothing"
  BY <1>3, <1>4 DEF Learn, IInv, ListKept
<1>5. CASE s.learn = "counts"
  <2>1. info' = [info EXCEPT !.agents = NumAgents, !.protocols = NumProtocols]
    BY <1>5 DEF Learn
  <2>2. info' \in Info /\ info'.protocols = NumProtocols
    BY <1>3, <2>1 DEF Info
  <2> QED
    BY <1>3, <1>5, <2>2 DEF Learn, IInv, ListKept
<1>6. CASE s.learn = "self"
  <2>1. v \in {PLATFORM, TestAgent}
    BY <1>1, <1>6 DEF Values, Step
  <2>2. info' = [info EXCEPT !.self = v]
    BY <1>6 DEF Learn
  <2>3. info' \in Info /\ info'.protocols = info.protocols
    BY <1>3, <2>1, <2>2 DEF Info
  <2> QED
    BY <1>3, <1>6, <2>3 DEF Learn, IInv, ListKept
<1>7. CASE s.learn = "version"
  <2>1. s.kind # "probe" /\ s.want = Any
    BY <1>1, <1>7 DEF Step
  <2>2. v \in Version \cup {Garbage}
    BY <1>7, <2>1 DEF Values
  <2>3. v # Garbage
    BY <2>1 DEF Good, Holds, val_compare
  <2> QED
    BY <1>3, <1>7, <2>2, <2>3 DEF Learn, IInv, ListKept
<1>8. CASE s.learn = "page"
  <2>1. PageAhead(s) /\ PageEnd(s, r) \in (s.args[1] + 1)..NumProtocols
    BY <1>8, Going
  <2>2. s.args[1] \in 0..(NumProtocols - 1) /\ NumProtocols \in Nat
    BY <2>1, ExpectedAssumption DEF PageAhead
  <2>3. found' = 1..PageEnd(s, r)
    <3>1. found' = (1..s.args[1]) \cup ((s.args[1] + 1)..PageEnd(s, r))
      BY <1>8, <2>1 DEF Learn, PageAhead
    <3> QED
      BY <2>1, <2>2, <3>1
  <2>4. list' = IF PageEnd(s, r) >= NumProtocols THEN found' ELSE {}
    BY <1>8, <2>1 DEF Learn, PageAhead
  <2>5. list' \in {{}, 1..NumProtocols}
    BY <2>1, <2>2, <2>3, <2>4
  <2>6. UNCHANGED <<version, info>> /\ info.protocols = NumProtocols
    BY <1>8, <2>1 DEF Learn, PageAhead
  <2>7. found' \subseteq 1..NumProtocols /\ list' \subseteq found'
    BY <2>1, <2>2, <2>3, <2>4
  <2> QED
    BY <1>3, <1>8, <2>2, <2>1, <2>3, <2>4, <2>5, <2>6, <2>7 DEF ListKept
<1> QED
  BY <1>2, <1>4, <1>5, <1>6, <1>7, <1>8

-----------------------------------------------------------------------------
(* Each action keeps the invariant.                                        *)

LEMMA Scheduled ==
  ASSUME NEW v
  PROVE  Schedule(v) \in Seq(TestName \ {"b001"})
<1> DEFINE T == TestName \ {"b001"}
           first == <<"b002", "b003", "b004", "b005", "b006", "b007", "b008">>
           one == IF v = 1 THEN <<"b009_v1">> ELSE <<>>
           two == IF v = 2 THEN <<"b009">> ELSE <<>>
           next == <<"b010">>
           rest == IF v = 2 THEN <<"b011", "b012", "b013", "b014", "b015", "b016", "b017">>
                   ELSE <<>>
<1>1. /\ first \in Seq(T) /\ <<>> \in Seq(T) /\ <<"b009_v1">> \in Seq(T)
      /\ <<"b009">> \in Seq(T) /\ next \in Seq(T)
      /\ <<"b011", "b012", "b013", "b014", "b015", "b016", "b017">> \in Seq(T)
  BY DEF TestName
<1>2. one \in Seq(T) /\ two \in Seq(T) /\ rest \in Seq(T)
  BY <1>1
<1>3. Schedule(v) = first \o one \o two \o next \o rest
  BY DEF Schedule
<1> HIDE DEF T, first, one, two, next, rest
<1>4. first \o one \in Seq(T)
  BY <1>1, <1>2
<1>5. first \o one \o two \in Seq(T)
  BY <1>2, <1>4
<1>6. first \o one \o two \o next \in Seq(T)
  BY <1>1, <1>5
<1>7. first \o one \o two \o next \o rest \in Seq(T)
  BY <1>2, <1>6
<1> QED
  BY <1>3, <1>7 DEF T

\* A verdict is counted once.
LEMMA Reported ==
  ASSUME count \in [Verdict -> Nat], NEW t \in TestName, NEW v \in Verdict,
         val_report_status(t, v)
  PROVE  /\ count' \in [Verdict -> Nat] /\ last' \in [test: TestName, verdict: Verdict]
         /\ test' = "none" /\ steps' = <<>> /\ Running' = 0
         /\ Counted \in Nat /\ Counted' = Counted + 1
         /\ v # "FAIL" => count'["FAIL"] = count["FAIL"]
         /\ v = "FAIL" => count'["FAIL"] # 0
<1>1. /\ count' = [count EXCEPT ![v] = @ + 1] /\ test' = "none" /\ steps' = <<>>
      /\ last' = [test |-> t, verdict |-> v]
  BY DEF val_report_status
<1>2. /\ count["PASS"] \in Nat /\ count["FAIL"] \in Nat /\ count["SKIP"] \in Nat
      /\ count' \in [Verdict -> Nat]
      /\ \A u \in Verdict : count'[u] = IF u = v THEN count[u] + 1 ELSE count[u]
  BY <1>1 DEF Verdict
<1>3. Counted \in Nat /\ Counted' = Counted + 1
  BY <1>2 DEF Counted, Verdict
<1> QED
  BY <1>1, <1>2, <1>3 DEF Running, Verdict

\* What an answer, or what is read in its place, may do to the permissions.
LEMMA Permitting ==
  ASSUME NEW s \in Step, NEW r, HonestAnswer(s, r) \/ MangledAnswer(s, r),
         device \in BOOLEAN, protocol \in BOOLEAN, mangled \in BOOLEAN
  PROVE  /\ device' \in BOOLEAN /\ protocol' \in BOOLEAN /\ mangled' \in BOOLEAN
         /\ ~SetCommand(s) /\ Granted => Granted'
         /\ SetCommand(s) /\ s.header /\ s.expect # SCMI_SUCCESS /\ Holds(s, r) /\ Granted
              => Granted'
         /\ s = Access(SCMI_SUCCESS) /\ Holds(s, r) => Granted'
<1>1. \/ Execute(s) \/ UNCHANGED <<device, protocol>>
  BY DEF HonestAnswer, MangledAnswer, Keep
<1>2. device' \in BOOLEAN /\ protocol' \in BOOLEAN
  BY <1>1 DEF Execute
<1>3. mangled' \in BOOLEAN
  BY DEF HonestAnswer, MangledAnswer
<1>4. ASSUME ~SetCommand(s), Granted PROVE Granted'
  <2>1. ~SetsDevice(s) /\ ~SetsProtocol(s)
    BY <1>4 DEF SetsDevice, SetsProtocol, SetCommand
  <2> QED
    BY <1>1, <1>4, <2>1 DEF Execute, Granted
<1>5. ASSUME SetCommand(s), s.header, s.expect # SCMI_SUCCESS, Holds(s, r), Granted
      PROVE  Granted'
  <2>1. r.echo /\ r.status # SCMI_SUCCESS
    BY <1>5 DEF Holds, val_compare_status, val_compare_msg_hdr
  <2>2. UNCHANGED <<device, protocol>>
    BY <2>1 DEF HonestAnswer, MangledAnswer, Keep
  <2> QED
    BY <1>5, <2>2 DEF Granted
<1>6. ASSUME s = Access(SCMI_SUCCESS), Holds(s, r) PROVE Granted'
  <2>1. s.header /\ s.expect = SCMI_SUCCESS /\ s.proto = PROTOCOL_POWER_DOMAIN
    BY <1>6 DEF Access, Ask
  <2>2. r.echo /\ r.status = SCMI_SUCCESS
    BY <1>6, <2>1 DEF Holds, val_compare_status, val_compare_msg_hdr
  <2>3. Keep(s, r.status)
    BY <2>2 DEF HonestAnswer, MangledAnswer
  <2>4. Granted /\ UNCHANGED <<device, protocol>>
    BY <2>1, <2>2, <2>3 DEF Keep, SCMI_SUCCESS, SCMI_DENIED, PROTOCOL_POWER_DOMAIN,
       PROTOCOL_BASE
  <2> QED
    BY <2>4 DEF Granted
<1> QED
  BY <1>2, <1>3, <1>4, <1>5, <1>6

\* It holds at first.
LEMMA Initially == Init => IInv
<1> SUFFICES ASSUME Init PROVE IInv
  OBVIOUS
<1>1. /\ queue = <<"b001">> /\ test = "none" /\ steps = <<>>
      /\ count = [v \in Verdict |-> 0]
      /\ last = [test |-> "none", verdict |-> "none"]
      /\ version = 0 /\ info = [agents |-> 0, protocols |-> 0, self |-> 0]
      /\ found = {} /\ list = {} /\ trusted \in BOOLEAN
      /\ device = TRUE /\ protocol = TRUE /\ mangled = FALSE
  BY DEF Init, SuiteInit, EngineInit, AllGranted
<1>2. TypeOK
  <2>1. queue \in Seq(TestName)
    BY <1>1 DEF TestName
  <2>2. count \in [Verdict -> Nat]
    BY <1>1
  <2>3. info \in [agents: {0, NumAgents}, protocols: {0, NumProtocols},
                  self: {PLATFORM, TestAgent}]
    BY <1>1 DEF PLATFORM
  <2> QED
    BY <1>1, <2>1, <2>2, <2>3 DEF TypeOK
<1>3. ByTest /\ AccessKept /\ TrustKept /\ ListKept
  BY <1>1 DEF ByTest, AccessKept, GivesBack, TrustKept, Granted, ListKept
<1>4. TotalKept
  BY <1>1 DEF TotalKept, Counted, Verdict
<1> QED
  BY <1>2, <1>3, <1>4 DEF IInv

\* The steps a test starts with.
LEMMA Started ==
  ASSUME IInv, RunTest, steps' = Program(Head(queue)), test' = Head(queue),
         Program(Head(queue)) # <<Skip>>
  PROVE  /\ ByTest' /\ GivesBack(steps')
         /\ ~trusted => \A i \in 1..Len(steps') : ~SetCommand(steps'[i])
<1> DEFINE t == Head(queue)
           p == Program(t)
<1>1. t \in TestName
  BY Beginning
<1>2. info.agents \in Nat /\ info.self \in Int /\ info.protocols \in {0, NumProtocols}
  BY ExpectedAssumption, AgentAssumption DEF IInv, TypeOK, PLATFORM
<1>3. p \in Seq(Step) \ {<<>>}
  BY Beginning
<1>4. UNCHANGED info
  BY DEF RunTest, StartTest
<1>5. CASE t = "b001"
  <2>1. p = TestB001
    BY <1>5 DEF Program
  <2>2. \A i \in 1..Len(p) : ~SetCommand(p[i])
    BY <2>1, VersionIsStep
  <2> QED
    BY <1>3, <1>5, <2>1, <2>2 DEF ByTest, GivesBack
<1>6. CASE t = "b008"
  <2>1. p = <<Page(0), InvalidSkip>> /\ info.protocols = NumProtocols
    BY <1>2, <1>6 DEF Program, TestB008
  <2>2. list' = {} /\ found' = {}
    BY <1>6 DEF RunTest, StartTest
  <2>3. /\ ~SetCommand(Page(0)) /\ Page(0).learn = "page" /\ Page(0).args = <<0>>
    BY PageIsStep
  <2>4. /\ ~SetCommand(InvalidSkip) /\ InvalidSkip.learn \notin {"version", "page"}
    BY InvalidSkipIsPlain DEF PlainStep, QuietStep
  <2>5. Len(p) = 2 /\ p[1] = Page(0) /\ p[2] = InvalidSkip
    BY <2>1
  <2>6. PageAhead(Page(0))'
    BY <1>4, <2>1, <2>2, <2>3, ExpectedAssumption DEF PageAhead, Page
  <2>7. \A i \in 1..Len(p) : /\ ~SetCommand(p[i]) /\ p[i].learn # "version"
                             /\ p[i].learn = "page" => i = 1 /\ p[i] = Page(0)
    BY <2>3, <2>4, <2>5
  <2>8. ByTest'
    BY <1>3, <1>6, <2>6, <2>7 DEF ByTest
  <2> QED
    BY <2>7, <2>8 DEF GivesBack
<1>7. CASE t \notin {"b001", "b008"}
  <2>1. /\ p \in Seq(QuietStep) \ {<<>>} /\ GivesBack(p)
        /\ ~trusted => \A i \in 1..Len(p) : ~SetCommand(p[i])
    BY <1>1, <1>2, <1>7, Programs
  <2> QED
    BY <1>3, <1>7, <2>1 DEF ByTest
<1> QED
  BY <1>5, <1>6, <1>7

LEMMA Starting == IInv /\ RunTest => IInv'
<1> SUFFICES ASSUME IInv, RunTest PROVE IInv'
  OBVIOUS
<1> DEFINE t == Head(queue)
           p == Program(t)
<1>1. /\ test = "none" /\ queue # <<>> /\ queue' = Tail(queue) /\ mangled' = FALSE
      /\ UNCHANGED <<version, info, trusted, device, protocol>>
      /\ IF t = "b008" THEN list' = {} /\ found' = {} ELSE UNCHANGED <<list, found>>
  BY DEF RunTest, StartTest
<1>2. /\ queue \in Seq(TestName) /\ Head(queue) = queue[1] /\ queue' \in Seq(TestName)
      /\ Len(queue') = Len(queue) - 1 /\ Len(queue) \in Nat \ {0}
      /\ \A i \in 1..Len(queue') : queue'[i] = queue[i + 1]
  BY <1>1 DEF IInv, TypeOK
<1>3. ListKept' /\ found' \subseteq 1..NumProtocols /\ list' \subseteq found'
  BY <1>1 DEF IInv, TypeOK, ListKept
<1>4. steps = <<>> /\ ~Returning /\ count \in [Verdict -> Nat]
  BY <1>1 DEF IInv, TypeOK, Returning
<1>5. (count["FAIL"] = 0 => Granted) /\ (~trusted => Granted)
  BY <1>4 DEF IInv, AccessKept, TrustKept
<1>6. Counted \in Nat
  BY <1>4 DEF Counted, Verdict
<1>7. CASE p = <<Skip>> /\ val_report_status(t, "SKIP")
  <2>1. t \in TestName
    BY Beginning
  <2>2. /\ count' \in [Verdict -> Nat] /\ last' \in [test: TestName, verdict: Verdict]
        /\ test' = "none" /\ steps' = <<>> /\ Running' = 0
        /\ Counted' = Counted + 1 /\ count'["FAIL"] = count["FAIL"]
    BY <1>4, <1>7, <2>1, Reported DEF Verdict
  <2>3. TypeOK'
    BY <1>1, <1>2, <1>3, <2>2 DEF IInv, TypeOK
  <2>4. ByTest'
    BY <2>2 DEF ByTest
  <2>5. AccessKept' /\ TrustKept'
    BY <1>1, <1>5, <2>2 DEF AccessKept, GivesBack, TrustKept, Granted
  <2>6. TotalKept'
    <3>1. t # "b001"
      <4>1. ASSUME t = "b001" PROVE Program(t) = TestB001
        BY <4>1 DEF Program
      <4>2. <<Skip>>[1].kind = "skip"
        BY DEF Skip, Ask
      <4> QED
        BY <1>7, <4>1, <4>2, VersionIsStep
    <3>2. version # 0
      BY <1>1, <1>2, <3>1 DEF IInv, TotalKept
    <3>3. /\ \A i \in 1..Len(queue) : queue[i] # "b001"
          /\ Counted + Len(queue) = 1 + Len(Schedule(version))
      BY <1>1, <1>2, <1>6, <3>2 DEF IInv, TotalKept, Running
    <3>4. \A i \in 1..Len(queue') : queue'[i] # "b001"
      BY <1>2, <3>3
    <3> QED
      BY <1>1, <1>2, <1>6, <2>2, <3>2, <3>3, <3>4 DEF TotalKept
  <2> QED
    BY <1>3, <2>3, <2>4, <2>5, <2>6 DEF IInv
<1>8. CASE /\ p \in Seq(Step) \ {<<>>} /\ test' = t /\ steps' = p
           /\ UNCHANGED <<count, last>>
  <2>1. t \in TestName
    BY Beginning
  <2>2. p # <<Skip>>
    <3>1. p[1] \in Step
      BY <1>8, FirstStep
    <3>2. p[1].kind \in {"check", "probe"}
      BY <3>1 DEF Step, StepRecord
    <3>3. <<Skip>>[1].kind = "skip"
      BY DEF Skip, Ask
    <3> QED
      BY <3>2, <3>3
  <2>3. /\ ByTest' /\ GivesBack(steps')
        /\ ~trusted => \A i \in 1..Len(steps') : ~SetCommand(steps'[i])
    BY <1>8, <2>2, Started
  <2>4. TypeOK'
    <3>1. "none" \notin TestName
      BY DEF TestName
    <3> QED
      BY <1>1, <1>2, <1>3, <1>8, <2>1, <3>1 DEF IInv, TypeOK
  <2>5. AccessKept' /\ TrustKept'
    BY <1>1, <1>5, <1>8, <2>3 DEF AccessKept, TrustKept, Granted
  <2>6. TotalKept'
    <3>1. Counted' = Counted /\ Running' = 1 /\ Running = 0
      BY <1>1, <1>8, <2>1 DEF Counted, Running, TestName
    <3>2. CASE version = 0
      <4>1. queue = <<"b001">> /\ Counted = 0
        BY <1>1, <1>2, <3>2 DEF IInv, TotalKept
      <4>2. queue' = <<>> /\ t = "b001"
        BY <1>1, <1>2, <4>1
      <4> QED
        BY <1>1, <1>8, <3>1, <3>2, <4>1, <4>2 DEF TotalKept
    <3>3. CASE version # 0
      <4>1. /\ \A i \in 1..Len(queue) : queue[i] # "b001"
            /\ Counted + Len(queue) = 1 + Len(Schedule(version))
        BY <1>1, <1>2, <1>6, <3>1, <3>3 DEF IInv, TotalKept
      <4>2. t # "b001" /\ \A i \in 1..Len(queue') : queue'[i] # "b001"
        BY <1>2, <4>1
      <4> QED
        BY <1>1, <1>2, <1>6, <1>8, <3>1, <3>3, <4>1, <4>2 DEF TotalKept
    <3> QED
      BY <3>2, <3>3
  <2> QED
    BY <1>3, <2>3, <2>4, <2>5, <2>6 DEF IInv
<1> QED
  BY <1>7, <1>8, Beginning

\* The rest of a sequence of several steps.
LEMMA Rest ==
  ASSUME NEW p \in Seq(Step), Len(p) > 1, NEW q, q = Tail(p)
  PROVE  /\ Len(q) = Len(p) - 1 /\ Len(q) \in Nat \ {0}
         /\ \A i \in 1..Len(q) : i + 1 \in 1..Len(p) /\ q[i] = p[i + 1]
<1>1. p # <<>> /\ Len(p) \in Nat
  OBVIOUS
<1>2. Len(q) = Len(p) - 1 /\ \A i \in 1..(Len(p) - 1) : q[i] = p[i + 1]
  BY <1>1, FirstStep
<1> QED
  BY <1>1, <1>2

\* A test that has nothing left after an answer was at its last step.
LEMMA LastStep ==
  ASSUME NEW r, steps \in Seq(Step) \ {<<>>}, More(Head(steps), r) = <<>>
  PROVE  Len(steps) = 1
<1>1. ASSUME NEW x, NEW q \in Seq(Step) PROVE <<x>> \o q # <<>>
  <2>1. Len(<<x>> \o q) = 1 + Len(q) /\ Len(q) \in Nat
    OBVIOUS
  <2> QED
    BY <2>1
<1>2. Tail(steps) \in Seq(Step) /\ ((Tail(steps) = <<>>) <=> (Len(steps) = 1))
  BY FirstStep
<1> QED
  BY <1>1, <1>2 DEF More

\* What is left of a test keeps to it, whatever the answer was.
LEMMA StepsKept ==
  ASSUME IInv, test # "none", NEW e, NEW st, NEW v \in Values(Head(steps)),
         LET s == Head(steps)
             r == [echo |-> e, status |-> st, value |-> v]
         IN /\ More(s, r) # <<>> /\ steps' = More(s, r) /\ UNCHANGED test
            /\ Good(s, r) /\ Learn(s, r)
  PROVE  /\ ByTest' /\ GivesBack(steps')
         /\ Returning => Returning'
         /\ SetCommand(Head(steps)) /\ Head(steps).expect = SCMI_SUCCESS => Returning'
         /\ (\A i \in 1..Len(steps) : ~SetCommand(steps[i]))
              => \A i \in 1..Len(steps') : ~SetCommand(steps'[i])
<1> DEFINE s == Head(steps)
           r == [echo |-> e, status |-> st, value |-> v]
<1>1. steps \in Seq(Step) \ {<<>>} /\ steps' \in Seq(Step)
  BY Going
<1>2. /\ Tail(steps) \in Seq(Step) /\ s = steps[1] /\ s \in Step /\ Len(steps) \in Nat \ {0}
      /\ Len(Tail(steps)) = Len(steps) - 1
      /\ \A i \in 1..(Len(steps) - 1) : Tail(steps)[i] = steps[i + 1]
      /\ (Tail(steps) = <<>>) <=> (Len(steps) = 1)
  BY <1>1, FirstStep
<1>3. test # "b001"
  <2>1. ASSUME test = "b001" PROVE FALSE
    <3>1. steps = TestB001 /\ s.learn # "page"
      BY <1>2, <2>1, VersionIsStep DEF IInv, ByTest
    <3>2. steps' = Tail(steps)
      BY <3>1, Going
    <3> QED
      BY <1>2, <3>1, <3>2, VersionIsStep
  <2> QED
    BY <2>1
<1>4. ByTest /\ AccessKept
  BY DEF IInv
<1>5. CASE s.learn # "page"
  <2>1. steps' = Tail(steps) /\ Len(steps) > 1
    <3>1. steps' = Tail(steps) /\ steps' # <<>>
      BY <1>5, Going
    <3> QED
      BY <1>2, <3>1
  <2>2. /\ Len(steps') = Len(steps) - 1 /\ Len(steps') \in Nat \ {0}
        /\ \A i \in 1..Len(steps') : i + 1 \in 1..Len(steps) /\ steps'[i] = steps[i + 1]
    BY <1>1, <2>1, Rest
  <2>3. ByTest'
    <3>1. CASE test = "b008"
      <4>1. \A i \in 1..Len(steps) :
              /\ ~SetCommand(steps[i]) /\ steps[i].learn # "version"
              /\ steps[i].learn = "page" => i = 1
        BY <1>4, <3>1 DEF ByTest
      <4>2. \A i \in 1..Len(steps') :
              /\ ~SetCommand(steps'[i]) /\ steps'[i].learn # "version"
              /\ steps'[i].learn # "page"
        BY <2>2, <4>1
      <4> QED
        BY <1>1, <3>1, <4>2 DEF ByTest
    <3>2. CASE test # "b008"
      <4>1. steps \in Seq(QuietStep)
        BY <1>3, <1>4, <3>2 DEF ByTest
      <4>2. steps' \in Seq(QuietStep)
        BY <2>1, <4>1
      <4> QED
        BY <1>1, <1>3, <3>2, <4>2 DEF ByTest
    <3> QED
      BY <3>1, <3>2
  <2>4. ASSUME NEW i \in 1..Len(steps), i > 1, Recovers(steps, i)
        PROVE  Recovers(steps', i - 1)
    <3>1. i - 1 < Len(steps') /\ steps'[Len(steps')] = Access(SCMI_SUCCESS)
      BY <2>2, <2>4 DEF Recovers
    <3>2. ASSUME NEW j \in i..Len(steps') PROVE steps'[j].kind = "check"
      <4>1. j \in 1..Len(steps') /\ j + 1 \in (i + 1)..Len(steps)
        BY <2>2, <2>4
      <4> QED
        BY <2>2, <2>4, <4>1 DEF Recovers
    <3>3. (i - 1) + 1 = i
      OBVIOUS
    <3> QED
      BY <3>1, <3>2, <3>3 DEF Recovers
  <2>5. GivesBack(steps')
    <3> SUFFICES ASSUME NEW i \in 1..Len(steps'), SetCommand(steps'[i])
                 PROVE  /\ steps'[i].kind = "check"
                        /\ IF steps'[i].expect = SCMI_SUCCESS THEN Recovers(steps', i)
                           ELSE steps'[i].header
      BY DEF GivesBack
    <3>1. i + 1 \in 1..Len(steps) /\ i + 1 > 1 /\ (i + 1) - 1 = i /\ steps'[i] = steps[i + 1]
      BY <2>2
    <3>2. /\ steps[i + 1].kind = "check"
          /\ IF steps[i + 1].expect = SCMI_SUCCESS THEN Recovers(steps, i + 1)
             ELSE steps[i + 1].header
      BY <1>4, <3>1 DEF AccessKept, GivesBack
    <3>3. Recovers(steps, i + 1) => Recovers(steps', (i + 1) - 1)
      BY <2>4, <3>1
    <3> QED
      BY <3>1, <3>2, <3>3
  <2>6. Returning => Returning'
    BY <2>2 DEF Returning
  <2>7. SetCommand(s) /\ s.expect = SCMI_SUCCESS => Returning'
    <3>1. SetCommand(s) /\ s.expect = SCMI_SUCCESS => Recovers(steps, 1)
      BY <1>2, <1>4 DEF AccessKept, GivesBack
    <3> QED
      BY <2>2, <3>1 DEF Recovers, Returning
  <2>8. (\A i \in 1..Len(steps) : ~SetCommand(steps[i]))
          => \A i \in 1..Len(steps') : ~SetCommand(steps'[i])
    BY <2>2
  <2> QED
    BY <2>3, <2>5, <2>6, <2>7, <2>8
<1>6. CASE s.learn = "page"
  <2> DEFINE next == Page(PageEnd(s, r))
  <2>1. /\ test = "b008" /\ PageAhead(s) /\ ~SetCommand(s)
        /\ PageEnd(s, r) \in (s.args[1] + 1)..NumProtocols
        /\ steps' = IF PageEnd(s, r) < NumProtocols THEN <<next>> \o Tail(steps)
                    ELSE Tail(steps)
    BY <1>6, Going
  <2>2. PageEnd(s, r) \in Nat
    BY <2>1, ExpectedAssumption DEF PageAhead
  <2>3. /\ next \in Step /\ ~SetCommand(next) /\ next.learn = "page" /\ next.kind = "check"
        /\ next.args = <<PageEnd(s, r)>>
    BY <2>2, PageIsStep
  <2>4. \A i \in 1..Len(steps) :
          /\ ~SetCommand(steps[i]) /\ steps[i].learn # "version"
          /\ steps[i].learn = "page" => i = 1
    BY <1>4, <2>1 DEF ByTest
  <2>5. \A i \in 1..Len(Tail(steps)) :
          /\ ~SetCommand(Tail(steps)[i]) /\ Tail(steps)[i].learn \notin {"version", "page"}
    <3> SUFFICES ASSUME NEW i \in 1..Len(Tail(steps))
                 PROVE  /\ ~SetCommand(Tail(steps)[i])
                        /\ Tail(steps)[i].learn \notin {"version", "page"}
      OBVIOUS
    <3>1. Tail(steps)[i] = steps[i + 1] /\ i + 1 \in 1..Len(steps) /\ i + 1 # 1
      BY <1>2
    <3> QED
      BY <2>4, <3>1
  <2>6. /\ found' = 1..PageEnd(s, r) /\ (PageEnd(s, r) < NumProtocols => list' = {})
        /\ info'.protocols = NumProtocols
    BY <1>6, <2>1, Learning DEF PageAhead
  <2>7. PICK end \in Nat : end = PageEnd(s, r)
    BY <2>2
  <2>8. CASE PageEnd(s, r) < NumProtocols
    <3>1. steps' = <<next>> \o Tail(steps)
      BY <2>1, <2>8
    <3>2. /\ Len(steps') = Len(steps) /\ steps'[1] = next
          /\ \A i \in 2..Len(steps') : steps'[i] = Tail(steps)[i - 1] /\ steps'[i] = steps[i]
      BY <1>2, <3>1
    <3>3. ASSUME NEW i \in 1..Len(steps')
          PROVE  /\ ~SetCommand(steps'[i]) /\ steps'[i].learn # "version"
                 /\ steps'[i].learn = "page" => i = 1
      <4>1. CASE i = 1
        BY <2>3, <3>2, <4>1
      <4>2. CASE i # 1
        <5>1. i \in 2..Len(steps') /\ i - 1 \in 1..Len(Tail(steps))
          BY <1>2, <3>2, <4>2
        <5> QED
          BY <2>5, <3>2, <5>1
      <4> QED
        BY <4>1, <4>2
    <3>4. steps'[1].args[1] = end /\ end \in 0..(NumProtocols - 1) /\ found' = 1..end
      BY <2>2, <2>3, <2>6, <2>7, <2>8, <3>2, ExpectedAssumption
    <3>5. list' = {} /\ info'.protocols = NumProtocols
      BY <2>6, <2>8
    <3>6. PageAhead(steps[1])'
      BY <3>4, <3>5 DEF PageAhead
    <3>7. ByTest'
      BY <1>1, <2>1, <3>3, <3>6 DEF ByTest
    <3>8. Returning => Returning'
      <4>1. Access(SCMI_SUCCESS).learn = "nothing"
        BY DEF Access, Ask
      <4>2. Returning => Len(steps) # 1
        BY <1>2, <1>6, <4>1 DEF Returning
      <4> QED
        BY <1>2, <2>3, <3>2, <4>2 DEF Returning
    <3> QED
      BY <2>1, <3>3, <3>7, <3>8 DEF GivesBack
  <2>9. CASE ~(PageEnd(s, r) < NumProtocols)
    <3>1. steps' = Tail(steps) /\ Len(steps) > 1
      BY <1>2, <2>1, <2>9, Going
    <3>2. \A i \in 1..Len(steps') :
            ~SetCommand(steps'[i]) /\ steps'[i].learn \notin {"version", "page"}
      BY <2>5, <3>1
    <3>3. ByTest'
      BY <1>1, <2>1, <3>2 DEF ByTest
    <3>4. /\ Len(steps') = Len(steps) - 1 /\ Len(steps') \in Nat \ {0}
          /\ \A i \in 1..Len(steps') : i + 1 \in 1..Len(steps) /\ steps'[i] = steps[i + 1]
      BY <1>1, <3>1, Rest
    <3>5. Returning => Returning'
      BY <3>4 DEF Returning
    <3> QED
      BY <2>1, <3>2, <3>3, <3>5 DEF GivesBack
  <2> QED
    BY <2>8, <2>9
<1> QED
  BY <1>5, <1>6

LEMMA Exchanging == IInv /\ Exchange => IInv'
<1> SUFFICES ASSUME IInv, Exchange PROVE IInv'
  OBVIOUS
<1> DEFINE s == Head(steps)
<1>1. PICK e \in BOOLEAN, st \in Status, v \in Values(s) :
        LET r == [echo |-> e, status |-> st, value |-> v]
        IN (HonestAnswer(s, r) \/ MangledAnswer(s, r)) /\ Answer(r)
  BY DEF Exchange
<1> DEFINE r == [echo |-> e, status |-> st, value |-> v]
           more == More(s, r)
<1>2. test # "none"
  BY DEF Exchange
<1>3. /\ steps \in Seq(Step) \ {<<>>} /\ more \in Seq(Step)
      /\ s = steps[1] /\ s \in Step /\ Len(steps) \in Nat \ {0} /\ 1 \in 1..Len(steps)
  <2>1. steps \in Seq(Step) \ {<<>>} /\ more \in Seq(Step)
    BY <1>2, Going
  <2>2. s = steps[1] /\ s \in Step /\ Len(steps) \in Nat \ {0}
    BY <2>1, FirstStep
  <2> QED
    BY <2>1, <2>2
<1>4. /\ test \in TestName /\ queue \in Seq(TestName) /\ count \in [Verdict -> Nat]
      /\ version \in Version \cup {0} /\ info \in Info /\ found \subseteq 1..NumProtocols
      /\ list \subseteq found /\ "none" \notin TestName
      /\ last \in [test: TestName, verdict: Verdict]
                  \cup {[test |-> "none", verdict |-> "none"]}
  BY <1>2 DEF IInv, TypeOK, Info, TestName
<1>5. /\ device' \in BOOLEAN /\ protocol' \in BOOLEAN /\ mangled' \in BOOLEAN
      /\ ~SetCommand(s) /\ Granted => Granted'
      /\ SetCommand(s) /\ s.header /\ s.expect # SCMI_SUCCESS /\ Holds(s, r) /\ Granted
           => Granted'
      /\ s = Access(SCMI_SUCCESS) /\ Holds(s, r) => Granted'
  BY <1>1, <1>3, Permitting DEF IInv, TypeOK
<1>6. /\ trusted' = trusted /\ trusted \in BOOLEAN
      /\ queue' = IF test # "b001" THEN queue
                  ELSE IF s.kind = "probe" \/ Holds(s, r) THEN Schedule(v) ELSE <<>>
  BY <1>1 DEF Answer, IInv, TypeOK
<1>7. AccessKept /\ TrustKept /\ ListKept /\ TotalKept /\ ByTest
  BY DEF IInv
\* b001 has one step and is the only test to learn the version.
<1>8. test = "b001" =>
        /\ s.learn = "version" /\ s.kind = "check" /\ more = <<>>
        /\ version = 0 /\ queue = <<>> /\ Counted = 0
  <2> SUFFICES ASSUME test = "b001"
               PROVE  /\ s.learn = "version" /\ s.kind = "check" /\ more = <<>>
                      /\ version = 0 /\ queue = <<>> /\ Counted = 0
    OBVIOUS
  <2>1. steps = TestB001 /\ Len(steps) = 1 /\ s.learn = "version" /\ s.kind = "check"
    BY <1>3, <1>7, VersionIsStep DEF ByTest
  <2>2. more = Tail(steps) /\ Tail(steps) = <<>>
    BY <1>2, <1>3, <2>1, Going, FirstStep
  <2> QED
    BY <1>7, <2>1, <2>2 DEF TotalKept
<1>9. test # "b001" =>
        /\ s.learn # "version" /\ version # 0
        /\ \A i \in 1..Len(queue) : queue[i] # "b001"
        /\ Counted + 1 + Len(queue) = 1 + Len(Schedule(version))
  <2>1. test # "b001" => s.learn # "version"
    BY <1>3, <1>7 DEF ByTest, QuietStep
  <2> QED
    BY <1>2, <1>7, <2>1 DEF TotalKept, Running
<1>10. queue' \in Seq(TestName)
  BY <1>4, <1>6, Scheduled
<1>11. \/ /\ s.kind = "check" /\ ~Holds(s, r)
          /\ val_report_status(test, "FAIL") /\ UNCHANGED <<version, info, found, list>>
       \/ /\ s.kind = "probe" /\ val_report_status(test, "SKIP") /\ Learn(s, r)
       \/ /\ Good(s, r) /\ more = <<>>
          /\ val_report_status(test, "PASS") /\ Learn(s, r)
       \/ /\ Good(s, r) /\ more # <<>>
          /\ steps' = more /\ UNCHANGED <<test, count, last>> /\ Learn(s, r)
  BY <1>1, <1>3, Answering
\* What every verdict leaves behind.
<1>12. ASSUME NEW w \in Verdict, val_report_status(test, w),
              /\ version' \in Version \cup {0} /\ info' \in Info
              /\ found' \subseteq 1..NumProtocols /\ list' \subseteq found'
       PROVE  TypeOK' /\ ByTest' /\ GivesBack(steps') /\ Len(steps') = 0
  <2>1. /\ count' \in [Verdict -> Nat] /\ last' \in [test: TestName, verdict: Verdict]
        /\ test' = "none" /\ steps' = <<>>
    BY <1>4, <1>12, Reported
  <2>2. TypeOK'
    BY <1>4, <1>5, <1>6, <1>10, <1>12, <2>1 DEF TypeOK, Info
  <2> QED
    BY <2>1, <2>2 DEF ByTest, GivesBack
<1>13. CASE /\ s.kind = "check" /\ ~Holds(s, r)
            /\ val_report_status(test, "FAIL") /\ UNCHANGED <<version, info, found, list>>
  <2>1. /\ TypeOK' /\ ByTest' /\ GivesBack(steps') /\ Len(steps') = 0
    BY <1>4, <1>12, <1>13 DEF Verdict
  <2>2. count'["FAIL"] # 0 /\ test' = "none" /\ Counted' = Counted + 1 /\ Running' = 0
    BY <1>4, <1>13, Reported DEF Verdict
  <2>3. AccessKept' /\ ListKept'
    BY <1>7, <1>13, <2>1, <2>2 DEF AccessKept, ListKept
  <2>4. TrustKept'
    BY <1>3, <1>5, <1>6, <1>7, <2>1 DEF TrustKept
  <2>5. TotalKept'
    <3>1. CASE test = "b001"
      BY <1>6, <1>8, <1>13, <2>2, <3>1 DEF TotalKept
    <3>2. CASE test # "b001"
      <4>1. queue' = queue /\ version' = version
        BY <1>6, <1>13, <3>2
      <4> QED
        BY <1>9, <2>2, <3>2, <4>1 DEF TotalKept
    <3> QED
      BY <3>1, <3>2
  <2> QED
    BY <2>1, <2>3, <2>4, <2>5 DEF IInv
<1>14. ASSUME Learn(s, r), Good(s, r) \/ s.kind = "probe"
       PROVE  /\ version' \in Version \cup {0} /\ info' \in Info
              /\ found' \subseteq 1..NumProtocols /\ list' \subseteq found' /\ ListKept'
              /\ test = "b001" => version' = v /\ v \in Nat \ {0}
              /\ test # "b001" => version' = version
  BY <1>2, <1>4, <1>8, <1>9, <1>14, Learning, VersionAssumption
<1>15. CASE s.kind = "probe" /\ val_report_status(test, "SKIP") /\ Learn(s, r)
  <2>1. TypeOK' /\ ByTest' /\ GivesBack(steps') /\ Len(steps') = 0 /\ ListKept'
    BY <1>12, <1>14, <1>15 DEF Verdict
  <2>2. /\ count'["FAIL"] = count["FAIL"] /\ test' = "none" /\ Counted' = Counted + 1
        /\ Running' = 0
    BY <1>4, <1>15, Reported DEF Verdict
  <2>3. ~SetCommand(s)
    BY <1>3, <1>7, <1>15 DEF AccessKept, GivesBack
  <2>4. ~Returning
    BY <1>3, <1>15 DEF Returning
  <2>5. AccessKept' /\ TrustKept'
    BY <1>5, <1>6, <1>7, <2>1, <2>2, <2>3, <2>4 DEF AccessKept, TrustKept
  <2>6. TotalKept'
    <3>1. test # "b001"
      BY <1>8, <1>15
    <3>2. queue' = queue /\ version' = version
      BY <1>6, <1>14, <1>15, <3>1
    <3> QED
      BY <1>9, <2>2, <3>1, <3>2 DEF TotalKept
  <2> QED
    BY <2>1, <2>5, <2>6 DEF IInv
<1>16. CASE Good(s, r) /\ more = <<>> /\ val_report_status(test, "PASS") /\ Learn(s, r)
  <2>1. TypeOK' /\ ByTest' /\ GivesBack(steps') /\ Len(steps') = 0 /\ ListKept'
    BY <1>12, <1>14, <1>16 DEF Verdict
  <2>2. /\ count'["FAIL"] = count["FAIL"] /\ test' = "none" /\ Counted' = Counted + 1
        /\ Running' = 0
    BY <1>4, <1>16, Reported DEF Verdict
  <2>3. Len(steps) = 1
    BY <1>3, <1>16, LastStep
  <2>4. s.kind = "check" => Holds(s, r)
    BY <1>16 DEF Good
  <2>5. SetCommand(s) => s.kind = "check" /\ s.expect # SCMI_SUCCESS /\ s.header
    BY <1>3, <1>7, <2>3 DEF AccessKept, GivesBack, Recovers
  <2>6. Granted => Granted'
    BY <1>5, <2>4, <2>5
  <2>7. Returning => s = Access(SCMI_SUCCESS) /\ s.kind = "check"
    BY <1>3, <2>3 DEF Returning
  <2>8. AccessKept' /\ TrustKept'
    BY <1>5, <1>6, <1>7, <2>1, <2>2, <2>4, <2>6, <2>7 DEF AccessKept, TrustKept
  <2>9. TotalKept'
    <3>1. CASE test = "b001"
      <4>1. version' = v /\ v \in Nat \ {0} /\ queue' = Schedule(v) /\ Counted' = 1
        BY <1>6, <1>8, <1>14, <1>16, <2>2, <2>4, <3>1
      <4>2. queue' \in Seq(TestName \ {"b001"})
        BY <4>1, Scheduled
      <4>3. \A i \in 1..Len(queue') : queue'[i] # "b001"
        BY <4>2
      <4>4. Len(queue') \in Nat
        BY <4>2
      <4> QED
        BY <2>2, <4>1, <4>3, <4>4 DEF TotalKept
    <3>2. CASE test # "b001"
      <4>1. queue' = queue /\ version' = version
        BY <1>6, <1>14, <1>16, <3>2
      <4> QED
        BY <1>9, <2>2, <3>2, <4>1 DEF TotalKept
    <3> QED
      BY <3>1, <3>2
  <2> QED
    BY <2>1, <2>8, <2>9 DEF IInv
<1>17. CASE /\ Good(s, r) /\ more # <<>> /\ steps' = more
            /\ UNCHANGED <<test, count, last>> /\ Learn(s, r)
  <2>1. /\ ByTest' /\ GivesBack(steps')
        /\ Returning => Returning'
        /\ SetCommand(s) /\ s.expect = SCMI_SUCCESS => Returning'
        /\ (\A i \in 1..Len(steps) : ~SetCommand(steps[i]))
             => \A i \in 1..Len(steps') : ~SetCommand(steps'[i])
    BY <1>2, <1>17, StepsKept
  <2>2. TypeOK' /\ ListKept'
    BY <1>4, <1>5, <1>6, <1>10, <1>14, <1>17 DEF TypeOK, Info
  <2>3. Granted => Granted' \/ Returning'
    <3>1. SetCommand(s) => /\ s.kind = "check"
                           /\ s.expect = SCMI_SUCCESS \/ s.header
      BY <1>3, <1>7 DEF AccessKept, GivesBack
    <3>2. SetCommand(s) => Holds(s, r)
      BY <1>17, <3>1 DEF Good
    <3> QED
      BY <1>5, <2>1, <3>1, <3>2
  <2>4. AccessKept' /\ TrustKept'
    <3>1. AccessKept'
      BY <1>7, <1>17, <2>1, <2>3 DEF AccessKept
    <3>2. TrustKept'
      BY <1>3, <1>5, <1>6, <1>7, <2>1 DEF TrustKept
    <3> QED
      BY <3>1, <3>2
  <2>5. TotalKept'
    <3>1. test # "b001"
      BY <1>8, <1>17
    <3>2. queue' = queue /\ version' = version /\ Running' = 1 /\ Counted' = Counted
      BY <1>2, <1>6, <1>14, <1>17, <3>1 DEF Running, Counted
    <3> QED
      BY <1>9, <1>17, <3>1, <3>2 DEF TotalKept
  <2> QED
    BY <2>1, <2>2, <2>4, <2>5 DEF IInv
<1> QED
  BY <1>11, <1>13, <1>15, <1>16, <1>17

-----------------------------------------------------------------------------
(* The theorems.                                                           *)

THEOREM Invariance == Spec => []IInv
<1>1. Init => IInv
  BY Initially
<1>2. IInv /\ [Next]_vars => IInv'
  <2> SUFFICES ASSUME IInv, [Next]_vars PROVE IInv'
    OBVIOUS
  <2>1. CASE RunTest
    BY <2>1, Starting
  <2>2. CASE Exchange
    BY <2>2, Exchanging
  <2>3. CASE Terminated \/ UNCHANGED vars
    <3>1. UNCHANGED vars
      BY <2>3 DEF Terminated
    <3>2. /\ TypeOK' /\ ByTest' /\ AccessKept' /\ TrustKept' /\ ListKept'
      BY <3>1 DEF vars, engineVars, suiteVars, IInv, TypeOK, ByTest, PageAhead, AccessKept,
         Returning, Granted, TrustKept, ListKept
    <3>3. TotalKept'
      BY <3>1 DEF vars, engineVars, suiteVars, IInv, TotalKept, Counted, Running
    <3> QED
      BY <3>2, <3>3 DEF IInv
  <2> QED
    BY <2>1, <2>2, <2>3 DEF Next
<1> QED
  BY <1>1, <1>2, PTL DEF Spec

\* What the suite knows, has left to do and has counted keeps its form, for
\* every number of agents, protocols and versions.
THEOREM TypeCorrect == Spec => []TypeOK
<1>1. IInv => TypeOK
  BY DEF IInv
<1> QED
  BY <1>1, Invariance, PTL

\* Whatever the platform supports, refuses or loses, the permission tests
\* (test_b011.c to test_b017.c) leave the agent the access it started with,
\* as long as none has failed.
THEOREM AccessIsRestored == Spec => []AccessRestored
<1>1. IInv => AccessRestored
  <2> SUFFICES ASSUME IInv, test = "none", count["FAIL"] = 0 PROVE Granted
    BY DEF AccessRestored
  <2>1. steps = <<>>
    BY DEF IInv, TypeOK
  <2> QED
    BY <2>1 DEF IInv, AccessKept, Returning
<1> QED
  BY <1>1, Invariance, PTL

\* An agent that pal_check_trusted_agent does not trust keeps its access.
THEOREM UntrustedChangesNothing == Spec => []UntrustedIsHarmless
<1>1. IInv => UntrustedIsHarmless
  BY DEF IInv, TrustKept, UntrustedIsHarmless
<1> QED
  BY <1>1, Invariance, PTL

\* However the platform cuts its protocol list in pages, test_b008.c leaves
\* g_protocol_list empty or complete, and it is not filled before the number
\* of protocols is known.
THEOREM ListIsAllOrNothing == Spec => []ListAllOrNothing
<1>1. IInv => ListAllOrNothing
  BY DEF IInv, ListKept, ListAllOrNothing
<1> QED
  BY <1>1, Invariance, PTL

\* The total app.c prints is the number of tests that were started.
THEOREM TestsAreCounted == Spec => []TotalIsTestsRun
<1>1. IInv => TotalIsTestsRun
  <2> SUFFICES ASSUME IInv, Finished
               PROVE  Counted = IF version = 0 THEN 1 ELSE 1 + Len(Schedule(version))
    BY DEF TotalIsTestsRun, Counted
  <2>1. Running = 0 /\ queue = <<>> /\ test = "none"
    BY DEF Finished, Running
  <2>2. Counted \in Nat /\ Len(queue) = 0
    BY <2>1 DEF IInv, TypeOK, Counted, Verdict
  <2>3. queue # <<"b001">>
    BY <2>1
  <2> QED
    BY <2>1, <2>2, <2>3 DEF IInv, TotalKept
<1> QED
  BY <1>1, Invariance, PTL

===============================================================================
