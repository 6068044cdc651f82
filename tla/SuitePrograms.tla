--------------------------- MODULE SuitePrograms ----------------------------
(***************************************************************************)
(* The programs of the eight suites are made of good steps, as SuiteSteps  *)
(* defines them: for each suite its steps, the statuses it expects, the    *)
(* programs its tests start with, the tests its version test schedules and *)
(* the steps an answer adds.  Programs of good steps stay such programs    *)
(* however the engine composes them.  A test that tries every domain,      *)
(* clock or sensor is a flattened sequence of one program for each, so its *)
(* number is all that has to be known of the table.                        *)
(***************************************************************************)
EXTENDS SuiteSteps, WellFoundedInduction, SequenceTheorems, TLAPS

-----------------------------------------------------------------------------
(* Lists of levels.                                                        *)

\* Levels the platform lists are listed one page after another.
LEMMA ListedBoth ==
  ASSUME NEW d, NEW a \in Seq(Nat), NEW b \in Seq(Nat), Listed(d, a), Listed(d, b)
  PROVE  Listed(d, a \o b)
  <1> SUFFICES ASSUME NEW i \in DOMAIN (a \o b)
               PROVE  \E j \in DOMAIN voltage.levels[d] : (a \o b)[i] = voltage.levels[d][j]
    BY DEF Listed
  <1>1. CASE i <= Len(a)
    <2>1. i \in DOMAIN a /\ (a \o b)[i] = a[i]
      BY <1>1
    <2> QED BY <2>1 DEF Listed
  <1>2. CASE ~(i <= Len(a))
    <2>1. i - Len(a) \in DOMAIN b /\ (a \o b)[i] = b[i - Len(a)]
      BY <1>2
    <2> QED BY <2>1 DEF Listed
  <1> QED BY <1>1, <1>2

-----------------------------------------------------------------------------
(* Flattening: what ForEach makes of the steps for each id.                *)

\* The sequence a recursive definition by concatenation gives, up to n.
Joined(U, ss, n, f) ==
  /\ f \in [1..n -> Seq(U)]
  /\ \A i \in 1..n : f[i] = IF i = 1 THEN ss[i] ELSE f[i-1] \o ss[i]

\* There is such a sequence: a smallest length for which there is none would be the
\* successor of one for which there is.
LEMMA JoinedExists ==
  ASSUME NEW U, NEW ss \in Seq(Seq(U)), NEW n \in 0..Len(ss)
  PROVE  \E f : Joined(U, ss, n, f)
  <1> DEFINE T == {k \in 0..Len(ss) : ~ \E f : Joined(U, ss, k, f)}
  <1> SUFFICES ASSUME T # {} PROVE FALSE
    OBVIOUS
  <1>1. PICK x \in T : \A y \in T : <<y, x>> \notin OpToRel(<, Nat)
    <2>1. T \subseteq Nat
      OBVIOUS
    <2> HIDE DEF T
    <2> QED BY <2>1, WFMin, NatLessThanWellFounded
  <1>2. x \in 0..Len(ss) /\ ~ \E f : Joined(U, ss, x, f)
    OBVIOUS
  <1>3. x # 0
    <2>1. Joined(U, ss, 0, <<>>)
      BY DEF Joined
    <2> QED BY <1>2, <2>1
  <1>4. PICK f : Joined(U, ss, x - 1, f)
    <2>1. x - 1 \in 0..Len(ss) /\ x - 1 < x
      BY <1>2, <1>3
    <2>2. <<x - 1, x>> \in OpToRel(<, Nat)
      BY <2>1, <1>2 DEF OpToRel
    <2> QED BY <1>1, <2>1, <2>2
  <1> DEFINE g == [i \in 1..x |-> IF i < x THEN f[i] ELSE IF i = 1 THEN ss[i] ELSE f[i-1] \o ss[i]]
  <1>5. Joined(U, ss, x, g)
    <2>1. ss[x] \in Seq(U)
      BY <1>2, <1>3
    <2>2. x # 1 => f[x - 1] \in Seq(U)
      BY <1>2, <1>3, <1>4 DEF Joined
    <2>3. g[x] \in Seq(U)
      BY <2>1, <2>2, <1>2, <1>3, ConcatProperties
    <2>4. ASSUME NEW i \in 1..x PROVE g[i] \in Seq(U)
      BY <2>3, <1>4, <1>2 DEF Joined
    <2>5. ASSUME NEW i \in 1..x PROVE g[i] = IF i = 1 THEN ss[i] ELSE g[i-1] \o ss[i]
      <3>1. CASE i < x
        <4>1. i \in 1..(x - 1) /\ i \in Int /\ x \in Int
          BY <3>1, <1>2
        <4>2. f[i] = IF i = 1 THEN ss[i] ELSE f[i-1] \o ss[i]
          BY <4>1, <1>4 DEF Joined
        <4>3. g[i] = f[i]
          BY <3>1
        <4>4. i # 1 => g[i-1] = f[i-1]
          <5> SUFFICES ASSUME i # 1 PROVE g[i-1] = f[i-1]
            OBVIOUS
          <5>1. i - 1 \in 1..x /\ i - 1 < x
            BY <4>1
          <5> QED BY <5>1
        <4> HIDE DEF g
        <4> QED BY <4>2, <4>3, <4>4
      <3>2. CASE i = x
        BY <3>2, <1>2
      <3> QED BY <3>1, <3>2, <1>2
    <2> QED BY <2>4, <2>5 DEF Joined
  <1> QED BY <1>5, <1>2

\* What the sequences up to the i-th make when joined is in S[i], if each of them
\* takes it there from what those before it make.
LEMMA FlattenInto ==
  ASSUME NEW U, NEW ss \in Seq(Seq(U)), NEW S, <<>> \in S[0],
         \A i \in 1..Len(ss) : \A q \in S[i - 1] : q \o ss[i] \in S[i]
  PROVE  Lists!FlattenSeq(ss) \in S[Len(ss)]
  <1>1. CASE Len(ss) = 0
    BY <1>1 DEF Lists!FlattenSeq
  <1>2. CASE Len(ss) # 0
    <2> DEFINE flatten == CHOOSE f :
                 f = [i \in 1..Len(ss) |-> IF i = 1 THEN ss[i] ELSE f[i-1] \o ss[i]]
    <2>1. PICK f : Joined(U, ss, Len(ss), f)
      BY JoinedExists
    <2>2. f = [i \in 1..Len(ss) |-> IF i = 1 THEN ss[i] ELSE f[i-1] \o ss[i]]
      BY <2>1 DEF Joined
    <2>3. flatten = [i \in 1..Len(ss) |-> IF i = 1 THEN ss[i] ELSE flatten[i-1] \o ss[i]]
      BY <2>2
    <2>4. Lists!FlattenSeq(ss) = flatten[Len(ss)]
      BY <1>2 DEF Lists!FlattenSeq
    <2> HIDE DEF flatten
    <2>5. flatten = [i \in 1..Len(ss) |-> IF i = 1 THEN ss[i] ELSE flatten[i-1] \o ss[i]]
      BY <2>3
    <2> DEFINE T == {k \in 1..Len(ss) : flatten[k] \notin S[k]}
    <2>6. T = {}
      <3> SUFFICES ASSUME T # {} PROVE FALSE
        OBVIOUS
      <3>1. T \subseteq Nat
        OBVIOUS
      <3>2. PICK x \in T : \A y \in T : <<y, x>> \notin OpToRel(<, Nat)
        <4> HIDE DEF T
        <4> QED BY <3>1, WFMin, NatLessThanWellFounded
      <3>3. x \in 1..Len(ss) /\ flatten[x] \notin S[x]
        OBVIOUS
      <3>4. flatten[x] = IF x = 1 THEN ss[x] ELSE flatten[x-1] \o ss[x]
        BY <3>3, <2>5
      <3>5. ss[x] \in Seq(U)
        BY <3>3
      <3>6. CASE x = 1
        <4>1. <<>> \o ss[x] = ss[x]
          BY <3>5
        <4>2. <<>> \in S[x - 1]
          BY <3>6
        <4>3. <<>> \o ss[x] \in S[x]
          BY <3>3, <4>2
        <4> QED BY <3>3, <3>4, <3>6, <4>1, <4>3
      <3>7. CASE x # 1
        <4>1. x - 1 \in 1..Len(ss) /\ x - 1 < x
          BY <3>3, <3>7
        <4>2. <<x - 1, x>> \in OpToRel(<, Nat)
          BY <4>1, <3>3 DEF OpToRel
        <4>3. flatten[x - 1] \in S[x - 1]
          BY <4>1, <4>2, <3>2
        <4> QED BY <4>3, <3>3, <3>4, <3>7
      <3> QED BY <3>6, <3>7
    <2> QED BY <2>6, <2>4, <1>2
  <1> QED BY <1>1, <1>2

\* A sequence of sequences is flattened to a sequence of the same elements.
LEMMA FlattenType ==
  ASSUME NEW U, NEW ss \in Seq(Seq(U))
  PROVE  Lists!FlattenSeq(ss) \in Seq(U)
  <1> PICK S : S = [i \in 0..Len(ss) |-> Seq(U)]
    OBVIOUS
  <1>1. S[0] = Seq(U) /\ S[Len(ss)] = Seq(U)
    OBVIOUS
  <1>2. ASSUME NEW i \in 1..Len(ss), NEW q \in S[i - 1]
        PROVE  q \o ss[i] \in S[i]
    <2>1. q \in Seq(U) /\ ss[i] \in Seq(U) /\ S[i] = Seq(U)
      <3>1. i - 1 \in 0..Len(ss) /\ i \in 0..Len(ss)
        OBVIOUS
      <3> QED BY <3>1
    <2> QED BY <2>1, ConcatProperties
  <1>3. \A i \in 1..Len(ss) : \A q \in S[i - 1] : q \o ss[i] \in S[i]
    BY <1>2
  <1>4. <<>> \in S[0]
    BY <1>1
  <1>5. Lists!FlattenSeq(ss) \in S[Len(ss)]
    BY <1>3, <1>4, FlattenInto
  <1> QED BY <1>5, <1>1

-----------------------------------------------------------------------------
(* Programs.                                                               *)

\* A program of up to four good steps is good.
LEMMA ShortPrograms ==
  ASSUME NEW p, NEW t
  PROVE  /\ GoodProgram(p, t, <<>>)
         /\ \A a : Good(p, t, a) => GoodProgram(p, t, <<a>>)
         /\ \A a, b : Good(p, t, a) /\ Good(p, t, b) => GoodProgram(p, t, <<a, b>>)
         /\ \A a, b, c : Good(p, t, a) /\ Good(p, t, b) /\ Good(p, t, c)
                           => GoodProgram(p, t, <<a, b, c>>)
         /\ \A a, b, c, d : Good(p, t, a) /\ Good(p, t, b) /\ Good(p, t, c) /\ Good(p, t, d)
                              => GoodProgram(p, t, <<a, b, c, d>>)
  BY DEF GoodProgram

\* So is one of five or six.
LEMMA LongPrograms ==
  ASSUME NEW p, NEW t
  PROVE  /\ \A a, b, c, d, e :
             Good(p, t, a) /\ Good(p, t, b) /\ Good(p, t, c) /\ Good(p, t, d) /\ Good(p, t, e)
                              => GoodProgram(p, t, <<a, b, c, d, e>>)
         /\ \A a, b, c, d, e, f :
             Good(p, t, a) /\ Good(p, t, b) /\ Good(p, t, c) /\ Good(p, t, d) /\ Good(p, t, e)
             /\ Good(p, t, f)
                              => GoodProgram(p, t, <<a, b, c, d, e, f>>)
  BY DEF GoodProgram

\* A program is a sequence of good steps, and every such sequence is one.
LEMMA ProgramIsSequence ==
  ASSUME NEW p, NEW t, NEW q
  PROVE  GoodProgram(p, t, q) <=> \E U : q \in Seq(U) /\ \A s \in U : Good(p, t, s)
  <1>1. ASSUME GoodProgram(p, t, q) PROVE \E U : q \in Seq(U) /\ \A s \in U : Good(p, t, s)
    <2> DEFINE U == {q[i] : i \in DOMAIN q}
    <2>1. q \in Seq(U) /\ \A s \in U : Good(p, t, s)
      BY <1>1 DEF GoodProgram
    <2> QED BY <2>1
  <1>2. ASSUME NEW U, q \in Seq(U), \A s \in U : Good(p, t, s) PROVE GoodProgram(p, t, q)
    <2>1. q \in Seq({q[i] : i \in DOMAIN q})
      BY <1>2
    <2>2. \A i \in DOMAIN q : q[i] \in U
      BY <1>2
    <2> QED BY <1>2, <2>1, <2>2 DEF GoodProgram
  <1> QED BY <1>1, <1>2

\* A good program after another is a good program.
LEMMA ProgramsAppend ==
  ASSUME NEW p, NEW t, NEW q, NEW r, GoodProgram(p, t, q), GoodProgram(p, t, r)
  PROVE  GoodProgram(p, t, q \o r)
  <1>1. PICK U : q \in Seq(U) /\ \A s \in U : Good(p, t, s)
    BY ProgramIsSequence
  <1>2. PICK V : r \in Seq(V) /\ \A s \in V : Good(p, t, s)
    BY ProgramIsSequence
  <1>3. q \in Seq(U \cup V) /\ r \in Seq(U \cup V)
    BY <1>1, <1>2
  <1>4. q \o r \in Seq(U \cup V)
    BY <1>3
  <1>5. \A s \in U \cup V : Good(p, t, s)
    BY <1>1, <1>2
  <1> QED BY <1>4, <1>5, ProgramIsSequence

\* So is what is left of one without its first or its last step.
LEMMA RestOfProgram ==
  ASSUME NEW p, NEW t, NEW q, GoodProgram(p, t, q), q # <<>>
  PROVE  /\ Good(p, t, Head(q)) /\ GoodProgram(p, t, Tail(q)) /\ GoodProgram(p, t, Lists!Front(q))
  <1>1. PICK U : q \in Seq(U) /\ \A s \in U : Good(p, t, s)
    BY ProgramIsSequence
  <1>2. Head(q) \in U /\ Tail(q) \in Seq(U)
    BY <1>1
  <1>3. Len(q) \in Nat /\ Len(q) > 0
    BY <1>1
  <1>4. Lists!Front(q) = SubSeq(q, 1, Len(q) - 1)
    BY DEF Lists!Front
  <1>5. \A i \in 1..(Len(q) - 1) : q[i] \in U
    BY <1>1
  <1>6. SubSeq(q, 1, Len(q) - 1) \in Seq(U)
    BY <1>1, <1>3, <1>5
  <1> QED BY <1>1, <1>2, <1>4, <1>6, ProgramIsSequence

\* A program given step by step is good if each step is.
LEMMA EachStep ==
  ASSUME NEW p, NEW t, NEW n \in Nat, NEW ss, ss = [i \in 1..n |-> ss[i]],
         \A i \in 1..n : Good(p, t, ss[i])
  PROVE  GoodProgram(p, t, ss)
  <1> DEFINE U == {ss[i] : i \in 1..n}
  <1>1. \A i \in 1..n : ss[i] \in U
    OBVIOUS
  <1>2. \A s \in U : Good(p, t, s)
    OBVIOUS
  <1> HIDE DEF U
  <1>3. ss \in [1..n -> U]
    BY <1>1
  <1>4. [1..n -> U] \subseteq Seq(U)
    BY SeqDef
  <1> QED BY <1>2, <1>3, <1>4, ProgramIsSequence

\* A loop over ids is good if the steps for each id are.
LEMMA Flattened ==
  ASSUME NEW p, NEW t, NEW n \in Nat, NEW ss, ss = [i \in 1..n |-> ss[i]],
         \A i \in 1..n : GoodProgram(p, t, ss[i])
  PROVE  GoodProgram(p, t, Lists!FlattenSeq(ss))
  <1> DEFINE U == UNION {{ss[i][j] : j \in DOMAIN ss[i]} : i \in 1..n}
  <1>1. ASSUME NEW i \in 1..n PROVE ss[i] \in Seq(U)
    <2>1. ss[i] \in Seq({ss[i][j] : j \in DOMAIN ss[i]})
      BY DEF GoodProgram
    <2>2. {ss[i][j] : j \in DOMAIN ss[i]} \subseteq U
      OBVIOUS
    <2> HIDE DEF U
    <2> QED BY <2>1, <2>2
  <1>2. ASSUME NEW s \in U PROVE Good(p, t, s)
    BY DEF GoodProgram
  <1> HIDE DEF U
  <1>3. ss \in Seq(Seq(U))
    BY <1>1
  <1> QED BY <1>2, <1>3, FlattenType, ProgramIsSequence

\* The protocol of a suite, by its place among the suites.
LEMMA Protocols ==
  /\ ProtocolOf("base") = PROTOCOL_BASE
  /\ ProtocolOf("power") = PROTOCOL_POWER_DOMAIN
  /\ ProtocolOf("system") = PROTOCOL_SYSTEM_POWER
  /\ ProtocolOf("performance") = PROTOCOL_PERFORMANCE
  /\ ProtocolOf("clock") = PROTOCOL_CLOCK
  /\ ProtocolOf("sensor") = PROTOCOL_SENSOR
  /\ ProtocolOf("reset") = PROTOCOL_RESET
  /\ ProtocolOf("voltage") = PROTOCOL_VOLTAGE
  <1>1. ASSUME NEW i \in 1..8 PROVE ProtocolOf(SuiteName[i]) = 15 + i
    <2>1. (CHOOSE j \in DOMAIN SuiteName : SuiteName[j] = SuiteName[i]) = i
      BY DEF SuiteName
    <2>2. ProtocolOf(SuiteName[i]) = PROTOCOL_BASE - 1 + i
      BY <2>1, Zenon DEF ProtocolOf
    <2> QED BY <2>2 DEF PROTOCOL_BASE
  <1>2. /\ SuiteName[1] = "base" /\ SuiteName[2] = "power" /\ SuiteName[3] = "system"
        /\ SuiteName[4] = "performance" /\ SuiteName[5] = "clock" /\ SuiteName[6] = "sensor"
        /\ SuiteName[7] = "reset" /\ SuiteName[8] = "voltage"
    BY DEF SuiteName
  <1>3. /\ ProtocolOf("base") = 16 /\ ProtocolOf("power") = 17 /\ ProtocolOf("system") = 18
        /\ ProtocolOf("performance") = 19 /\ ProtocolOf("clock") = 20 /\ ProtocolOf("sensor") = 21
        /\ ProtocolOf("reset") = 22 /\ ProtocolOf("voltage") = 23
    BY <1>1, <1>2
  <1> QED BY <1>3 DEF PROTOCOL_BASE, PROTOCOL_POWER_DOMAIN, PROTOCOL_SYSTEM_POWER,
     PROTOCOL_PERFORMANCE, PROTOCOL_CLOCK, PROTOCOL_SENSOR, PROTOCOL_RESET, PROTOCOL_VOLTAGE

-----------------------------------------------------------------------------
(* Base.                                                                   *)

\* The steps the base suite is made of are good.
LEMMA BaseSteps ==
  ASSUME NEW t
  PROVE
  /\ \A m, a, e : e # SCMI_GENERIC_ERROR /\ m \notin BaseMovers => Good("base", t, Base(m, a, e))
  /\ \A m, a, w : m \notin BaseMovers =>
       /\ Good("base", t, BaseValue(m, a, w))
       /\ Good("base", t, [BaseValue(m, a, w) EXCEPT !.learn = "counts"])
       /\ Good("base", t, AskAndLearn(PROTOCOL_BASE, m, a, "version"))
       /\ Good("base", t, AskAndLearn(PROTOCOL_BASE, m, a, "self"))
  /\ \A skip \in 0..NumProtocols : Good("base", t, Page(skip))
  /\ \A e : e # SCMI_GENERIC_ERROR =>
       Good("base", t, Access(e)) /\ Good("base", t, [Access(e) EXCEPT !.header = FALSE])
  /\ \A c : /\ Good("base", t, Probe(PROTOCOL_BASE, c))
           /\ Good("base", t, ProbeUncounted(PROTOCOL_BASE, c))
  /\ Good("base", t, Skip)
  <1> USE Protocols DEF Good, Teaches, Allowed, Mover, BaseMovers, PerformanceMovers, ClockMovers,
          SensorMovers, VoltageMovers, Moving, Restoring, Regranting, Changes, Base, BaseValue,
          Page, Access, Ask, AskValue, AskAndLearn, AskStatus, Probe, ProbeUncounted, Skip,
          SCMI_SUCCESS, SCMI_NOT_FOUND, SCMI_GENERIC_ERROR, PROTOCOL_BASE, PROTOCOL_POWER_DOMAIN,
          PROTOCOL_CLOCK, PROTOCOL_PERFORMANCE, PROTOCOL_SENSOR, PROTOCOL_VOLTAGE,
          PROTOCOL_VERSION, PROTOCOL_MESSAGE_ATTRIBUTES, BASE_DISCOVER_LIST_PROTOCOLS,
          BASE_SET_DEVICE_PERMISSIONS, BASE_SET_PROTOCOL_PERMISSIONS,
          BASE_RESET_AGENT_CONFIGURATION
  <1>1. \A m, a, e : e # SCMI_GENERIC_ERROR /\ m \notin BaseMovers => Good("base", t, Base(m, a, e))
    OBVIOUS
  <1>2. \A m, a, w : m \notin BaseMovers =>
          /\ Good("base", t, BaseValue(m, a, w))
          /\ Good("base", t, [BaseValue(m, a, w) EXCEPT !.learn = "counts"])
          /\ Good("base", t, AskAndLearn(PROTOCOL_BASE, m, a, "version"))
          /\ Good("base", t, AskAndLearn(PROTOCOL_BASE, m, a, "self"))
    OBVIOUS
  <1>3. \A skip \in 0..NumProtocols : Good("base", t, Page(skip))
    OBVIOUS
  <1>4. \A e : e # SCMI_GENERIC_ERROR =>
          Good("base", t, Access(e)) /\ Good("base", t, [Access(e) EXCEPT !.header = FALSE])
    OBVIOUS
  <1>5. \A c : /\ Good("base", t, Probe(PROTOCOL_BASE, c))
              /\ Good("base", t, ProbeUncounted(PROTOCOL_BASE, c))
    OBVIOUS
  <1>6. Good("base", t, Skip)
    OBVIOUS
  <1> HIDE DEF Good, Base, BaseValue, Page, Access, AskAndLearn, Probe, ProbeUncounted, Skip
  <1> QED BY <1>1, <1>2, <1>3, <1>4, <1>5, <1>6

\* So are the commands that grant and take access away, where they are refused
\* or meant to.
LEMMA BaseSets ==
  ASSUME NEW t
  PROVE
  /\ \A agent, device, flag, e :
       e # SCMI_GENERIC_ERROR /\ (e # SCMI_SUCCESS \/ t \in Moving)
         /\ device \in {Device, ForeignDevice} => Good("base", t, SetDevice(agent, device, flag, e))
  /\ \A agent, device, protocol, flag, e :
       e # SCMI_GENERIC_ERROR /\ (e # SCMI_SUCCESS \/ t \in Moving) =>
         /\ Good("base", t, SetProtocol(agent, device, protocol, flag, e))
         /\ Good("base", t, [SetProtocol(agent, device, protocol, flag, e) EXCEPT !.header = FALSE])
  /\ \A agent, flag, e :
       e # SCMI_GENERIC_ERROR /\ (e # SCMI_SUCCESS \/ t \in Moving) =>
         Good("base", t, Reset(agent, flag, e))
  BY DEF Good, Teaches, Allowed, Mover, Changes, Base, Ask, SetDevice, SetProtocol, Reset,
     SCMI_GENERIC_ERROR, PROTOCOL_BASE, PROTOCOL_CLOCK, PROTOCOL_PERFORMANCE,
     PROTOCOL_SENSOR, PROTOCOL_VOLTAGE, BASE_SET_DEVICE_PERMISSIONS,
     BASE_SET_PROTOCOL_PERMISSIONS, BASE_RESET_AGENT_CONFIGURATION

\* No status the base suite expects is that of an exchange that went wrong.
LEMMA BaseStatus ==
  /\ SCMI_GENERIC_ERROR \notin
       {SCMI_SUCCESS, SCMI_NOT_FOUND, SCMI_INVALID_PARAMETERS, SCMI_DENIED}
  /\ SCMI_SUCCESS \notin {SCMI_NOT_FOUND, SCMI_INVALID_PARAMETERS, SCMI_DENIED}
  BY DEF SCMI_SUCCESS, SCMI_NOT_FOUND, SCMI_INVALID_PARAMETERS, SCMI_DENIED, SCMI_GENERIC_ERROR

\* The other commands of the base suite change no setting.
LEMMA BaseCommands ==
  BaseMovers \cap
    {PROTOCOL_VERSION, PROTOCOL_ATTRIBUTES, PROTOCOL_MESSAGE_ATTRIBUTES, BASE_DISCOVER_VENDOR,
     BASE_DISCOVER_SUB_VENDOR, BASE_DISCOVER_IMPLEMENTATION_VERSION,
     BASE_DISCOVER_LIST_PROTOCOLS, BASE_DISCOVER_AGENT, BASE_NOTIFY_ERRORS,
     BASE_INVALID_COMMAND} = {}
  BY DEF BaseMovers, BASE_SET_DEVICE_PERMISSIONS,
     BASE_SET_PROTOCOL_PERMISSIONS, BASE_RESET_AGENT_CONFIGURATION,
     PROTOCOL_VERSION, PROTOCOL_ATTRIBUTES, PROTOCOL_MESSAGE_ATTRIBUTES, BASE_DISCOVER_VENDOR,
     BASE_DISCOVER_SUB_VENDOR, BASE_DISCOVER_IMPLEMENTATION_VERSION,
     BASE_DISCOVER_LIST_PROTOCOLS, BASE_DISCOVER_AGENT, BASE_NOTIFY_ERRORS,
     BASE_INVALID_COMMAND

\* Every test of the base suite starts with good steps.
LEMMA BasePrograms ==
  ASSUME info.agents \in Nat, NEW t \in TestsOf("base")
  PROVE  GoodProgram("base", t, ProgramOf("base", t))
  <1> DEFINE n == info.agents
             P(q) == GoodProgram("base", t, q)
  <1>0. 0 \in 0..NumProtocols
    BY ExpectedAssumption
  <1>2. ASSUME NEW ss, ss = [i \in 1..n |-> ss[i]], \A i \in 1..n : Good("base", t, ss[i])
        PROVE  P(ss)
    BY <1>2, EachStep
  <1> USE BaseSteps, BaseStatus, BaseCommands, ShortPrograms, LongPrograms
  <1>1. ASSUME NEW q, P(q) PROVE P(IfTrusted(q))
    BY <1>1 DEF IfTrusted
  <1>3. P(TestB001) /\ P(TestB002)
    BY DEF TestB001, TestB002
  <1>4. P(TestB003) /\ P(TestB004)
    BY DEF TestB003, TestB004
  <1>5. P(TestB005) /\ P(TestB006) /\ P(TestB007)
    BY DEF TestB005, TestB006, TestB007
  <1>6. P(TestB008)
    <2>1. Good("base", t, Page(0))
      BY <1>0
    <2> QED BY <2>1 DEF TestB008, InvalidSkip
  <1>7. P(TestB009_v1)
    <2> DEFINE ss == [i \in 1..n |-> Base(BASE_DISCOVER_AGENT, <<i>>, SCMI_SUCCESS)]
    <2>1. \A i \in 1..n : Good("base", t, ss[i])
      OBVIOUS
    <2>2. P(ss)
      BY <1>2, <2>1
    <2>3. P(<<Probe(PROTOCOL_BASE, BASE_DISCOVER_AGENT),
              BaseValue(BASE_DISCOVER_AGENT, <<PLATFORM>>, PLATFORM)>>)
          /\ P(<<Base(BASE_DISCOVER_AGENT, <<info.agents + 1>>, SCMI_NOT_FOUND)>>)
      OBVIOUS
    <2> QED BY <2>2, <2>3, ProgramsAppend DEF TestB009_v1
  <1>8. P(TestB009)
    <2> DEFINE ss == [i \in 1..n |-> BaseValue(BASE_DISCOVER_AGENT, <<i>>, i)]
    <2>1. \A i \in 1..n : Good("base", t, ss[i])
      OBVIOUS
    <2>2. P(ss)
      BY <1>2, <2>1
    <2>3. P(<<Probe(PROTOCOL_BASE, BASE_DISCOVER_AGENT),
              BaseValue(BASE_DISCOVER_AGENT, <<PLATFORM>>, PLATFORM),
              AskAndLearn(PROTOCOL_BASE, BASE_DISCOVER_AGENT, <<OWN_AGENT>>, "self")>>)
          /\ P(<<Base(BASE_DISCOVER_AGENT, <<info.agents + 1>>, SCMI_NOT_FOUND)>>)
      OBVIOUS
    <2> QED BY <2>2, <2>3, ProgramsAppend DEF TestB009
  <1>9. P(TestB010)
    BY DEF TestB010
  <1>10. P(TestB011)
    BY <1>1, BaseSets DEF TestB011, Supports
  <1>11. t = "b012" => P(TestB012)
    BY <1>1, BaseSets DEF TestB012, Supports, Moving, Regranting
  <1>12. P(TestB013)
    BY <1>1, BaseSets DEF TestB013, Supports
  <1>13. t = "b014" => P(TestB014)
    BY <1>1, BaseSets DEF TestB014, Supports, Moving, Regranting
  <1>14. P(TestB015)
    BY <1>1, BaseSets DEF TestB015, Supports
  <1>15. t = "b016" => P(TestB016)
    BY <1>1, BaseSets DEF TestB016, Supports, Moving, Regranting
  <1>16. t = "b017" => P(TestB017)
    BY <1>1, BaseSets DEF TestB017, Supports, Moving, Regranting
  <1>17. \/ ProgramOf("base", t) \in
             {TestB001, TestB002, TestB003, TestB004, TestB005, TestB006, TestB007, TestB008,
              TestB009_v1, TestB009, TestB010, TestB011, TestB013, TestB015}
         \/ t = "b012" /\ ProgramOf("base", t) = TestB012
         \/ t = "b014" /\ ProgramOf("base", t) = TestB014
         \/ t = "b016" /\ ProgramOf("base", t) = TestB016
         \/ t = "b017" /\ ProgramOf("base", t) = TestB017
    BY DEF TestsOf, ProgramOf, Program
  <1> HIDE DEF P
  <1> QED BY <1>3, <1>4, <1>5, <1>6, <1>7, <1>8, <1>9, <1>10, <1>11, <1>12, <1>13, <1>14, <1>15,
             <1>16, <1>17 DEF P

\* The version test schedules tests of the base suite only.
LEMMA BaseSchedule == \A v : Schedule(v) \in Seq(TestsOf("base"))
  <1> DEFINE T == TestsOf("base")
  <1>1. {"b002", "b003", "b004", "b005", "b006", "b007", "b008", "b009_v1", "b009", "b010",
         "b011", "b012", "b013", "b014", "b015", "b016", "b017"} \subseteq T
    BY DEF TestsOf
  <1> HIDE DEF T
  <1>2. /\ <<"b002", "b003", "b004", "b005", "b006", "b007", "b008">> \in Seq(T)
        /\ <<"b009_v1">> \in Seq(T) /\ <<"b009">> \in Seq(T) /\ <<"b010">> \in Seq(T)
        /\ <<"b011", "b012", "b013", "b014", "b015", "b016", "b017">> \in Seq(T)
        /\ <<>> \in Seq(T)
    BY <1>1
  <1>3. \A v : Schedule(v) \in Seq(T)
    BY <1>2, ConcatProperties DEF Schedule
  <1> QED BY <1>3 DEF T

\* What is left of a test after an answer: a page of protocols more, at most.
LEMMA BaseMore ==
  ASSUME NEW t, NEW s, NEW r, GoodProgram("base", t, steps), steps # <<>>,
         s.learn = "page" => PageEnd(s, r) \in 0..NumProtocols
  PROVE  GoodProgram("base", t, More(s, r))
  <1>1. GoodProgram("base", t, Tail(steps))
    BY RestOfProgram
  <1>2. ASSUME s.learn = "page" PROVE GoodProgram("base", t, <<Page(PageEnd(s, r))>>)
    BY <1>2, BaseSteps, ShortPrograms
  <1> QED BY <1>1, <1>2, ProgramsAppend DEF More

-----------------------------------------------------------------------------
(* Power domains.                                                          *)

\* The steps the power suite is made of are good.
LEMMA PowerSteps ==
  ASSUME NEW t
  PROVE
  /\ \A m, a, e : e # SCMI_GENERIC_ERROR => Good("power", t, PowerTests!Power(m, a, e))
  /\ \A m, a, w, l : l \notin Changes =>
       Good("power", t, [PowerTests!PowerValue(m, a, w) EXCEPT !.learn = l])
  /\ \A m, a, w : Good("power", t, PowerTests!PowerValue(m, a, w))
  /\ \A m, a :
       Good("power", t,
            PowerTests!AskAndLearn(PowerTests!PROTOCOL_POWER_DOMAIN, m, a, "version"))
  /\ \A m, a, e : e # SCMI_GENERIC_ERROR =>
       Good("power", t, PowerTests!Ask(PowerTests!PROTOCOL_POWER_DOMAIN, m, a, e))
  /\ \A c : Good("power", t, PowerTests!Probe(PowerTests!PROTOCOL_POWER_DOMAIN, c))
  /\ Good("power", t, PowerTests!Skip)
  <1> USE Protocols DEF Good, Teaches, Allowed, Mover, BaseMovers, PerformanceMovers, ClockMovers,
          SensorMovers, VoltageMovers, Changes, PROTOCOL_BASE, PROTOCOL_PERFORMANCE,
          PROTOCOL_CLOCK, PROTOCOL_SENSOR, PROTOCOL_VOLTAGE, BASE_SET_DEVICE_PERMISSIONS,
          BASE_SET_PROTOCOL_PERMISSIONS, BASE_RESET_AGENT_CONFIGURATION, PowerTests!Power,
          PowerTests!PowerValue, PowerTests!Ask, PowerTests!AskValue, PowerTests!AskAndLearn,
          PowerTests!Probe, PowerTests!AskStatus, PowerTests!Skip, PowerTests!SCMI_SUCCESS,
          SCMI_SUCCESS, SCMI_GENERIC_ERROR, PowerTests!SCMI_NOT_FOUND,
          PowerTests!PROTOCOL_POWER_DOMAIN, PowerTests!PROTOCOL_BASE, PROTOCOL_POWER_DOMAIN,
          PowerTests!PROTOCOL_MESSAGE_ATTRIBUTES, PowerTests!PROTOCOL_VERSION
  <1>1. \A m, a, e : e # SCMI_GENERIC_ERROR => Good("power", t, PowerTests!Power(m, a, e))
    OBVIOUS
  <1>2. \A m, a, w, l : l \notin Changes =>
          Good("power", t, [PowerTests!PowerValue(m, a, w) EXCEPT !.learn = l])
    OBVIOUS
  <1>3. \A m, a, w : Good("power", t, PowerTests!PowerValue(m, a, w))
    OBVIOUS
  <1>4. \A m, a :
          Good("power", t,
               PowerTests!AskAndLearn(PowerTests!PROTOCOL_POWER_DOMAIN, m, a, "version"))
    OBVIOUS
  <1>5. \A m, a, e : e # SCMI_GENERIC_ERROR =>
          Good("power", t, PowerTests!Ask(PowerTests!PROTOCOL_POWER_DOMAIN, m, a, e))
    OBVIOUS
  <1>6. \A c : Good("power", t, PowerTests!Probe(PowerTests!PROTOCOL_POWER_DOMAIN, c))
    OBVIOUS
  <1>7. Good("power", t, PowerTests!Skip)
    OBVIOUS
  <1> HIDE DEF Good, PowerTests!Power, PowerTests!PowerValue, PowerTests!Ask,
               PowerTests!AskAndLearn, PowerTests!Probe, PowerTests!Skip
  <1> QED BY <1>1, <1>2, <1>3, <1>4, <1>5, <1>6, <1>7

\* No status the power suite expects is that of an exchange that went wrong.
LEMMA PowerStatus ==
  /\ PowerTests!SCMI_SUCCESS # SCMI_GENERIC_ERROR
  /\ PowerTests!SCMI_NOT_FOUND # SCMI_GENERIC_ERROR
  /\ PowerTests!SCMI_INVALID_PARAMETERS # SCMI_GENERIC_ERROR
  /\ PowerTests!SCMI_NOT_SUPPORTED # SCMI_GENERIC_ERROR
  BY DEF PowerTests!SCMI_SUCCESS, PowerTests!SCMI_NOT_FOUND, PowerTests!SCMI_INVALID_PARAMETERS,
         PowerTests!SCMI_NOT_SUPPORTED, SCMI_GENERIC_ERROR

\* Every test of the power suite starts with good steps.
LEMMA PowerPrograms ==
  ASSUME table.power.domains \in Nat, NEW t \in TestsOf("power")
  PROVE  GoodProgram("power", t, ProgramOf("power", t))
  <1> DEFINE n == table.power.domains
             P(q) == GoodProgram("power", t, q)
  <1> USE PowerSteps, PowerStatus, ShortPrograms DEF Changes
  <1>1. ASSUME NEW q, P(q) PROVE P(PowerTests!IfDomains(q))
    BY <1>1 DEF PowerTests!IfDomains, PowerTests!IfSome
  <1>2. ASSUME NEW ss, ss = [i \in 1..n |-> ss[i]], \A i \in 1..n : P(ss[i])
        PROVE  P(PowerTests!Lists!FlattenSeq(ss))
    <2>1. PowerTests!Lists!FlattenSeq(ss) = Lists!FlattenSeq(ss)
      BY DEF PowerTests!Lists!FlattenSeq, Lists!FlattenSeq
    <2> QED BY <1>2, <2>1, Flattened
  <1>3. ASSUME NEW l, l \notin Changes PROVE P(PowerTests!ForAttributes(l))
    <2> DEFINE ss == [i \in 1..n |-> PowerTests!Attributes(i - 1, l)]
    <2>1. P(PowerTests!Lists!FlattenSeq(ss))
      <3>1. \A i \in 1..n : P(PowerTests!Attributes(i - 1, l))
        BY <1>3 DEF PowerTests!Attributes
      <3> QED BY <1>2, <3>1
    <2> QED BY <2>1 DEF PowerTests!ForAttributes, PowerTests!ForEach
  <1>4. P(PowerTests!TestP001)
    BY DEF PowerTests!TestP001, PowerTests!VersionTest
  <1>5. P(PowerTests!TestP002)
    BY DEF PowerTests!TestP002
  <1>6. P(PowerTests!TestP003)
    BY DEF PowerTests!TestP003, PowerTests!Mandatory
  <1>7. P(PowerTests!TestP004)
    BY DEF PowerTests!TestP004, PowerTests!UnknownCommandTest
  <1>8. P(PowerTests!TestP005)
    BY <1>1, <1>3 DEF PowerTests!TestP005
  <1>9. P(PowerTests!TestP006)
    BY DEF PowerTests!TestP006
  <1>10. P(PowerTests!TestP007) /\ P(PowerTests!TestP008)
    BY <1>1, <1>3, ProgramsAppend DEF PowerTests!TestP007, PowerTests!TestP008, PowerTests!Untried
  <1>11. P(PowerTests!TestP009) /\ P(PowerTests!TestP011)
    BY DEF PowerTests!TestP009, PowerTests!TestP011, PowerTests!StateSet
  <1>12. P(PowerTests!TestP010)
    <2> DEFINE ss == [i \in 1..n |-> <<PowerTests!Power(PowerTests!POWER_STATE_GET, <<i - 1>>,
                                                         PowerTests!SCMI_SUCCESS)>>]
    <2>1. P(PowerTests!Lists!FlattenSeq(ss))
      <3>1. \A i \in 1..n : P(ss[i])
        OBVIOUS
      <3> QED BY <1>2, <3>1
    <2> QED BY <1>1, <2>1 DEF PowerTests!TestP010, PowerTests!ForEach
  <1>13. \A c : P(PowerTests!ProbePower(c))
    BY DEF PowerTests!ProbePower
  <1>14. P(PowerTests!TestP012) /\ P(PowerTests!TestP013)
    BY <1>1, <1>3, <1>13, ProgramsAppend DEF PowerTests!TestP012, PowerTests!TestP013,
          PowerTests!Untried
  <1>15. P(PowerTests!TestP014) /\ P(PowerTests!TestP016)
    BY <1>13, ProgramsAppend DEF PowerTests!TestP014, PowerTests!TestP016, PowerTests!Notify,
          PowerTests!ChangeRequested
  <1>16. P(PowerTests!TestP015)
    <2> DEFINE ss == [i \in 1..n |-> PowerTests!ChangeRequested(i - 1,
          PowerTests!INVALID_NOTIFY_ENABLE,
                                       PowerTests!SCMI_INVALID_PARAMETERS)]
    <2>1. P(PowerTests!Lists!FlattenSeq(ss))
      <3>1. \A i \in 1..n : P(ss[i])
        BY DEF PowerTests!ChangeRequested
      <3> QED BY <1>2, <3>1
    <2> QED BY <1>1, <1>13, <2>1, ProgramsAppend DEF PowerTests!TestP015, PowerTests!ForEach
  <1>17. ProgramOf("power", t) \in
           {PowerTests!TestP001, PowerTests!TestP002, PowerTests!TestP003, PowerTests!TestP004,
            PowerTests!TestP005, PowerTests!TestP006, PowerTests!TestP007, PowerTests!TestP008,
            PowerTests!TestP009, PowerTests!TestP010, PowerTests!TestP011, PowerTests!TestP012,
            PowerTests!TestP013, PowerTests!TestP014, PowerTests!TestP015, PowerTests!TestP016}
    BY DEF TestsOf, ProgramOf, PowerTests!Program
  <1> QED BY <1>4, <1>5, <1>6, <1>7, <1>8, <1>9, <1>10, <1>11, <1>12, <1>14, <1>15, <1>16, <1>17

\* The version test schedules tests of the power suite only.
LEMMA PowerSchedule == \A v : ScheduleOf("power", v) \in Seq(TestsOf("power"))
  <1> DEFINE T == TestsOf("power")
  <1>1. \A t \in {"p002", "p003", "p004", "p005", "p006", "p007", "p008", "p009", "p010",
        "p011", "p012",
    "p013", "p014", "p015", "p016", "p005_v3"} : t \in T
    BY DEF TestsOf
  <1> HIDE DEF T
  <1>2. <<"p002", "p003", "p004", "p005", "p006", "p007", "p008", "p009", "p010", "p011", "p012",
    "p013", "p014">> \in Seq(T)
    BY <1>1
  <1>3. <<"p015", "p016">> \in Seq(T) /\ <<"p005_v3">> \in Seq(T) /\ <<>> \in Seq(T)
    BY <1>1
  <1>4. ASSUME NEW v PROVE PowerTests!Schedule(v) \in Seq(T)
    BY <1>2, <1>3, ConcatProperties DEF PowerTests!Schedule
  <1> QED BY <1>4 DEF ScheduleOf, T

\* Good steps only are added for an answer.
LEMMA PowerMore == \A t, s, v : GoodProgram("power", t, MoreOf("power", s, v))
  BY PowerSteps, PowerStatus, ShortPrograms DEF MoreOf, PowerTests!More, PowerTests!InvalidSets,
    PowerTests!StateSet, PowerTests!Notify

-----------------------------------------------------------------------------
(* System power.                                                           *)

\* The steps the system suite is made of are good.
LEMMA SystemSteps ==
  ASSUME NEW t
  PROVE
  /\ \A m, a, e : e # SCMI_GENERIC_ERROR => Good("system", t, SystemTests!System(m, a, e))
  /\ \A m, a, e, n : e # SCMI_GENERIC_ERROR =>
       Good("system", t, [SystemTests!System(m, a, e) EXCEPT !.sent = n])
  /\ \A m, a, w : Good("system", t, SystemTests!SystemValue(m, a, w))
  /\ \A m, a, w, l : l \notin Changes =>
       Good("system", t, [SystemTests!SystemValue(m, a, w) EXCEPT !.learn = l])
  /\ \A m, a, l : l \notin Changes =>
       Good("system", t, SystemTests!AskAndLearn(SystemTests!PROTOCOL_SYSTEM_POWER, m, a, l))
  /\ \A m, a, e : e # SCMI_GENERIC_ERROR =>
       Good("system", t, SystemTests!Ask(SystemTests!PROTOCOL_SYSTEM_POWER, m, a, e))
  /\ \A c : Good("system", t, SystemTests!Probe(SystemTests!PROTOCOL_SYSTEM_POWER, c))
  /\ \A c, e : e # SCMI_GENERIC_ERROR =>
       Good("system", t,
            [SystemTests!Probe(SystemTests!PROTOCOL_SYSTEM_POWER, c) EXCEPT !.expect = e])
  <1> USE Protocols DEF Good, Teaches, Allowed, Mover, BaseMovers, PerformanceMovers, ClockMovers,
          SensorMovers, VoltageMovers, Changes, PROTOCOL_BASE, PROTOCOL_PERFORMANCE,
          PROTOCOL_CLOCK, PROTOCOL_SENSOR, PROTOCOL_VOLTAGE, BASE_SET_DEVICE_PERMISSIONS,
          BASE_SET_PROTOCOL_PERMISSIONS, BASE_RESET_AGENT_CONFIGURATION, SystemTests!System,
          SystemTests!SystemValue, SystemTests!Ask, SystemTests!AskValue, SystemTests!AskAndLearn,
          SystemTests!Probe, SystemTests!AskStatus, SystemTests!SCMI_SUCCESS, SCMI_SUCCESS,
          SCMI_GENERIC_ERROR, SystemTests!SCMI_NOT_FOUND, SystemTests!PROTOCOL_SYSTEM_POWER,
          PROTOCOL_SYSTEM_POWER, SystemTests!PROTOCOL_MESSAGE_ATTRIBUTES
  <1>1. \A m, a, e : e # SCMI_GENERIC_ERROR => Good("system", t, SystemTests!System(m, a, e))
    OBVIOUS
  <1>2. \A m, a, e, n : e # SCMI_GENERIC_ERROR =>
          Good("system", t, [SystemTests!System(m, a, e) EXCEPT !.sent = n])
    OBVIOUS
  <1>3. \A m, a, w : Good("system", t, SystemTests!SystemValue(m, a, w))
    OBVIOUS
  <1>4. \A m, a, w, l : l \notin Changes =>
          Good("system", t, [SystemTests!SystemValue(m, a, w) EXCEPT !.learn = l])
    OBVIOUS
  <1>5. \A m, a, l : l \notin Changes =>
          Good("system", t, SystemTests!AskAndLearn(SystemTests!PROTOCOL_SYSTEM_POWER, m, a, l))
    OBVIOUS
  <1>6. \A m, a, e : e # SCMI_GENERIC_ERROR =>
          Good("system", t, SystemTests!Ask(SystemTests!PROTOCOL_SYSTEM_POWER, m, a, e))
    OBVIOUS
  <1>7. \A c : Good("system", t, SystemTests!Probe(SystemTests!PROTOCOL_SYSTEM_POWER, c))
    OBVIOUS
  <1>8. \A c, e : e # SCMI_GENERIC_ERROR =>
          Good("system", t,
               [SystemTests!Probe(SystemTests!PROTOCOL_SYSTEM_POWER, c) EXCEPT !.expect = e])
    OBVIOUS
  <1> HIDE DEF Good, SystemTests!System, SystemTests!SystemValue, SystemTests!Ask,
               SystemTests!AskAndLearn, SystemTests!Probe
  <1> QED BY <1>1, <1>2, <1>3, <1>4, <1>5, <1>6, <1>7, <1>8

\* No status the system suite expects is that of an exchange that went wrong.
LEMMA SystemStatus ==
  /\ SystemTests!SCMI_NOT_FOUND # SCMI_GENERIC_ERROR
  /\ SystemTests!SCMI_INVALID_PARAMETERS # SCMI_GENERIC_ERROR
  /\ SystemTests!SCMI_NOT_SUPPORTED # SCMI_GENERIC_ERROR
  BY DEF SystemTests!SCMI_NOT_FOUND, SystemTests!SCMI_INVALID_PARAMETERS,
         SystemTests!SCMI_NOT_SUPPORTED, SCMI_GENERIC_ERROR

\* Every test of the system suite starts with good steps.
LEMMA SystemPrograms ==
  ASSUME NEW t \in TestsOf("system")
  PROVE  GoodProgram("system", t, ProgramOf("system", t))
  <1> USE SystemSteps, SystemStatus, ShortPrograms DEF Changes
  <1>1. GoodProgram("system", t, SystemTests!TestS001)
    BY DEF SystemTests!TestS001, SystemTests!VersionTest
  <1>2. GoodProgram("system", t, SystemTests!TestS002)
    BY DEF SystemTests!TestS002
  <1>3. GoodProgram("system", t, SystemTests!TestS003)
    BY DEF SystemTests!TestS003
  <1>4. GoodProgram("system", t, SystemTests!TestS004)
    BY DEF SystemTests!TestS004, SystemTests!UnknownCommandTest
  <1>5. GoodProgram("system", t, SystemTests!TestS005)
    BY DEF SystemTests!TestS005
  <1>6. GoodProgram("system", t, SystemTests!TestS006)
    BY DEF SystemTests!TestS006
  <1>7. GoodProgram("system", t, SystemTests!TestS007)
    BY DEF SystemTests!TestS007
  <1>8. ProgramOf("system", t) \in
          {SystemTests!TestS001, SystemTests!TestS002, SystemTests!TestS003, SystemTests!TestS004,
           SystemTests!TestS005, SystemTests!TestS006, SystemTests!TestS007}
    BY DEF TestsOf, ProgramOf, SystemTests!Program
  <1> QED BY <1>1, <1>2, <1>3, <1>4, <1>5, <1>6, <1>7, <1>8

\* The version test schedules tests of the system suite only.
LEMMA SystemSchedule == \A v : ScheduleOf("system", v) \in Seq(TestsOf("system"))
  <1> DEFINE T == TestsOf("system")
  <1>1. {"s002", "s003", "s004", "s005", "s006", "s007"} \subseteq T
    BY DEF TestsOf
  <1> HIDE DEF T
  <1>2. <<"s002", "s003", "s004", "s005", "s006", "s007">> \in Seq(T)
    BY <1>1
  <1> QED BY <1>2 DEF ScheduleOf, SystemTests!Schedule, T

\* Good steps only are added for an answer.
LEMMA SystemMore == \A t, s, v : GoodProgram("system", t, MoreOf("system", s, v))
  BY ShortPrograms DEF MoreOf, SystemTests!More

-----------------------------------------------------------------------------
(* Performance.                                                            *)

\* The steps the performance suite is made of are good.
LEMMA PerformanceSteps ==
  ASSUME NEW t
  PROVE
  /\ \A m, a, e : e # SCMI_GENERIC_ERROR
                  /\ (e # SCMI_SUCCESS \/ m \notin PerformanceMovers \/ t \in Moving) =>
       /\ Good("performance", t, PerformanceTests!Perf(m, a, e))
       /\ Good("performance", t,
                PerformanceTests!Ask(PerformanceTests!PROTOCOL_PERFORMANCE, m, a, e))
  /\ \A m, a, w : m \notin PerformanceMovers =>
       /\ Good("performance", t, PerformanceTests!PerfValue(m, a, w))
       /\ Good("performance", t,
               [PerformanceTests!PerfValue(m, a, w) EXCEPT !.learn = "attributes"])
       /\ Good("performance", t, PerformanceTests!PerfLearn(m, a, "fast"))
       /\ Good("performance", t,
               PerformanceTests!AskAndLearn(PerformanceTests!PROTOCOL_PERFORMANCE, m, a, "version"))
  /\ \A a, w, l :
       l \in {"domain", "domain_v1"} =>
         Good("performance", t,
              [PerformanceTests!PerfValue(PerformanceTests!PERFORMANCE_DOMAIN_ATTRIBUTES, a, w)
                 EXCEPT !.learn = l])
  /\ \A a, l :
       t \in Moving =>
         /\ l \in {"limits", "limits_before"} =>
              Good("performance", t,
                   PerformanceTests!PerfLearn(PerformanceTests!PERFORMANCE_LIMITS_GET, a, l))
         /\ l \in {"level", "level_before"} =>
              Good("performance", t,
                   PerformanceTests!PerfLearn(PerformanceTests!PERFORMANCE_LEVEL_GET, a, l))
         /\ l \in {"limits_notified", "level_notified"} =>
              Good("performance", t,
                PerformanceTests!PerfLearn(PerformanceTests!PERFORMANCE_DOMAIN_ATTRIBUTES, a, l))
  /\ \A d : Good("performance", t, PerformanceTests!LevelsFrom(d, <<>>))
  /\ \A c : Good("performance", t, PerformanceTests!Probe(PerformanceTests!PROTOCOL_PERFORMANCE, c))
  /\ \A m, w : Good("performance", t,
               PerformanceTests!Receive(PerformanceTests!PROTOCOL_PERFORMANCE, m, w))
  /\ Good("performance", t, PerformanceTests!Skip) /\ Good("performance", t, PerformanceTests!Fail)
  <1> USE Protocols DEF Good, Teaches, Allowed, Mover, BaseMovers, PerformanceMovers, ClockMovers,
          SensorMovers, VoltageMovers, Changes, PROTOCOL_BASE, PROTOCOL_PERFORMANCE, PROTOCOL_CLOCK,
          PROTOCOL_SENSOR, PROTOCOL_VOLTAGE, BASE_SET_DEVICE_PERMISSIONS,
          BASE_SET_PROTOCOL_PERMISSIONS, BASE_RESET_AGENT_CONFIGURATION,
          PerformanceTests!Perf, PerformanceTests!PerfValue, PerformanceTests!PerfLearn,
          PerformanceTests!LevelsFrom, PerformanceTests!Ask, PerformanceTests!AskValue,
          PerformanceTests!AskAndLearn, PerformanceTests!Probe, PerformanceTests!Receive,
          PerformanceTests!AskStatus, PerformanceTests!Skip, PerformanceTests!Fail,
          PerformanceTests!SCMI_SUCCESS, SCMI_SUCCESS, SCMI_GENERIC_ERROR,
          PerformanceTests!SCMI_NOT_FOUND, PerformanceTests!PROTOCOL_PERFORMANCE,
          PerformanceTests!PROTOCOL_BASE, PerformanceTests!PERFORMANCE_DOMAIN_ATTRIBUTES,
          PERFORMANCE_DOMAIN_ATTRIBUTES, PerformanceTests!PERFORMANCE_DESCRIBE_LEVELS,
          PERFORMANCE_DESCRIBE_LEVELS, PerformanceTests!PROTOCOL_MESSAGE_ATTRIBUTES,
          PerformanceTests!PROTOCOL_VERSION, PERFORMANCE_LIMITS_SET, PERFORMANCE_LIMITS_GET,
          PERFORMANCE_LEVEL_SET, PERFORMANCE_LEVEL_GET, PERFORMANCE_NOTIFY_LIMITS,
          PERFORMANCE_NOTIFY_LEVEL, PerformanceTests!PERFORMANCE_LIMITS_GET,
          PerformanceTests!PERFORMANCE_LEVEL_GET
  <1>1. \A m, a, e : e # SCMI_GENERIC_ERROR
                     /\ (e # SCMI_SUCCESS \/ m \notin PerformanceMovers \/ t \in Moving) =>
          /\ Good("performance", t, PerformanceTests!Perf(m, a, e))
          /\ Good("performance", t,
                   PerformanceTests!Ask(PerformanceTests!PROTOCOL_PERFORMANCE, m, a, e))
    OBVIOUS
  <1>2. \A m, a, w : m \notin PerformanceMovers =>
          /\ Good("performance", t, PerformanceTests!PerfValue(m, a, w))
          /\ Good("performance", t,
                  [PerformanceTests!PerfValue(m, a, w) EXCEPT !.learn = "attributes"])
          /\ Good("performance", t, PerformanceTests!PerfLearn(m, a, "fast"))
          /\ Good("performance", t,
               PerformanceTests!AskAndLearn(PerformanceTests!PROTOCOL_PERFORMANCE, m, a, "version"))
    OBVIOUS
  <1>3. \A a, w, l :
          l \in {"domain", "domain_v1"} =>
            Good("performance", t,
                 [PerformanceTests!PerfValue(PerformanceTests!PERFORMANCE_DOMAIN_ATTRIBUTES, a, w)
                    EXCEPT !.learn = l])
    OBVIOUS
  <1>4. \A a, l :
          t \in Moving =>
            /\ l \in {"limits", "limits_before"} =>
                 Good("performance", t,
                      PerformanceTests!PerfLearn(PerformanceTests!PERFORMANCE_LIMITS_GET, a, l))
            /\ l \in {"level", "level_before"} =>
                 Good("performance", t,
                      PerformanceTests!PerfLearn(PerformanceTests!PERFORMANCE_LEVEL_GET, a, l))
            /\ l \in {"limits_notified", "level_notified"} =>
                 Good("performance", t,
                   PerformanceTests!PerfLearn(PerformanceTests!PERFORMANCE_DOMAIN_ATTRIBUTES, a, l))
    OBVIOUS
  <1>5. \A d : Good("performance", t, PerformanceTests!LevelsFrom(d, <<>>))
    OBVIOUS
  <1>6. \A c : Good("performance", t,
                  PerformanceTests!Probe(PerformanceTests!PROTOCOL_PERFORMANCE, c))
    OBVIOUS
  <1>7. \A m, w : Good("performance", t,
                  PerformanceTests!Receive(PerformanceTests!PROTOCOL_PERFORMANCE, m, w))
    OBVIOUS
  <1>8. /\ Good("performance", t, PerformanceTests!Skip)
        /\ Good("performance", t, PerformanceTests!Fail)
    OBVIOUS
  <1> HIDE DEF Good, PerformanceTests!Perf, PerformanceTests!PerfValue, PerformanceTests!PerfLearn,
               PerformanceTests!LevelsFrom, PerformanceTests!Ask, PerformanceTests!AskAndLearn,
               PerformanceTests!Probe, PerformanceTests!Receive, PerformanceTests!Skip,
               PerformanceTests!Fail
  <1> QED BY <1>1, <1>2, <1>3, <1>4, <1>5, <1>6, <1>7, <1>8

\* No status the performance suite expects is that of an exchange that went wrong.
LEMMA PerformanceStatus ==
  LET errors == {PerformanceTests!SCMI_NOT_FOUND, PerformanceTests!SCMI_INVALID_PARAMETERS,
                 PerformanceTests!SCMI_NOT_SUPPORTED, PerformanceTests!SCMI_OUT_OF_RANGE,
                 PerformanceTests!SCMI_DENIED}
  IN /\ SCMI_SUCCESS \notin errors /\ SCMI_GENERIC_ERROR \notin errors
     /\ PerformanceTests!SCMI_SUCCESS # SCMI_GENERIC_ERROR
  BY DEF PerformanceTests!SCMI_SUCCESS, PerformanceTests!SCMI_NOT_FOUND,
         PerformanceTests!SCMI_INVALID_PARAMETERS, PerformanceTests!SCMI_NOT_SUPPORTED,
         PerformanceTests!SCMI_OUT_OF_RANGE, PerformanceTests!SCMI_DENIED, SCMI_GENERIC_ERROR,
         SCMI_SUCCESS

\* The other commands of the performance suite change no setting.
LEMMA PerformanceCommands ==
  PerformanceMovers \cap
    {PerformanceTests!PROTOCOL_VERSION, PerformanceTests!PROTOCOL_ATTRIBUTES,
     PerformanceTests!PROTOCOL_MESSAGE_ATTRIBUTES,
     PerformanceTests!PERFORMANCE_DOMAIN_ATTRIBUTES,
     PerformanceTests!PERFORMANCE_DESCRIBE_LEVELS, PerformanceTests!PERFORMANCE_LIMITS_GET,
     PerformanceTests!PERFORMANCE_LEVEL_GET, PerformanceTests!PERFORMANCE_DESCRIBE_FASTCHANNEL,
     PerformanceTests!PERFORMANCE_INVALID_COMMAND} = {}
  BY DEF PerformanceMovers, PERFORMANCE_LIMITS_SET, PERFORMANCE_LEVEL_SET,
     PERFORMANCE_NOTIFY_LIMITS, PERFORMANCE_NOTIFY_LEVEL, PerformanceTests!PROTOCOL_VERSION,
     PerformanceTests!PROTOCOL_ATTRIBUTES, PerformanceTests!PROTOCOL_MESSAGE_ATTRIBUTES,
     PerformanceTests!PERFORMANCE_DOMAIN_ATTRIBUTES, PerformanceTests!PERFORMANCE_DESCRIBE_LEVELS,
     PerformanceTests!PERFORMANCE_LIMITS_GET, PerformanceTests!PERFORMANCE_LEVEL_GET,
     PerformanceTests!PERFORMANCE_DESCRIBE_FASTCHANNEL,
     PerformanceTests!PERFORMANCE_INVALID_COMMAND

\* Every test of the performance suite starts with good steps.
LEMMA PerformancePrograms ==
  ASSUME table.performance.domains \in Nat, NEW t \in TestsOf("performance")
  PROVE  GoodProgram("performance", t, ProgramOf("performance", t))
  <1> DEFINE n == table.performance.domains
             P(q) == GoodProgram("performance", t, q)
             Flat(ss) == PerformanceTests!Lists!FlattenSeq(ss)
  <1> USE PerformanceSteps, PerformanceStatus, PerformanceCommands, ShortPrograms
  <1>1. ASSUME NEW q, P(q) PROVE P(PerformanceTests!IfDomains(q))
    BY <1>1 DEF PerformanceTests!IfDomains, PerformanceTests!IfSome
  <1>2. ASSUME NEW q, P(q) PROVE P(PerformanceTests!WhenAny(q))
    BY <1>2 DEF PerformanceTests!WhenAny
  <1>3. ASSUME NEW m \in Nat, NEW ss, ss = [i \in 1..m |-> ss[i]], \A i \in 1..m : P(ss[i])
        PROVE  P(Flat(ss))
    <2>1. PerformanceTests!Lists!FlattenSeq(ss) = Lists!FlattenSeq(ss)
      BY DEF PerformanceTests!Lists!FlattenSeq, Lists!FlattenSeq
    <2> QED BY <1>3, <2>1, Flattened
  <1>4. P(PerformanceTests!TestD001)
    BY DEF PerformanceTests!TestD001, PerformanceTests!VersionTest
  <1>5. P(PerformanceTests!TestD002)
    BY DEF PerformanceTests!TestD002
  <1>6. P(PerformanceTests!TestD003)
    <2>1. \A c : Good("performance", t, PerformanceTests!HasNone(c))
      BY DEF PerformanceTests!HasNone
    <2>2. \A c : Good("performance", t, PerformanceTests!LearnHas(c))
      BY DEF PerformanceTests!LearnHas
    <2> QED BY <2>1, <2>2, LongPrograms DEF PerformanceTests!TestD003
  <1>7. P(PerformanceTests!TestD003_v1)
    <2> DEFINE U == {s \in {PerformanceTests!TestD003_v1[i] : i \in 1..6} :
                       Good("performance", t, s)}
    <2>1. \A c : Good("performance", t, PerformanceTests!HasNone(c))
      BY DEF PerformanceTests!HasNone
    <2>2. \A i \in 1..6 : Good("performance", t, PerformanceTests!TestD003_v1[i])
      BY <2>1 DEF PerformanceTests!TestD003_v1
    <2>3. PerformanceTests!TestD003_v1 \in Seq(U)
      BY <2>2 DEF PerformanceTests!TestD003_v1
    <2> QED BY <2>3, ProgramIsSequence
  <1>8. P(PerformanceTests!TestD004)
    BY DEF PerformanceTests!TestD004, PerformanceTests!UnknownCommandTest
  <1>9. \A d, w, l : l \in {"domain", "domain_v1"} => P(PerformanceTests!DomainIs(d, w, l))
    BY DEF PerformanceTests!DomainIs
  <1>10. P(PerformanceTests!TestD005)
    <2> DEFINE ss == [i \in 1..n |-> PerformanceTests!DomainIs(i - 1, [name |-> i - 1], "domain")]
    <2>1. \A i \in 1..n : P(ss[i])
      BY <1>9
    <2>2. P(Flat(ss))
      BY <1>3, <2>1
    <2> QED BY <1>1, <2>2 DEF PerformanceTests!TestD005, PerformanceTests!ForEach
  <1>11. P(PerformanceTests!TestD005_v1)
    <2> DEFINE ss == [i \in 1..n |-> PerformanceTests!DomainIs(i - 1, [fast |-> FALSE,
          name |-> i - 1],
                                                              "domain_v1")]
    <2>1. \A i \in 1..n : P(ss[i])
      BY <1>9
    <2>2. P(Flat(ss))
      BY <1>3, <2>1
    <2> QED BY <1>1, <2>2 DEF PerformanceTests!TestD005_v1, PerformanceTests!ForEach
  <1>12. /\ P(PerformanceTests!TestD006) /\ P(PerformanceTests!TestD008)
         /\ P(PerformanceTests!TestD012) /\ P(PerformanceTests!TestD016)
    BY DEF PerformanceTests!TestD006, PerformanceTests!TestD008, PerformanceTests!TestD012,
           PerformanceTests!TestD016
  <1>13. P(PerformanceTests!TestD007)
    <2> DEFINE ss == [i \in 1..n |-> <<PerformanceTests!LevelsFrom(i - 1, <<>>)>>]
    <2>1. \A i \in 1..n : P(ss[i])
      OBVIOUS
    <2>2. P(Flat(ss))
      BY <1>3, <2>1
    <2> QED BY <1>1, <2>2 DEF PerformanceTests!TestD007, PerformanceTests!ForEach
  <1>14. ASSUME t = "d009" PROVE P(PerformanceTests!TestD009)
    <2> DEFINE ss == [i \in 1..n |->
                        IF PerformanceTests!Limitable(i - 1)
                        THEN <<PerformanceTests!PerfLearn(
                              PerformanceTests!PERFORMANCE_LIMITS_GET, <<i - 1>>, "limits")>>
                        ELSE <<>>]
    <2>1. \A i \in 1..n : P(ss[i])
      BY <1>14 DEF Moving, Restoring
    <2>2. P(Flat(ss))
      BY <1>3, <2>1
    <2>3. P(PerformanceTests!IfDomains(PerformanceTests!WhenAny(Flat(ss))))
      BY <1>1, <1>2, <2>2
    <2> QED BY <2>3 DEF PerformanceTests!TestD009, PerformanceTests!ForDomains,
          PerformanceTests!ForCapable, PerformanceTests!ForEach
  <1>15. \A m : P(<<PerformanceTests!Probe(PerformanceTests!PROTOCOL_PERFORMANCE, m)>>)
    OBVIOUS
  <1>16. \A d, x, y, e : e \notin {SCMI_GENERIC_ERROR, SCMI_SUCCESS} =>
           Good("performance", t, PerformanceTests!LimitsSet(d, x, y, e))
    BY DEF PerformanceTests!LimitsSet
  <1>17. \A d, x, e : e \notin {SCMI_GENERIC_ERROR, SCMI_SUCCESS} =>
           Good("performance", t, PerformanceTests!LevelSet(d, x, e))
    BY DEF PerformanceTests!LevelSet
  <1>18. P(PerformanceTests!TestD010)
    <2> DEFINE row(d) == PerformanceTests!Domain(d)
               ss == [i \in 1..n |->
                        IF PerformanceTests!Limitable(i - 1)
                        THEN <<PerformanceTests!LimitsSet(i - 1, row(i - 1).max + 1, row(i - 1).min,
                                 PerformanceTests!SCMI_OUT_OF_RANGE),
                               PerformanceTests!LimitsSet(i - 1, row(i - 1).max,
                                 PerformanceTests!Below(row(i - 1).min),
                                       PerformanceTests!SCMI_OUT_OF_RANGE),
                               PerformanceTests!LimitsSet(i - 1, row(i - 1).min, row(i - 1).max,
                                 PerformanceTests!SCMI_INVALID_PARAMETERS)>>
                        ELSE <<>>]
    <2>1. \A i \in 1..n : P(ss[i])
      BY <1>16
    <2>2. P(Flat(ss))
      BY <1>3, <2>1
    <2>3. P(PerformanceTests!IfDomains(PerformanceTests!WhenAny(Flat(ss))))
      BY <1>1, <1>2, <2>2
    <2> QED BY <2>3 DEF PerformanceTests!TestD010, PerformanceTests!ForDomains,
          PerformanceTests!ForCapable, PerformanceTests!ForEach
  <1>19. P(PerformanceTests!TestD011)
    <2> DEFINE Try(d, e) == <<PerformanceTests!LimitsSet(d, PerformanceTests!Domain(d).max,
          PerformanceTests!Domain(d).min, e)>>
               ss == [i \in 1..n |->
                        IF PerformanceTests!Unlimitable(i - 1) THEN Try(i - 1,
                              PerformanceTests!SCMI_DENIED)
                        ELSE <<>>]
    <2>1. \A d, e : e \notin {SCMI_GENERIC_ERROR, SCMI_SUCCESS} => P(Try(d, e))
      BY <1>16
    <2>2. \A i \in 1..n : P(ss[i])
      <3> HIDE DEF Try
      <3> QED BY <2>1
    <2>3. P(Flat(ss) \o Try(PerformanceTests!InvalidDomain, PerformanceTests!SCMI_NOT_FOUND))
      <3>1. P(Flat(ss))
        BY <1>3, <2>2
      <3> HIDE DEF Try, ss
      <3> QED BY <2>1, <3>1, ProgramsAppend
    <2>4. P(PerformanceTests!IfDomains(Flat(ss) \o Try(PerformanceTests!InvalidDomain,
          PerformanceTests!SCMI_NOT_FOUND)))
      BY <1>1, <2>3
    <2> QED BY <2>4 DEF PerformanceTests!TestD011, PerformanceTests!ForDomains,
          PerformanceTests!ForCapable, PerformanceTests!ForEach
  <1>20. ASSUME t = "d013" PROVE P(PerformanceTests!TestD013)
    <2> DEFINE ss == [i \in 1..n |->
                        IF PerformanceTests!Levelable(i - 1)
                        THEN <<PerformanceTests!PerfLearn(
                              PerformanceTests!PERFORMANCE_LEVEL_GET, <<i - 1>>, "level")>>
                        ELSE <<>>]
    <2>1. \A i \in 1..n : P(ss[i])
      BY <1>20 DEF Moving, Restoring
    <2>2. P(Flat(ss))
      BY <1>3, <2>1
    <2>3. P(PerformanceTests!IfDomains(PerformanceTests!WhenAny(Flat(ss))))
      BY <1>1, <1>2, <2>2
    <2> QED BY <2>3 DEF PerformanceTests!TestD013, PerformanceTests!ForDomains,
          PerformanceTests!ForCapable, PerformanceTests!ForEach
  <1>21. P(PerformanceTests!TestD014)
    <2> DEFINE ss == [i \in 1..n |->
                        IF PerformanceTests!Levelable(i - 1)
                        THEN <<PerformanceTests!LevelSet(i - 1,
                              PerformanceTests!Domain(i - 1).max + 1,
                                 PerformanceTests!SCMI_OUT_OF_RANGE),
                               PerformanceTests!LevelSet(i - 1,
                                     PerformanceTests!Below(PerformanceTests!Domain(i - 1).min),
                                 PerformanceTests!SCMI_OUT_OF_RANGE)>>
                        ELSE <<>>]
    <2>1. \A i \in 1..n : P(ss[i])
      BY <1>17
    <2>2. P(Flat(ss))
      BY <1>3, <2>1
    <2>3. P(PerformanceTests!IfDomains(PerformanceTests!WhenAny(Flat(ss))))
      BY <1>1, <1>2, <2>2
    <2> QED BY <2>3 DEF PerformanceTests!TestD014, PerformanceTests!ForDomains,
          PerformanceTests!ForCapable, PerformanceTests!ForEach
  <1>22. P(PerformanceTests!TestD015)
    <2> DEFINE Try(d, e) == <<PerformanceTests!LevelSet(d, PerformanceTests!Domain(d).max, e)>>
               ss == [i \in 1..n |->
                        IF PerformanceTests!Unlevelable(i - 1) THEN Try(i - 1,
                              PerformanceTests!SCMI_DENIED)
                        ELSE <<>>]
    <2>1. \A d, e : e \notin {SCMI_GENERIC_ERROR, SCMI_SUCCESS} => P(Try(d, e))
      BY <1>17
    <2>2. \A i \in 1..n : P(ss[i])
      <3> HIDE DEF Try
      <3> QED BY <2>1
    <2>3. P(Flat(ss) \o Try(PerformanceTests!InvalidDomain, PerformanceTests!SCMI_NOT_FOUND))
      <3>1. P(Flat(ss))
        BY <1>3, <2>2
      <3> HIDE DEF Try, ss
      <3> QED BY <2>1, <3>1, ProgramsAppend
    <2>4. P(PerformanceTests!IfDomains(Flat(ss) \o Try(PerformanceTests!InvalidDomain,
          PerformanceTests!SCMI_NOT_FOUND)))
      BY <1>1, <2>3
    <2> QED BY <2>4 DEF PerformanceTests!TestD015, PerformanceTests!ForDomains,
          PerformanceTests!ForCapable, PerformanceTests!ForEach
  <1>23. P(PerformanceTests!TestD017)
    <2> DEFINE ss == [i \in 1..n |->
                        IF PerformanceTests!LimitNotify(i - 1)
                        THEN <<PerformanceTests!Perf(PerformanceTests!PERFORMANCE_NOTIFY_LIMITS,
                              <<i - 1, PerformanceTests!INVALID_NOTIFY_EN_VAL>>,
                                 PerformanceTests!SCMI_INVALID_PARAMETERS)>>
                        ELSE <<>>]
    <2>1. \A i \in 1..n : P(ss[i])
      OBVIOUS
    <2>2. P(Flat(ss))
      BY <1>3, <2>1
    <2>3. P(PerformanceTests!IfDomains(PerformanceTests!WhenAny(Flat(ss))))
      BY <1>1, <1>2, <2>2
    <2> QED BY <1>15, <2>3, ProgramsAppend DEF PerformanceTests!TestD017,
          PerformanceTests!NotifyInvalid, PerformanceTests!ForDomains,
          PerformanceTests!ForCapable, PerformanceTests!ForEach
  <1>24. P(PerformanceTests!TestD019)
    <2> DEFINE ss == [i \in 1..n |->
                        IF PerformanceTests!LevelNotify(i - 1)
                        THEN <<PerformanceTests!Perf(PerformanceTests!PERFORMANCE_NOTIFY_LEVEL,
                              <<i - 1, PerformanceTests!INVALID_NOTIFY_EN_VAL>>,
                                 PerformanceTests!SCMI_INVALID_PARAMETERS)>>
                        ELSE <<>>]
    <2>1. \A i \in 1..n : P(ss[i])
      OBVIOUS
    <2>2. P(Flat(ss))
      BY <1>3, <2>1
    <2>3. P(PerformanceTests!IfDomains(PerformanceTests!WhenAny(Flat(ss))))
      BY <1>1, <1>2, <2>2
    <2> QED BY <1>15, <2>3, ProgramsAppend DEF PerformanceTests!TestD019,
          PerformanceTests!NotifyInvalid, PerformanceTests!ForDomains,
          PerformanceTests!ForCapable, PerformanceTests!ForEach
  <1>25. P(PerformanceTests!TestD018)
    <2> DEFINE ss == [i \in 1..n |->
                        IF PerformanceTests!LimitSilent(i - 1)
                        THEN <<PerformanceTests!Perf(PerformanceTests!PERFORMANCE_NOTIFY_LIMITS,
                              <<i - 1, PerformanceTests!NOTIFY_ENABLE>>,
                                 PerformanceTests!SCMI_NOT_SUPPORTED)>>
                        ELSE <<>>]
    <2>1. \A i \in 1..n : P(ss[i])
      OBVIOUS
    <2>2. P(Flat(ss))
      BY <1>3, <2>1
    <2>3. P(PerformanceTests!IfDomains(Flat(ss)
          \o <<PerformanceTests!Perf(PerformanceTests!PERFORMANCE_NOTIFY_LIMITS,
          <<PerformanceTests!InvalidDomain, PerformanceTests!NOTIFY_ENABLE>>,
                                    PerformanceTests!SCMI_NOT_FOUND)>>))
      <3>1. P(<<PerformanceTests!Perf(PerformanceTests!PERFORMANCE_NOTIFY_LIMITS,
            <<PerformanceTests!InvalidDomain, PerformanceTests!NOTIFY_ENABLE>>,
                                    PerformanceTests!SCMI_NOT_FOUND)>>)
        OBVIOUS
      <3> QED BY <1>1, <2>2, <3>1, ProgramsAppend
    <2> QED BY <1>15, <2>3, ProgramsAppend DEF PerformanceTests!TestD018,
          PerformanceTests!NotifyUnsupported, PerformanceTests!ForDomains,
          PerformanceTests!ForCapable, PerformanceTests!ForEach
  <1>26. P(PerformanceTests!TestD020)
    <2> DEFINE ss == [i \in 1..n |->
                        IF PerformanceTests!LevelSilent(i - 1)
                        THEN <<PerformanceTests!Perf(PerformanceTests!PERFORMANCE_NOTIFY_LEVEL,
                              <<i - 1, PerformanceTests!NOTIFY_ENABLE>>,
                                 PerformanceTests!SCMI_NOT_SUPPORTED)>>
                        ELSE <<>>]
    <2>1. \A i \in 1..n : P(ss[i])
      OBVIOUS
    <2>2. P(Flat(ss))
      BY <1>3, <2>1
    <2>3. P(PerformanceTests!IfDomains(Flat(ss)
          \o <<PerformanceTests!Perf(PerformanceTests!PERFORMANCE_NOTIFY_LEVEL,
          <<PerformanceTests!InvalidDomain, PerformanceTests!NOTIFY_ENABLE>>,
                                    PerformanceTests!SCMI_NOT_FOUND)>>))
      <3>1. P(<<PerformanceTests!Perf(PerformanceTests!PERFORMANCE_NOTIFY_LEVEL,
            <<PerformanceTests!InvalidDomain, PerformanceTests!NOTIFY_ENABLE>>,
                                    PerformanceTests!SCMI_NOT_FOUND)>>)
        OBVIOUS
      <3> QED BY <1>1, <2>2, <3>1, ProgramsAppend
    <2> QED BY <1>15, <2>3, ProgramsAppend DEF PerformanceTests!TestD020,
          PerformanceTests!NotifyUnsupported, PerformanceTests!ForDomains,
          PerformanceTests!ForCapable, PerformanceTests!ForEach
  <1>27. /\ t = "d026" => P(PerformanceTests!TestD026)
         /\ t = "d027" => P(PerformanceTests!TestD027)
    BY DEF PerformanceTests!TestD026, PerformanceTests!TestD027, PerformanceTests!FindFrom,
       Moving, Restoring
  <1>28. P(PerformanceTests!ProbeFast)
    BY DEF PerformanceTests!ProbeFast
  <1>29. \A d, m, e : e # SCMI_GENERIC_ERROR => Good("performance", t, PerformanceTests!Describe(d,
        m, e))
    BY DEF PerformanceTests!Describe
  <1>30. ASSUME NEW d, NEW e, e # SCMI_GENERIC_ERROR PROVE P(PerformanceTests!ForFastMessages(d, e))
    <2> DEFINE ss == [i \in 1..4 |->
                        IF PerformanceTests!HasFastChannel(
                              PerformanceTests!PERFORMANCE_LIMITS_SET + (i - 1))
                        THEN <<PerformanceTests!Describe(d,
                              PerformanceTests!PERFORMANCE_LIMITS_SET + (i - 1), e)>>
                        ELSE <<>>]
    <2>1. \A i \in 1..4 : P(ss[i])
      BY <1>29, <1>30
    <2>2. P(Flat(ss))
      BY <1>3, <2>1
    <2> QED BY <2>2 DEF PerformanceTests!ForFastMessages, PerformanceTests!ForEach
  <1>31. ASSUME NEW ss, ss = [i \in 1..n |-> ss[i]], \A i \in 1..n : P(ss[i])
         PROVE  P(PerformanceTests!ProbeFast
               \o PerformanceTests!IfDomains(PerformanceTests!WhenAny(Flat(ss))))
    <2>1. P(PerformanceTests!IfDomains(PerformanceTests!WhenAny(Flat(ss))))
      BY <1>1, <1>2, <1>3, <1>31
    <2> QED BY <1>28, <2>1, ProgramsAppend
  <1>32. P(PerformanceTests!TestD021)
    <2> DEFINE ss == [i \in 1..n |->
                        IF PerformanceTests!Fast(i - 1)
                        THEN PerformanceTests!ForFastMessages(i - 1, PerformanceTests!SCMI_SUCCESS)
                        ELSE <<>>]
    <2>1. \A i \in 1..n : P(ss[i])
      BY <1>30
    <2>2. P(PerformanceTests!ProbeFast
          \o PerformanceTests!IfDomains(PerformanceTests!WhenAny(Flat(ss))))
      BY <1>31, <2>1
    <2> QED BY <2>2 DEF PerformanceTests!TestD021, PerformanceTests!ForDomains,
          PerformanceTests!ForCapable, PerformanceTests!ForEach
  <1>33. P(PerformanceTests!TestD022)
    BY <1>28, <1>29, ProgramsAppend DEF PerformanceTests!TestD022
  <1>34. P(PerformanceTests!TestD023)
    <2> DEFINE ss == [i \in 1..n |->
                        IF PerformanceTests!Fast(i - 1)
                        THEN <<PerformanceTests!Describe(i - 1,
                              PerformanceTests!PERFORMANCE_INVALID_COMMAND,
                                 PerformanceTests!SCMI_NOT_FOUND)>>
                        ELSE <<>>]
    <2>1. \A i \in 1..n : P(ss[i])
      BY <1>29
    <2>2. P(PerformanceTests!ProbeFast
          \o PerformanceTests!IfDomains(PerformanceTests!WhenAny(Flat(ss))))
      BY <1>31, <2>1
    <2> QED BY <2>2 DEF PerformanceTests!TestD023, PerformanceTests!ForDomains,
          PerformanceTests!ForCapable, PerformanceTests!ForEach
  <1>35. P(PerformanceTests!TestD024)
    <2> DEFINE ss == [i \in 1..n |->
                        IF PerformanceTests!Slow(i - 1)
                        THEN PerformanceTests!ForFastMessages(i - 1,
                              PerformanceTests!SCMI_NOT_SUPPORTED)
                        ELSE <<>>]
    <2>1. \A i \in 1..n : P(ss[i])
      BY <1>30
    <2>2. P(PerformanceTests!ProbeFast
          \o PerformanceTests!IfDomains(PerformanceTests!WhenAny(Flat(ss))))
      BY <1>31, <2>1
    <2> QED BY <2>2 DEF PerformanceTests!TestD024, PerformanceTests!ForDomains,
          PerformanceTests!ForCapable, PerformanceTests!ForEach
  <1>36. P(PerformanceTests!TestD025)
    <2> DEFINE U(d) == [i \in 1..PerformanceTests!PERFORMANCE_LIMITS_SET |->
                          PerformanceTests!Describe(d, i - 1, PerformanceTests!SCMI_NOT_SUPPORTED)]
               ss == [i \in 1..n |-> IF PerformanceTests!Fast(i - 1) THEN U(i - 1) ELSE <<>>]
    <2>1. ASSUME NEW d PROVE P(U(d))
      <3> DEFINE V == {s \in {U(d)[i] : i \in 1..5} : Good("performance", t, s)}
      <3>1. PerformanceTests!PERFORMANCE_LIMITS_SET = 5
        BY DEF PerformanceTests!PERFORMANCE_LIMITS_SET
      <3>2. \A i \in 1..5 : Good("performance", t, U(d)[i])
        BY <1>29, <3>1
      <3>3. U(d) \in Seq(V)
        BY <3>1, <3>2
      <3> HIDE DEF U
      <3> QED BY <3>3, ProgramIsSequence
    <2>2. \A i \in 1..n : P(ss[i])
      <3> HIDE DEF U
      <3> QED BY <2>1
    <2>3. P(PerformanceTests!ProbeFast
          \o PerformanceTests!IfDomains(PerformanceTests!WhenAny(Flat(ss))))
      BY <1>31, <2>2
    <2> QED BY <2>3 DEF PerformanceTests!TestD025, PerformanceTests!ForDomains,
          PerformanceTests!ForCapable, PerformanceTests!ForEach
  <1>37. ASSUME NEW m, m \notin PerformanceMovers PROVE P(PerformanceTests!ReadThrough(m))
    <2> DEFINE ss == [i \in 1..n |->
                        IF PerformanceTests!Fast(i - 1)
                        THEN IF PerformanceTests!HasFastChannel(m)
                             THEN <<PerformanceTests!PerfValue(
                                   PerformanceTests!PERFORMANCE_DESCRIBE_FASTCHANNEL,
                                                 <<i - 1, m>>, [doorbell |-> FALSE]),
                                    PerformanceTests!Perf(m, <<i - 1>>,
                                          PerformanceTests!SCMI_SUCCESS)>>
                             ELSE <<>>
                        ELSE <<>>]
    <2>1. \A i \in 1..n : P(ss[i])
      BY <1>37
    <2>2. P(PerformanceTests!ProbeFast
          \o PerformanceTests!IfDomains(PerformanceTests!WhenAny(Flat(ss))))
      BY <1>31, <2>1
    <2> QED BY <2>2 DEF PerformanceTests!ReadThrough, PerformanceTests!ForDomains,
          PerformanceTests!ForCapable, PerformanceTests!ForEach
  <1>38. P(PerformanceTests!TestD028) /\ P(PerformanceTests!TestD029)
    BY <1>37 DEF PerformanceTests!TestD028, PerformanceTests!TestD029
  <1>39. \/ ProgramOf("performance", t) \in
              {PerformanceTests!TestD001, PerformanceTests!TestD002,
               PerformanceTests!TestD003, PerformanceTests!TestD004,
               PerformanceTests!TestD005, PerformanceTests!TestD006,
               PerformanceTests!TestD007, PerformanceTests!TestD008,
               PerformanceTests!TestD010, PerformanceTests!TestD011,
               PerformanceTests!TestD012, PerformanceTests!TestD014,
               PerformanceTests!TestD015, PerformanceTests!TestD016,
               PerformanceTests!TestD017, PerformanceTests!TestD018,
               PerformanceTests!TestD019, PerformanceTests!TestD020,
               PerformanceTests!TestD021, PerformanceTests!TestD022,
               PerformanceTests!TestD023, PerformanceTests!TestD024,
               PerformanceTests!TestD025, PerformanceTests!TestD028,
               PerformanceTests!TestD029, PerformanceTests!TestD003_v1,
               PerformanceTests!TestD005_v1}
         \/ t = "d009" /\ ProgramOf("performance", t) = PerformanceTests!TestD009
         \/ t = "d013" /\ ProgramOf("performance", t) = PerformanceTests!TestD013
         \/ t = "d026" /\ ProgramOf("performance", t) = PerformanceTests!TestD026
         \/ t = "d027" /\ ProgramOf("performance", t) = PerformanceTests!TestD027
    BY DEF TestsOf, ProgramOf, PerformanceTests!Program
  <1> HIDE DEF P
  <1> QED BY <1>4, <1>5, <1>6, <1>7, <1>8, <1>10, <1>11, <1>12, <1>13, <1>14, <1>18, <1>19, <1>20,
             <1>21, <1>22, <1>23, <1>24, <1>25, <1>26, <1>27, <1>32, <1>33, <1>34, <1>35, <1>36,
             <1>38, <1>39 DEF P

\* The version test schedules tests of the performance suite only.
LEMMA PerformanceSchedule == \A v : ScheduleOf("performance", v) \in Seq(TestsOf("performance"))
  <1> DEFINE T == TestsOf("performance")
  <1>1. {"d002", "d003_v1", "d004", "d005_v1", "d003", "d005", "d006", "d007", "d008", "d009",
         "d010", "d011", "d012", "d013", "d014", "d015", "d016", "d017", "d018", "d019", "d020",
         "d021", "d022", "d023", "d024", "d025", "d026", "d027", "d028", "d029"} \subseteq T
    BY DEF TestsOf
  <1> HIDE DEF T
  <1>2. <<"d006", "d007", "d008", "d009", "d010", "d011", "d012", "d013", "d014", "d015",
          "d016", "d017", "d018", "d019", "d020">> \in Seq(T)
    BY <1>1
  <1>3. /\ <<"d002">> \in Seq(T) /\ <<>> \in Seq(T)
        /\ <<"d003_v1", "d004", "d005_v1">> \in Seq(T) /\ <<"d003", "d004", "d005">> \in Seq(T)
        /\ <<"d021", "d022", "d023", "d024", "d025">> \in Seq(T)
        /\ <<"d026", "d027">> \in Seq(T) /\ <<"d028", "d029">> \in Seq(T)
    BY <1>1
  <1>4. \A v : PerformanceTests!Schedule(v) \in Seq(T)
    BY <1>2, <1>3, ConcatProperties DEF PerformanceTests!Schedule
  <1> QED BY <1>4 DEF ScheduleOf, T

\* Good steps only are added for an answer; the one that lists levels is the
\* last of its list, so that no page of them is asked for with levels in hand.
LEMMA PerformanceMore ==
  ASSUME NEW t, NEW s, NEW v, Good("performance", t, s), s.learn = "levels" => v.remaining = 0
  PROVE  GoodProgram("performance", t, MoreOf("performance", s, v))
  <1> DEFINE P(q) == GoodProgram("performance", t, q)
             d == s.args[1]
  <1> USE PerformanceSteps, PerformanceStatus, PerformanceCommands, ShortPrograms
  <1>0. s.learn \in Changes => t \in Moving
    BY DEF Good, Allowed
  <1>1. CASE s.learn = "levels"
    <2>1. ~(v.remaining > 0)
      BY <1>1
    <2> QED BY <1>1, <2>1 DEF MoreOf, PerformanceTests!More, PerformanceTests!MoreLevels
  <1>2. CASE s.learn = "limits"
    BY <1>0, <1>2 DEF Changes, MoreOf, PerformanceTests!More, PerformanceTests!ChangeLimits,
          PerformanceTests!LimitsSet
  <1>3. CASE s.learn = "level"
    BY <1>0, <1>3 DEF Changes, MoreOf, PerformanceTests!More, PerformanceTests!ChangeLevel,
          PerformanceTests!LevelSet
  <1>4. \A x, l : l \in {"limits_notified", "level_notified"} /\ t \in Moving =>
                    P(PerformanceTests!FindFrom(x, l))
    BY DEF PerformanceTests!FindFrom
  <1>5. CASE s.learn = "limits_notified"
    <2>1. P(PerformanceTests!Enable(d, PerformanceTests!PERFORMANCE_NOTIFY_LIMITS,
          PerformanceTests!PERFORMANCE_LIMITS_GET,
                                    "limits_before"))
      BY <1>0, <1>5 DEF Changes, PerformanceTests!Enable
    <2> QED BY <1>0, <1>4, <1>5, <2>1 DEF Changes, MoreOf, PerformanceTests!More,
                                           PerformanceTests!NextDomain
  <1>6. CASE s.learn = "level_notified"
    <2>1. P(PerformanceTests!Enable(d, PerformanceTests!PERFORMANCE_NOTIFY_LEVEL,
          PerformanceTests!PERFORMANCE_LEVEL_GET,
                                    "level_before"))
      BY <1>0, <1>6 DEF Changes, PerformanceTests!Enable
    <2> QED BY <1>0, <1>4, <1>6, <2>1 DEF Changes, MoreOf, PerformanceTests!More,
                                           PerformanceTests!NextDomain
  <1>7. CASE s.learn = "limits_before"
    BY <1>0, <1>7 DEF Changes, MoreOf, PerformanceTests!More, PerformanceTests!NotifiedLimits,
          PerformanceTests!LimitsSet
  <1>8. CASE s.learn = "level_before"
    BY <1>0, <1>8 DEF Changes, MoreOf, PerformanceTests!More, PerformanceTests!NotifiedLevel,
          PerformanceTests!LevelSet
  <1>9. CASE s.learn \notin {"levels", "limits", "level", "limits_notified", "level_notified",
                             "limits_before", "level_before"}
    BY <1>9 DEF MoreOf, PerformanceTests!More
  <1> QED BY <1>1, <1>2, <1>3, <1>5, <1>6, <1>7, <1>8, <1>9

-----------------------------------------------------------------------------
(* Clocks.                                                                 *)

\* The steps the clock suite is made of are good.
LEMMA ClockSteps ==
  ASSUME NEW t
  PROVE
  /\ \A m, a, e : e # SCMI_GENERIC_ERROR /\ m # CLOCK_CONFIG_SET
                  /\ (e # SCMI_SUCCESS \/ m \notin ClockMovers \/ t \in Moving) =>
       /\ Good("clock", t, ClockTests!Clock(m, a, e))
       /\ Good("clock", t, [ClockTests!Clock(m, a, e) EXCEPT !.sent = 4])
       /\ Good("clock", t, ClockTests!Ask(ClockTests!PROTOCOL_CLOCK, m, a, e))
  /\ \A c, x, e : e # SCMI_GENERIC_ERROR /\ (e # SCMI_SUCCESS \/ t \in Moving) /\ x \in Nat
                  /\ t \in {"c015", "c016", "c017"} /\ (t = "c015" => x > 1) =>
       Good("clock", t, ClockTests!ConfigSet(c, x, e))
  /\ \A m, a, w : m \notin ClockMovers =>
       /\ Good("clock", t, ClockTests!ClockValue(m, a, w))
       /\ t = "c002" =>
            Good("clock", t, [ClockTests!ClockValue(m, a, w) EXCEPT !.learn = "attributes"])
       /\ t = "c001" =>
            Good("clock", t, ClockTests!AskAndLearn(ClockTests!PROTOCOL_CLOCK, m, a, "version"))
  /\ \A a, w : t = "c005" =>
       Good("clock", t, [ClockTests!ClockValue(ClockTests!CLOCK_ATTRIBUTES, a, w)
                           EXCEPT !.learn = "attribute"])
  /\ \A a, l : l \in {"rate", "rate_async"} /\ t \in Moving =>
       Good("clock", t, ClockTests!ClockLearn(ClockTests!CLOCK_RATE_GET, a, l))
  /\ \A c, rates : Good("clock", t, ClockTests!RatesFrom(c, rates))
  /\ \A m, w : m # CLOCK_CONFIG_SET =>
       Good("clock", t, ClockTests!Receive(ClockTests!PROTOCOL_CLOCK, m, w))
  /\ Good("clock", t, ClockTests!Skip) /\ Good("clock", t, ClockTests!Fail)
  <1> USE Protocols DEF Good, Teaches, Allowed, Mover, BaseMovers, PerformanceMovers, ClockMovers,
          SensorMovers, VoltageMovers, Changes, PROTOCOL_BASE, PROTOCOL_PERFORMANCE,
          PROTOCOL_CLOCK, PROTOCOL_SENSOR, PROTOCOL_VOLTAGE, BASE_SET_DEVICE_PERMISSIONS,
          BASE_SET_PROTOCOL_PERMISSIONS, BASE_RESET_AGENT_CONFIGURATION, ClockTests!Clock,
          ClockTests!ConfigSet, ClockTests!ClockValue, ClockTests!ClockLearn,
          ClockTests!RatesFrom, ClockTests!Ask, ClockTests!AskValue, ClockTests!AskAndLearn,
          ClockTests!Receive, ClockTests!Skip, ClockTests!Fail, ClockTests!SCMI_SUCCESS,
          SCMI_SUCCESS, SCMI_GENERIC_ERROR, ClockTests!PROTOCOL_CLOCK, ClockTests!PROTOCOL_BASE,
          CLOCK_CONFIG_SET, ClockTests!CLOCK_CONFIG_SET, ClockTests!CLOCK_ATTRIBUTES,
          CLOCK_ATTRIBUTES, ClockTests!CLOCK_DESCRIBE_RATES, CLOCK_DESCRIBE_RATES,
          ClockTests!PROTOCOL_VERSION, CLOCK_RATE_SET, CLOCK_RATE_GET, ClockTests!CLOCK_RATE_GET
  <1>1. \A m, a, e : e # SCMI_GENERIC_ERROR /\ m # CLOCK_CONFIG_SET
                     /\ (e # SCMI_SUCCESS \/ m \notin ClockMovers \/ t \in Moving) =>
          /\ Good("clock", t, ClockTests!Clock(m, a, e))
          /\ Good("clock", t, [ClockTests!Clock(m, a, e) EXCEPT !.sent = 4])
          /\ Good("clock", t, ClockTests!Ask(ClockTests!PROTOCOL_CLOCK, m, a, e))
    OBVIOUS
  <1>2. \A c, x, e : e # SCMI_GENERIC_ERROR /\ (e # SCMI_SUCCESS \/ t \in Moving) /\ x \in Nat
                     /\ t \in {"c015", "c016", "c017"} /\ (t = "c015" => x > 1) =>
          Good("clock", t, ClockTests!ConfigSet(c, x, e))
    OBVIOUS
  <1>3. \A m, a, w : m \notin ClockMovers =>
          /\ Good("clock", t, ClockTests!ClockValue(m, a, w))
          /\ t = "c002" =>
               Good("clock", t, [ClockTests!ClockValue(m, a, w) EXCEPT !.learn = "attributes"])
          /\ t = "c001" =>
               Good("clock", t, ClockTests!AskAndLearn(ClockTests!PROTOCOL_CLOCK, m, a, "version"))
    OBVIOUS
  <1>4. \A a, w : t = "c005" =>
          Good("clock", t, [ClockTests!ClockValue(ClockTests!CLOCK_ATTRIBUTES, a, w)
                              EXCEPT !.learn = "attribute"])
    OBVIOUS
  <1>5. \A a, l : l \in {"rate", "rate_async"} /\ t \in Moving =>
          Good("clock", t, ClockTests!ClockLearn(ClockTests!CLOCK_RATE_GET, a, l))
    OBVIOUS
  <1>6. \A c, rates : Good("clock", t, ClockTests!RatesFrom(c, rates))
    OBVIOUS
  <1>7. \A m, w : m # CLOCK_CONFIG_SET =>
          Good("clock", t, ClockTests!Receive(ClockTests!PROTOCOL_CLOCK, m, w))
    OBVIOUS
  <1>8. Good("clock", t, ClockTests!Skip) /\ Good("clock", t, ClockTests!Fail)
    OBVIOUS
  <1> HIDE DEF Good, ClockTests!Clock, ClockTests!ConfigSet, ClockTests!ClockValue,
               ClockTests!ClockLearn, ClockTests!RatesFrom, ClockTests!Ask,
               ClockTests!AskAndLearn, ClockTests!Receive, ClockTests!Skip, ClockTests!Fail
  <1> QED BY <1>1, <1>2, <1>3, <1>4, <1>5, <1>6, <1>7, <1>8

\* No status the clock suite expects is that of an exchange that went wrong.
LEMMA ClockStatus ==
  LET errors == {ClockTests!SCMI_NOT_FOUND, ClockTests!SCMI_INVALID_PARAMETERS,
                 ClockTests!SCMI_OUT_OF_RANGE}
  IN /\ SCMI_SUCCESS \notin errors /\ SCMI_GENERIC_ERROR \notin errors
     /\ ClockTests!SCMI_SUCCESS # SCMI_GENERIC_ERROR
  BY DEF ClockTests!SCMI_SUCCESS, ClockTests!SCMI_NOT_FOUND, ClockTests!SCMI_INVALID_PARAMETERS,
         ClockTests!SCMI_OUT_OF_RANGE, SCMI_GENERIC_ERROR, SCMI_SUCCESS

\* The other commands of the clock suite change no setting.
LEMMA ClockCommands ==
  /\ ClockMovers \cap
       {ClockTests!PROTOCOL_VERSION, ClockTests!PROTOCOL_ATTRIBUTES,
        ClockTests!PROTOCOL_MESSAGE_ATTRIBUTES, ClockTests!CLOCK_ATTRIBUTES,
        ClockTests!CLOCK_DESCRIBE_RATES, ClockTests!CLOCK_RATE_GET,
        ClockTests!CLOCK_INVALID_COMMAND} = {}
  /\ CLOCK_CONFIG_SET \in ClockMovers
  /\ CLOCK_CONFIG_SET \notin {ClockTests!CLOCK_RATE_SET, ClockTests!CLOCK_RATE_SET_COMPLETE}
  BY DEF ClockMovers, CLOCK_RATE_SET, CLOCK_CONFIG_SET, ClockTests!PROTOCOL_VERSION,
     ClockTests!PROTOCOL_ATTRIBUTES, ClockTests!PROTOCOL_MESSAGE_ATTRIBUTES,
     ClockTests!CLOCK_ATTRIBUTES, ClockTests!CLOCK_DESCRIBE_RATES, ClockTests!CLOCK_RATE_SET,
     ClockTests!CLOCK_RATE_GET, ClockTests!CLOCK_INVALID_COMMAND,
     ClockTests!CLOCK_RATE_SET_COMPLETE

\* Every test of the clock suite starts with good steps.
LEMMA ClockPrograms ==
  ASSUME table.clock.clocks \in Nat, \A c : ClockTests!Row(c).enabled \in Nat,
         NEW t \in TestsOf("clock")
  PROVE  GoodProgram("clock", t, ProgramOf("clock", t))
  <1> DEFINE n == table.clock.clocks
             P(q) == GoodProgram("clock", t, q)
             Flat(ss) == ClockTests!Lists!FlattenSeq(ss)
  <1> USE ClockSteps, ClockStatus, ClockCommands, ShortPrograms
  <1>1. ASSUME NEW q, P(q) PROVE P(ClockTests!IfClocks(q)) /\ P(ClockTests!WhenAny(q))
    BY <1>1 DEF ClockTests!IfClocks, ClockTests!IfSome, ClockTests!WhenAny
  <1>2. ASSUME NEW ss, ss = [i \in 1..n |-> ss[i]], \A i \in 1..n : P(ss[i])
        PROVE  P(Flat(ss)) /\ P(ClockTests!IfClocks(Flat(ss)))
    <2>1. ClockTests!Lists!FlattenSeq(ss) = Lists!FlattenSeq(ss)
      BY DEF ClockTests!Lists!FlattenSeq, Lists!FlattenSeq
    <2>2. P(Flat(ss))
      BY <1>2, <2>1, Flattened
    <2> QED BY <1>1, <2>2
  <1>3. t = "c001" => P(ClockTests!TestC001)
    BY DEF ClockTests!TestC001, ClockTests!VersionTest
  <1>4. t = "c002" => P(ClockTests!TestC002)
    BY DEF ClockTests!TestC002
  <1>5. P(ClockTests!TestC003)
    <2> DEFINE U == {s \in {ClockTests!TestC003[i] : i \in 1..5} : Good("clock", t, s)}
    <2>1. \A i \in 1..5 : Good("clock", t, ClockTests!TestC003[i])
      BY DEF ClockTests!TestC003
    <2>2. ClockTests!TestC003 \in Seq(U)
      BY <2>1 DEF ClockTests!TestC003
    <2> QED BY <2>2, ProgramIsSequence
  <1>6. P(ClockTests!TestC004)
    BY DEF ClockTests!TestC004, ClockTests!UnknownCommandTest
  <1>7. ASSUME t = "c005" PROVE P(ClockTests!TestC005)
    <2> DEFINE ss == [i \in 1..n |->
                        <<[ClockTests!ClockValue(ClockTests!CLOCK_ATTRIBUTES, <<i - 1>>,
                                                 [reserved |-> 0])
                             EXCEPT !.learn = "attribute"]>>]
    <2>1. \A i \in 1..n : P(ss[i])
      BY <1>7
    <2>2. P(ClockTests!IfClocks(Flat(ss)))
      BY <1>2, <2>1
    <2> QED BY <2>2 DEF ClockTests!TestC005, ClockTests!ForEach
  <1>8. P(ClockTests!TestC006) /\ P(ClockTests!TestC008) /\ P(ClockTests!TestC014)
    BY DEF ClockTests!TestC006, ClockTests!TestC008, ClockTests!TestC014
  <1>9. P(ClockTests!TestC007)
    <2> DEFINE ss == [i \in 1..n |-> <<ClockTests!RatesFrom(i - 1, <<>>)>>]
    <2>1. \A i \in 1..n : P(ss[i])
      OBVIOUS
    <2>2. P(ClockTests!IfClocks(Flat(ss)))
      BY <1>2, <2>1
    <2> QED BY <2>2 DEF ClockTests!TestC007, ClockTests!ForEach
  <1>10. ASSUME NEW l, l \in {"rate", "rate_async"}, t \in Moving
         PROVE  P(ClockTests!RateLearn(l))
    <2> DEFINE ss == [i \in 1..n |-> <<ClockTests!ClockLearn(ClockTests!CLOCK_RATE_GET,
          <<i - 1>>, l)>>]
    <2>1. \A i \in 1..n : P(ss[i])
      BY <1>10
    <2>2. P(ClockTests!IfClocks(Flat(ss)))
      BY <1>2, <2>1
    <2> QED BY <2>2 DEF ClockTests!RateLearn, ClockTests!ForEach
  <1>11. /\ t = "c009" => P(ClockTests!TestC009)
         /\ t = "c010" => P(ClockTests!TestC010)
    BY <1>10 DEF ClockTests!TestC009, ClockTests!TestC010, Moving, Restoring
  <1>12. \A flags, c, rate, e : e \notin {SCMI_GENERIC_ERROR, SCMI_SUCCESS} =>
           Good("clock", t, ClockTests!RateSet(flags, c, rate, e))
    BY DEF ClockTests!RateSet
  <1>13. P(ClockTests!TestC011)
    <2> DEFINE ss == [i \in 1..n |->
                        <<ClockTests!RateSet(ClockTests!CLOCK_SET_SYNC_MODE, i - 1,
                                             ClockTests!PastRate(i - 1),
                                             ClockTests!SCMI_INVALID_PARAMETERS),
                          ClockTests!RateSet(ClockTests!CLOCK_SET_INVALID_FLAG, i - 1,
                                             ClockTests!MixedRate(i - 1),
                                             ClockTests!SCMI_INVALID_PARAMETERS)>>]
    <2>1. \A i \in 1..n : P(ss[i])
      BY <1>12
    <2>2. P(ClockTests!IfClocks(Flat(ss)))
      BY <1>2, <2>1
    <2> QED BY <2>2 DEF ClockTests!TestC011, ClockTests!ForEach
  <1>14. P(ClockTests!TestC012)
    BY <1>12 DEF ClockTests!TestC012
  <1>15. P(ClockTests!TestC013)
    <2> DEFINE ss == [i \in 1..n |->
                        <<ClockTests!Clock(ClockTests!CLOCK_RATE_GET, <<i - 1>>,
                                           ClockTests!SCMI_SUCCESS)>>]
    <2>1. \A i \in 1..n : P(ss[i])
      OBVIOUS
    <2>2. P(ClockTests!IfClocks(Flat(ss)))
      BY <1>2, <2>1
    <2> QED BY <2>2 DEF ClockTests!TestC013, ClockTests!ForEach
  <1>16. /\ ClockTests!INVALID_ATTRIBUTE \in Nat /\ ClockTests!CONFIG_SET_ENABLE \in Nat
         /\ ClockTests!CONFIG_SET_DISABLE \in Nat
    BY DEF ClockTests!INVALID_ATTRIBUTE, ClockTests!CONFIG_SET_ENABLE, ClockTests!CONFIG_SET_DISABLE
  <1>17. ASSUME t = "c015" PROVE P(ClockTests!TestC015)
    <2> DEFINE ss == [i \in 1..n |->
                        <<ClockTests!ConfigSet(i - 1, ClockTests!INVALID_ATTRIBUTE,
                                               ClockTests!SCMI_INVALID_PARAMETERS)>>]
    <2>1. ClockTests!INVALID_ATTRIBUTE > 1
      BY DEF ClockTests!INVALID_ATTRIBUTE
    <2>2. \A i \in 1..n : P(ss[i])
      BY <1>16, <1>17, <2>1
    <2>3. P(ClockTests!IfClocks(Flat(ss)))
      BY <1>2, <2>2
    <2> QED BY <2>3 DEF ClockTests!TestC015, ClockTests!ForEach
  <1>18. t = "c016" => P(ClockTests!TestC016)
    BY <1>16 DEF ClockTests!TestC016
  <1>19. ASSUME t = "c017" PROVE P(ClockTests!TestC017)
    <2> DEFINE ss == [i \in 1..n |-> IF i - 1 \notin ExpectedClock(clock).fixed
                                    THEN ClockTests!ToggleClock(i - 1) ELSE <<>>]
    <2>1. ASSUME NEW c PROVE P(ClockTests!ToggleClock(c))
      <3>1. ClockTests!Toggled(ClockTests!Row(c).enabled) \in Nat
        BY <1>16 DEF ClockTests!Toggled
      <3> QED BY <1>19, <3>1 DEF ClockTests!ToggleClock, Moving, Restoring
    <2>2. \A i \in 1..n : P(ss[i])
      BY <2>1
    <2>3. P(ClockTests!IfClocks(ClockTests!WhenAny(Flat(ss))))
      <3>1. P(Flat(ss))
        BY <1>2, <2>2
      <3> HIDE DEF ss
      <3> QED BY <1>1, <3>1
    <2> QED BY <2>3 DEF ClockTests!TestC017, ClockTests!ForCapable, ClockTests!ForEach
  <1>20. \/ ProgramOf("clock", t) \in
              {ClockTests!TestC003, ClockTests!TestC004, ClockTests!TestC006, ClockTests!TestC007,
               ClockTests!TestC008, ClockTests!TestC011, ClockTests!TestC012, ClockTests!TestC013,
               ClockTests!TestC014}
         \/ t = "c001" /\ ProgramOf("clock", t) = ClockTests!TestC001
         \/ t = "c002" /\ ProgramOf("clock", t) = ClockTests!TestC002
         \/ t = "c005" /\ ProgramOf("clock", t) = ClockTests!TestC005
         \/ t = "c009" /\ ProgramOf("clock", t) = ClockTests!TestC009
         \/ t = "c010" /\ ProgramOf("clock", t) = ClockTests!TestC010
         \/ t = "c015" /\ ProgramOf("clock", t) = ClockTests!TestC015
         \/ t = "c016" /\ ProgramOf("clock", t) = ClockTests!TestC016
         \/ t = "c017" /\ ProgramOf("clock", t) = ClockTests!TestC017
    BY DEF TestsOf, ProgramOf, ClockTests!Program
  <1> HIDE DEF P
  <1> QED BY <1>3, <1>4, <1>5, <1>6, <1>7, <1>8, <1>9, <1>11, <1>13, <1>14, <1>15, <1>17, <1>18,
             <1>19, <1>20 DEF P

\* The version test schedules tests of the clock suite only.
LEMMA ClockSchedule == \A v : ScheduleOf("clock", v) \in Seq(TestsOf("clock"))
  <1> DEFINE T == TestsOf("clock")
  <1>1. {"c002", "c003", "c004", "c005", "c006", "c007", "c008", "c009", "c010", "c011", "c012",
         "c013", "c014", "c015", "c016", "c017"} \subseteq T
    BY DEF TestsOf
  <1> HIDE DEF T
  <1>2. <<"c002", "c003", "c004", "c005", "c006", "c007", "c008", "c009", "c010", "c011", "c012",
          "c013", "c014", "c015", "c016", "c017">> \in Seq(T)
    BY <1>1
  <1> QED BY <1>2 DEF ScheduleOf, ClockTests!Schedule, T

\* Good steps only are added for an answer.
LEMMA ClockMore ==
  ASSUME NEW t, NEW s, NEW v, Good("clock", t, s)
  PROVE  GoodProgram("clock", t, MoreOf("clock", s, v))
  <1>0. s.learn \in {"rate", "rate_async"} => t \in Moving
    BY DEF Good, Allowed, Changes
  <1> DEFINE P(q) == GoodProgram("clock", t, q)
  <1> USE ClockSteps, ClockStatus, ClockCommands, ShortPrograms
  <1>1. P(ClockTests!MoreRates(s, v))
    BY DEF ClockTests!MoreRates
  <1>2. s.learn = "rate" => P(ClockTests!ChangeRate(s.args[1], v.rate))
    BY <1>0 DEF ClockTests!ChangeRate, ClockTests!RateSet
  <1>3. s.learn = "rate_async" => P(ClockTests!ChangeRateAsync(s.args[1], v.rate))
    BY <1>0 DEF ClockTests!ChangeRateAsync, ClockTests!RateSet
  <1>4. P(<<>>)
    OBVIOUS
  <1>5. \/ s.learn = "rate" /\ MoreOf("clock", s, v) = ClockTests!ChangeRate(s.args[1], v.rate)
        \/ /\ s.learn = "rate_async"
           /\ MoreOf("clock", s, v) = ClockTests!ChangeRateAsync(s.args[1], v.rate)
        \/ MoreOf("clock", s, v) \in {ClockTests!MoreRates(s, v), <<>>}
    BY DEF MoreOf, ClockTests!More
  <1> QED BY <1>1, <1>2, <1>3, <1>4, <1>5

-----------------------------------------------------------------------------
(* Sensors.                                                                *)

\* The steps the sensor suite is made of are good.
LEMMA SensorSteps ==
  ASSUME NEW t
  PROVE
  /\ \A m, a, e : e # SCMI_GENERIC_ERROR
                  /\ (e # SCMI_SUCCESS \/ m \notin SensorMovers \/ t \in Moving) =>
       /\ Good("sensor", t, SensorTests!Sensor(m, a, e))
       /\ Good("sensor", t, [SensorTests!Sensor(m, a, e) EXCEPT !.sent = 4])
       /\ Good("sensor", t, SensorTests!Ask(SensorTests!PROTOCOL_SENSOR, m, a, e))
  /\ \A m, a, w : m \notin SensorMovers =>
       /\ Good("sensor", t, SensorTests!SensorValue(m, a, w))
       /\ Good("sensor", t, [SensorTests!SensorValue(m, a, w) EXCEPT !.learn = "attributes"])
       /\ Good("sensor", t, [SensorTests!SensorValue(m, a, w) EXCEPT !.learn = "axes"])
       /\ Good("sensor", t, [SensorTests!SensorValue(m, a, w) EXCEPT !.learn = "intervals"])
       /\ Good("sensor", t, [SensorTests!SensorValue(m, a, w) EXCEPT !.learn = "state"])
       /\ Good("sensor", t, SensorTests!AskAndLearn(SensorTests!PROTOCOL_SENSOR, m, a, "version"))
       /\ Good("sensor", t, SensorTests!AskAndLearn(SensorTests!PROTOCOL_SENSOR, m, a, "config"))
  /\ \A a, w, l : l \notin Changes \/ t \in Moving =>
       Good("sensor", t, [SensorTests!SensorValue(SensorTests!SENSOR_DESCRIPTION_GET, a, w)
                            EXCEPT !.learn = l])
  /\ \A c : Good("sensor", t, SensorTests!Probe(SensorTests!PROTOCOL_SENSOR, c))
  /\ \A m, w : Good("sensor", t, SensorTests!Receive(SensorTests!PROTOCOL_SENSOR, m, w))
  /\ Good("sensor", t, SensorTests!Skip) /\ Good("sensor", t, SensorTests!Fail)
  <1> USE Protocols DEF Good, Teaches, Allowed, Mover, BaseMovers, PerformanceMovers, ClockMovers,
          SensorMovers, VoltageMovers, Changes, PROTOCOL_BASE, PROTOCOL_PERFORMANCE, PROTOCOL_CLOCK,
          PROTOCOL_SENSOR, PROTOCOL_VOLTAGE, BASE_SET_DEVICE_PERMISSIONS,
          BASE_SET_PROTOCOL_PERMISSIONS, BASE_RESET_AGENT_CONFIGURATION,
          SensorTests!Sensor, SensorTests!SensorValue, SensorTests!Ask, SensorTests!AskValue,
          SensorTests!AskAndLearn, SensorTests!Probe, SensorTests!AskStatus, SensorTests!Receive,
          SensorTests!Skip, SensorTests!Fail, SensorTests!SCMI_SUCCESS, SCMI_SUCCESS,
          SCMI_GENERIC_ERROR, SensorTests!SCMI_NOT_FOUND, SensorTests!PROTOCOL_SENSOR,
          SensorTests!PROTOCOL_BASE, SensorTests!SENSOR_DESCRIPTION_GET, SENSOR_DESCRIPTION_GET,
          SensorTests!PROTOCOL_MESSAGE_ATTRIBUTES, SensorTests!PROTOCOL_VERSION,
          SENSOR_CONTINUOUS_UPDATE_NOTIFY
  <1>1. \A m, a, e : e # SCMI_GENERIC_ERROR
                     /\ (e # SCMI_SUCCESS \/ m \notin SensorMovers \/ t \in Moving) =>
          /\ Good("sensor", t, SensorTests!Sensor(m, a, e))
          /\ Good("sensor", t, [SensorTests!Sensor(m, a, e) EXCEPT !.sent = 4])
          /\ Good("sensor", t, SensorTests!Ask(SensorTests!PROTOCOL_SENSOR, m, a, e))
    OBVIOUS
  <1>2. \A m, a, w : m \notin SensorMovers =>
          /\ Good("sensor", t, SensorTests!SensorValue(m, a, w))
          /\ Good("sensor", t, [SensorTests!SensorValue(m, a, w) EXCEPT !.learn = "attributes"])
          /\ Good("sensor", t, [SensorTests!SensorValue(m, a, w) EXCEPT !.learn = "axes"])
          /\ Good("sensor", t, [SensorTests!SensorValue(m, a, w) EXCEPT !.learn = "intervals"])
          /\ Good("sensor", t, [SensorTests!SensorValue(m, a, w) EXCEPT !.learn = "state"])
          /\ Good("sensor", t,
                  SensorTests!AskAndLearn(SensorTests!PROTOCOL_SENSOR, m, a, "version"))
          /\ Good("sensor", t,
                  SensorTests!AskAndLearn(SensorTests!PROTOCOL_SENSOR, m, a, "config"))
    OBVIOUS
  <1>3. \A a, w, l : l \notin Changes \/ t \in Moving =>
          Good("sensor", t, [SensorTests!SensorValue(SensorTests!SENSOR_DESCRIPTION_GET, a, w)
                               EXCEPT !.learn = l])
    OBVIOUS
  <1>4. \A c : Good("sensor", t, SensorTests!Probe(SensorTests!PROTOCOL_SENSOR, c))
    OBVIOUS
  <1>5. \A m, w : Good("sensor", t, SensorTests!Receive(SensorTests!PROTOCOL_SENSOR, m, w))
    OBVIOUS
  <1>6. Good("sensor", t, SensorTests!Skip) /\ Good("sensor", t, SensorTests!Fail)
    OBVIOUS
  <1> HIDE DEF Good, SensorTests!Sensor, SensorTests!SensorValue, SensorTests!Ask,
               SensorTests!AskAndLearn, SensorTests!Probe, SensorTests!Receive, SensorTests!Skip,
               SensorTests!Fail
  <1> QED BY <1>1, <1>2, <1>3, <1>4, <1>5, <1>6

\* No status the sensor suite expects is that of an exchange that went wrong.
LEMMA SensorStatus ==
  LET errors == {SensorTests!SCMI_NOT_FOUND, SensorTests!SCMI_INVALID_PARAMETERS,
                 SensorTests!SCMI_NOT_SUPPORTED, SensorTests!SCMI_OUT_OF_RANGE}
  IN /\ SCMI_SUCCESS \notin errors /\ SCMI_GENERIC_ERROR \notin errors
     /\ SensorTests!SCMI_SUCCESS # SCMI_GENERIC_ERROR
  BY DEF SensorTests!SCMI_SUCCESS, SensorTests!SCMI_NOT_FOUND, SensorTests!SCMI_INVALID_PARAMETERS,
         SensorTests!SCMI_NOT_SUPPORTED, SensorTests!SCMI_OUT_OF_RANGE, SCMI_GENERIC_ERROR,
         SCMI_SUCCESS

\* The other commands of the sensor suite change no setting.
LEMMA SensorCommands ==
  SensorMovers \cap
    {SensorTests!PROTOCOL_VERSION, SensorTests!PROTOCOL_ATTRIBUTES,
     SensorTests!PROTOCOL_MESSAGE_ATTRIBUTES, SensorTests!SENSOR_DESCRIPTION_GET,
     SensorTests!SENSOR_TRIP_POINT_NOTIFY, SensorTests!SENSOR_TRIP_POINT_CONFIG,
     SensorTests!SENSOR_READING_GET, SensorTests!SENSOR_AXIS_DESCRIPTION_GET,
     SensorTests!SENSOR_LIST_UPDATE_INTERVALS, SensorTests!SENSOR_CONFIG_GET,
     SensorTests!SENSOR_CONFIG_SET, SensorTests!SENSOR_INVALID_COMMAND} = {}
  BY DEF SensorMovers, SENSOR_CONTINUOUS_UPDATE_NOTIFY,
     SensorTests!PROTOCOL_VERSION, SensorTests!PROTOCOL_ATTRIBUTES,
     SensorTests!PROTOCOL_MESSAGE_ATTRIBUTES, SensorTests!SENSOR_DESCRIPTION_GET,
     SensorTests!SENSOR_TRIP_POINT_NOTIFY, SensorTests!SENSOR_TRIP_POINT_CONFIG,
     SensorTests!SENSOR_READING_GET, SensorTests!SENSOR_AXIS_DESCRIPTION_GET,
     SensorTests!SENSOR_LIST_UPDATE_INTERVALS, SensorTests!SENSOR_CONFIG_GET,
     SensorTests!SENSOR_CONFIG_SET, SensorTests!SENSOR_INVALID_COMMAND

\* Every test of the sensor suite starts with good steps.
LEMMA SensorPrograms ==
  ASSUME table.sensor.sensors \in Nat, \A id : SensorTests!Row(id).trips \in Nat,
         NEW t \in TestsOf("sensor")
  PROVE  GoodProgram("sensor", t, ProgramOf("sensor", t))
  <1> DEFINE n == table.sensor.sensors
             P(q) == GoodProgram("sensor", t, q)
             Flat(ss) == SensorTests!Lists!FlattenSeq(ss)
  <1> USE SensorSteps, SensorStatus, SensorCommands, ShortPrograms
  <1>1. ASSUME NEW q, P(q) PROVE P(SensorTests!IfSensors(q)) /\ P(SensorTests!WhenAny(q))
    BY <1>1 DEF SensorTests!IfSensors, SensorTests!IfSome, SensorTests!WhenAny
  <1>2. ASSUME NEW m \in Nat, NEW ss, ss = [i \in 1..m |-> ss[i]], \A i \in 1..m : P(ss[i])
        PROVE  P(Flat(ss))
    <2>1. SensorTests!Lists!FlattenSeq(ss) = Lists!FlattenSeq(ss)
      BY DEF SensorTests!Lists!FlattenSeq, Lists!FlattenSeq
    <2> QED BY <1>2, <2>1, Flattened
  <1>3. ASSUME NEW ss, ss = [i \in 1..n |-> ss[i]], \A i \in 1..n : P(ss[i])
        PROVE  P(SensorTests!IfSensors(Flat(ss))) /\ P(SensorTests!IfSensors(
              SensorTests!WhenAny(Flat(ss))))
    <2>1. P(Flat(ss))
      BY <1>2, <1>3
    <2> QED BY <1>1, <2>1
  <1>4. \A c : P(SensorTests!ProbeSensor(c))
    BY DEF SensorTests!ProbeSensor
  <1>5. P(SensorTests!TestM001)
    BY DEF SensorTests!TestM001, SensorTests!VersionTest
  <1>6. P(SensorTests!TestM002)
    BY DEF SensorTests!TestM002
  <1>7. P(SensorTests!TestM003)
    BY DEF SensorTests!TestM003
  <1>8. P(SensorTests!TestM004)
    BY DEF SensorTests!TestM004, SensorTests!UnknownCommandTest
  <1>9. P(SensorTests!TestM005) /\ P(SensorTests!TestM005_v3)
    BY DEF SensorTests!TestM005, SensorTests!TestM005_v3, SensorTests!DescribeFrom, Changes
  <1>10. \A id, trip, r, e : e # SCMI_GENERIC_ERROR => P(SensorTests!Configure(id, trip, r, e))
    BY DEF SensorTests!Configure
  <1>11. \A id, flags, e : e # SCMI_GENERIC_ERROR => P(SensorTests!Read(id, flags, e))
    BY DEF SensorTests!Read
  <1>12. \A id, index : P(SensorTests!AxesFrom(id, index)) /\ P(SensorTests!IntervalsFrom(id,
        index))
    BY DEF SensorTests!AxesFrom, SensorTests!IntervalsFrom
  <1>13. \A id, e : e # SCMI_GENERIC_ERROR /\ (e # SCMI_SUCCESS \/ t \in Moving) =>
                      P(SensorTests!EnableUpdates(id, e))
    BY DEF SensorTests!EnableUpdates
  <1>14. P(SensorTests!TestM006)
    <2> DEFINE ss == [i \in 1..n |->
                        <<SensorTests!Sensor(SensorTests!SENSOR_TRIP_POINT_NOTIFY,
                                             <<i - 1, SensorTests!EVENT_CTRL_INVALID_VAL>>,
                                             SensorTests!SCMI_INVALID_PARAMETERS)>>]
    <2>1. \A i \in 1..n : P(ss[i])
      OBVIOUS
    <2>2. P(SensorTests!IfSensors(Flat(ss)))
      BY <1>3, <2>1
    <2> QED BY <1>4, <2>2, ProgramsAppend DEF SensorTests!TestM006, SensorTests!ForEach
  <1>15. P(SensorTests!TestM007)
    BY <1>4, ProgramsAppend DEF SensorTests!TestM007
  <1>16. P(SensorTests!TestM008)
    <2> DEFINE ss == [i \in 1..n |->
                        SensorTests!Configure(i - 1, 0, 3, SensorTests!SCMI_INVALID_PARAMETERS)
                        \o SensorTests!Configure(i - 1, SensorTests!Row(i - 1).trips + 1, 0,
                                                  SensorTests!SCMI_INVALID_PARAMETERS)]
    <2>1. \A i \in 1..n : P(ss[i])
      BY <1>10, ProgramsAppend
    <2>2. P(SensorTests!IfSensors(Flat(ss)))
      BY <1>3, <2>1
    <2> QED BY <1>4, <2>2, ProgramsAppend DEF SensorTests!TestM008, SensorTests!ForEach
  <1>17. P(SensorTests!TestM009)
    BY <1>4, <1>10, ProgramsAppend DEF SensorTests!TestM009
  <1>18. P(SensorTests!TestM010)
    <2> DEFINE pp(id) == [j \in 1..SensorTests!Row(id).trips |->
                            SensorTests!Configure(id, j - 1, 0, SensorTests!SCMI_SUCCESS)]
               ss == [i \in 1..n |-> IF SensorTests!HasTrips(i - 1) THEN Flat(pp(i - 1)) ELSE <<>>]
    <2>1. ASSUME NEW id PROVE P(Flat(pp(id)))
      <3>1. \A j \in 1..SensorTests!Row(id).trips : P(pp(id)[j])
        BY <1>10
      <3> QED BY <1>2, <3>1
    <2>2. \A i \in 1..n : P(ss[i])
      <3> HIDE DEF pp
      <3> QED BY <2>1
    <2>3. P(SensorTests!IfSensors(SensorTests!WhenAny(Flat(ss))))
      BY <1>3, <2>2
    <2> QED BY <1>1, <1>4, <2>3, ProgramsAppend DEF SensorTests!TestM010, SensorTests!ForSensors,
          SensorTests!ForCapable, SensorTests!ForEach
  <1>19. P(SensorTests!TestM011)
    <2> DEFINE ss == [i \in 1..n |->
                        SensorTests!Read(i - 1, SensorTests!INVALID_FLAG_VAL,
                                         SensorTests!SCMI_INVALID_PARAMETERS)]
    <2>1. \A i \in 1..n : P(ss[i])
      BY <1>11
    <2>2. P(SensorTests!IfSensors(Flat(ss)))
      BY <1>3, <2>1
    <2> QED BY <2>2 DEF SensorTests!TestM011, SensorTests!ForEach
  <1>20. P(SensorTests!TestM012)
    BY <1>11 DEF SensorTests!TestM012
  <1>21. P(SensorTests!TestM013)
    <2> DEFINE ss == [i \in 1..n |->
                        SensorTests!Read(i - 1, SensorTests!SENSOR_READ_SYNC_MODE,
                              SensorTests!SCMI_SUCCESS)]
    <2>1. \A i \in 1..n : P(ss[i])
      BY <1>11
    <2>2. P(SensorTests!IfSensors(Flat(ss)))
      BY <1>3, <2>1
    <2> QED BY <2>2 DEF SensorTests!TestM013, SensorTests!ForEach
  <1>22. P(SensorTests!TestM014)
    <2> DEFINE ss == [i \in 1..n |->
                        IF SensorTests!ReadsAsync(i - 1) THEN
                          SensorTests!Read(i - 1, SensorTests!SENSOR_READ_ASYNC_MODE,
                                           SensorTests!SCMI_SUCCESS)
                          \o <<SensorTests!Receive(SensorTests!PROTOCOL_SENSOR,
                                                   SensorTests!SENSOR_READING_COMPLETE, <<i - 1>>)>>
                         ELSE <<>>]
    <2>1. \A i \in 1..n : P(ss[i])
      BY <1>11, ProgramsAppend
    <2>2. P(SensorTests!IfSensors(SensorTests!WhenAny(Flat(ss))))
      BY <1>3, <2>1
    <2> QED BY <2>2 DEF SensorTests!TestM014, SensorTests!ForSensors, SensorTests!ForCapable,
     SensorTests!ForEach
  <1>23. P(SensorTests!TestM015)
    <2> DEFINE ss == [i \in 1..n |->
                        IF SensorTests!ReadsSync(i - 1) THEN
                          SensorTests!Read(i - 1, SensorTests!SENSOR_READ_ASYNC_MODE,
                                           SensorTests!SCMI_NOT_SUPPORTED)
                         ELSE <<>>]
    <2>1. \A i \in 1..n : P(ss[i])
      BY <1>11
    <2>2. P(SensorTests!IfSensors(SensorTests!WhenAny(Flat(ss))))
      BY <1>3, <2>1
    <2> QED BY <2>2 DEF SensorTests!TestM015, SensorTests!ForSensors, SensorTests!ForCapable,
     SensorTests!ForEach
  <1>24. P(SensorTests!TestM016)
    <2> DEFINE ss == [i \in 1..n |-> SensorTests!AxesFrom(i - 1, 0)]
    <2>1. \A i \in 1..n : P(ss[i])
      BY <1>12
    <2>2. P(SensorTests!IfSensors(Flat(ss)))
      BY <1>3, <2>1
    <2> QED BY <2>2 DEF SensorTests!TestM016, SensorTests!ForEach
  <1>25. P(SensorTests!TestM017)
    BY DEF SensorTests!TestM017
  <1>26. P(SensorTests!TestM018)
    <2> DEFINE ss == [i \in 1..n |-> SensorTests!IntervalsFrom(i - 1, 0)]
    <2>1. \A i \in 1..n : P(ss[i])
      BY <1>12
    <2>2. P(SensorTests!IfSensors(Flat(ss)))
      BY <1>3, <2>1
    <2> QED BY <2>2 DEF SensorTests!TestM018, SensorTests!ForEach
  <1>27. P(SensorTests!TestM019)
    BY DEF SensorTests!TestM019
  <1>28. P(SensorTests!TestM020)
    <2> DEFINE ss == [i \in 1..n |->
                        <<[SensorTests!SensorValue(SensorTests!SENSOR_CONFIG_GET, <<i - 1>>,
                                                   [reserved |-> 0]) EXCEPT !.learn = "state"]>>]
    <2>1. \A i \in 1..n : P(ss[i])
      OBVIOUS
    <2>2. P(SensorTests!IfSensors(Flat(ss)))
      BY <1>3, <2>1
    <2> QED BY <2>2 DEF SensorTests!TestM020, SensorTests!ForEach
  <1>29. P(SensorTests!TestM021)
    BY DEF SensorTests!TestM021
  <1>30. P(SensorTests!TestM022)
    <2> DEFINE ss == [i \in 1..n |->
                        <<SensorTests!AskAndLearn(SensorTests!PROTOCOL_SENSOR,
                                                  SensorTests!SENSOR_CONFIG_GET, <<i - 1>>,
                                                        "config")>>]
    <2>1. \A i \in 1..n : P(ss[i])
      OBVIOUS
    <2>2. P(SensorTests!IfSensors(Flat(ss)))
      BY <1>3, <2>1
    <2> QED BY <2>2 DEF SensorTests!TestM022, SensorTests!ForEach
  <1>31. P(SensorTests!TestM023)
    BY DEF SensorTests!TestM023
  <1>32. ASSUME t = "m024" PROVE P(SensorTests!TestM024)
    <2> DEFINE ss == [i \in 1..n |->
                        IF ~SensorTests!Row(i - 1).notify
                        THEN SensorTests!EnableUpdates(i - 1, SensorTests!SCMI_NOT_SUPPORTED)
                        ELSE IF SensorTests!Row(i - 1).state = SensorTests!SENSOR_ENABLED
                             THEN SensorTests!EnableUpdates(i - 1, SensorTests!SCMI_SUCCESS)
                             ELSE <<>>]
    <2>1. \A i \in 1..n : P(ss[i])
      BY <1>13, <1>32 DEF Moving
    <2>2. P(SensorTests!IfSensors(Flat(ss)))
      BY <1>3, <2>1
    <2> QED BY <2>2 DEF SensorTests!TestM024, SensorTests!ForEach
  <1>33. P(SensorTests!TestM025)
    BY <1>13 DEF SensorTests!TestM025
  <1>34. \/ ProgramOf("sensor", t) \in
              {SensorTests!TestM001, SensorTests!TestM002, SensorTests!TestM003,
               SensorTests!TestM004, SensorTests!TestM005, SensorTests!TestM006,
               SensorTests!TestM007, SensorTests!TestM008, SensorTests!TestM009,
               SensorTests!TestM010, SensorTests!TestM011, SensorTests!TestM012,
               SensorTests!TestM013, SensorTests!TestM014, SensorTests!TestM015,
               SensorTests!TestM016, SensorTests!TestM017, SensorTests!TestM018,
               SensorTests!TestM019, SensorTests!TestM020, SensorTests!TestM021,
               SensorTests!TestM022, SensorTests!TestM023, SensorTests!TestM025,
               SensorTests!TestM005_v3}
         \/ t = "m024" /\ ProgramOf("sensor", t) = SensorTests!TestM024
    BY DEF TestsOf, ProgramOf, SensorTests!Program
  <1> HIDE DEF P
  <1> QED BY <1>5, <1>6, <1>7, <1>8, <1>9, <1>14, <1>15, <1>16, <1>17, <1>18, <1>19, <1>20,
             <1>21, <1>22, <1>23, <1>24, <1>25, <1>26, <1>27, <1>28, <1>29, <1>30, <1>31, <1>32,
             <1>33, <1>34 DEF P

\* The version test schedules tests of the sensor suite only.
LEMMA SensorSchedule == \A v : ScheduleOf("sensor", v) \in Seq(TestsOf("sensor"))
  <1> DEFINE T == TestsOf("sensor")
  <1>1. {"m002", "m003", "m004", "m006", "m007", "m008", "m009", "m010", "m011", "m012", "m013",
         "m014", "m015", "m005", "m005_v3", "m016", "m017", "m018", "m019", "m020", "m021", "m022",
         "m023", "m024", "m025"} \subseteq T
    BY DEF TestsOf
  <1> HIDE DEF T
  <1>2. <<"m002", "m003", "m004", "m006", "m007", "m008", "m009", "m010", "m011", "m012", "m013",
          "m014", "m015">> \in Seq(T)
    BY <1>1
  <1>3. /\ <<"m005">> \in Seq(T) /\ <<>> \in Seq(T)
        /\ <<"m005_v3", "m016", "m017", "m018", "m019", "m020", "m021", "m022", "m023", "m024",
             "m025">> \in Seq(T)
    BY <1>1
  <1>4. \A v : SensorTests!Schedule(v) \in Seq(T)
    BY <1>2, <1>3, ConcatProperties DEF SensorTests!Schedule
  <1> QED BY <1>4 DEF ScheduleOf, T

\* Good steps only are added for an answer.
LEMMA SensorMore ==
  ASSUME NEW t, NEW s, NEW v, Good("sensor", t, s)
  PROVE  GoodProgram("sensor", t, MoreOf("sensor", s, v))
  <1> DEFINE P(q) == GoodProgram("sensor", t, q)
  <1> USE SensorSteps, SensorStatus, SensorCommands, ShortPrograms
  <1>0. s.learn \in Changes => t \in Moving
    BY DEF Good, Allowed
  <1>1. \A v3 : P(SensorTests!MoreSensors(s, v, v3))
    BY <1>0 DEF SensorTests!MoreSensors, SensorTests!DescribeFrom
  <1>2. P(SensorTests!MoreIntervals(s, v))
    BY DEF SensorTests!MoreIntervals, SensorTests!IntervalsFrom
  <1>3. P(SensorTests!ChangeState(s.args[1], v.state))
    BY DEF SensorTests!ChangeState
  <1>4. P(SensorTests!AxesFrom(s.args[1], s.args[2] + v.returned)) /\ P(<<>>)
    BY DEF SensorTests!AxesFrom
  <1>5. MoreOf("sensor", s, v) \in
          {SensorTests!MoreSensors(s, v, FALSE), SensorTests!MoreSensors(s, v, TRUE),
           SensorTests!AxesFrom(s.args[1], s.args[2] + v.returned),
           SensorTests!MoreIntervals(s, v), SensorTests!ChangeState(s.args[1], v.state), <<>>}
    BY DEF MoreOf, SensorTests!More
  <1> QED BY <1>1, <1>2, <1>3, <1>4, <1>5

-----------------------------------------------------------------------------
(* Reset domains.                                                          *)

\* The steps the reset suite is made of are good.
LEMMA ResetSteps ==
  ASSUME NEW t
  PROVE
  /\ \A m, a, e : e # SCMI_GENERIC_ERROR => Good("reset", t, ResetTests!ResetAsk(m, a, e))
  /\ \A m, a, w : Good("reset", t, ResetTests!ResetValue(m, a, w))
  /\ \A a, w :
       Good("reset", t, [ResetTests!ResetValue(ResetTests!RESET_DOMAIN_ATTRIBUTES, a, w)
                        EXCEPT !.learn = "domain"])
  /\ \A m, a, w : Good("reset", t, [ResetTests!ResetValue(m, a, w) EXCEPT !.learn = "attributes"])
  /\ \A a, e : e # SCMI_GENERIC_ERROR =>
       Good("reset", t, [ResetTests!ResetAsk(ResetTests!RESET_DOMAIN_ATTRIBUTES, a, e)
                        EXCEPT !.kind = "refute"])
  /\ \A m, a : Good("reset", t, ResetTests!AskAndLearn(ResetTests!PROTOCOL_RESET, m, a, "version"))
  /\ \A m, a, e : e # SCMI_GENERIC_ERROR =>
       Good("reset", t, ResetTests!Ask(ResetTests!PROTOCOL_RESET, m, a, e))
  /\ \A c : Good("reset", t, ResetTests!Probe(ResetTests!PROTOCOL_RESET, c))
  /\ Good("reset", t, ResetTests!Skip)
  <1> USE Protocols DEF Good, Teaches, Allowed, Mover, BaseMovers, PerformanceMovers, ClockMovers,
          SensorMovers, VoltageMovers, Changes, PROTOCOL_BASE, PROTOCOL_PERFORMANCE,
          PROTOCOL_CLOCK, PROTOCOL_SENSOR, PROTOCOL_VOLTAGE, BASE_SET_DEVICE_PERMISSIONS,
          BASE_SET_PROTOCOL_PERMISSIONS, BASE_RESET_AGENT_CONFIGURATION, ResetTests!ResetAsk,
          ResetTests!ResetValue, ResetTests!Ask, ResetTests!AskValue, ResetTests!AskAndLearn,
          ResetTests!Probe, ResetTests!AskStatus, ResetTests!Skip, ResetTests!SCMI_SUCCESS,
          SCMI_SUCCESS, SCMI_GENERIC_ERROR, ResetTests!SCMI_NOT_FOUND, ResetTests!PROTOCOL_RESET,
          ResetTests!PROTOCOL_BASE, PROTOCOL_RESET, ResetTests!RESET_DOMAIN_ATTRIBUTES,
          RESET_DOMAIN_ATTRIBUTES, ResetTests!PROTOCOL_MESSAGE_ATTRIBUTES,
          ResetTests!PROTOCOL_VERSION
  <1>1. \A m, a, e : e # SCMI_GENERIC_ERROR => Good("reset", t, ResetTests!ResetAsk(m, a, e))
    OBVIOUS
  <1>2. \A m, a, w : Good("reset", t, ResetTests!ResetValue(m, a, w))
    OBVIOUS
  <1>3. \A a, w :
          Good("reset", t, [ResetTests!ResetValue(ResetTests!RESET_DOMAIN_ATTRIBUTES, a, w)
                           EXCEPT !.learn = "domain"])
    OBVIOUS
  <1>4. \A m, a, w :
          Good("reset", t, [ResetTests!ResetValue(m, a, w) EXCEPT !.learn = "attributes"])
    OBVIOUS
  <1>5. \A a, e : e # SCMI_GENERIC_ERROR =>
          Good("reset", t, [ResetTests!ResetAsk(ResetTests!RESET_DOMAIN_ATTRIBUTES, a, e)
                           EXCEPT !.kind = "refute"])
    OBVIOUS
  <1>6. \A m, a :
          Good("reset", t, ResetTests!AskAndLearn(ResetTests!PROTOCOL_RESET, m, a, "version"))
    OBVIOUS
  <1>7. \A m, a, e : e # SCMI_GENERIC_ERROR =>
          Good("reset", t, ResetTests!Ask(ResetTests!PROTOCOL_RESET, m, a, e))
    OBVIOUS
  <1>8. \A c : Good("reset", t, ResetTests!Probe(ResetTests!PROTOCOL_RESET, c))
    OBVIOUS
  <1>9. Good("reset", t, ResetTests!Skip)
    OBVIOUS
  <1> HIDE DEF Good, ResetTests!ResetAsk, ResetTests!ResetValue, ResetTests!Ask,
               ResetTests!AskAndLearn, ResetTests!Probe, ResetTests!Skip
  <1> QED BY <1>1, <1>2, <1>3, <1>4, <1>5, <1>6, <1>7, <1>8, <1>9

\* No status the reset suite expects is that of an exchange that went wrong.
LEMMA ResetStatus ==
  /\ ResetTests!SCMI_NOT_FOUND # SCMI_GENERIC_ERROR
  /\ ResetTests!SCMI_INVALID_PARAMETERS # SCMI_GENERIC_ERROR
  /\ ResetTests!SCMI_NOT_SUPPORTED # SCMI_GENERIC_ERROR
  BY DEF ResetTests!SCMI_NOT_FOUND, ResetTests!SCMI_INVALID_PARAMETERS,
         ResetTests!SCMI_NOT_SUPPORTED, SCMI_GENERIC_ERROR

\* Every test of the reset suite starts with good steps.
LEMMA ResetPrograms ==
  ASSUME table.reset.domains \in Nat, NEW t \in TestsOf("reset")
  PROVE  GoodProgram("reset", t, ProgramOf("reset", t))
  <1> DEFINE n == table.reset.domains
             P(q) == GoodProgram("reset", t, q)
  <1> USE ResetSteps, ResetStatus, ShortPrograms
  <1>1. ASSUME NEW q, P(q) PROVE P(ResetTests!IfDomains(q))
    BY <1>1 DEF ResetTests!IfDomains, ResetTests!IfSome
  <1>2. ASSUME NEW ss, ss = [i \in 1..n |-> ss[i]], \A i \in 1..n : P(ss[i])
        PROVE  P(ResetTests!Lists!FlattenSeq(ss))
    <2>1. ResetTests!Lists!FlattenSeq(ss) = Lists!FlattenSeq(ss)
      BY DEF ResetTests!Lists!FlattenSeq, Lists!FlattenSeq
    <2> QED BY <1>2, <2>1, Flattened
  <1>3. P(ResetTests!TestR001)
    BY DEF ResetTests!TestR001, ResetTests!VersionTest
  <1>4. P(ResetTests!TestR002)
    BY DEF ResetTests!TestR002
  <1>5. P(ResetTests!TestR003)
    BY DEF ResetTests!TestR003
  <1>6. P(ResetTests!TestR004)
    BY DEF ResetTests!TestR004, ResetTests!UnknownCommandTest
  <1>7. P(ResetTests!ForAttributes)
    <2> DEFINE ss == [i \in 1..n |->
                        <<[ResetTests!ResetValue(ResetTests!RESET_DOMAIN_ATTRIBUTES, <<i - 1>>,
                                                 [reserved |-> 0, name |-> i - 1])
                             EXCEPT !.learn = "domain"]>>]
    <2>1. \A i \in 1..n : P(ss[i])
      OBVIOUS
    <2>2. P(ResetTests!Lists!FlattenSeq(ss))
      BY <1>2, <2>1
    <2> QED BY <2>2 DEF ResetTests!ForAttributes, ResetTests!ForEach
  <1>8. P(ResetTests!TestR005) /\ P(ResetTests!TestR005_v3)
    BY <1>1, <1>7, ProgramsAppend DEF ResetTests!TestR005, ResetTests!TestR005_v3
  <1>9. P(ResetTests!TestR006) /\ P(ResetTests!TestR007)
    BY DEF ResetTests!TestR006, ResetTests!TestR007, ResetTests!Reset
  <1>10. P(ResetTests!TestR008)
    <2> DEFINE Sent(d, flags, e) == <<ResetTests!Reset(d, flags, ResetTests!ARCH_COLD_RESET, e)>>
               ss == [i \in 1..n |->
                        Sent(i - 1, ResetTests!INVALID_FLAG_VAL, ResetTests!SCMI_INVALID_PARAMETERS)
                        \o (IF i - 1 \in table.reset.async THEN <<>>
                            ELSE Sent(i - 1, ResetTests!AUTONOMOUS_ASYNC,
                                      ResetTests!SCMI_NOT_SUPPORTED))]
    <2>1. \A d, flags, e : e # SCMI_GENERIC_ERROR => P(Sent(d, flags, e))
      BY DEF ResetTests!Reset
    <2>2. \A i \in 1..n : P(ss[i])
      <3> HIDE DEF Sent
      <3> QED BY <2>1, ProgramsAppend
    <2>3. P(ResetTests!Lists!FlattenSeq(ss))
      BY <1>2, <2>2
    <2> QED BY <1>1, <2>3 DEF ResetTests!TestR008, ResetTests!ForEach
  <1>11. P(ResetTests!TestR009)
    <2> DEFINE ss == [i \in 1..n |->
                        <<ResetTests!Reset(i - 1, ResetTests!EXPLICIT_SYNC_DEASSERT_RESET,
                                           ResetTests!RESET_ARCHITECTURAL_INVALID_ID,
                                           ResetTests!SCMI_INVALID_PARAMETERS)>>]
    <2>1. \A i \in 1..n : P(ss[i])
      BY DEF ResetTests!Reset
    <2>2. P(ResetTests!Lists!FlattenSeq(ss))
      BY <1>2, <2>1
    <2> QED BY <1>1, <2>2 DEF ResetTests!TestR009, ResetTests!ForEach
  <1>12. P(ResetTests!TestR010)
    BY ProgramsAppend DEF ResetTests!TestR010, ResetTests!ProbeNotify
  <1>13. P(ResetTests!TestR011)
    <2> DEFINE ss == [i \in 1..n |->
                        <<ResetTests!ResetAsk(ResetTests!RESET_PROTOCOL_NOTIFY,
                                              <<i - 1, ResetTests!RESET_INVALID_NOTIFY_ENABLE>>,
                                              ResetTests!SCMI_INVALID_PARAMETERS)>>]
    <2>1. \A i \in 1..n : P(ss[i])
      OBVIOUS
    <2>2. P(ResetTests!Lists!FlattenSeq(ss))
      BY <1>2, <2>1
    <2>3. P(ResetTests!ProbeNotify)
      BY DEF ResetTests!ProbeNotify
    <2> QED BY <1>1, <2>2, <2>3, ProgramsAppend DEF ResetTests!TestR011, ResetTests!ForEach
  <1>14. ProgramOf("reset", t) \in
          {ResetTests!TestR001, ResetTests!TestR002, ResetTests!TestR003, ResetTests!TestR004,
           ResetTests!TestR005, ResetTests!TestR005_v3, ResetTests!TestR006, ResetTests!TestR007,
           ResetTests!TestR008, ResetTests!TestR009, ResetTests!TestR010, ResetTests!TestR011}
    BY DEF TestsOf, ProgramOf, ResetTests!Program
  <1> QED BY <1>3, <1>4, <1>5, <1>6, <1>8, <1>9, <1>10, <1>11, <1>12, <1>13, <1>14

\* The version test schedules tests of the reset suite only.
LEMMA ResetSchedule == \A v : ScheduleOf("reset", v) \in Seq(TestsOf("reset"))
  <1> DEFINE T == TestsOf("reset")
  <1>1. {"r002", "r003", "r004", "r005", "r006", "r007", "r008", "r009", "r010", "r011",
         "r005_v3"} \subseteq T
    BY DEF TestsOf
  <1> HIDE DEF T
  <1>2. <<"r002", "r003", "r004", "r005", "r006", "r007", "r008", "r009", "r010", "r011">>
          \in Seq(T)
    BY <1>1
  <1>3. <<"r005_v3">> \in Seq(T) /\ <<>> \in Seq(T)
    BY <1>1
  <1>4. \A v : ResetTests!Schedule(v) \in Seq(T)
    BY <1>2, <1>3, ConcatProperties DEF ResetTests!Schedule
  <1> QED BY <1>4 DEF ScheduleOf, T

\* Good steps only are added for an answer.
LEMMA ResetMore == \A t, s, v : GoodProgram("reset", t, MoreOf("reset", s, v))
  BY ShortPrograms DEF MoreOf, ResetTests!More

-----------------------------------------------------------------------------
(* Voltage domains.                                                        *)

\* The steps the voltage suite is made of are good.
LEMMA VoltageSteps ==
  ASSUME NEW t
  PROVE
  /\ \A m, a, e : e # SCMI_GENERIC_ERROR
                  /\ (e # SCMI_SUCCESS \/ m \notin VoltageMovers \/ t \in Moving) =>
       /\ Good("voltage", t, VoltageTests!Voltage(m, a, e))
       /\ Good("voltage", t, VoltageTests!Ask(VoltageTests!PROTOCOL_VOLTAGE, m, a, e))
  /\ \A m, a, w : m \notin VoltageMovers =>
       /\ Good("voltage", t, VoltageTests!VoltageValue(m, a, w))
       /\ Good("voltage", t, [VoltageTests!VoltageValue(m, a, w) EXCEPT !.learn = "attributes"])
       /\ Good("voltage", t, [VoltageTests!VoltageValue(m, a, w) EXCEPT !.learn = "config"])
  /\ \A m, a : m \notin VoltageMovers =>
       /\ Good("voltage", t,
               VoltageTests!AskAndLearn(VoltageTests!PROTOCOL_VOLTAGE, m, a, "version"))
       /\ Good("voltage", t, VoltageTests!VoltageLearn(m, a, "operational"))
  /\ \A a : t \in Moving =>
       Good("voltage", t, VoltageTests!VoltageLearn(VoltageTests!VOLTAGE_LEVEL_GET, a, "default"))
  /\ \A m, a, x : t \in Moving /\ m \notin VoltageMovers =>
       Good("voltage", t, [VoltageTests!VoltageLearn(m, a, "start") EXCEPT !.seen = x])
  /\ Good("voltage", t, VoltageTests!Skip) /\ Good("voltage", t, VoltageTests!Fail)
  <1> USE Protocols DEF Good, Teaches, Allowed, Mover, BaseMovers, PerformanceMovers, ClockMovers,
          SensorMovers, VoltageMovers, Changes, PROTOCOL_BASE, PROTOCOL_PERFORMANCE,
          PROTOCOL_CLOCK, PROTOCOL_SENSOR, PROTOCOL_VOLTAGE, BASE_SET_DEVICE_PERMISSIONS,
          BASE_SET_PROTOCOL_PERMISSIONS, BASE_RESET_AGENT_CONFIGURATION, VoltageTests!Voltage,
          VoltageTests!VoltageValue, VoltageTests!VoltageLearn, VoltageTests!Ask,
          VoltageTests!AskValue, VoltageTests!AskAndLearn, VoltageTests!Skip, VoltageTests!Fail,
          VoltageTests!SCMI_SUCCESS, SCMI_SUCCESS, SCMI_GENERIC_ERROR,
          VoltageTests!PROTOCOL_VOLTAGE, VoltageTests!PROTOCOL_BASE,
          VoltageTests!PROTOCOL_VERSION, VOLTAGE_CONFIG_SET, VOLTAGE_LEVEL_SET, VOLTAGE_LEVEL_GET,
          VoltageTests!VOLTAGE_LEVEL_GET
  <1>1. \A m, a, e : e # SCMI_GENERIC_ERROR
                     /\ (e # SCMI_SUCCESS \/ m \notin VoltageMovers \/ t \in Moving) =>
          /\ Good("voltage", t, VoltageTests!Voltage(m, a, e))
          /\ Good("voltage", t, VoltageTests!Ask(VoltageTests!PROTOCOL_VOLTAGE, m, a, e))
    OBVIOUS
  <1>2. \A m, a, w : m \notin VoltageMovers =>
          /\ Good("voltage", t, VoltageTests!VoltageValue(m, a, w))
          /\ Good("voltage", t, [VoltageTests!VoltageValue(m, a, w) EXCEPT !.learn = "attributes"])
          /\ Good("voltage", t, [VoltageTests!VoltageValue(m, a, w) EXCEPT !.learn = "config"])
    OBVIOUS
  <1>3. \A m, a : m \notin VoltageMovers =>
          /\ Good("voltage", t,
                  VoltageTests!AskAndLearn(VoltageTests!PROTOCOL_VOLTAGE, m, a, "version"))
          /\ Good("voltage", t, VoltageTests!VoltageLearn(m, a, "operational"))
    OBVIOUS
  <1>4. \A a : t \in Moving =>
          Good("voltage", t,
               VoltageTests!VoltageLearn(VoltageTests!VOLTAGE_LEVEL_GET, a, "default"))
    OBVIOUS
  <1>5. \A m, a, x : t \in Moving /\ m \notin VoltageMovers =>
          Good("voltage", t, [VoltageTests!VoltageLearn(m, a, "start") EXCEPT !.seen = x])
    OBVIOUS
  <1>6. Good("voltage", t, VoltageTests!Skip) /\ Good("voltage", t, VoltageTests!Fail)
    OBVIOUS
  <1> HIDE DEF Good, VoltageTests!Voltage, VoltageTests!VoltageValue, VoltageTests!VoltageLearn,
               VoltageTests!Ask, VoltageTests!AskAndLearn, VoltageTests!Skip, VoltageTests!Fail
  <1> QED BY <1>1, <1>2, <1>3, <1>4, <1>5, <1>6

\* A page of levels is asked for after levels the platform has listed.
LEMMA VoltagePage ==
  ASSUME NEW t, NEW d, NEW index \in Nat, NEW seen \in Seq(Nat), Listed(d, seen)
  PROVE  Good("voltage", t, VoltageTests!LevelsFrom(d, index, seen))
  <1> DEFINE s == VoltageTests!LevelsFrom(d, index, seen)
  <1>1. /\ s.kind = "check" /\ s.proto = PROTOCOL_VOLTAGE /\ s.msg = VOLTAGE_DESCRIBE_LEVELS
        /\ s.args = <<d, index>> /\ s.seen = seen /\ s.expect = SCMI_SUCCESS /\ s.learn = "levels"
    BY DEF VoltageTests!LevelsFrom, VoltageTests!VoltageValue, VoltageTests!AskValue,
       VoltageTests!Ask, VoltageTests!PROTOCOL_VOLTAGE, PROTOCOL_VOLTAGE,
       VoltageTests!SCMI_SUCCESS, SCMI_SUCCESS, VoltageTests!VOLTAGE_DESCRIBE_LEVELS,
       VOLTAGE_DESCRIBE_LEVELS
  <1> HIDE DEF s
  <1>2. ~Mover(s)
    BY <1>1 DEF Mover, VoltageMovers, PROTOCOL_BASE, PROTOCOL_PERFORMANCE, PROTOCOL_CLOCK,
       PROTOCOL_SENSOR, PROTOCOL_VOLTAGE, VOLTAGE_DESCRIBE_LEVELS, VOLTAGE_CONFIG_SET,
       VOLTAGE_LEVEL_SET
  <1>3. Allowed(t, s)
    BY <1>1, <1>2 DEF Allowed, Changes, PROTOCOL_BASE, PROTOCOL_VOLTAGE
  <1>4. Good("voltage", t, s)
    BY <1>1, <1>3, Protocols DEF Good, Teaches, SCMI_SUCCESS, SCMI_GENERIC_ERROR,
       PROTOCOL_CLOCK, PROTOCOL_VOLTAGE
  <1> QED BY <1>4 DEF s

\* No status the voltage suite expects is that of an exchange that went wrong.
LEMMA VoltageStatus ==
  LET errors == {VoltageTests!SCMI_NOT_FOUND, VoltageTests!SCMI_INVALID_PARAMETERS,
                 VoltageTests!SCMI_OUT_OF_RANGE}
  IN /\ SCMI_SUCCESS \notin errors /\ SCMI_GENERIC_ERROR \notin errors
     /\ VoltageTests!SCMI_SUCCESS # SCMI_GENERIC_ERROR
  BY DEF VoltageTests!SCMI_SUCCESS, VoltageTests!SCMI_NOT_FOUND,
         VoltageTests!SCMI_INVALID_PARAMETERS, VoltageTests!SCMI_OUT_OF_RANGE,
         SCMI_GENERIC_ERROR, SCMI_SUCCESS

\* The other commands of the voltage suite change no setting.
LEMMA VoltageCommands ==
  VoltageMovers \cap
    {VoltageTests!PROTOCOL_VERSION, VoltageTests!PROTOCOL_ATTRIBUTES,
     VoltageTests!PROTOCOL_MESSAGE_ATTRIBUTES, VoltageTests!VOLTAGE_DOMAIN_ATTRIBUTES,
     VoltageTests!VOLTAGE_DESCRIBE_LEVELS, VoltageTests!VOLTAGE_CONFIG_GET,
     VoltageTests!VOLTAGE_LEVEL_GET, VoltageTests!VOLTAGE_INVALID_COMMAND} = {}
  BY DEF VoltageMovers, VOLTAGE_CONFIG_SET, VOLTAGE_LEVEL_SET, VoltageTests!PROTOCOL_VERSION,
     VoltageTests!PROTOCOL_ATTRIBUTES, VoltageTests!PROTOCOL_MESSAGE_ATTRIBUTES,
     VoltageTests!VOLTAGE_DOMAIN_ATTRIBUTES, VoltageTests!VOLTAGE_DESCRIBE_LEVELS,
     VoltageTests!VOLTAGE_CONFIG_GET, VoltageTests!VOLTAGE_LEVEL_GET,
     VoltageTests!VOLTAGE_INVALID_COMMAND

\* Every test of the voltage suite starts with good steps.
LEMMA VoltagePrograms ==
  ASSUME table.voltage.domains \in Nat, NEW t \in TestsOf("voltage")
  PROVE  GoodProgram("voltage", t, ProgramOf("voltage", t))
  <1> DEFINE n == table.voltage.domains
             P(q) == GoodProgram("voltage", t, q)
             Flat(ss) == VoltageTests!Lists!FlattenSeq(ss)
  <1> USE VoltageSteps, VoltageStatus, VoltageCommands, ShortPrograms
  <1>1. ASSUME NEW q, P(q) PROVE P(VoltageTests!IfDomains(q))
    BY <1>1 DEF VoltageTests!IfDomains, VoltageTests!IfSome
  <1>2. ASSUME NEW ss, ss = [i \in 1..n |-> ss[i]], \A i \in 1..n : P(ss[i])
        PROVE  P(Flat(ss)) /\ P(VoltageTests!IfDomains(Flat(ss)))
    <2>1. VoltageTests!Lists!FlattenSeq(ss) = Lists!FlattenSeq(ss)
      BY DEF VoltageTests!Lists!FlattenSeq, Lists!FlattenSeq
    <2>2. P(Flat(ss))
      BY <1>2, <2>1, Flattened
    <2> QED BY <1>1, <2>2
  <1>3. P(VoltageTests!TestV001)
    BY DEF VoltageTests!TestV001, VoltageTests!VersionTest
  <1>4. P(VoltageTests!TestV002) /\ P(VoltageTests!TestV003)
    BY DEF VoltageTests!TestV002, VoltageTests!TestV003
  <1>5. P(VoltageTests!TestV004)
    BY DEF VoltageTests!TestV004, VoltageTests!UnknownCommandTest
  <1>6. P(VoltageTests!TestV005)
    <2> DEFINE ss == [i \in 1..n |->
                        <<VoltageTests!VoltageValue(VoltageTests!VOLTAGE_DOMAIN_ATTRIBUTES,
                                                    <<i - 1>>, [reserved |-> 0, name |-> i - 1])>>]
    <2>1. \A i \in 1..n : P(ss[i])
      OBVIOUS
    <2>2. P(VoltageTests!IfDomains(Flat(ss)))
      BY <1>2, <2>1
    <2> QED BY <2>2 DEF VoltageTests!TestV005, VoltageTests!ForEach
  <1>7. P(VoltageTests!TestV006) /\ P(VoltageTests!TestV008)
    BY DEF VoltageTests!TestV006, VoltageTests!TestV008
  <1>8. P(VoltageTests!TestV007)
    <2> DEFINE ss == [i \in 1..n |-> <<VoltageTests!LevelsFrom(i - 1, 0, <<>>)>>]
    <2>1. ASSUME NEW d PROVE Good("voltage", t, VoltageTests!LevelsFrom(d, 0, <<>>))
      <3>1. <<>> \in Seq(Nat) /\ Listed(d, <<>>)
        BY DEF Listed
      <3> QED BY <3>1, VoltagePage
    <2>2. \A i \in 1..n : P(ss[i])
      BY <2>1
    <2>3. P(VoltageTests!IfDomains(Flat(ss)))
      BY <1>2, <2>2
    <2> QED BY <2>3 DEF VoltageTests!TestV007, VoltageTests!ForEach
  <1>9. P(VoltageTests!TestV010) /\ (t = "v009" => P(VoltageTests!TestV009))
    BY DEF VoltageTests!TestV009, VoltageTests!TestV010, VoltageTests!ConfigSet, Moving
  <1>10. P(VoltageTests!TestV011)
    <2> DEFINE ss == [i \in 1..n |->
                        <<[VoltageTests!VoltageValue(VoltageTests!VOLTAGE_CONFIG_GET, <<i - 1>>,
                                                     [reserved |-> 0]) EXCEPT !.learn = "config"]>>]
               last1 == <<VoltageTests!Voltage(VoltageTests!VOLTAGE_CONFIG_GET,
                            <<VoltageTests!InvalidDomain + 1>>, VoltageTests!SCMI_NOT_FOUND)>>
    <2>1. \A i \in 1..n : P(ss[i])
      OBVIOUS
    <2>2. P(Flat(ss)) /\ P(last1)
      BY <1>2, <2>1
    <2>3. P(VoltageTests!IfDomains(Flat(ss) \o last1))
      BY <1>1, <2>2, ProgramsAppend
    <2> QED BY <2>3 DEF VoltageTests!TestV011, VoltageTests!ForEach
  <1>11. ASSUME t = "v012" PROVE P(VoltageTests!TestV012)
    <2> DEFINE ss == [i \in 1..n |->
                        <<VoltageTests!VoltageLearn(VoltageTests!VOLTAGE_LEVEL_GET, <<i - 1>>,
                                                    "default")>>]
    <2>1. \A i \in 1..n : P(ss[i])
      BY <1>11 DEF Moving, Restoring
    <2>2. P(VoltageTests!IfDomains(Flat(ss)))
      BY <1>2, <2>1
    <2> QED BY <2>2 DEF VoltageTests!TestV012, VoltageTests!ForEach
  <1>12. P(VoltageTests!TestV013)
    BY <1>1 DEF VoltageTests!TestV013, VoltageTests!LevelSet
  <1>13. P(VoltageTests!TestV014)
    <2> DEFINE d1(i) == VoltageTests!Minus(VoltageTests!Start(i - 1), VoltageTests!StepSize(i - 1))
               ss == [i \in 1..n |->
                        <<VoltageTests!LevelSet(i - 1, 0, d1(i),
                                                VoltageTests!SCMI_INVALID_PARAMETERS),
                          VoltageTests!LevelSet(i - 1, 1, VoltageTests!Start(i - 1),
                                                VoltageTests!SCMI_INVALID_PARAMETERS)>>]
    <2>1. \A i \in 1..n : P(ss[i])
      BY DEF VoltageTests!LevelSet
    <2>2. P(VoltageTests!IfDomains(Flat(ss)))
      BY <1>2, <2>1
    <2> QED BY <2>2 DEF VoltageTests!TestV014, VoltageTests!ForEach
  <1>14. P(VoltageTests!TestV015)
    <2> DEFINE ss == [i \in 1..n |->
                        <<VoltageTests!VoltageLearn(VoltageTests!VOLTAGE_LEVEL_GET, <<i - 1>>,
                                                    "operational")>>]
               last1 == <<VoltageTests!Voltage(VoltageTests!VOLTAGE_LEVEL_GET,
                            <<VoltageTests!InvalidDomain>>, VoltageTests!SCMI_NOT_FOUND)>>
    <2>1. \A i \in 1..n : P(ss[i])
      OBVIOUS
    <2>2. P(Flat(ss)) /\ P(last1)
      BY <1>2, <2>1
    <2>3. P(VoltageTests!IfDomains(Flat(ss) \o last1))
      BY <1>1, <2>2, ProgramsAppend
    <2> QED BY <2>3 DEF VoltageTests!TestV015, VoltageTests!ForEach
  <1>15. \/ ProgramOf("voltage", t) \in
              {VoltageTests!TestV001, VoltageTests!TestV002, VoltageTests!TestV003,
               VoltageTests!TestV004, VoltageTests!TestV005, VoltageTests!TestV006,
               VoltageTests!TestV007, VoltageTests!TestV008, VoltageTests!TestV010,
               VoltageTests!TestV011, VoltageTests!TestV013, VoltageTests!TestV014,
               VoltageTests!TestV015}
         \/ t = "v009" /\ ProgramOf("voltage", t) = VoltageTests!TestV009
         \/ t = "v012" /\ ProgramOf("voltage", t) = VoltageTests!TestV012
    BY DEF TestsOf, ProgramOf, VoltageTests!Program
  <1> HIDE DEF P
  <1> QED BY <1>3, <1>4, <1>5, <1>6, <1>7, <1>8, <1>9, <1>10, <1>11, <1>12, <1>13, <1>14, <1>15
          DEF P

\* The version test schedules tests of the voltage suite only.
LEMMA VoltageSchedule == \A v : ScheduleOf("voltage", v) \in Seq(TestsOf("voltage"))
  <1> DEFINE T == TestsOf("voltage")
  <1>1. {"v002", "v003", "v004", "v005", "v006", "v007", "v008", "v009", "v010", "v011", "v012",
         "v013", "v014", "v015"} \subseteq T
    BY DEF TestsOf
  <1> HIDE DEF T
  <1>2. <<"v002", "v003", "v004", "v005", "v006", "v007", "v008", "v009", "v010", "v011", "v012",
          "v013", "v014", "v015">> \in Seq(T)
    BY <1>1
  <1> QED BY <1>2 DEF ScheduleOf, VoltageTests!Schedule, T

\* Good steps only are added for an answer, if the platform lists the levels
\* it is asked for.
LEMMA VoltageMore ==
  ASSUME NEW t, NEW s, NEW v, Good("voltage", t, s),
         s.learn = "levels" => /\ v.levels \in Seq(Nat) /\ Listed(s.args[1], v.levels)
                               /\ v.remaining \in Int
  PROVE  GoodProgram("voltage", t, MoreOf("voltage", s, v))
  <1> DEFINE P(q) == GoodProgram("voltage", t, q)
             d == s.args[1]
  <1> USE VoltageSteps, VoltageStatus, VoltageCommands, ShortPrograms
  <1>1. ASSUME s.learn = "levels" PROVE P(VoltageTests!MoreLevels(s, v))
    <2>1. s.args[2] \in Nat /\ s.seen \in Seq(Nat) /\ Listed(d, s.seen)
      BY <1>1 DEF Good, Teaches
    <2>2. s.seen \o v.levels \in Seq(Nat)
      BY <1>1, <2>1, ConcatProperties
    <2>3. Listed(d, s.seen \o v.levels)
      BY <1>1, <2>1, ListedBoth
    <2>4. ASSUME v.remaining > 0
          PROVE  Good("voltage", t,
                      VoltageTests!LevelsFrom(d, s.args[2] + v.remaining, s.seen \o v.levels))
      <3>1. s.args[2] + v.remaining \in Nat
        BY <1>1, <2>1, <2>4
      <3> HIDE DEF d
      <3> QED BY <3>1, <2>2, <2>3, VoltagePage
    <2> QED BY <2>4 DEF VoltageTests!MoreLevels
  <1>2. s.learn \in Changes => t \in Moving
    BY DEF Good, Allowed
  <1>3. ASSUME s.learn = "default" PROVE P(<<VoltageTests!TryStart(d, v.level)>>)
    BY <1>2, <1>3 DEF VoltageTests!TryStart, Changes
  <1>4. ASSUME s.learn = "start" PROVE P(VoltageTests!ChangeLevel(d, s.seen[1], v.levels[1]))
    BY <1>2, <1>4 DEF VoltageTests!ChangeLevel, VoltageTests!LevelSet, Changes
  <1> HIDE DEF d
  <1>5. \/ s.learn = "levels" /\ MoreOf("voltage", s, v) = VoltageTests!MoreLevels(s, v)
        \/ s.learn = "default" /\ MoreOf("voltage", s, v) = <<VoltageTests!TryStart(d, v.level)>>
        \/ /\ s.learn = "start"
           /\ MoreOf("voltage", s, v) = VoltageTests!ChangeLevel(d, s.seen[1], v.levels[1])
        \/ MoreOf("voltage", s, v) = <<>>
    BY DEF MoreOf, VoltageTests!More, d
  <1>6. P(<<>>)
    OBVIOUS
  <1> QED BY <1>1, <1>3, <1>4, <1>5, <1>6

=============================================================================
