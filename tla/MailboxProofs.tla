--------------------------- MODULE MailboxProofs ----------------------------
(* Safety of Mailbox for every set of commands, parameters and statuses,   *)
(* every number of calls and every size of the descriptor table.           *)
EXTENDS Mailbox, FiniteSets, FiniteSetTheorems, TLAPS

-----------------------------------------------------------------------------
(* The inductive invariant.                                                *)

\* What kind of message is in the receive buffer, and what was read last.
RxIs(type) == rx # None /\ rx.type = type
GotIs(type) == out.from # None /\ out.from.type = type

\* Who wrote what, and what the outputs say of the message they came from.
Provenance ==
  /\ \A i \in DOMAIN work : /\ work[i].src = "agent" /\ work[i].type = "command"
                            /\ work[i].words # <<>>
  /\ tx # None => tx.src = "agent" /\ tx.type = "command" /\ tx.words # <<>>
  /\ rx # None => rx.src = "platform"
  /\ \A m \in owed : m.src = "platform" /\ m.type = "delayed"
  /\ RxIs("command") => rx.words # <<>>
  /\ out.from = None => out.hdr = None /\ out.status = SCMI_GENERIC_ERROR
  /\ out.from # None => out.from.src = "platform" /\ out.hdr = HeaderOf(out.from)
  /\ GotIs("command") /\ call.via = "response"
       => out.from.words # <<>> /\ out.status = out.from.words[1]
  /\ pc # "written" => buf = None

\* Between the write of the command and the doorbell the message file, if it
\* could be opened, holds the command: the doorbell sends something well typed.
Loaded == pc = "written" /\ FdFree => tx # None

\* What the agent's step in progress has recorded about its call.
Progress ==
  /\ (pc = "idle") <=> (call.op = "none")
  /\ (call.op = "none") <=> (call = NoCall)
  /\ (call.op = "send") <=> call.check \in {"full", "status", "probe", "refute"}
  /\ call.op = "send" => call.via = "response"
  /\ call.op = "send" => call.about = seq
  /\ call.check \in {"full", "status"} => call.expect \in Status
  /\ call.op # "none" => call.cmd \in Cmd
  /\ pc = "written" => call.op = "send"
  /\ Loaded /\ (pc = "written" /\ FdFree => tx.seq = seq /\ tx.cmd = call.cmd)
  /\ pc \in {"idle", "written", "polling"} => out = VAL_INIT_TEST_PARAM
  /\ call.op = "response" => awaiting # None /\ call.check = "wait"
  /\ call.op = "notification" => call.check = "wait" /\ awaiting = None
  /\ call.op = "send" => awaiting = None
  /\ call.check = "probe" => call.cmd \in probed
  /\ call.check = "full" => call.cmd \notin probed
  /\ call.check = "refute" => call.cmd \in RefuteCmd
  /\ call.check = "status" => InBase

\* Commands are answered in order and once.
Order ==
  /\ \A i \in DOMAIN work : work[i].seq <= seq
  /\ \A i, j \in DOMAIN work : i < j => work[i].seq < work[j].seq
  /\ RxIs("command") => rx.seq <= seq /\ \A i \in DOMAIN work : rx.seq < work[i].seq
  /\ GotIs("command") =>
       /\ out.from.seq <= seq
       /\ \A i \in DOMAIN work : out.from.seq < work[i].seq
       /\ RxIs("command") => out.from.seq < rx.seq
  /\ pc = "written" => /\ \A i \in DOMAIN work : work[i].seq < seq
                       /\ RxIs("command") => rx.seq < seq

\* One delayed response per accepted command, after its answer.
DelayedOnce ==
  /\ \A m \in owed : /\ m.seq <= seq
                     /\ \A i \in DOMAIN work : m.seq < work[i].seq
                     /\ RxIs("command") /\ rx.seq = m.seq => rx.words[1] = SCMI_SUCCESS
                     /\ GotIs("command") /\ out.from.seq = m.seq
                          => out.from.words[1] = SCMI_SUCCESS
                     /\ RxIs("delayed") => rx.seq # m.seq
                     /\ GotIs("delayed") => out.from.seq # m.seq
  /\ \A m, n \in owed : m.seq = n.seq => m = n
  /\ RxIs("delayed") =>
       /\ rx.seq <= seq
       /\ \A i \in DOMAIN work : rx.seq < work[i].seq
       /\ GotIs("command") /\ out.from.seq = rx.seq => out.from.words[1] = SCMI_SUCCESS
       /\ GotIs("delayed") => out.from.seq # rx.seq
  /\ GotIs("delayed") => \A i \in DOMAIN work : out.from.seq < work[i].seq
  /\ GotIs("delayed") /\ RxIs("command") => (out.from.seq # rx.seq \/ rx.words[1] = SCMI_SUCCESS)
  /\ pc = "written" => /\ \A m \in owed : m.seq < seq
                       /\ RxIs("delayed") => rx.seq < seq

\* Nothing asynchronous happens before the base suite is left.
BaseQuiet ==
  InBase => /\ owed = {} /\ subs = {} /\ listening = {} /\ awaiting = None
            /\ rx # None => rx.type = "command"
            /\ out.from # None => out.from.type = "command"
            /\ \A i \in DOMAIN work : work[i].cmd \notin AsyncCmd \cup NotifyCmd
            /\ call.cmd \notin AsyncCmd \cup NotifyCmd
            /\ doubted = {} /\ call.check # "refute"

\* The calls, as <<number, command>>, that an answer still on its way, or just
\* read, belongs to; and those a delayed response belongs to.
Asked ==
  {<<work[i].seq, work[i].cmd>> : i \in DOMAIN work}
    \cup {<<m.seq, m.cmd>> : m \in {n \in {rx, out.from} : n # None /\ n.type = "command"}}

Promised ==
  {<<m.seq, m.cmd>> :
     m \in owed \cup {n \in {rx, out.from} : n # None /\ n.type = "delayed"}}

\* As long as no check has failed, an answer on its way is to the command in
\* progress, to a probe or to a command that is doubted, and to the first alone
\* when a check that does not look at the header is under way or may start.
Own(a) == call.op = "send" /\ a = <<call.about, call.cmd>>

OwnDelayed(a) ==
  /\ a[2] \in AsyncCmd
  /\ \/ pc = "idle" /\ awaiting # None /\ a[1] = seq
     \/ call.op = "response" /\ a[1] = call.about
     \/ call.check = "full" /\ a = <<call.about, call.cmd>>

MayTrustStatus == (calm /\ InBase /\ pc = "idle") \/ call.check = "status"

Synchronised ==
  ~failed =>
    /\ \A a \in Asked : a[2] \in probed \cup doubted \/ Own(a)
    /\ \A a \in Promised : OwnDelayed(a)
    /\ MayTrustStatus => \A a \in Asked : Own(a)

\* Two descriptors for every command that has passed and for every one whose
\* answer is on its way, one more once a command that can be rung is written.
Spent == 2 * (passes + Cardinality(Asked))

Paid ==
  /\ IsFiniteSet(Asked)
  /\ Spent <= fds
  /\ pc = "written" /\ FdFree => Spent + 1 <= fds

IInv ==
  /\ TypeOK /\ Provenance /\ Progress /\ Order /\ DelayedOnce /\ BaseQuiet
  /\ Synchronised /\ Paid
  /\ TrustedAnswers /\ GenuineAnswers

-----------------------------------------------------------------------------
(* Typing.                                                                 *)

LEMMA InitTypeOK == Init => TypeOK
  <1> SUFFICES ASSUME Init PROVE TypeOK
    OBVIOUS
  <1>1. call \in Call /\ out \in Outputs
    BY DEF Init, NoCall, VAL_INIT_TEST_PARAM, Call, Outputs, SCMI_SUCCESS,
           SCMI_GENERIC_ERROR
  <1>2. accepted \in [op: {"none", "send", "response", "notification"},
                      check: {"none", "full", "status", "wait"}, cmd: Cmd \cup {None},
                      about: Nat, from: Message \cup {None}]
    BY DEF Init
  <1>3. work \in Seq(Message)
    BY DEF Init
  <1>4. calm \in BOOLEAN /\ failed \in BOOLEAN /\ doubted \subseteq RefuteCmd
    BY DEF Init
  <1>5. owed \subseteq Message /\ subs \subseteq Cmd /\ probed \subseteq ProbeCmd
        /\ listening \subseteq NotifyCmd
    BY DEF Init
  <1>6. QED
    BY <1>1, <1>2, <1>3, <1>4, <1>5, BoundAssumption DEF Init, TypeOK, NO_ERROR

\* A command sent with a typed command, status and parameter.
LEMMA SendCommandType ==
  ASSUME TypeOK, NEW c \in Cmd, NEW chk \in {"full", "status", "probe", "refute"},
         NEW e \in Int, NEW p \in Param, SendCommand(c, chk, e, p)
  PROVE  /\ pc' \in {"written", "returned"} /\ call' \in Call /\ seq' \in Nat
         /\ fds' \in Nat /\ fds' <= MaxFds
         /\ buf' \in Message \cup {None} /\ ret' \in {NO_ERROR, ERROR} /\ out' \in Outputs
         /\ tx' \in Message \cup {None} /\ Loaded'
  <1> DEFINE m == [src |-> "agent", type |-> "command", cmd |-> c, words |-> <<p>>,
                   seq |-> seq + 1]
  <1> USE WordAssumption, BoundAssumption DEF TypeOK
  <1>1. m \in Message
    BY DEF Message, MsgType
  <1>2. fds' \in Nat /\ fds' <= MaxFds
    BY DEF SendCommand, OpenFile, FdFree
  <1>3. call' \in Call /\ out' \in Outputs /\ seq' \in Nat
    BY DEF SendCommand, Call, Outputs, VAL_INIT_TEST_PARAM, SCMI_GENERIC_ERROR, FdFree
  <1> HIDE DEF m
  <1>4. buf' \in Message \cup {None} /\ tx' \in Message \cup {None}
    BY <1>1 DEF SendCommand, m
  <1>5. Loaded'
    <2>1. CASE FdFree /\ pc' = "written"
      BY <1>1, <2>1, NoneAssumption DEF SendCommand, Loaded, m
    <2>2. CASE ~FdFree
      BY <2>2 DEF SendCommand, Loaded, FdFree, OpenFile
    <2>3. QED
      BY <2>1, <2>2 DEF Loaded
  <1>6. QED
    BY <1>2, <1>3, <1>4, <1>5 DEF SendCommand, ERROR, NO_ERROR

LEMMA WaitForType ==
  ASSUME TypeOK, NEW op \in {"response", "notification"},
         NEW via \in {"response", "notification"}, NEW c \in Cmd, NEW p \in Int,
         WaitFor(op, via, c, p)
  PROVE  TypeOK'
  <1> USE WordAssumption, BoundAssumption
  <1>1. call' \in Call /\ out' \in Outputs /\ seq' \in Nat
    BY DEF TypeOK, WaitFor, Call, Outputs, VAL_INIT_TEST_PARAM, SCMI_GENERIC_ERROR,
           SCMI_SUCCESS, FdFree
  <1>2. fds' \in Nat /\ fds' <= MaxFds
    BY DEF TypeOK, WaitFor, OpenFile, FdFree
  <1>3. QED
    BY <1>1, <1>2 DEF TypeOK, WaitFor, ERROR, channelVars, platformVars, testVars

\* What reading a message, or nothing, leaves in the outputs.
LEMMA ParseType ==
  ASSUME NEW m \in Message \cup {None}, NEW o \in Outputs
  PROVE  ParseResponse(m, o) \in Outputs /\ ParseNotification(m, o) \in Outputs
  <1>1. CASE m = None
    BY <1>1 DEF ParseResponse, ParseNotification
  <1>2. CASE m # None
    <2>1. m \in Message /\ HeaderOf(m) \in Header
      BY <1>2 DEF Message, HeaderOf, Header
    <2>2. m.words \in Seq(Int)
      BY <2>1 DEF Message
    <2>3. Len(m.words) >= 1 => m.words[1] \in Int /\ Tail(m.words) \in Seq(Int)
      BY <2>2
    <2>4. QED
      BY <1>2, <2>1, <2>2, <2>3 DEF ParseResponse, ParseNotification, Outputs
  <1>3. QED
    BY <1>1, <1>2

LEMMA LeaveCallType ==
  ASSUME LeaveCall
  PROVE  pc' = "idle" /\ call' \in Call /\ out' \in Outputs
  BY DEF LeaveCall, NoCall, VAL_INIT_TEST_PARAM, Call, Outputs, SCMI_SUCCESS,
         SCMI_GENERIC_ERROR

LEMMA TypeStep == TypeOK /\ Progress /\ [Next]_vars => TypeOK'
  <1> SUFFICES ASSUME TypeOK, Progress, Loaded, [Next]_vars PROVE TypeOK'
    BY DEF Progress
  <1> USE CmdAssumption, WordAssumption, BoundAssumption
  <1>1. CASE StartFullCheck
    <2>1. PICK c \in Cmd \ probed, e \in Status, p \in Param :
            SendCommand(c, "full", e, p) /\ UNCHANGED probed
      BY <1>1 DEF StartFullCheck
    <2>2. QED
      BY <2>1, SendCommandType DEF TypeOK, SendCommand, platformVars
  <1>2. CASE StartProbe
    <2>1. PICK c \in ProbeCmd, p \in Param :
            SendCommand(c, "probe", SCMI_NOT_FOUND, p) /\ probed' = probed \cup {c}
      BY <1>2 DEF StartProbe
    <2>2. SCMI_NOT_FOUND \in Int
      BY DEF SCMI_NOT_FOUND
    <2>3. QED
      BY <2>1, <2>2, SendCommandType DEF TypeOK, SendCommand, platformVars
  <1>3. CASE StartStatusCheck
    <2>1. PICK c \in Cmd \ (ProbeCmd \cup AsyncCmd \cup NotifyCmd), e \in Status,
               p \in Param : SendCommand(c, "status", e, p) /\ UNCHANGED probed
      BY <1>3 DEF StartStatusCheck
    <2>2. QED
      BY <2>1, SendCommandType DEF TypeOK, SendCommand, platformVars
  <1>4. CASE StartDelayedCheck
    <2>1. PICK via \in {"response", "notification"} :
            WaitFor("response", via, awaiting, awaitedId)
      BY <1>4 DEF StartDelayedCheck
    <2>2. awaiting \in Cmd /\ awaitedId \in Int
      BY <1>4 DEF StartDelayedCheck, TypeOK
    <2>3. QED
      BY <2>1, <2>2, WaitForType
  <1>5. CASE StartNotificationCheck
    BY <1>5, WaitForType DEF StartNotificationCheck, TypeOK
  <1>18. CASE StartRefute
    <2>1. PICK c \in RefuteCmd, p \in Param :
            SendCommand(c, "refute", SCMI_NOT_FOUND, p) /\ UNCHANGED probed
      BY <1>18 DEF StartRefute
    <2>2. SCMI_NOT_FOUND \in Int
      BY DEF SCMI_NOT_FOUND
    <2>3. QED
      BY <2>1, <2>2, SendCommandType DEF TypeOK, SendCommand, platformVars
  <1>6. CASE RingDoorbell
    <2>1. FdFree => tx \in Message
      BY <1>6 DEF TypeOK, Loaded, RingDoorbell
    <2>2. work' \in Seq(Message)
      BY <1>6, <2>1 DEF TypeOK, RingDoorbell
    <2>3. fds' \in Nat /\ fds' <= MaxFds
      BY <1>6 DEF TypeOK, RingDoorbell, OpenFile, FdFree
    <2>4. QED
      BY <1>6, <2>2, <2>3 DEF TypeOK, RingDoorbell, platformVars, testVars
  <1>7. CASE ReadMessage
    <2> DEFINE got == IF Received THEN rx ELSE buf
    <2>1. got \in Message \cup {None}
      BY DEF TypeOK
    <2>2. out' \in Outputs
      BY <1>7, <2>1, ParseType DEF ReadMessage, Parse, TypeOK
    <2>3. QED
      BY <1>7, <2>2 DEF ReadMessage, TypeOK, platformVars, testVars, NO_ERROR
  <1>8. CASE FinishProbe
    <2>1. LeaveCall
      BY <1>8 DEF FinishProbe
    <2>2. pc' = "idle" /\ call' \in Call /\ out' \in Outputs
      BY <2>1, LeaveCallType
    <2>3. calm' \in BOOLEAN /\ failed' \in BOOLEAN
      BY <1>8 DEF FinishProbe, TypeOK
    <2>4. QED
      BY <1>8, <2>2, <2>3 DEF FinishProbe, TypeOK, channelVars, platformVars
  <1>19. CASE FinishRefute
    <2>1. LeaveCall
      BY <1>19 DEF FinishRefute
    <2>2. pc' = "idle" /\ call' \in Call /\ out' \in Outputs
      BY <2>1, LeaveCallType
    <2>3. calm' \in BOOLEAN /\ failed' \in BOOLEAN
      BY <1>19 DEF FinishRefute, TypeOK
    <2>4. call.cmd \in RefuteCmd
      BY <1>19 DEF FinishRefute, Progress
    <2>5. doubted' \subseteq RefuteCmd
      BY <1>19, <2>4 DEF FinishRefute, TypeOK
    <2>6. QED
      BY <1>19, <2>2, <2>3, <2>5 DEF FinishRefute, TypeOK, channelVars, platformVars
  <1>9. CASE PassCheck
    <2>1. LeaveCall
      BY <1>9 DEF PassCheck
    <2>2. pc' = "idle" /\ call' \in Call /\ out' \in Outputs
      BY <2>1, LeaveCallType
    <2>3. /\ calm' \in BOOLEAN /\ passes' \in Nat /\ awaiting' \in AsyncCmd \cup {None}
          /\ awaitedId' \in Int /\ listening' \subseteq NotifyCmd
      BY <1>9 DEF PassCheck, TypeOK, Call
    <2>4. accepted' \in [op: {"none", "send", "response", "notification"},
                         check: {"none", "full", "status", "wait"},
                         cmd: Cmd \cup {None}, about: Nat, from: Message \cup {None}]
      BY <1>9 DEF PassCheck, TypeOK, Call, Outputs
    <2>5. UNCHANGED <<seq, buf, ret, fds, channelVars, platformVars, phase, probed, doubted,
                      failed>>
      BY <1>9 DEF PassCheck
    <2>6. QED
      BY <2>2, <2>3, <2>4, <2>5 DEF TypeOK, channelVars, platformVars
  <1>10. CASE FailCheck
    <2>1. LeaveCall
      BY <1>10 DEF FailCheck
    <2>2. pc' = "idle" /\ call' \in Call /\ out' \in Outputs
      BY <2>1, LeaveCallType
    <2>3. /\ calm' \in BOOLEAN /\ failed' \in BOOLEAN
          /\ awaiting' = None /\ awaitedId' = 0 /\ listening' = {}
      BY <1>10 DEF FailCheck
    <2>4. UNCHANGED <<seq, buf, ret, fds, channelVars, platformVars, phase, probed, doubted,
                      passes, accepted>>
      BY <1>10 DEF FailCheck
    <2>5. QED
      BY <2>2, <2>3, <2>4 DEF TypeOK, channelVars, platformVars
  <1>11. CASE LeaveBase
    <2>1. phase' = "others" /\ calm' \in BOOLEAN
      BY <1>11 DEF LeaveBase
    <2>2. UNCHANGED <<agentVars, channelVars, platformVars, probed, doubted, awaiting,
                      awaitedId, listening, failed, passes, accepted>>
      BY <1>11 DEF LeaveBase
    <2>3. QED
      BY <2>1, <2>2 DEF TypeOK, agentVars, channelVars, platformVars
  <1>12. CASE PlatformAnswers
    <2> DEFINE m == Head(work)
    <2>1. m \in Message /\ Tail(work) \in Seq(Message)
      BY <1>12 DEF PlatformAnswers, TypeOK
    <2>2. PICK s \in Status :
            /\ rx' = [src |-> "platform", type |-> "command", cmd |-> m.cmd,
                      words |-> <<s>>, seq |-> m.seq]
            /\ owed' = IF s = SCMI_SUCCESS /\ m.cmd \in AsyncCmd
                       THEN owed \cup {DelayedResponse(m)}
                       ELSE owed
            /\ subs' \subseteq subs \cup {m.cmd}
      BY <1>12 DEF PlatformAnswers, Deliver
    <2>3. m.cmd \in Cmd /\ m.seq \in Nat
      BY <2>1 DEF Message
    <2>4. rx' \in Message
      <3>1. <<s>> \in Seq(Int)
        BY <2>2
      <3>2. QED
        BY <2>2, <2>3, <3>1 DEF Message, MsgType
    <2>8. <<SCMI_SUCCESS>> \o m.words \in Seq(Int)
      BY <2>1 DEF Message, SCMI_SUCCESS
    <2>5. DelayedResponse(m) \in Message
      BY <2>3, <2>8 DEF Message, MsgType, DelayedResponse
    <2>6. owed' \subseteq Message /\ subs' \subseteq Cmd
      BY <2>2, <2>3, <2>5 DEF TypeOK
    <2>7. QED
      BY <1>12, <2>1, <2>4, <2>6 DEF TypeOK, PlatformAnswers, agentVars, testVars
  <1>13. CASE PlatformDrops
    BY <1>13 DEF PlatformDrops, TypeOK, agentVars, platformVars, testVars
  <1>14. CASE PlatformCompletes
    BY <1>14 DEF PlatformCompletes, Deliver, TypeOK, agentVars, testVars
  <1>15. CASE PlatformNotifies
    <2>1. PICK c \in subs, d \in Param, v \in Param :
            /\ rx' = [src |-> "platform", type |-> "notification", cmd |-> c,
                      words |-> <<0, d, v>>, seq |-> 0]
            /\ UNCHANGED <<agentVars, tx, work, platformVars, testVars>>
      BY <1>15 DEF PlatformNotifies, Deliver
    <2>2. rx' \in Message
      BY <2>1 DEF TypeOK, Message, MsgType
    <2>3. QED
      BY <2>1, <2>2 DEF TypeOK, agentVars, platformVars, testVars
  <1>16. CASE Finished \/ UNCHANGED vars
    BY <1>16 DEF Finished, TypeOK, vars, agentVars, channelVars, platformVars, testVars
  <1>17. QED
    BY <1>1, <1>2, <1>3, <1>4, <1>5, <1>6, <1>7, <1>8, <1>9, <1>10, <1>11, <1>12,
       <1>13, <1>14, <1>15, <1>16, <1>18, <1>19
    DEF Next, Agent, StartCheck, FinishCheck, Platform

-----------------------------------------------------------------------------
(* The call in progress.                                                   *)

LEMMA InitProgress == Init => Progress
  BY DEF Init, Progress, Loaded, NoCall, FdFree

\* A command sent with a check of its own leaves the call as Progress says.
LEMMA SendCommandProgress ==
  ASSUME TypeOK, Progress, NEW c \in Cmd, NEW chk \in {"full", "status", "probe", "refute"},
         NEW e \in Int, NEW p \in Param, SendCommand(c, chk, e, p),
         chk \in {"full", "status"} => e \in Status,
         chk = "full" => c \notin probed',
         chk = "probe" => c \in probed',
         chk = "refute" => c \in RefuteCmd,
         chk = "status" => InBase
  PROVE  Progress'
  <1>1. Loaded'
    BY SendCommandType
  <1>2. /\ call' = [op |-> "send", via |-> "response", check |-> chk, cmd |-> c,
                    expect |-> e, param |-> p, fd |-> FdFree, about |-> seq + 1]
        /\ UNCHANGED phase
        /\ seq' = seq + 1 /\ pc' \in {"written", "returned"}
        /\ awaiting' = None /\ out' = VAL_INIT_TEST_PARAM
    BY DEF SendCommand
  <1>3. pc' = "written" /\ FdFree' => tx'.seq = seq' /\ tx'.cmd = c
    BY DEF SendCommand, FdFree, OpenFile, TypeOK
  <1>4. call' # NoCall
    BY <1>2 DEF NoCall
  <1>5. QED
    BY <1>1, <1>2, <1>3, <1>4 DEF Progress, InBase

LEMMA ProgressStep == TypeOK /\ Progress /\ [Next]_vars => Progress'
  <1> SUFFICES ASSUME TypeOK, Progress, [Next]_vars PROVE Progress'
    OBVIOUS
  <1> USE CmdAssumption, WordAssumption
  <1>1. CASE StartFullCheck
    <2>1. PICK c \in Cmd \ probed, e \in Status, p \in Param :
            SendCommand(c, "full", e, p) /\ UNCHANGED probed
      BY <1>1 DEF StartFullCheck
    <2>2. QED
      BY <2>1, SendCommandProgress
  <1>2. CASE StartProbe
    <2>1. PICK c \in ProbeCmd, p \in Param :
            SendCommand(c, "probe", SCMI_NOT_FOUND, p) /\ probed' = probed \cup {c}
      BY <1>2 DEF StartProbe
    <2>2. SCMI_NOT_FOUND \in Int
      BY DEF SCMI_NOT_FOUND
    <2>3. QED
      BY <2>1, <2>2, SendCommandProgress
  <1>3. CASE StartStatusCheck
    <2>1. PICK c \in Cmd \ (ProbeCmd \cup AsyncCmd \cup NotifyCmd), e \in Status,
               p \in Param : InBase /\ SendCommand(c, "status", e, p) /\ UNCHANGED probed
      BY <1>3 DEF StartStatusCheck
    <2>2. QED
      BY <2>1, SendCommandProgress
  <1>11. CASE StartRefute
    <2>1. PICK c \in RefuteCmd, p \in Param :
            SendCommand(c, "refute", SCMI_NOT_FOUND, p) /\ UNCHANGED probed
      BY <1>11 DEF StartRefute
    <2>2. SCMI_NOT_FOUND \in Int
      BY DEF SCMI_NOT_FOUND
    <2>3. QED
      BY <2>1, <2>2, SendCommandProgress
  <1>4. CASE StartDelayedCheck
    <2>1. PICK via : WaitFor("response", via, awaiting, awaitedId) /\ awaiting # None
      BY <1>4 DEF StartDelayedCheck
    <2>2. QED
      BY <2>1, NoneAssumption DEF WaitFor, Progress, Loaded, NoCall, TypeOK, testVars
  <1>5. CASE StartNotificationCheck
    BY <1>5, NoneAssumption
    DEF StartNotificationCheck, WaitFor, Progress, Loaded, NoCall, TypeOK, testVars
  <1>6. CASE RingDoorbell
    BY <1>6 DEF RingDoorbell, Progress, Loaded, InBase, testVars
  <1>7. CASE ReadMessage
    BY <1>7 DEF ReadMessage, Progress, Loaded, InBase, testVars
  <1>8. CASE FinishProbe \/ FinishRefute \/ PassCheck \/ FailCheck
    <2>1. pc' = "idle" /\ call' = NoCall /\ out' = VAL_INIT_TEST_PARAM
      BY <1>8 DEF FinishProbe, FinishRefute, PassCheck, FailCheck, LeaveCall
    <2>2. QED
      BY <2>1 DEF Progress, Loaded, NoCall
  <1>9. CASE LeaveBase
    BY <1>9 DEF LeaveBase, Progress, Loaded, FdFree, agentVars, channelVars
  <1>10. CASE Platform \/ Finished \/ UNCHANGED vars
    <2>1. UNCHANGED <<agentVars, tx, testVars>>
      BY <1>10 DEF Platform, PlatformAnswers, PlatformDrops, PlatformCompletes,
         PlatformNotifies, Finished, vars, channelVars
    <2>2. QED
      BY <2>1 DEF Progress, Loaded, FdFree, InBase, agentVars, testVars
  <1>12. QED
    BY <1>1, <1>2, <1>3, <1>4, <1>5, <1>6, <1>7, <1>8, <1>9, <1>10, <1>11
    DEF Next, Agent, StartCheck, FinishCheck

\* Whatever the platform does and however the calls interleave with it, every
\* variable of the agent, the driver and the platform keeps its type; the
\* descriptors opened by transport_mailbox.c never exceed the table.
THEOREM TypeCorrect == Spec => []TypeOK
  <1>1. Init => TypeOK /\ Progress
    BY InitTypeOK, InitProgress
  <1>2. TypeOK /\ Progress /\ [Next]_vars => TypeOK' /\ Progress'
    BY TypeStep, ProgressStep
  <1>3. QED
    BY <1>1, <1>2, PTL DEF Spec

-----------------------------------------------------------------------------
(* Who wrote what.                                                         *)

LEMMA InitProvenance == Init => Provenance /\ GenuineAnswers
  BY NoneAssumption
  DEF Init, Provenance, GenuineAnswers, RxIs, GotIs, VAL_INIT_TEST_PARAM

\* A step that starts or leaves a call forgets the outputs of the one before.
LEMMA ProvenanceOfFreshOutputs ==
  ASSUME Provenance, out' = VAL_INIT_TEST_PARAM, UNCHANGED <<work, rx, owed>>,
         tx' # None => tx'.src = "agent" /\ tx'.type = "command" /\ tx'.words # <<>>,
         pc' # "written" => buf' = None
  PROVE  Provenance'
  BY DEF Provenance, VAL_INIT_TEST_PARAM, RxIs, GotIs

\* A platform message taking the place of the one in the receive buffer.
LEMMA ProvenanceOfDelivery ==
  ASSUME Provenance, NEW m, rx' = m, m.src = "platform",
         m.type = "command" => m.words # <<>>,
         \A i \in DOMAIN work' : /\ work'[i].src = "agent" /\ work'[i].type = "command"
                                 /\ work'[i].words # <<>>,
         \A n \in owed' : n.src = "platform" /\ n.type = "delayed",
         UNCHANGED <<agentVars, tx>>
  PROVE  Provenance'
  BY DEF Provenance, RxIs, GotIs, agentVars

LEMMA ProvenanceStep ==
  TypeOK /\ Progress /\ Provenance /\ [Next]_vars => Provenance'
  <1> SUFFICES ASSUME TypeOK, Progress, Provenance, [Next]_vars PROVE Provenance'
    OBVIOUS
  <1>1. ASSUME StartFullCheck \/ StartProbe \/ StartRefute \/ StartStatusCheck
        PROVE  Provenance'
    <2>1. PICK c, chk, e, p : SendCommand(c, chk, e, p)
      BY <1>1 DEF StartFullCheck, StartProbe, StartRefute, StartStatusCheck
    <2> DEFINE m == [src |-> "agent", type |-> "command", cmd |-> c, words |-> <<p>>,
                     seq |-> seq + 1]
    <2>2. m.src = "agent" /\ m.type = "command" /\ m.words # <<>>
      OBVIOUS
    <2>3. /\ out' = VAL_INIT_TEST_PARAM /\ UNCHANGED <<work, rx, owed>>
          /\ tx' = m \/ tx' = tx
          /\ pc' # "written" => buf' = buf
          /\ pc = "idle"
      BY <2>1 DEF SendCommand, platformVars
    <2> HIDE DEF m
    <2>4. QED
      BY <2>2, <2>3, ProvenanceOfFreshOutputs DEF Provenance
  <1>2. CASE StartDelayedCheck \/ StartNotificationCheck
    <2>1. PICK op, via, c, p : WaitFor(op, via, c, p)
      BY <1>2 DEF StartDelayedCheck, StartNotificationCheck
    <2>2. QED
      BY <2>1, ProvenanceOfFreshOutputs
      DEF WaitFor, Provenance, channelVars, platformVars
  <1>3. CASE RingDoorbell
    <2>1. FdFree => tx # None
      BY <1>3 DEF RingDoorbell, Progress, Loaded
    <2>2. \A i \in DOMAIN work' : /\ work'[i].src = "agent" /\ work'[i].type = "command"
                                  /\ work'[i].words # <<>>
      BY <1>3, <2>1 DEF RingDoorbell, Provenance, TypeOK
    <2>3. QED
      BY <1>3, <2>2 DEF RingDoorbell, Provenance, RxIs, GotIs, platformVars
  <1>4. CASE ReadMessage
    <2> DEFINE got == IF Received THEN rx ELSE buf
    <2>1. got = None \/ (got = rx /\ rx # None)
      BY <1>4 DEF ReadMessage, Received, Provenance
    <2>2. UNCHANGED <<call, tx, work, owed>> /\ buf' = None /\ (rx' = None \/ rx' = rx)
          /\ pc' # "written"
      BY <1>4 DEF ReadMessage, platformVars
    <2>3. out = VAL_INIT_TEST_PARAM
      BY <1>4 DEF ReadMessage, Progress
    <2>4. CASE got = None
      <3>1. out' = out
        BY <1>4, <2>4 DEF ReadMessage, Parse, ParseResponse, ParseNotification
      <3>2. QED
        BY <2>2, <3>1, <2>3 DEF Provenance, RxIs, GotIs, VAL_INIT_TEST_PARAM
    <2>5. CASE got = rx /\ rx # None
      <3>1. /\ out'.from = rx /\ out'.hdr = HeaderOf(rx)
            /\ call.via = "response" /\ Len(rx.words) >= 1
                 => out'.status = rx.words[1]
        BY <1>4, <2>5 DEF ReadMessage, Parse, ParseResponse, ParseNotification
      <3>2. rx.words # <<>> => Len(rx.words) >= 1
        BY <2>5 DEF TypeOK, Message
      <3>3. QED
        BY <2>2, <2>5, <3>1, <3>2 DEF Provenance, RxIs, GotIs
    <2>6. QED
      BY <2>1, <2>4, <2>5
  <1>5. CASE FinishProbe \/ FinishRefute \/ PassCheck \/ FailCheck
    <2>1. /\ out' = VAL_INIT_TEST_PARAM /\ UNCHANGED <<work, rx, owed, tx, buf>>
          /\ pc = "returned"
      BY <1>5 DEF FinishProbe, FinishRefute, PassCheck, FailCheck, LeaveCall, channelVars,
         platformVars
    <2>2. QED
      BY <2>1, ProvenanceOfFreshOutputs DEF Provenance
  <1>6. CASE LeaveBase \/ Finished \/ UNCHANGED vars
    <2>1. UNCHANGED <<agentVars, channelVars, platformVars>>
      BY <1>6 DEF LeaveBase, Finished, vars
    <2>2. QED
      BY <2>1 DEF Provenance, RxIs, GotIs, agentVars, channelVars, platformVars
  <1>7. CASE PlatformAnswers
    <2> DEFINE m == Head(work)
    <2>1. PICK s \in Status :
            /\ rx' = [src |-> "platform", type |-> "command", cmd |-> m.cmd,
                      words |-> <<s>>, seq |-> m.seq]
            /\ \A n \in owed' \ owed : n.src = "platform" /\ n.type = "delayed"
      BY <1>7 DEF PlatformAnswers, Deliver, DelayedResponse
    <2>2. \A i \in DOMAIN work' : /\ work'[i].src = "agent" /\ work'[i].type = "command"
                                  /\ work'[i].words # <<>>
      BY <1>7 DEF PlatformAnswers, Provenance, TypeOK
    <2>3. QED
      BY <1>7, <2>1, <2>2, ProvenanceOfDelivery DEF PlatformAnswers, Provenance
  <1>8. CASE PlatformDrops
    <2>1. \A i \in DOMAIN work' : /\ work'[i].src = "agent" /\ work'[i].type = "command"
                                  /\ work'[i].words # <<>>
      BY <1>8 DEF PlatformDrops, Provenance, TypeOK
    <2>2. QED
      BY <1>8, <2>1 DEF PlatformDrops, Provenance, RxIs, GotIs, agentVars, platformVars
  <1>9. CASE PlatformCompletes
    <2>1. PICK m \in owed : rx' = m /\ owed' = owed \ {m}
                            /\ UNCHANGED <<agentVars, tx, work, subs, testVars>>
      BY <1>9 DEF PlatformCompletes, Deliver
    <2>2. QED
      BY <2>1, ProvenanceOfDelivery DEF Provenance
  <1>10. CASE PlatformNotifies
    <2>1. PICK c \in subs, d \in Param, v \in Param :
            /\ rx' = [src |-> "platform", type |-> "notification", cmd |-> c,
                      words |-> <<0, d, v>>, seq |-> 0]
            /\ UNCHANGED <<agentVars, tx, work, platformVars, testVars>>
      BY <1>10 DEF PlatformNotifies, Deliver
    <2>2. QED
      BY <2>1, ProvenanceOfDelivery DEF Provenance, platformVars
  <1>11. QED
    BY <1>1, <1>2, <1>3, <1>4, <1>5, <1>6, <1>7, <1>8, <1>9, <1>10
    DEF Next, Agent, StartCheck, FinishCheck, Platform

\* A check accepts an answer: it is not empty and not the agent's own command.
LEMMA GenuineStep ==
  TypeOK /\ Progress /\ Provenance /\ GenuineAnswers /\ [Next]_vars => GenuineAnswers'
  <1> SUFFICES ASSUME TypeOK, Progress, Provenance, GenuineAnswers, [Next]_vars
               PROVE  GenuineAnswers'
    OBVIOUS
  <1>1. CASE PassCheck
    <2>1. /\ accepted'.from = out.from /\ accepted'.check = call.check
          /\ accepted'.cmd = call.cmd /\ pc = "returned" /\ CheckPasses
      BY <1>1 DEF PassCheck
    <2>2. call.check \in {"full", "status", "wait"} /\ call.op # "none"
      BY <1>1, <2>1 DEF PassCheck, Progress, TypeOK, Call
    <2>3. CASE call.check = "status"
      <3>1. out.status \in Status
        BY <2>1, <2>3 DEF CheckPasses, StatusPasses, Progress
      <3>2. out.from # None
        BY <3>1, WordAssumption DEF Provenance
      <3>3. QED
        BY <2>1, <2>3, <3>2 DEF Provenance, GenuineAnswers
    <2>4. CASE call.check # "status"
      <3>1. PICK type \in MsgType : out.hdr = <<type, call.cmd>>
        BY <2>1, <2>2, <2>4 DEF CheckPasses, HeaderPasses, MsgType
      <3>2. call.cmd \in Cmd
        BY <2>2 DEF Progress
      <3>3. out.hdr # None
        BY <3>1, <3>2, NoneAssumption DEF Header
      <3>4. out.from # None /\ out.hdr = <<out.from.type, out.from.cmd>>
        BY <3>3 DEF Provenance, HeaderOf
      <3>5. QED
        BY <2>1, <3>1, <3>4 DEF Provenance, GenuineAnswers
    <2>5. QED
      BY <2>3, <2>4
  <1>2. CASE ~PassCheck
    <2>1. UNCHANGED accepted
      BY <1>2 DEF Next, Agent, StartCheck, StartFullCheck, StartProbe, StartRefute,
         StartStatusCheck, StartDelayedCheck, StartNotificationCheck, SendCommand, WaitFor,
         RingDoorbell, ReadMessage, FinishCheck, FinishProbe, FinishRefute, FailCheck,
         LeaveBase, Platform, PlatformAnswers, PlatformDrops, PlatformCompletes,
         PlatformNotifies, Finished, vars, testVars
    <2>2. QED
      BY <2>1 DEF GenuineAnswers
  <1>3. QED
    BY <1>1, <1>2

\* No check of the test pool ever passes on an empty buffer or on the command
\* the agent itself left in it, and every check that compares the header
\* passes on a message of the platform with the header of its own command,
\* for every set of commands and statuses and any number of calls.
THEOREM Genuine == Spec => []GenuineAnswers
  <1>1. Init => TypeOK /\ Progress /\ Provenance /\ GenuineAnswers
    BY InitTypeOK, InitProgress, InitProvenance
  <1>2. /\ TypeOK /\ Progress /\ Provenance /\ GenuineAnswers
        /\ [Next]_vars
        => TypeOK' /\ Progress' /\ Provenance' /\ GenuineAnswers'
    BY TypeStep, ProgressStep, ProvenanceStep, GenuineStep
  <1>3. QED
    BY <1>1, <1>2, PTL DEF Spec

-----------------------------------------------------------------------------
(* How a step moves messages, and nothing else about it.                   *)

Starts   == /\ pc = "idle" /\ seq' = seq + 1 /\ out'.from = None
            /\ UNCHANGED <<work, rx, owed>>
Rings    == /\ pc = "written" /\ pc' = "polling" /\ out'.from = None
            /\ UNCHANGED <<rx, owed, seq>>
            /\ \/ work' = work
               \/ /\ tx # None /\ tx.seq = seq /\ tx.cmd = call.cmd
                  /\ call.op = "send" /\ work' = Append(work, tx)
Reads    == /\ pc' # "written" /\ UNCHANGED <<work, owed, seq>>
            /\ \/ out'.from = None /\ rx' \in {rx, None}
               \/ rx # None /\ out'.from = rx /\ rx' = None
Finishes == pc' # "written" /\ out'.from = None /\ UNCHANGED <<work, rx, owed, seq>>
Keeps    == UNCHANGED <<pc, out, work, rx, owed, seq>>

Answers ==
  /\ work # <<>> /\ work' = Tail(work) /\ UNCHANGED <<pc, out, seq>>
  /\ \E s \in Status :
       /\ rx' = [src |-> "platform", type |-> "command", cmd |-> Head(work).cmd,
                 words |-> <<s>>, seq |-> Head(work).seq]
       /\ \/ owed' = owed
          \/ /\ s = SCMI_SUCCESS /\ Head(work).cmd \in AsyncCmd
             /\ owed' = owed \cup {DelayedResponse(Head(work))}
Drops     == work # <<>> /\ work' = Tail(work) /\ UNCHANGED <<pc, out, rx, owed, seq>>
Completes == \E m \in owed : rx' = m /\ owed' = owed \ {m} /\ UNCHANGED <<pc, out, work, seq>>
Notifies  == /\ rx' # None /\ rx'.type = "notification" /\ rx'.seq = 0
             /\ UNCHANGED <<pc, out, work, owed, seq>>

Moves == \/ Starts \/ Rings \/ Reads \/ Finishes \/ Keeps
         \/ Answers \/ Drops \/ Completes \/ Notifies

\* Every step moves messages in one of these ways.
LEMMA StepMoves ==
  TypeOK /\ Progress /\ Provenance /\ [Next]_vars => Moves
  <1> SUFFICES ASSUME TypeOK, Progress, Provenance, [Next]_vars PROVE Moves
    OBVIOUS
  <1>1. ASSUME NEW c, NEW chk, NEW e, NEW p, SendCommand(c, chk, e, p)
        PROVE  Starts
    BY <1>1 DEF SendCommand, Starts, VAL_INIT_TEST_PARAM, platformVars
  <1>2. ASSUME NEW op, NEW via, NEW c, NEW p, WaitFor(op, via, c, p) PROVE Starts
    BY <1>2 DEF WaitFor, Starts, VAL_INIT_TEST_PARAM, channelVars, platformVars
  <1>3. CASE StartCheck
    <2>1. StartFullCheck \/ StartProbe \/ StartRefute \/ StartStatusCheck => Starts
      BY <1>1 DEF StartFullCheck, StartProbe, StartRefute, StartStatusCheck
    <2>2. StartDelayedCheck \/ StartNotificationCheck => Starts
      BY <1>2 DEF StartDelayedCheck, StartNotificationCheck
    <2> QED BY <1>3, <2>1, <2>2 DEF StartCheck, Moves
  <1>4. CASE RingDoorbell
    <2>1. out'.from = None
      BY <1>4 DEF RingDoorbell, Progress, VAL_INIT_TEST_PARAM
    <2>2. /\ pc = "written" /\ pc' = "polling" /\ UNCHANGED <<rx, owed, seq>>
          /\ work' = IF FdFree THEN Append(work, tx) ELSE work
      BY <1>4 DEF RingDoorbell, platformVars
    <2>3. call.op = "send" /\ (FdFree => tx # None /\ tx.seq = seq /\ tx.cmd = call.cmd)
      BY <2>2 DEF Progress, Loaded
    <2>4. Rings
      BY <2>1, <2>2, <2>3 DEF Rings
    <2> QED BY <2>4 DEF Moves
  <1>5. CASE ReadMessage
    <2> DEFINE got == IF Received THEN rx ELSE buf
    <2>1. out.from = None /\ buf = None
      BY <1>5 DEF ReadMessage, Progress, Provenance, VAL_INIT_TEST_PARAM
    <2>2. pc' # "written" /\ UNCHANGED <<work, owed, seq>>
      BY <1>5 DEF ReadMessage, platformVars
    <2>3. CASE Received
      <3>1. got = rx /\ rx' = None
        BY <1>5, <2>3 DEF ReadMessage, Received
      <3>2. out'.from = rx
        BY <1>5, <2>3, <3>1 DEF ReadMessage, Received, Parse, ParseResponse, ParseNotification
      <3> QED BY <2>2, <2>3, <3>1, <3>2 DEF Reads, Moves, Received
    <2>4. CASE ~Received
      <3>1. got = None /\ rx' \in {rx, None}
        BY <1>5, <2>1, <2>4 DEF ReadMessage
      <3>2. out' = out
        BY <1>5, <2>4, <3>1 DEF ReadMessage, Parse, ParseResponse, ParseNotification
      <3> QED BY <2>1, <2>2, <3>1, <3>2 DEF Reads, Moves
    <2> QED BY <2>3, <2>4
  <1>6. CASE FinishCheck
    BY <1>6 DEF FinishCheck, FinishProbe, FinishRefute, PassCheck, FailCheck, LeaveCall, Finishes,
       Moves,
       VAL_INIT_TEST_PARAM, channelVars, platformVars
  <1>7. CASE LeaveBase \/ Finished \/ UNCHANGED vars
    BY <1>7 DEF LeaveBase, Finished, vars, agentVars, channelVars, platformVars, Keeps, Moves
  <1>8. CASE PlatformAnswers
    <2>1. UNCHANGED <<pc, out, seq>> /\ work # <<>> /\ work' = Tail(work)
      BY <1>8 DEF PlatformAnswers, agentVars
    <2>2. Answers
      BY <1>8, <2>1 DEF PlatformAnswers, Deliver, Answers
    <2> QED BY <2>2 DEF Moves
  <1>9. CASE PlatformDrops
    BY <1>9 DEF PlatformDrops, Drops, Moves, agentVars, platformVars
  <1>10. CASE PlatformCompletes
    BY <1>10 DEF PlatformCompletes, Deliver, Completes, Moves, agentVars
  <1>11. CASE PlatformNotifies
    <2>1. PICK c \in subs, d \in Param, v \in Param :
            /\ rx' = [src |-> "platform", type |-> "notification", cmd |-> c,
                      words |-> <<0, d, v>>, seq |-> 0]
            /\ UNCHANGED <<agentVars, tx, work, platformVars, testVars>>
      BY <1>11 DEF PlatformNotifies, Deliver
    <2>2. c \in Cmd /\ d \in Int /\ v \in Int
      BY <2>1, WordAssumption DEF TypeOK
    <2>3. rx' \in Message
      BY <2>1, <2>2 DEF Message, MsgType
    <2>4. rx' # None
      BY <2>3, NoneAssumption
    <2> QED BY <2>1, <2>4 DEF Notifies, Moves, agentVars, platformVars
  <1> QED BY <1>3, <1>4, <1>5, <1>6, <1>7, <1>8, <1>9, <1>10, <1>11
          DEF Next, Agent, Platform, Moves

\* Messages have numbers.
LEMMA Numbered ==
  ASSUME TypeOK
  PROVE  /\ seq \in Nat
         /\ \A i \in DOMAIN work : i \in Nat /\ work[i].seq \in Nat
         /\ rx # None => rx.seq \in Nat
         /\ out.from # None => out.from.seq \in Nat
         /\ \A m \in owed : m.seq \in Nat
  <1>1. \A m \in Message : m.seq \in Nat
    BY DEF Message
  <1>2. out.from \in Message \cup {None}
    BY DEF TypeOK, Outputs
  <1>3. \A i \in DOMAIN work : i \in Nat /\ work[i] \in Message
    BY DEF TypeOK
  <1> QED BY <1>1, <1>2, <1>3 DEF TypeOK

\* Taking the oldest command away, and adding one.
LEMMA TailOf ==
  ASSUME NEW s \in Seq(Message), s # <<>>
  PROVE  /\ 1 \in DOMAIN s /\ Head(s) = s[1]
         /\ \A i \in DOMAIN Tail(s) : /\ i \in Nat /\ 1 < i + 1
                                      /\ i + 1 \in DOMAIN s /\ Tail(s)[i] = s[i + 1]
  OBVIOUS

LEMMA AppendTo ==
  ASSUME NEW s \in Seq(Message), NEW m \in Message
  PROVE  \A i \in DOMAIN Append(s, m) :
           \/ i \in DOMAIN s /\ Append(s, m)[i] = s[i] /\ i < Len(s) + 1
           \/ i = Len(s) + 1 /\ Append(s, m)[i] = m
  OBVIOUS

-----------------------------------------------------------------------------
(* Answers come in the order of the commands.                              *)

LEMMA InitOrder == Init => Order /\ DelayedOnce
  BY DEF Init, Order, DelayedOnce, RxIs, GotIs, VAL_INIT_TEST_PARAM

\* The commands left behind by a platform that has taken the oldest one.
LEMMA OrderOfTail ==
  ASSUME TypeOK, Order, work # <<>>, work' = Tail(work)
  PROVE  /\ 1 \in DOMAIN work /\ Head(work) = work[1] /\ Head(work).seq \in Nat
         /\ Head(work).seq <= seq
         /\ \A i \in DOMAIN work' : work'[i].seq <= seq /\ Head(work).seq < work'[i].seq
         /\ \A i, j \in DOMAIN work' : i < j => work'[i].seq < work'[j].seq
         /\ \A i \in DOMAIN work' : \E j \in DOMAIN work : work'[i] = work[j]
  <1>1. work \in Seq(Message)
    BY DEF TypeOK
  <1>2. /\ 1 \in DOMAIN work /\ Head(work) = work[1]
        /\ \A i \in DOMAIN work' : /\ i \in Nat /\ 1 < i + 1
                                   /\ i + 1 \in DOMAIN work /\ work'[i] = work[i + 1]
    BY <1>1, TailOf
  <1>3. \A i \in DOMAIN work' : work'[i].seq <= seq /\ Head(work).seq < work'[i].seq
    BY <1>2 DEF Order
  <1>4. ASSUME NEW i \in DOMAIN work', NEW j \in DOMAIN work', i < j
        PROVE  work'[i].seq < work'[j].seq
    <2>1. i + 1 < j + 1
      BY <1>2, <1>4
    <2> QED BY <1>2, <2>1 DEF Order
  <1> QED BY <1>2, <1>3, <1>4, Numbered DEF Order

LEMMA OrderStep == TypeOK /\ Provenance /\ Order /\ Moves => Order'
  <1> SUFFICES ASSUME TypeOK, Provenance, Order, Moves PROVE Order'
    OBVIOUS
  <1> USE Numbered
  <1>1. CASE Starts
    BY <1>1 DEF Starts, Order, RxIs, GotIs
  <1>2. CASE Rings
    <2>1. CASE work' = work
      BY <1>2, <2>1 DEF Rings, Order, RxIs, GotIs
    <2>2. CASE tx # None /\ tx.seq = seq /\ work' = Append(work, tx)
      <3>1. work \in Seq(Message) /\ tx \in Message
        BY <2>2 DEF TypeOK
      <3>2. \A i \in DOMAIN work' :
              \/ i \in DOMAIN work /\ work'[i] = work[i] /\ i < Len(work) + 1
              \/ i = Len(work) + 1 /\ work'[i] = tx
        BY <2>2, <3>1, AppendTo
      <3>3. \A i \in DOMAIN work : work[i].seq < seq
        BY <1>2 DEF Rings, Order
      <3>4. \A i \in DOMAIN work' : work'[i].seq <= seq
        BY <2>2, <3>2, <3>3
      <3>5. \A i, j \in DOMAIN work' : i < j => work'[i].seq < work'[j].seq
        <4> SUFFICES ASSUME NEW i \in DOMAIN work', NEW j \in DOMAIN work', i < j
                     PROVE  work'[i].seq < work'[j].seq
          OBVIOUS
        <4>1. i \in DOMAIN work /\ work'[i] = work[i]
          <5>1. Len(work) \in Nat
            BY <3>1
          <5>2. j <= Len(work) + 1 /\ j \in Int
            BY <3>1, <3>2, <5>1
          <5> QED BY <3>2, <5>1, <5>2
        <4>2. CASE j = Len(work) + 1 /\ work'[j] = tx
          BY <2>2, <3>3, <4>1, <4>2
        <4>3. CASE j \in DOMAIN work /\ work'[j] = work[j]
          BY <4>1, <4>3 DEF Order
        <4> QED BY <3>2, <4>2, <4>3
      <3>6. RxIs("command") => rx.seq < seq /\ \A i \in DOMAIN work : rx.seq < work[i].seq
        BY <1>2 DEF Rings, Order
      <3>7. UNCHANGED <<rx, seq>> /\ out'.from = None /\ pc' # "written"
        BY <1>2 DEF Rings
      <3>8. RxIs("command")' => /\ rx'.seq <= seq'
                                /\ \A i \in DOMAIN work' : rx'.seq < work'[i].seq
        BY <2>2, <3>2, <3>6, <3>7 DEF RxIs
      <3> QED BY <3>4, <3>5, <3>7, <3>8 DEF Order, GotIs
    <2> QED BY <1>2, <2>1, <2>2 DEF Rings
  <1>3. CASE Reads
    BY <1>3 DEF Reads, Order, RxIs, GotIs
  <1>4. CASE Finishes \/ Keeps
    BY <1>4 DEF Finishes, Keeps, Order, RxIs, GotIs
  <1>5. CASE Answers
    <2>1. rx' # None => rx'.seq = Head(work).seq
      BY <1>5 DEF Answers
    <2>2. work # <<>> /\ work' = Tail(work) /\ UNCHANGED <<pc, out, seq>>
      BY <1>5 DEF Answers
    <2>3. /\ 1 \in DOMAIN work /\ Head(work) = work[1] /\ Head(work).seq \in Nat
          /\ Head(work).seq <= seq
          /\ \A i \in DOMAIN work' : work'[i].seq <= seq /\ Head(work).seq < work'[i].seq
          /\ \A i, j \in DOMAIN work' : i < j => work'[i].seq < work'[j].seq
          /\ \A i \in DOMAIN work' : \E j \in DOMAIN work : work'[i] = work[j]
      BY <2>2, OrderOfTail
    <2>4. GotIs("command")' => /\ out'.from.seq <= seq'
                               /\ \A i \in DOMAIN work' : out'.from.seq < work'[i].seq
                               /\ out'.from.seq < Head(work).seq
      BY <2>2, <2>3 DEF Order, GotIs
    <2>5. pc' = "written" => /\ \A i \in DOMAIN work' : work'[i].seq < seq'
                             /\ Head(work).seq < seq'
      BY <2>2, <2>3 DEF Order
    <2> QED BY <2>1, <2>2, <2>3, <2>4, <2>5 DEF Order, RxIs
  <1>6. CASE Drops
    <2>1. work # <<>> /\ work' = Tail(work) /\ UNCHANGED <<pc, out, rx, seq>>
      BY <1>6 DEF Drops
    <2>2. /\ \A i \in DOMAIN work' : work'[i].seq <= seq
          /\ \A i, j \in DOMAIN work' : i < j => work'[i].seq < work'[j].seq
          /\ \A i \in DOMAIN work' : \E j \in DOMAIN work : work'[i] = work[j]
      BY <2>1, OrderOfTail
    <2> QED BY <2>1, <2>2 DEF Order, RxIs, GotIs
  <1>7. CASE Completes
    <2>1. UNCHANGED <<pc, out, work, seq>> /\ rx'.type = "delayed"
      BY <1>7 DEF Completes, Provenance
    <2> QED BY <2>1 DEF Order, RxIs, GotIs
  <1>8. CASE Notifies
    BY <1>8 DEF Notifies, Order, RxIs, GotIs
  <1> QED BY <1>1, <1>2, <1>3, <1>4, <1>5, <1>6, <1>7, <1>8 DEF Moves

LEMMA DelayedStep ==
  TypeOK /\ Provenance /\ Order /\ DelayedOnce /\ Moves => DelayedOnce'
  <1> SUFFICES ASSUME TypeOK, Provenance, Order, DelayedOnce, Moves PROVE DelayedOnce'
    OBVIOUS
  <1> USE Numbered
  <1>1. CASE Starts
    BY <1>1 DEF Starts, DelayedOnce, RxIs, GotIs
  <1>2. CASE Rings
    <2>1. UNCHANGED <<rx, owed, seq>> /\ pc = "written" /\ pc' # "written" /\ out'.from = None
      BY <1>2 DEF Rings
    <2>2. \A i \in DOMAIN work' : \/ \E j \in DOMAIN work : work'[i] = work[j]
                                  \/ work'[i].seq = seq
      <3>1. CASE work' = work
        BY <3>1
      <3>2. CASE tx # None /\ tx.seq = seq /\ work' = Append(work, tx)
        <4>1. work \in Seq(Message) /\ tx \in Message
          BY <3>2 DEF TypeOK
        <4> QED BY <3>2, <4>1, AppendTo
      <3> QED BY <1>2, <3>1, <3>2 DEF Rings
    <2>3. \A m \in owed : \A i \in DOMAIN work' : m.seq < work'[i].seq
      BY <2>1, <2>2 DEF DelayedOnce
    <2>4. RxIs("delayed") => \A i \in DOMAIN work' : rx.seq < work'[i].seq
      BY <2>1, <2>2 DEF DelayedOnce
    <2> QED BY <2>1, <2>3, <2>4 DEF DelayedOnce, RxIs, GotIs
  <1>3. CASE Reads
    BY <1>3 DEF Reads, DelayedOnce, RxIs, GotIs
  <1>4. CASE Finishes \/ Keeps
    BY <1>4 DEF Finishes, Keeps, DelayedOnce, RxIs, GotIs
  <1>5. CASE Answers
    <2> DEFINE h == Head(work)
               d == DelayedResponse(h)
    <2>1. work # <<>> /\ work' = Tail(work) /\ UNCHANGED <<pc, out, seq>>
      BY <1>5 DEF Answers
    <2>2. /\ 1 \in DOMAIN work /\ h = work[1] /\ h.seq \in Nat /\ h.seq <= seq
          /\ \A i \in DOMAIN work' : h.seq < work'[i].seq
          /\ \A i \in DOMAIN work' : \E j \in DOMAIN work : work'[i] = work[j]
      BY <2>1, OrderOfTail
    <2>3. PICK st \in Status :
            /\ rx' = [src |-> "platform", type |-> "command", cmd |-> h.cmd,
                      words |-> <<st>>, seq |-> h.seq]
            /\ owed' = owed \/ (st = SCMI_SUCCESS /\ owed' = owed \cup {d})
      BY <1>5 DEF Answers
    <2>4. rx'.type = "command" /\ rx'.seq = h.seq /\ rx'.words[1] = st
      BY <2>3
    <2>5. d.seq = h.seq
      BY DEF DelayedResponse
    <2> HIDE DEF h, d
    <2>6. \A m \in owed : m.seq < h.seq
      BY <2>2 DEF DelayedOnce
    <2>7. GotIs("delayed") \/ GotIs("command") => out.from.seq < h.seq
      BY <2>2 DEF DelayedOnce, Order
    <2>8. pc = "written" => h.seq < seq
      BY <2>2 DEF Order
    <2>9. ASSUME NEW m \in owed'
          PROVE  /\ m.seq <= seq'
                 /\ \A i \in DOMAIN work' : m.seq < work'[i].seq
                 /\ RxIs("command")' /\ rx'.seq = m.seq => rx'.words[1] = SCMI_SUCCESS
                 /\ GotIs("command")' /\ out'.from.seq = m.seq
                      => out'.from.words[1] = SCMI_SUCCESS
                 /\ RxIs("delayed")' => rx'.seq # m.seq
                 /\ GotIs("delayed")' => out'.from.seq # m.seq
                 /\ pc' = "written" => m.seq < seq'
      <3>1. CASE m \in owed
        BY <2>1, <2>2, <2>4, <2>6, <3>1 DEF DelayedOnce, RxIs, GotIs
      <3>2. CASE m = d /\ st = SCMI_SUCCESS
        BY <2>1, <2>2, <2>4, <2>5, <2>7, <2>8, <3>2 DEF RxIs, GotIs
      <3> QED BY <2>3, <3>1, <3>2
    <2>10. \A m, n \in owed' : m.seq = n.seq => m = n
      BY <2>2, <2>3, <2>5, <2>6 DEF DelayedOnce
    <2>11. GotIs("delayed")' => /\ out'.from.seq # rx'.seq
                                /\ \A i \in DOMAIN work' : out'.from.seq < work'[i].seq
      BY <2>1, <2>2, <2>4, <2>7 DEF GotIs
    <2> QED BY <2>4, <2>9, <2>10, <2>11 DEF DelayedOnce, RxIs
  <1>6. CASE Drops
    <2>1. work # <<>> /\ work' = Tail(work) /\ UNCHANGED <<pc, out, rx, owed, seq>>
      BY <1>6 DEF Drops
    <2>2. \A i \in DOMAIN work' : \E j \in DOMAIN work : work'[i] = work[j]
      BY <2>1, OrderOfTail
    <2> QED BY <2>1, <2>2 DEF DelayedOnce, RxIs, GotIs
  <1>7. CASE Completes
    <2>1. PICK m \in owed : rx' = m /\ owed' = owed \ {m} /\ UNCHANGED <<pc, out, work, seq>>
      BY <1>7 DEF Completes
    <2>2. m.type = "delayed"
      BY <2>1 DEF Provenance
    <2> QED BY <2>1, <2>2 DEF DelayedOnce, RxIs, GotIs
  <1>8. CASE Notifies
    BY <1>8 DEF Notifies, DelayedOnce, RxIs, GotIs
  <1> QED BY <1>1, <1>2, <1>3, <1>4, <1>5, <1>6, <1>7, <1>8 DEF Moves

-----------------------------------------------------------------------------
(* The base suite is quiet.                                                *)

LEMMA InitBaseQuiet == Init => BaseQuiet
  BY CmdAssumption, NoneAssumption DEF Init, BaseQuiet, NoCall, VAL_INIT_TEST_PARAM

LEMMA BaseQuietStep ==
  TypeOK /\ Progress /\ Provenance /\ BaseQuiet /\ [Next]_vars => BaseQuiet'
  <1> SUFFICES ASSUME TypeOK, Progress, Provenance, BaseQuiet, [Next]_vars, InBase'
               PROVE  BaseQuiet'
    BY DEF BaseQuiet
  <1>0. InBase
    BY DEF InBase, Next, Agent, StartCheck, StartFullCheck, StartProbe, StartRefute,
       StartStatusCheck,
       StartDelayedCheck, StartNotificationCheck, SendCommand, WaitFor, RingDoorbell,
       ReadMessage, FinishCheck, FinishProbe, FinishRefute, PassCheck, FailCheck, LeaveBase,
       Platform, PlatformAnswers, PlatformDrops, PlatformCompletes, PlatformNotifies, Finished,
       vars, testVars
  <1> USE <1>0, CmdAssumption, NoneAssumption
  <1>1. ASSUME NEW c \in Cmd, NEW chk, NEW e, NEW p, SendCommand(c, chk, e, p),
               c \notin AsyncCmd \cup NotifyCmd, chk # "refute"
        PROVE  BaseQuiet'
    BY <1>1 DEF SendCommand, BaseQuiet, VAL_INIT_TEST_PARAM, platformVars
  <1>2. CASE StartFullCheck
    BY <1>1, <1>2 DEF StartFullCheck
  <1>3. CASE StartProbe
    BY <1>1, <1>3 DEF StartProbe
  <1>4. CASE StartStatusCheck
    BY <1>1, <1>4 DEF StartStatusCheck
  <1>17. CASE StartRefute
    BY <1>17 DEF StartRefute
  <1>5. CASE StartDelayedCheck
    BY <1>5 DEF StartDelayedCheck, BaseQuiet
  <1>6. CASE StartNotificationCheck
    BY <1>6 DEF StartNotificationCheck, BaseQuiet
  <1>7. CASE RingDoorbell
    <2>1. \A i \in DOMAIN work' : work'[i].cmd \notin AsyncCmd \cup NotifyCmd
      <3>1. CASE FdFree
        <4>1. work \in Seq(Message) /\ tx \in Message /\ work' = Append(work, tx)
          BY <1>7, <3>1 DEF RingDoorbell, Progress, Loaded, TypeOK
        <4>2. tx.cmd \notin AsyncCmd \cup NotifyCmd
          BY <1>7, <3>1 DEF RingDoorbell, Progress, BaseQuiet
        <4> QED BY <4>1, <4>2, AppendTo DEF BaseQuiet
      <3>2. CASE ~FdFree
        BY <1>7, <3>2 DEF RingDoorbell, BaseQuiet
      <3> QED BY <3>1, <3>2
    <2> QED BY <1>7, <2>1 DEF RingDoorbell, BaseQuiet, platformVars, testVars
  <1>8. CASE ReadMessage
    <2> DEFINE got == IF Received THEN rx ELSE buf
    <2>1. got = None \/ (got = rx /\ rx # None)
      BY <1>8 DEF ReadMessage, Received, Provenance
    <2>2. out'.from = out.from \/ (rx # None /\ out'.from = rx)
      BY <1>8, <2>1 DEF ReadMessage, Parse, ParseResponse, ParseNotification
    <2>3. rx' \in {None, rx} /\ UNCHANGED <<call, work, platformVars, testVars>>
      BY <1>8 DEF ReadMessage
    <2> QED BY <2>2, <2>3 DEF BaseQuiet, platformVars, testVars
  <1>9. CASE FinishProbe \/ FailCheck
    BY <1>9 DEF FinishProbe, FailCheck, LeaveCall, NoCall, VAL_INIT_TEST_PARAM, BaseQuiet,
       channelVars, platformVars
  <1>18. CASE FinishRefute
    BY <1>18 DEF FinishRefute, BaseQuiet
  <1>10. CASE PassCheck
    <2>1. awaiting' = None /\ listening' = {}
      BY <1>10 DEF PassCheck, BaseQuiet
    <2>2. /\ call'.cmd = None /\ call'.check = "none" /\ out'.from = None
          /\ UNCHANGED <<work, rx, owed, subs, doubted>>
      BY <1>10 DEF PassCheck, LeaveCall, NoCall, VAL_INIT_TEST_PARAM, channelVars,
         platformVars
    <2> QED BY <2>1, <2>2 DEF BaseQuiet
  <1>11. CASE LeaveBase
    BY <1>11 DEF LeaveBase, InBase
  <1>12. CASE PlatformAnswers
    <2>1. work \in Seq(Message) /\ work # <<>>
      BY <1>12 DEF PlatformAnswers, TypeOK
    <2>2. /\ Head(work).cmd \notin AsyncCmd \cup NotifyCmd
          /\ \A i \in DOMAIN Tail(work) : Tail(work)[i].cmd \notin AsyncCmd \cup NotifyCmd
      BY <2>1, TailOf DEF BaseQuiet
    <2>3. /\ rx'.type = "command" /\ work' = Tail(work)
          /\ UNCHANGED <<owed, subs, agentVars, testVars>>
      BY <1>12, <2>2 DEF PlatformAnswers, Deliver
    <2> QED BY <2>2, <2>3 DEF BaseQuiet, agentVars, testVars
  <1>13. CASE PlatformDrops
    <2>1. work \in Seq(Message) /\ work # <<>>
      BY <1>13 DEF PlatformDrops, TypeOK
    <2>2. \A i \in DOMAIN Tail(work) : Tail(work)[i].cmd \notin AsyncCmd \cup NotifyCmd
      BY <2>1, TailOf DEF BaseQuiet
    <2> QED BY <1>13, <2>2 DEF PlatformDrops, BaseQuiet, agentVars, platformVars, testVars
  <1>14. CASE PlatformCompletes
    BY <1>14 DEF PlatformCompletes, BaseQuiet
  <1>15. CASE PlatformNotifies
    BY <1>15 DEF PlatformNotifies, BaseQuiet
  <1>16. CASE Finished \/ UNCHANGED vars
    BY <1>16 DEF Finished, vars, agentVars, channelVars, platformVars, testVars, BaseQuiet
  <1> QED BY <1>2, <1>3, <1>4, <1>5, <1>6, <1>7, <1>8, <1>9, <1>10, <1>11, <1>12, <1>13,
             <1>14, <1>15, <1>16, <1>17, <1>18
          DEF Next, Agent, StartCheck, FinishCheck, Platform

-----------------------------------------------------------------------------
(* Which calls may still be answered.                                      *)

Asks(a) ==
  \/ \E i \in DOMAIN work : a = <<work[i].seq, work[i].cmd>>
  \/ RxIs("command") /\ a = <<rx.seq, rx.cmd>>
  \/ GotIs("command") /\ a = <<out.from.seq, out.from.cmd>>

Promises(a) ==
  \/ \E m \in owed : a = <<m.seq, m.cmd>>
  \/ RxIs("delayed") /\ a = <<rx.seq, rx.cmd>>
  \/ GotIs("delayed") /\ a = <<out.from.seq, out.from.cmd>>

LEMMA AskedDef ==
  /\ \A a : a \in Asked <=> Asks(a)
  /\ \A a : a \in Promised <=> Promises(a)
  /\ \A a : a \in Asked' <=> Asks(a)'
  /\ \A a : a \in Promised' <=> Promises(a)'
  <1>1. \A a : a \in Asked <=> Asks(a)
    BY DEF Asked, Asks, RxIs, GotIs
  <1>2. \A a : a \in Promised <=> Promises(a)
    BY DEF Promised, Promises, RxIs, GotIs
  <1>3. \A a : a \in Asked' <=> Asks(a)'
    BY DEF Asked, Asks, RxIs, GotIs
  <1>4. \A a : a \in Promised' <=> Promises(a)'
    BY DEF Promised, Promises, RxIs, GotIs
  <1> QED BY <1>1, <1>2, <1>3, <1>4

\* A call is asked about when its command is rung, and promised a delayed
\* response when it was asked about; otherwise messages only move or vanish.
LEMMA AskedStep ==
  ASSUME TypeOK, Provenance, Moves
  PROVE  /\ \A a \in Asked' : \/ a \in Asked
                              \/ Rings /\ call.op = "send" /\ a = <<seq, call.cmd>>
         /\ \A a \in Promised' : \/ a \in Promised
                                 \/ Answers /\ a \in Asked /\ a[2] \in AsyncCmd
  <1> SUFFICES ASSUME NEW a
               PROVE  /\ Asks(a)' => \/ Asks(a)
                                     \/ Rings /\ call.op = "send" /\ a = <<seq, call.cmd>>
                      /\ Promises(a)' => \/ Promises(a)
                                         \/ Answers /\ Asks(a) /\ a[2] \in AsyncCmd
    BY AskedDef
  <1>1. CASE Starts
    BY <1>1 DEF Starts, Asks, Promises, RxIs, GotIs
  <1>2. CASE Rings
    <2>1. \A i \in DOMAIN work' :
            \/ \E j \in DOMAIN work : work'[i] = work[j]
            \/ call.op = "send" /\ <<work'[i].seq, work'[i].cmd>> = <<seq, call.cmd>>
      <3>1. CASE work' = work
        BY <3>1
      <3>2. CASE /\ tx # None /\ tx.seq = seq /\ tx.cmd = call.cmd
                 /\ call.op = "send" /\ work' = Append(work, tx)
        <4>1. work \in Seq(Message) /\ tx \in Message
          BY <3>2 DEF TypeOK
        <4> QED BY <3>2, <4>1, AppendTo
      <3> QED BY <1>2, <3>1, <3>2 DEF Rings
    <2> QED BY <1>2, <2>1 DEF Rings, Asks, Promises, RxIs, GotIs
  <1>3. CASE Reads
    BY <1>3 DEF Reads, Asks, Promises, RxIs, GotIs
  <1>4. CASE Finishes \/ Keeps
    BY <1>4 DEF Finishes, Keeps, Asks, Promises, RxIs, GotIs
  <1>5. CASE Answers \/ Drops
    <2>1. work # <<>> /\ work' = Tail(work) /\ UNCHANGED out
      BY <1>5 DEF Answers, Drops
    <2>2. /\ 1 \in DOMAIN work /\ Head(work) = work[1]
          /\ \A i \in DOMAIN work' : \E j \in DOMAIN work : work'[i] = work[j]
      BY <2>1, TailOf DEF TypeOK
    <2>3. CASE Drops
      BY <2>1, <2>2, <2>3 DEF Drops, Asks, Promises, RxIs, GotIs
    <2>4. CASE Answers
      <3> DEFINE h == Head(work)
                 d == DelayedResponse(h)
      <3>1. rx'.type = "command" /\ rx'.seq = h.seq /\ rx'.cmd = h.cmd
        BY <2>4 DEF Answers
      <3>2. owed' = owed \/ (h.cmd \in AsyncCmd /\ owed' = owed \cup {d})
        BY <2>4 DEF Answers
      <3>3. <<d.seq, d.cmd>> = <<h.seq, h.cmd>>
        BY DEF DelayedResponse
      <3> HIDE DEF h, d
      <3>4. Asks(<<h.seq, h.cmd>>)
        BY <2>2 DEF Asks, h
      <3>5. Asks(a)' => Asks(a)
        BY <2>1, <2>2, <3>1, <3>4 DEF Asks, RxIs, GotIs
      <3>6. Promises(a)' => Promises(a) \/ (Asks(a) /\ a[2] \in AsyncCmd)
        BY <2>1, <3>1, <3>2, <3>3, <3>4 DEF Promises, RxIs, GotIs
      <3> QED BY <2>4, <3>5, <3>6
    <2> QED BY <1>5, <2>3, <2>4
  <1>6. CASE Completes
    <2>1. PICK m \in owed : rx' = m /\ owed' = owed \ {m} /\ UNCHANGED <<pc, out, work, seq>>
      BY <1>6 DEF Completes
    <2>2. m.type = "delayed"
      BY <2>1 DEF Provenance
    <2> QED BY <2>1, <2>2 DEF Asks, Promises, RxIs, GotIs
  <1>7. CASE Notifies
    BY <1>7 DEF Notifies, Asks, Promises, RxIs, GotIs
  <1> QED BY <1>1, <1>2, <1>3, <1>4, <1>5, <1>6, <1>7 DEF Moves

\* What the order of the answers says: none on its way is for a call not yet
\* rung, and none is left when the answer to the last call has been read.
LEMMA AskedOrder ==
  ASSUME TypeOK, Order
  PROVE  /\ \A a \in Asked : a[1] \in Nat /\ a[1] <= seq
         /\ pc = "written" /\ out.from = None => \A a \in Asked : a[1] < seq
         /\ Finishes /\ GotIs("command") /\ out.from.seq = seq => Asked' = {}
  <1>1. /\ \A a \in Asked : a[1] \in Nat /\ a[1] <= seq
        /\ pc = "written" /\ out.from = None => \A a \in Asked : a[1] < seq
    BY AskedDef, Numbered DEF Asks, Order, RxIs, GotIs
  <1>2. ASSUME Finishes, GotIs("command"), out.from.seq = seq, NEW a, Asks(a)'
        PROVE  FALSE
    BY <1>2, Numbered DEF Finishes, Asks, Order, RxIs, GotIs
  <1> QED BY <1>1, <1>2, AskedDef

\* An answer that was read is not on its way again.
LEMMA AskedOnce ==
  ASSUME TypeOK, Order, Finishes, GotIs("command")
  PROVE  <<out.from.seq, out.from.cmd>> \notin Asked'
  <1>1. ASSUME NEW a, Asks(a)'
        PROVE  a # <<out.from.seq, out.from.cmd>>
    BY <1>1, Numbered DEF Finishes, Asks, Order, RxIs, GotIs
  <1> QED BY <1>1, AskedDef

\* The same for delayed responses: none is left when the last one has been
\* read, or when the command they would belong to was answered with an error.
LEMMA PromisedOrder ==
  ASSUME TypeOK, DelayedOnce, Finishes, NEW n, \A a \in Promised : a[1] = n,
         out.from # None, out.from.seq = n,
         GotIs("delayed") \/ (GotIs("command") /\ out.from.words[1] # SCMI_SUCCESS)
  PROVE  Promised' = {}
  <1>1. ASSUME NEW a, Promises(a)'
        PROVE  FALSE
    <2>1. a \in Promised
      BY <1>1, AskedDef DEF Finishes, Promises, RxIs, GotIs
    <2>2. a[1] = n
      BY <2>1
    <2> QED BY <1>1, <2>2 DEF Finishes, Promises, DelayedOnce, RxIs, GotIs
  <1> QED BY <1>1, AskedDef

-----------------------------------------------------------------------------
(* No check that passes leaves the answer to an earlier call behind.       *)

\* What a check that passes has read.
LEMMA PassedOnAnswer ==
  ASSUME TypeOK, Progress, Provenance, BaseQuiet, PassCheck
  PROVE  /\ call.op = "send" =>
              /\ GotIs("command") /\ <<out.from.seq, out.from.cmd>> \in Asked
              /\ call.about = seq /\ out.from.words[1] = call.expect
              /\ call.check = "full" => out.from.cmd = call.cmd /\ call.cmd \notin probed
              /\ call.check \in {"full", "status"}
         /\ call.op = "response" =>
              GotIs("delayed") /\ <<out.from.seq, out.from.cmd>> \in Promised
  <1> USE NoneAssumption, WordAssumption
  <1>1. /\ call.check \in {"full", "status", "wait"} /\ call.op # "none"
        /\ pc = "returned" /\ call.cmd \in Cmd /\ CheckPasses
    BY DEF PassCheck, Progress, TypeOK, Call
  <1>2. ASSUME NEW type \in MsgType, HeaderPasses(type)
        PROVE  GotIs(type) /\ out.from.cmd = call.cmd
    <2>1. out.hdr # None
      BY <1>1, <1>2 DEF HeaderPasses, Header
    <2> QED BY <1>2, <2>1 DEF Provenance, HeaderPasses, HeaderOf, GotIs
  <1>3. CASE call.check = "full"
    <2>1. HeaderPasses("command") /\ out.status = call.expect
      BY <1>1, <1>3 DEF CheckPasses, StatusPasses, Progress
    <2>2. GotIs("command") /\ out.from.cmd = call.cmd
      BY <1>2, <2>1 DEF MsgType
    <2>3. call.op = "send" /\ call.about = seq /\ call.cmd \notin probed /\ call.via = "response"
      BY <1>3 DEF Progress
    <2>4. <<out.from.seq, out.from.cmd>> \in Asked
      BY <2>2, AskedDef DEF Asks
    <2>5. out.from.words[1] = call.expect
      BY <2>1, <2>2, <2>3 DEF Provenance
    <2> QED BY <1>3, <2>2, <2>3, <2>4, <2>5
  <1>4. CASE call.check = "status"
    <2>1. out.status = call.expect /\ call.expect \in Status /\ call.op = "send"
          /\ call.via = "response" /\ call.about = seq /\ InBase
      BY <1>1, <1>4 DEF CheckPasses, StatusPasses, Progress
    <2>2. out.from # None
      BY <2>1 DEF Provenance
    <2>3. GotIs("command")
      BY <2>1, <2>2 DEF BaseQuiet, GotIs
    <2>4. <<out.from.seq, out.from.cmd>> \in Asked
      BY <2>3, AskedDef DEF Asks
    <2>5. out.from.words[1] = call.expect
      BY <2>1, <2>3 DEF Provenance
    <2> QED BY <1>4, <2>1, <2>3, <2>4, <2>5
  <1>5. CASE call.check = "wait"
    <2>1. call.op # "send"
      BY <1>5 DEF Progress
    <2>2. call.op = "response" => HeaderPasses("delayed")
      BY <1>1, <1>5 DEF CheckPasses
    <2>3. call.op = "response" => GotIs("delayed")
      BY <1>2, <2>2 DEF MsgType
    <2>4. call.op = "response" => <<out.from.seq, out.from.cmd>> \in Promised
      BY <2>3, AskedDef DEF Promises
    <2> QED BY <2>1, <2>3, <2>4
  <1> QED BY <1>1, <1>3, <1>4, <1>5

\* The same before any check has failed: the answer is the command's own,
\* unless the test has gone on from this command without its answer.
LEMMA PassedOnOwn ==
  ASSUME TypeOK, Progress, Provenance, BaseQuiet, Synchronised, ~failed, PassCheck
  PROVE  /\ call.op = "send" => \/ Own(<<out.from.seq, out.from.cmd>>)
                                \/ call.check = "full" /\ call.cmd \in doubted
         /\ call.op = "response" => out.from.seq = call.about
  <1>1. /\ call.op = "send" =>
             /\ <<out.from.seq, out.from.cmd>> \in Asked /\ call.check \in {"full", "status"}
             /\ call.check = "full" => out.from.cmd = call.cmd /\ call.cmd \notin probed
        /\ call.op = "response" => <<out.from.seq, out.from.cmd>> \in Promised
    BY PassedOnAnswer
  <1>2. CASE call.op = "send" /\ call.check = "full"
    BY <1>1, <1>2 DEF Synchronised
  <1>3. CASE call.op = "send" /\ call.check = "status"
    BY <1>1, <1>3 DEF Synchronised, MayTrustStatus
  <1>4. CASE call.op = "response"
    <2>1. pc = "returned" /\ call.check \notin {"full"}
      BY <1>4 DEF PassCheck, Progress
    <2> QED BY <1>1, <1>4, <2>1 DEF Synchronised, OwnDelayed
  <1> QED BY <1>1, <1>2, <1>3, <1>4

LEMMA InitSynchronised == Init => Synchronised /\ Paid
  <1> SUFFICES ASSUME Init PROVE Synchronised /\ Paid
    OBVIOUS
  <1>1. Asked = {} /\ Promised = {}
    BY AskedDef DEF Init, Asks, Promises, RxIs, GotIs, VAL_INIT_TEST_PARAM
  <1>2. IsFiniteSet(Asked) /\ Cardinality(Asked) = 0
    BY <1>1, FS_EmptySet
  <1> QED BY <1>1, <1>2 DEF Init, Synchronised, Paid, Spent

\* Starting a call, by what it asks and expects.
LEMMA SynchronisedStart ==
  ASSUME Synchronised, Progress, ~failed, pc = "idle", pc' # "idle",
         \A a \in Asked' : a \in Asked, \A a \in Promised' : a \in Promised,
         probed \subseteq probed', UNCHANGED <<phase, doubted>>,
         \/ call'.check \in {"full", "probe", "refute", "wait"} /\ call'.op # "response"
            /\ awaiting = None
         \/ call'.check = "status" /\ calm /\ InBase /\ awaiting = None
         \/ call'.op = "response" /\ call'.check = "wait" /\ call'.about = seq
            /\ awaiting # None
  PROVE  Synchronised'
  <1>1. call.op = "none" /\ call.check \notin {"full", "status"}
    BY DEF Progress, NoCall
  <1>2. \A a \in Asked' : a[2] \in probed' \cup doubted'
    BY <1>1 DEF Synchronised, Own
  <1>3. MayTrustStatus' => MayTrustStatus
    BY DEF MayTrustStatus
  <1>4. MayTrustStatus' => Asked' = {}
    BY <1>1, <1>3 DEF Synchronised, Own
  <1>5. \A a \in Promised' : OwnDelayed(a)'
    BY <1>1 DEF Synchronised, OwnDelayed
  <1> QED BY <1>2, <1>4, <1>5 DEF Synchronised, InBase

\* Leaving a call when only answers to probes, or doubted ones, are left behind.
LEMMA SynchronisedFinish ==
  ASSUME LeaveCall, \A a \in Asked' : a[2] \in probed' \cup doubted',
         MayTrustStatus' => Asked' = {},
         \A a \in Promised' : a[2] \in AsyncCmd /\ awaiting' # None /\ a[1] = seq'
  PROVE  Synchronised'
  <1>1. pc' = "idle" /\ call'.check = "none"
    BY DEF LeaveCall, NoCall
  <1> QED BY <1>1 DEF Synchronised, OwnDelayed

\* A check that failed is not forgotten.
LEMMA FailedStays == [Next]_vars => (failed => failed')
  BY DEF Next, Agent, StartCheck, StartFullCheck, StartProbe, StartRefute,
     StartStatusCheck, StartDelayedCheck, StartNotificationCheck, SendCommand, WaitFor,
     RingDoorbell, ReadMessage, FinishCheck, FinishProbe, FinishRefute, PassCheck, FailCheck,
     LeaveBase, Platform, PlatformAnswers, PlatformDrops, PlatformCompletes,
     PlatformNotifies, Finished, vars, testVars

\* Nor is a doubt.
LEMMA DoubtStays == [Next]_vars => doubted \subseteq doubted'
  BY DEF Next, Agent, StartCheck, StartFullCheck, StartProbe, StartRefute,
     StartStatusCheck, StartDelayedCheck, StartNotificationCheck, SendCommand, WaitFor,
     RingDoorbell, ReadMessage, FinishCheck, FinishProbe, FinishRefute, PassCheck, FailCheck,
     LeaveBase, Platform, PlatformAnswers, PlatformDrops, PlatformCompletes,
     PlatformNotifies, Finished, vars, testVars

LEMMA SynchronisedStep ==
  /\ TypeOK /\ Progress /\ Provenance /\ Order /\ DelayedOnce /\ BaseQuiet
  /\ Synchronised /\ [Next]_vars
  => Synchronised'
  <1> SUFFICES ASSUME TypeOK, Progress, Provenance, Order, DelayedOnce, BaseQuiet,
                      Synchronised, [Next]_vars, ~failed'
               PROVE  Synchronised'
    BY DEF Synchronised
  <1> USE CmdAssumption, NoneAssumption
  <1>0. ~failed /\ Moves
    BY FailedStays, StepMoves
  <1>1. /\ \A a \in Asked' : \/ a \in Asked
                             \/ Rings /\ call.op = "send" /\ a = <<seq, call.cmd>>
        /\ \A a \in Promised' : \/ a \in Promised
                                \/ Answers /\ a \in Asked /\ a[2] \in AsyncCmd
    BY <1>0, AskedStep
  <1>2. pc = "idle" /\ pc' # "idle" =>
          (\A a \in Asked' : a \in Asked) /\ (\A a \in Promised' : a \in Promised)
    BY <1>1 DEF Rings, Answers
  <1>3. CASE StartFullCheck
    <2>1. PICK c, e, p : SendCommand(c, "full", e, p) /\ UNCHANGED probed
      BY <1>3 DEF StartFullCheck
    <2> QED BY <1>0, <1>2, <2>1, SynchronisedStart DEF SendCommand
  <1>4. CASE StartProbe
    <2>1. PICK c, p : SendCommand(c, "probe", SCMI_NOT_FOUND, p) /\ probed' = probed \cup {c}
      BY <1>4 DEF StartProbe
    <2> QED BY <1>0, <1>2, <2>1, SynchronisedStart DEF SendCommand
  <1>5. CASE StartStatusCheck
    <2>1. PICK c, e, p : SendCommand(c, "status", e, p) /\ UNCHANGED probed
      BY <1>5 DEF StartStatusCheck
    <2>2. InBase /\ calm
      BY <1>5 DEF StartStatusCheck
    <2> QED BY <1>0, <1>2, <2>1, <2>2, SynchronisedStart DEF SendCommand
  <1>15. CASE StartRefute
    <2>1. PICK c, p : SendCommand(c, "refute", SCMI_NOT_FOUND, p) /\ UNCHANGED probed
      BY <1>15 DEF StartRefute
    <2> QED BY <1>0, <1>2, <2>1, SynchronisedStart DEF SendCommand
  <1>6. CASE StartDelayedCheck
    <2>1. PICK via : WaitFor("response", via, awaiting, awaitedId) /\ awaiting # None
      BY <1>6 DEF StartDelayedCheck
    <2> QED BY <1>0, <1>2, <2>1, SynchronisedStart DEF WaitFor, testVars
  <1>7. CASE StartNotificationCheck
    <2>1. PICK c, p : WaitFor("notification", "notification", c, p) /\ awaiting = None
      BY <1>7 DEF StartNotificationCheck
    <2> QED BY <1>0, <1>2, <2>1, SynchronisedStart DEF WaitFor, testVars
  <1>8. CASE RingDoorbell
    <2>1. pc = "written" /\ pc' = "polling" /\ UNCHANGED <<call, seq, testVars>>
      BY <1>8 DEF RingDoorbell
    <2>2. call.op = "send" /\ call.about = seq
      BY <2>1 DEF Progress
    <2>3. \A a \in Promised' : a \in Promised
      BY <1>1, <2>1 DEF Answers
    <2> QED BY <1>0, <1>1, <2>1, <2>2, <2>3
            DEF Synchronised, MayTrustStatus, Own, OwnDelayed, InBase, testVars
  <1>9. CASE ReadMessage
    <2>1. /\ pc = "polling" /\ pc' \in {"returned", "crashed"}
          /\ UNCHANGED <<call, seq, testVars, owed, work>>
      BY <1>9 DEF ReadMessage, platformVars
    <2>2. (\A a \in Asked' : a \in Asked) /\ (\A a \in Promised' : a \in Promised)
      BY <1>1, <2>1 DEF Rings, Answers
    <2> QED BY <1>0, <2>1, <2>2
            DEF Synchronised, MayTrustStatus, Own, OwnDelayed, InBase, testVars
  <1>10. CASE FinishProbe
    <2>1. /\ LeaveCall /\ ~calm' /\ UNCHANGED <<probed, doubted, seq>>
          /\ pc = "returned" /\ pc' = "idle" /\ call.check = "probe" /\ call'.check = "none"
      BY <1>10 DEF FinishProbe, LeaveCall, NoCall
    <2>2. (\A a \in Asked' : a \in Asked) /\ (\A a \in Promised' : a \in Promised)
      BY <1>1, <2>1 DEF Rings, Answers
    <2>3. call.cmd \in probed /\ call.op = "send"
      BY <2>1 DEF Progress
    <2>4. \A a \in Asked' : a[2] \in probed' \cup doubted'
      BY <1>0, <2>1, <2>2, <2>3 DEF Synchronised, Own
    <2>5. Promised' = {}
      BY <1>0, <2>1, <2>2, <2>3 DEF Synchronised, OwnDelayed
    <2> QED BY <2>1, <2>4, <2>5, SynchronisedFinish DEF MayTrustStatus
  <1>16. CASE FinishRefute
    <2>1. /\ LeaveCall /\ ~calm' /\ UNCHANGED <<probed, seq>> /\ Finishes
          /\ pc = "returned" /\ pc' = "idle" /\ call.check = "refute" /\ call'.check = "none"
          /\ doubted' = IF Answered THEN doubted ELSE doubted \cup {call.cmd}
      BY <1>16 DEF FinishRefute, LeaveCall, NoCall, Finishes, VAL_INIT_TEST_PARAM,
         channelVars, platformVars
    <2>2. (\A a \in Asked' : a \in Asked) /\ (\A a \in Promised' : a \in Promised)
      BY <1>1, <2>1 DEF Rings, Answers
    <2>3. call.op = "send" /\ call.about = seq
      BY <2>1 DEF Progress
    <2>4. ASSUME NEW a \in Asked' PROVE a[2] \in probed' \cup doubted'
      <3>1. CASE Answered
        BY <2>1, <2>3, <3>1, AskedOrder DEF Answered, GotIs
      <3>2. CASE ~Answered
        BY <1>0, <2>1, <2>2, <3>2 DEF Synchronised, Own
      <3> QED BY <3>1, <3>2
    <2>5. Promised' = {}
      BY <1>0, <2>1, <2>2, <2>3 DEF Synchronised, OwnDelayed
    <2> QED BY <2>1, <2>4, <2>5, SynchronisedFinish DEF MayTrustStatus
  <1>11. CASE PassCheck
    <2>1. /\ LeaveCall /\ UNCHANGED <<probed, doubted, seq, phase>> /\ Finishes
          /\ pc = "returned" /\ pc' = "idle" /\ call'.check = "none"
          /\ call.op # "none" /\ out'.from = None
      BY <1>11 DEF PassCheck, LeaveCall, NoCall, Finishes, VAL_INIT_TEST_PARAM, channelVars,
         platformVars, Progress
    <2>2. (\A a \in Asked' : a \in Asked) /\ (\A a \in Promised' : a \in Promised)
      BY <1>1, <2>1 DEF Rings, Answers
    <2>3. CASE call.op = "send"
      <3>1. /\ GotIs("command") /\ call.about = seq /\ out.from.words[1] = call.expect
            /\ call.check = "full" => out.from.cmd = call.cmd
        BY <1>11, <2>3, PassedOnAnswer
      <3>2. Own(<<out.from.seq, out.from.cmd>>) => out.from.seq = seq /\ Asked' = {}
        BY <2>1, <3>1, AskedOrder DEF Own
      <3>3. \A a \in Promised : /\ call.check = "full" /\ a[2] = call.cmd
                                /\ a[2] \in AsyncCmd /\ a[1] = seq
        BY <1>0, <2>1, <2>3, <3>1 DEF Synchronised, OwnDelayed
      <3>4. Own(<<out.from.seq, out.from.cmd>>) /\ call.expect # SCMI_SUCCESS
              => Promised' = {}
        BY <2>1, <3>1, <3>2, <3>3, PromisedOrder DEF GotIs
      <3>5. ASSUME NEW a \in Promised', Own(<<out.from.seq, out.from.cmd>>)
            PROVE  awaiting' # None
        <4>1. call.check = "full" /\ call.cmd \in AsyncCmd /\ call.expect = SCMI_SUCCESS
          BY <2>2, <3>3, <3>4, <3>5
        <4> QED BY <1>11, <4>1 DEF PassCheck
      <3>6. CASE Own(<<out.from.seq, out.from.cmd>>)
        BY <2>1, <2>2, <3>2, <3>3, <3>5, <3>6, SynchronisedFinish
      <3>7. CASE call.check = "full" /\ call.cmd \in doubted
        <4>1. \A a \in Asked' : a[2] \in probed' \cup doubted'
          BY <1>0, <2>1, <2>2, <3>7 DEF Synchronised, Own
        <4>2. ~InBase'
          BY <2>1, <3>7 DEF BaseQuiet, InBase
        <4>3. Promised' = {}
          BY <2>2, <3>3, <3>7 DEF TypeOK
        <4> QED BY <2>1, <4>1, <4>2, <4>3, SynchronisedFinish DEF MayTrustStatus
      <3> QED BY <1>0, <1>11, <2>3, <3>6, <3>7, PassedOnOwn
    <2>4. CASE call.op = "response"
      <3>1. GotIs("delayed") /\ out.from.seq = call.about
        BY <1>0, <1>11, <2>4, PassedOnOwn, PassedOnAnswer
      <3>2. \A a \in Promised : a[1] = call.about
        BY <1>0, <2>1, <2>4 DEF Synchronised, OwnDelayed, Progress
      <3>3. Promised' = {}
        BY <2>1, <3>1, <3>2, PromisedOrder DEF GotIs
      <3>4. ~InBase'
        BY <2>1, <3>1 DEF BaseQuiet, GotIs, InBase
      <3>5. \A a \in Asked' : a[2] \in probed' \cup doubted'
        BY <1>0, <2>1, <2>2, <2>4 DEF Synchronised, Own
      <3> QED BY <2>1, <3>3, <3>4, <3>5, SynchronisedFinish DEF MayTrustStatus
    <2>5. CASE call.op = "notification"
      <3>1. GotIs("notification")
        <4>1. call.check = "wait" /\ call.cmd \in Cmd
          BY <2>5 DEF Progress
        <4>2. out.hdr = <<"notification", call.cmd>>
          BY <1>11, <2>5, <4>1 DEF PassCheck, CheckPasses, HeaderPasses
        <4>3. out.hdr # None
          BY <4>1, <4>2 DEF Header, MsgType
        <4> QED BY <4>2, <4>3 DEF Provenance, HeaderOf, GotIs
      <3>2. ~InBase'
        BY <2>1, <3>1 DEF BaseQuiet, GotIs, InBase
      <3>3. Promised' = {}
        BY <1>0, <2>1, <2>2, <2>5 DEF Synchronised, OwnDelayed, Progress
      <3>4. \A a \in Asked' : a[2] \in probed' \cup doubted'
        BY <1>0, <2>1, <2>2, <2>5 DEF Synchronised, Own
      <3> QED BY <2>1, <3>2, <3>3, <3>4, SynchronisedFinish DEF MayTrustStatus
    <2> QED BY <2>1, <2>3, <2>4, <2>5 DEF TypeOK, Call
  <1>12. CASE FailCheck
    BY <1>12 DEF FailCheck
  <1>13. CASE LeaveBase
    <2>1. /\ UNCHANGED <<pc, call, seq, probed, doubted, awaiting>> /\ pc = "idle" /\ ~calm'
          /\ UNCHANGED <<work, rx, out, owed>>
      BY <1>13 DEF LeaveBase, agentVars, channelVars, platformVars
    <2>2. (\A a \in Asked' : a \in Asked) /\ (\A a \in Promised' : a \in Promised)
      BY <2>1, AskedDef DEF Asks, Promises, RxIs, GotIs
    <2>3. call.check # "status" /\ call.check # "full"
      BY <2>1 DEF Progress, NoCall
    <2> QED BY <1>0, <2>1, <2>2, <2>3 DEF Synchronised, MayTrustStatus, Own, OwnDelayed
  <1>14. CASE Platform \/ Finished \/ UNCHANGED vars
    <2>1. UNCHANGED <<agentVars, testVars>>
      BY <1>14 DEF Platform, PlatformAnswers, PlatformDrops, PlatformCompletes,
         PlatformNotifies, Finished, vars
    <2>2. UNCHANGED <<pc, call, seq, probed, doubted, awaiting, calm, phase>>
      BY <2>1 DEF agentVars, testVars
    <2>3. \A a \in Asked' : a \in Asked
      BY <1>1, <2>2 DEF Rings
    <2>4. ASSUME NEW a \in Asked, a[2] \in AsyncCmd
          PROVE  call.check = "full" /\ a = <<call.about, call.cmd>>
      <3>1. a[2] \notin probed \cup doubted
        BY <2>4 DEF TypeOK
      <3>2. Own(a)
        BY <1>0, <3>1 DEF Synchronised
      <3>3. call.cmd \in AsyncCmd
        BY <2>4, <3>2 DEF Own
      <3>4. call.check # "probe" /\ call.check # "refute"
        BY <2>4, <3>1, <3>2, <3>3 DEF Progress, Own
      <3>5. call.check # "status"
        BY <3>3 DEF Progress, BaseQuiet
      <3> QED BY <3>2, <3>4, <3>5 DEF Own, Progress
    <2>5. \A a \in Promised' : OwnDelayed(a)
      BY <1>0, <1>1, <2>4 DEF Synchronised, OwnDelayed
    <2> QED BY <1>0, <2>2, <2>3, <2>5
            DEF Synchronised, MayTrustStatus, Own, OwnDelayed, InBase
  <1> QED BY <1>3, <1>4, <1>5, <1>6, <1>7, <1>8, <1>9, <1>10, <1>11, <1>12, <1>13, <1>14,
             <1>15, <1>16
          DEF Next, Agent, StartCheck, FinishCheck

-----------------------------------------------------------------------------
(* What a check that passes has cost, and what it has read.                *)

\* Fewer answers on their way cost no more.
LEMMA SpentLess ==
  ASSUME IsFiniteSet(Asked), \A a \in Asked' : a \in Asked, passes \in Nat,
         UNCHANGED passes
  PROVE  IsFiniteSet(Asked') /\ Spent' <= Spent /\ Spent \in Nat /\ Spent' \in Nat
  <1>1. IsFiniteSet(Asked') /\ Cardinality(Asked') <= Cardinality(Asked)
    BY FS_Subset
  <1>2. Cardinality(Asked) \in Nat /\ Cardinality(Asked') \in Nat
    BY <1>1, FS_CardinalityType
  <1> QED BY <1>1, <1>2 DEF Spent

LEMMA PaidStep ==
  TypeOK /\ Progress /\ Provenance /\ Order /\ BaseQuiet /\ Paid /\ [Next]_vars => Paid'
  <1> SUFFICES ASSUME TypeOK, Progress, Provenance, Order, BaseQuiet, Paid, [Next]_vars
               PROVE  Paid'
    OBVIOUS
  <1> USE BoundAssumption
  <1>0. Moves /\ fds \in Nat /\ passes \in Nat /\ seq \in Nat /\ IsFiniteSet(Asked)
    BY StepMoves DEF TypeOK, Paid
  <1>1. \A a \in Asked' : \/ a \in Asked
                          \/ Rings /\ call.op = "send" /\ a = <<seq, call.cmd>>
    BY <1>0, AskedStep
  <1>2. ASSUME UNCHANGED passes, \A a \in Asked' : a \in Asked, fds' \in Nat, fds <= fds',
               pc' = "written" /\ FdFree' =>
                 fds' = fds + 1 \/ (pc = "written" /\ FdFree /\ fds' = fds)
        PROVE  Paid'
    <2>1. IsFiniteSet(Asked') /\ Spent' <= Spent /\ Spent \in Nat /\ Spent' \in Nat
      BY <1>0, <1>2, SpentLess
    <2>2. Spent <= fds /\ (pc = "written" /\ FdFree => Spent + 1 <= fds)
      BY DEF Paid
    <2>3. Spent' <= fds'
      BY <1>0, <1>2, <2>1, <2>2
    <2>4. ASSUME pc' = "written", FdFree' PROVE Spent' + 1 <= fds'
      <3>1. fds' = fds + 1 \/ (pc = "written" /\ FdFree /\ fds' = fds)
        BY <1>2, <2>4
      <3> QED BY <1>0, <2>1, <2>2, <3>1
    <2> QED BY <2>1, <2>3, <2>4 DEF Paid
  <1>3. ASSUME NEW c, NEW chk, NEW e, NEW p, SendCommand(c, chk, e, p)
        PROVE  Paid'
    <2>1. /\ pc = "idle" /\ UNCHANGED passes /\ fds' \in {fds, fds + 1}
          /\ (pc' = "written" /\ FdFree' => fds' = fds + 1)
      BY <1>0, <1>3 DEF SendCommand, OpenFile, FdFree
    <2> QED BY <1>0, <1>1, <1>2, <2>1 DEF Rings
  <1>4. ASSUME NEW op, NEW via, NEW c, NEW p, WaitFor(op, via, c, p)
        PROVE  Paid'
    <2>1. pc = "idle" /\ UNCHANGED passes /\ fds' \in {fds, fds + 1} /\ pc' # "written"
      BY <1>0, <1>4 DEF WaitFor, OpenFile, testVars
    <2> QED BY <1>0, <1>1, <1>2, <2>1 DEF Rings
  <1>5. CASE StartFullCheck \/ StartProbe \/ StartRefute \/ StartStatusCheck
    BY <1>3, <1>5 DEF StartFullCheck, StartProbe, StartRefute, StartStatusCheck
  <1>6. CASE StartDelayedCheck \/ StartNotificationCheck
    BY <1>4, <1>6 DEF StartDelayedCheck, StartNotificationCheck
  <1>7. CASE RingDoorbell
    <2>1. /\ pc = "written" /\ pc' = "polling" /\ UNCHANGED <<rx, out, passes>>
          /\ fds' = IF FdFree THEN fds + 1 ELSE fds
          /\ work' = IF FdFree THEN Append(work, tx) ELSE work
      BY <1>7 DEF RingDoorbell, OpenFile, testVars
    <2>2. CASE FdFree
      <3> DEFINE a == <<seq, call.cmd>>
      <3>1. Asked' \subseteq Asked \cup {a}
        BY <1>1
      <3>2. /\ IsFiniteSet(Asked \cup {a})
            /\ Cardinality(Asked \cup {a}) \in {Cardinality(Asked), Cardinality(Asked) + 1}
        BY <1>0, FS_AddElement
      <3>3. IsFiniteSet(Asked') /\ Cardinality(Asked') <= Cardinality(Asked \cup {a})
        BY <3>1, <3>2, FS_Subset
      <3>4. Cardinality(Asked) \in Nat /\ Cardinality(Asked') \in Nat
        BY <1>0, <3>3, FS_CardinalityType
      <3>5. Spent' <= Spent + 2 /\ Spent \in Nat /\ Spent' \in Nat
        BY <1>0, <2>1, <3>2, <3>3, <3>4 DEF Spent
      <3> QED BY <1>0, <2>1, <2>2, <3>3, <3>5 DEF Paid
    <2>3. CASE ~FdFree
      <3>1. \A a \in Asked' : a \in Asked
        BY <2>1, <2>3, AskedDef DEF Asks, RxIs, GotIs
      <3> QED BY <1>0, <1>2, <2>1, <2>3, <3>1
    <2> QED BY <2>2, <2>3
  <1>8. CASE ReadMessage
    <2>1. pc = "polling" /\ pc' # "written" /\ UNCHANGED <<passes, fds>>
      BY <1>8 DEF ReadMessage, testVars
    <2> QED BY <1>0, <1>1, <1>2, <2>1 DEF Rings
  <1>9. CASE FinishProbe \/ FinishRefute \/ FailCheck
    <2>1. pc = "returned" /\ pc' = "idle" /\ UNCHANGED <<passes, fds>>
      BY <1>9 DEF FinishProbe, FinishRefute, FailCheck, LeaveCall
    <2> QED BY <1>0, <1>1, <1>2, <2>1 DEF Rings
  <1>10. CASE PassCheck
    <2>1. /\ pc = "returned" /\ pc' = "idle" /\ UNCHANGED fds /\ Finishes
          /\ passes' = IF call.op = "send" THEN passes + 1 ELSE passes
      BY <1>10 DEF PassCheck, LeaveCall, Finishes, VAL_INIT_TEST_PARAM, channelVars,
         platformVars
    <2>2. CASE call.op = "send"
      <3> DEFINE a == <<out.from.seq, out.from.cmd>>
      <3>1. GotIs("command") /\ a \in Asked
        BY <1>10, <2>2, PassedOnAnswer
      <3>2. a \notin Asked'
        BY <2>1, <3>1, AskedOnce
      <3>3. Asked' \subseteq Asked \ {a}
        BY <1>1, <2>1, <3>2 DEF Rings
      <3> HIDE DEF a
      <3>4. /\ IsFiniteSet(Asked \ {a})
            /\ Cardinality(Asked \ {a}) = Cardinality(Asked) - 1
        BY <1>0, <3>1, FS_RemoveElement
      <3>5. IsFiniteSet(Asked') /\ Cardinality(Asked') <= Cardinality(Asked \ {a})
        BY <3>3, <3>4, FS_Subset
      <3>6. Cardinality(Asked) \in Nat /\ Cardinality(Asked') \in Nat
        BY <1>0, <3>5, FS_CardinalityType
      <3>7. Spent' <= Spent /\ Spent \in Nat /\ Spent' \in Nat
        BY <1>0, <2>1, <2>2, <3>4, <3>5, <3>6 DEF Spent
      <3> QED BY <1>0, <2>1, <3>5, <3>7 DEF Paid
    <2>3. CASE call.op # "send"
      BY <1>0, <1>1, <1>2, <2>1, <2>3 DEF Rings
    <2> QED BY <2>2, <2>3
  <1>11. CASE LeaveBase \/ Platform \/ Finished \/ UNCHANGED vars
    <2>1. UNCHANGED <<pc, fds, passes>>
      BY <1>11 DEF LeaveBase, Platform, PlatformAnswers, PlatformDrops, PlatformCompletes,
         PlatformNotifies, Finished, vars, agentVars, testVars
    <2>2. \A a \in Asked' : a \in Asked
      BY <1>1, <2>1 DEF Rings
    <2> QED BY <1>0, <1>2, <2>1, <2>2 DEF FdFree
  <1> QED BY <1>5, <1>6, <1>7, <1>8, <1>9, <1>10, <1>11
          DEF Next, Agent, StartCheck, FinishCheck

LEMMA TrustedStep ==
  /\ TypeOK /\ Progress /\ Provenance /\ BaseQuiet /\ Synchronised
  /\ TrustedAnswers /\ [Next]_vars
  => TrustedAnswers'
  <1> SUFFICES ASSUME TypeOK, Progress, Provenance, BaseQuiet, Synchronised,
                      TrustedAnswers, [Next]_vars
               PROVE  TrustedAnswers'
    OBVIOUS
  <1>1. CASE PassCheck
    <2>1. /\ accepted'.op = call.op /\ accepted'.from = out.from /\ accepted'.cmd = call.cmd
          /\ accepted'.about = call.about /\ UNCHANGED <<failed, doubted>>
      BY <1>1 DEF PassCheck
    <2>2. /\ call.op = "send" => GotIs("command")
          /\ call.op = "response" => GotIs("delayed")
      BY <1>1, PassedOnAnswer
    <2>3. ~failed => /\ call.op = "send" => \/ Own(<<out.from.seq, out.from.cmd>>)
                                            \/ call.cmd \in doubted
                     /\ call.op = "response" => out.from.seq = call.about
      BY <1>1, PassedOnOwn
    <2> QED BY <2>1, <2>2, <2>3 DEF TrustedAnswers, GotIs, Own
  <1>2. CASE ~PassCheck
    <2>1. UNCHANGED accepted
      BY <1>2 DEF Next, Agent, StartCheck, StartFullCheck, StartProbe, StartRefute,
         StartStatusCheck, StartDelayedCheck, StartNotificationCheck, SendCommand, WaitFor,
         RingDoorbell, ReadMessage, FinishCheck, FinishProbe, FinishRefute, FailCheck,
         LeaveBase, Platform, PlatformAnswers, PlatformDrops, PlatformCompletes,
         PlatformNotifies, Finished, vars, testVars
    <2> QED BY <2>1, FailedStays, DoubtStays DEF TrustedAnswers
  <1> QED BY <1>1, <1>2

LEMMA InitIInv == Init => IInv
  <1>1. Init => TrustedAnswers
    BY DEF Init, TrustedAnswers
  <1> QED BY <1>1, InitTypeOK, InitProgress, InitProvenance, InitOrder, InitBaseQuiet,
             InitSynchronised DEF IInv

LEMMA IInvStep == IInv /\ [Next]_vars => IInv'
  <1> SUFFICES ASSUME IInv, [Next]_vars PROVE IInv'
    OBVIOUS
  <1> USE DEF IInv
  <1>1. TypeOK' /\ Progress' /\ Provenance' /\ GenuineAnswers'
    BY TypeStep, ProgressStep, ProvenanceStep, GenuineStep
  <1>2. Order' /\ DelayedOnce'
    BY StepMoves, OrderStep, DelayedStep
  <1>3. BaseQuiet' /\ Synchronised'
    BY BaseQuietStep, SynchronisedStep
  <1>4. Paid' /\ TrustedAnswers'
    BY PaidStep, TrustedStep
  <1> QED BY <1>1, <1>2, <1>3, <1>4

\* As long as no check has reported FAIL, every check that passed was decided
\* by the answer to its own command, or is about the one command test_r005_v3.c
\* has gone on from without its answer; although no header carries a token and
\* linux_send_message reads after a timeout.  The order of the answers, the
\* commands a test run repeats and the checks that compare headers are enough,
\* for every set of commands and statuses, any number of calls, a platform that
\* answers or not and a driver that waits or not.
THEOREM Trusted == Spec => []TrustedAnswers
  <1>1. IInv => TrustedAnswers
    BY DEF IInv
  <1> QED BY InitIInv, IInvStep, <1>1, PTL DEF Spec

\* Whatever fails, comes late or is taken for another's answer, a run has
\* opened two descriptors for every command whose check passed.
THEOREM Budget == Spec => []DescriptorBudget
  <1>1. IInv => DescriptorBudget
    <2> SUFFICES ASSUME IInv PROVE DescriptorBudget
      OBVIOUS
    <2>1. Cardinality(Asked) \in Nat /\ passes \in Nat /\ fds \in Nat
      BY FS_CardinalityType DEF IInv, Paid, TypeOK
    <2> QED BY <2>1 DEF IInv, Paid, Spent, DescriptorBudget
  <1> QED BY InitIInv, IInvStep, <1>1, PTL DEF Spec

=============================================================================
