------------------------------ MODULE Mailbox -------------------------------
(***************************************************************************)
(* The test agent talking to the SCMI platform over the Linux mailbox.     *)
(*                                                                         *)
(* Three actors share one channel:                                         *)
(*   - the agent: the checks of the test pool, through val_send_message,   *)
(*     val_receive_delayed_response and val_receive_notification down to   *)
(*     transport_mailbox.c;                                                *)
(*   - the mailbox driver (external): a transmit buffer written by the     *)
(*     message file and sent by the signal file, and a receive buffer      *)
(*     holding the last message of the platform;                           *)
(*   - the platform (external): answers commands in order, each at most    *)
(*     once and arbitrarily late, echoing the header; sends delayed        *)
(*     responses and notifications on its own account.                     *)
(*                                                                         *)
(* A header carries no token (val_msg_hdr_create), so nothing on the wire  *)
(* tells the answer to this command from a late answer to an earlier one   *)
(* with the same header.  `seq' below numbers the calls for the bound and  *)
(* the properties alone; the modelled code never reads it.                 *)
(***************************************************************************)
EXTENDS Integers, Sequences

CONSTANTS
  Cmd,         \* the <protocol, message id> pairs of the command headers
  ProbeCmd,    \* PROTOCOL_MESSAGE_ATTRIBUTES of each protocol
  RefuteCmd,   \* RESET_DOMAIN_ATTRIBUTES: queried once for a status alone
  AsyncCmd,    \* commands answered again by a delayed response
  NotifyCmd,   \* commands that subscribe to a notification
  Param,       \* first parameter word of a command
  Status,      \* statuses a platform may answer with
  MaxCalls,    \* bound on the transport calls of one run
  MaxFds,      \* descriptors the process may open (RLIMIT_NOFILE)
  ReadWaits,   \* whether read() of the driver waits until there is a message
  Silent,      \* whether the platform may leave a command unanswered
  None         \* no message, no header

SCMI_SUCCESS       == 0
SCMI_DENIED        == -3
SCMI_NOT_FOUND     == -4
SCMI_GENERIC_ERROR == -8
NOTIFY_DISABLE     == 0
NOTIFY_ENABLE      == 1
NO_ERROR           == 0
ERROR              == 5

MsgType == {"command", "delayed", "notification"}
Header  == MsgType \X Cmd

\* A buffer with a LENGTH: the header, the words after it, who wrote it.
Message == [src: {"agent", "platform"}, type: MsgType, cmd: Cmd,
            words: Seq(Int), seq: Nat]

ASSUME CmdAssumption ==
  /\ ProbeCmd \subseteq Cmd /\ AsyncCmd \subseteq Cmd /\ NotifyCmd \subseteq Cmd
  /\ AsyncCmd \cap NotifyCmd = {}
  /\ ProbeCmd \cap (AsyncCmd \cup NotifyCmd) = {}
  /\ RefuteCmd \subseteq Cmd \ (ProbeCmd \cup AsyncCmd \cup NotifyCmd)
ASSUME WordAssumption ==
  /\ Param \subseteq Int /\ Status \subseteq Int
  /\ SCMI_GENERIC_ERROR \notin Status
ASSUME BoundAssumption == MaxCalls \in Nat /\ MaxFds \in Nat
ASSUME ChannelAssumption == ReadWaits \in BOOLEAN /\ Silent \in BOOLEAN
ASSUME NoneAssumption  == None \notin Message /\ None \notin Header /\ None \notin Cmd

VARIABLES
  pc,       \* where the agent is inside a transport call
  call,     \* the call in progress: what was sent, what the check expects
  seq,      \* number of transport calls made so far
  buf,      \* the malloc'ed buffer: None when zeroed (its LENGTH is 0)
  ret,      \* what the call returns; pal_send_message does not look at it
  out,      \* rsp_msg_hdr, status, return_values; `from' is the message parsed
  fds,      \* descriptors opened and never closed
  tx,       \* driver: the message last written to the message file
  work,     \* platform: commands rung and not yet answered, oldest first
  rx,       \* driver: the platform message not yet read
  owed,     \* platform: delayed responses still to be sent
  subs,     \* platform: subscribed notifications
  phase,    \* agent: base suite, or one of the suites after it
  probed,   \* agent: headers used so far to ask whether a command exists
  doubted,  \* commands some test went on from without having their answer
  calm,     \* agent: the test is going on after a check that passed
  awaiting, \* agent: the asynchronous command whose delayed response is next
  awaitedId,\* agent: the clock or sensor that command was sent for
  listening,\* agent: notifications this test has enabled
  failed,   \* some check reported FAIL
  passes,   \* number of commands whose check passed
  accepted  \* the last check that passed: its command and what answered it

agentVars    == <<pc, call, seq, buf, ret, out, fds>>
channelVars  == <<tx, work, rx>>
platformVars == <<owed, subs>>
testVars     == <<phase, probed, doubted, calm, awaiting, awaitedId, listening, failed,
                  passes, accepted>>
vars == <<agentVars, channelVars, platformVars, testVars>>

-----------------------------------------------------------------------------
(* The pieces of a transport call.                                         *)

\* VAL_INIT_TEST_PARAM, before every command and every wait.
VAL_INIT_TEST_PARAM ==
  [hdr |-> None, status |-> SCMI_GENERIC_ERROR, vals |-> <<>>, from |-> None]

NoCall == [op |-> "none", via |-> "none", check |-> "none", cmd |-> None,
           expect |-> SCMI_SUCCESS, param |-> 0, fd |-> FALSE, about |-> 0]

\* open() without a close(): one more descriptor while the table has room.
\* A failure is -1 stored in a uint32_t, so the test "< 0" never holds.
FdFree   == fds < MaxFds
OpenFileUnbounded == fds + 1   \* (variant, see the mutants)
OpenFile == IF FdFree THEN fds + 1 ELSE fds

\* val_msg_hdr_create: message type and command, and no token.
HeaderOf(m) == <<m.type, m.cmd>>

\* The word loop of linux_send_message and linux_wait_for_response.  With
\* LENGTH 0 the loop body never runs and the outputs stay as they were.
ParseResponse(m, o) ==
  IF m = None THEN o
  ELSE [hdr    |-> HeaderOf(m),
        status |-> IF Len(m.words) >= 1 THEN m.words[1] ELSE o.status,
        vals   |-> IF Len(m.words) >= 1 THEN Tail(m.words) ELSE <<>>,
        from   |-> m]

\* A variant that stores the payload of a notification from index 0 on.
ParseNotificationFromZero(m, o) ==
  IF m = None THEN o
  ELSE [hdr |-> HeaderOf(m), status |-> o.status, vals |-> m.words, from |-> m]

\* The word loop of linux_wait_for_notification: the first payload word goes
\* to return_values[counter - 2] with counter = 1, outside the array, and the
\* next ones are stored from index 0 on.  The status is not touched.
ParseNotification(m, o) ==
  IF m = None THEN o
  ELSE [hdr    |-> HeaderOf(m),
        status |-> o.status,
        vals   |-> IF Len(m.words) >= 1 THEN Tail(m.words) ELSE <<>>,
        from   |-> m]

-----------------------------------------------------------------------------
(* The agent: sending a command.                                           *)

\* Up to the write to the message file.  malloc may return NULL: the call
\* then returns ERROR, which pal_send_message ignores.
SendCommand(c, chk, e, p) ==
  LET m == [src |-> "agent", type |-> "command", cmd |-> c, words |-> <<p>>,
            seq |-> seq + 1]
  IN /\ pc = "idle" /\ awaiting = None /\ seq < MaxCalls
     /\ seq'  = seq + 1
     /\ call' = [op |-> "send", via |-> "response", check |-> chk, cmd |-> c,
                 expect |-> e, param |-> p, fd |-> FdFree, about |-> seq + 1]
     /\ out'  = VAL_INIT_TEST_PARAM
     /\ \/ /\ pc'  = "written"
           /\ buf' = m
           /\ fds' = OpenFile
           /\ tx'  = IF FdFree THEN m ELSE tx
           /\ UNCHANGED ret
        \/ /\ pc'  = "returned"
           /\ ret' = ERROR
           /\ UNCHANGED <<buf, fds, tx>>
     /\ UNCHANGED <<work, rx, platformVars, phase, doubted, calm, awaiting,
                    awaitedId, listening, failed, passes, accepted>>

\* Variants of RingDoorbell: without the memset of the buffer, and with a
\* doorbell that needs no descriptor.
RingDoorbellKeepsBuffer ==
  /\ pc = "written"
  /\ pc'   = "polling"
  /\ fds'  = OpenFile
  /\ work' = IF FdFree THEN Append(work, tx) ELSE work
  /\ UNCHANGED <<call, seq, buf, out, ret, tx, rx, platformVars, testVars>>

RingDoorbellForFree ==
  /\ pc = "written"
  /\ pc'   = "polling"
  /\ buf'  = None
  /\ work' = IF tx # None THEN Append(work, tx) ELSE work
  /\ UNCHANGED <<call, seq, fds, out, ret, tx, rx, platformVars, testVars>>

\* Signal file opened, buffer zeroed, doorbell rung: the driver sends tx.
RingDoorbell ==
  /\ pc = "written"
  /\ pc'   = "polling"
  /\ buf'  = None
  /\ fds'  = OpenFile
  /\ work' = IF FdFree THEN Append(work, tx) ELSE work
  /\ UNCHANGED <<call, seq, out, ret, tx, rx, platformVars, testVars>>

\* poll() and read().  pfd.events is never set, and neither a timeout nor an
\* error of poll is seen (an unsigned comparison), so the read happens whatever
\* poll said.  The message file is opened without O_NONBLOCK: the driver of
\* docs/guide_sgm_testing.md then waits for a message (ReadWaits), another may
\* return at once.  What read returned is not looked at, and a buffer that was
\* not read into keeps what it held; so it is when the file could not be opened.
Received == call.fd /\ rx # None

Parse(m, o) == IF call.via = "notification" THEN ParseNotification(m, o)
               ELSE ParseResponse(m, o)

\* The payload of a notification is stored one word before return_values.
StraysBeforeArray(m) == call.via = "notification" /\ m # None /\ m.words # <<>>

\* A variant of ReadMessage that throws away a message with another header and
\* reads again.
ReadMessageMatching ==
  \/ /\ pc = "polling" /\ Received /\ rx.cmd # call.cmd
     /\ rx' = None
     /\ UNCHANGED <<agentVars, tx, work, platformVars, testVars>>
  \/ /\ pc = "polling" /\ (Received => rx.cmd = call.cmd) /\ (Received \/ ~call.fd)
     /\ rx' = IF call.fd THEN None ELSE rx
     /\ buf' = None /\ ret' = NO_ERROR /\ pc' = "returned"
     /\ out' = Parse(IF Received THEN rx ELSE buf, out)
     /\ UNCHANGED <<call, seq, fds, tx, work, platformVars, testVars>>

ReadMessage ==
  LET got == IF Received THEN rx ELSE buf
  IN /\ pc = "polling" /\ (Received \/ ~call.fd \/ ~ReadWaits)
     /\ rx'  = IF call.fd THEN None ELSE rx
     /\ buf' = None
     /\ ret' = NO_ERROR
     /\ out' = Parse(got, out)
     /\ \/ pc' = "returned"
        \/ StraysBeforeArray(got) /\ pc' = "crashed"
     /\ UNCHANGED <<call, seq, fds, tx, work, platformVars, testVars>>

\* linux_wait_for_response and linux_wait_for_notification up to the poll; a
\* malloc that fails returns ERROR, which pal_receive_* ignore.
WaitFor(op, via, c, p) ==
  /\ pc = "idle" /\ seq < MaxCalls
  /\ seq'  = seq + 1
  /\ call' = [op |-> op, via |-> via, check |-> "wait", cmd |-> c,
              expect |-> SCMI_SUCCESS, param |-> p, fd |-> FdFree, about |-> seq]
  /\ out'  = VAL_INIT_TEST_PARAM
  /\ \/ /\ pc'  = "polling"
        /\ buf' = None
        /\ fds' = OpenFile
        /\ UNCHANGED ret
     \/ /\ pc'  = "returned"
        /\ ret' = ERROR
        /\ UNCHANGED <<buf, fds>>
  /\ UNCHANGED <<channelVars, platformVars, testVars>>

-----------------------------------------------------------------------------
(* The checks of the test pool.                                            *)

InBase == phase = "base"

\* A check that compares status and header.  The tests that query
\* MESSAGE_ATTRIBUTES in this way run before the ones that probe with it.
StartFullCheck ==
  \E c \in Cmd \ probed, e \in Status, p \in Param :
    /\ InBase => c \notin AsyncCmd \cup NotifyCmd
    /\ SendCommand(c, "full", e, p)
    /\ UNCHANGED probed

\* A check that fails on NOT_FOUND and lets the test go on after any other
\* status, silence included, the header not compared (test_r005_v3.c).  The
\* same command is then sent again with full checks.
StartRefute ==
  \E c \in RefuteCmd, p \in Param :
    /\ ~InBase
    /\ SendCommand(c, "refute", SCMI_NOT_FOUND, p)
    /\ UNCHANGED probed

\* Asking whether a command exists: NOT_FOUND skips the test, any other
\* status lets it go on, and the header is not looked at.
StartProbe ==
  \E c \in ProbeCmd, p \in Param :
    /\ SendCommand(c, "probe", SCMI_NOT_FOUND, p)
    /\ probed' = probed \cup {c}

\* A check of the deny/restore tests of the base suite that compares the
\* status alone, after a check that passed.
StartStatusCheck ==
  \E c \in Cmd \ (ProbeCmd \cup AsyncCmd \cup NotifyCmd), e \in Status, p \in Param :
    /\ InBase /\ calm
    /\ SendCommand(c, "status", e, p)
    /\ UNCHANGED probed

\* The delayed response is received with the parser of responses (test_c010.c)
\* or with the one of notifications (test_m014.c).
StartDelayedCheck ==
  /\ awaiting # None
  /\ \E via \in {"response", "notification"} :
       WaitFor("response", via, awaiting, awaitedId)

StartNotificationCheck ==
  /\ awaiting = None
  /\ \E c \in listening, p \in Param : WaitFor("notification", "notification", c, p)

StatusPasses == out.status = call.expect
HeaderPresent(type) == out.hdr # None   \* (variant, see the mutants)
HeaderPasses(type) == out.hdr = <<type, call.cmd>>

\* DELAYED_RESP_CLOCK_ID_OFFSET, DELAYED_RESP_SENSOR_ID_OFFSET: index 0.
IdPasses == Len(out.vals) >= 1 /\ out.vals[1] = call.param

\* What the tests compare: status and header, status alone, the header and the
\* clock or sensor of a delayed response, or the header and the domain of a
\* notification.
CheckPasses ==
  CASE call.check = "full"   -> StatusPasses /\ HeaderPasses("command")
    [] call.check = "status" -> StatusPasses
    [] call.check = "refute" -> ~StatusPasses
    [] call.op = "response"  -> HeaderPasses("delayed") /\ IdPasses
    [] OTHER -> /\ HeaderPasses("notification")
                /\ Len(out.vals) >= 2 /\ out.vals[2] = call.param

\* The check is over: its outputs are not read again.
LeaveCall == pc' = "idle" /\ call' = NoCall /\ out' = VAL_INIT_TEST_PARAM

\* Both outcomes of a probe leave the test, or go on with its first check.
FinishProbe ==
  /\ pc = "returned" /\ call.check = "probe"
  /\ LeaveCall
  /\ calm' = FALSE
  /\ UNCHANGED <<seq, buf, ret, fds, channelVars, platformVars, phase,
                 probed, doubted, awaiting, awaitedId, listening, failed,
                 passes, accepted>>

\* The answer read is the one to the command just sent.
Answered == out.from # None /\ out.from.type = "command" /\ out.from.seq = call.about

\* The test goes on with its next check; whose answer this was it cannot know.
FinishRefute ==
  /\ pc = "returned" /\ call.check = "refute" /\ CheckPasses
  /\ LeaveCall
  /\ calm' = FALSE
  /\ doubted' = IF Answered THEN doubted ELSE doubted \cup {call.cmd}
  /\ UNCHANGED <<seq, buf, ret, fds, channelVars, platformVars, phase,
                 probed, awaiting, awaitedId, listening, failed, passes, accepted>>

PassCheck ==
  /\ pc = "returned" /\ call.check \in {"full", "status", "wait"} /\ CheckPasses
  /\ LeaveCall
  /\ calm'     = TRUE
  /\ passes'   = IF call.op = "send" THEN passes + 1 ELSE passes
  /\ accepted' = [op |-> call.op, check |-> call.check, cmd |-> call.cmd,
                  about |-> call.about, from |-> out.from]
  /\ awaiting' = IF /\ call.check = "full" /\ call.cmd \in AsyncCmd
                    /\ call.expect = SCMI_SUCCESS
                 THEN call.cmd ELSE None
  /\ awaitedId' = IF awaiting' # None THEN call.param ELSE 0
  /\ listening' = IF /\ call.check = "full" /\ call.cmd \in NotifyCmd
                     /\ call.expect = SCMI_SUCCESS
                  THEN IF call.param = NOTIFY_ENABLE
                       THEN listening \cup {call.cmd}
                       ELSE listening \ {call.cmd}
                  ELSE listening
  /\ UNCHANGED <<seq, buf, ret, fds, channelVars, platformVars, phase,
                 probed, doubted, failed>>

\* A FAIL returns from the test: nothing it had begun is waited for or undone.
FailCheck ==
  /\ pc = "returned" /\ call.check # "probe" /\ ~CheckPasses
  /\ LeaveCall
  /\ calm'     = FALSE
  /\ failed'   = TRUE
  /\ awaiting' = None
  /\ awaitedId' = 0
  /\ listening' = {}
  /\ UNCHANGED <<seq, buf, ret, fds, channelVars, platformVars, phase,
                 probed, doubted, passes, accepted>>

\* main goes from the base suite to the suites of the other protocols.
LeaveBase ==
  /\ pc = "idle" /\ InBase
  /\ phase' = "others"
  /\ calm'  = FALSE
  /\ UNCHANGED <<agentVars, channelVars, platformVars, probed, doubted, awaiting,
                 awaitedId, listening, failed, passes, accepted>>

\* The program has made all its calls.
Finished ==
  /\ \/ pc = "idle" /\ seq = MaxCalls
     \/ pc = "crashed"
  /\ UNCHANGED vars

-----------------------------------------------------------------------------
(* The platform and the driver (external).                                 *)

Deliver(m) == rx' = m

\* Status, then the clock or sensor the command was sent for.
DelayedResponse(m) ==
  [src |-> "platform", type |-> "delayed", cmd |-> m.cmd,
   words |-> <<SCMI_SUCCESS>> \o m.words, seq |-> m.seq]

\* The oldest command is answered, header echoed.  A command accepted with
\* SUCCESS takes effect: a delayed response is due, a subscription changes.
PlatformAnswers ==
  /\ work # <<>>
  /\ LET m == Head(work) IN
     \E s \in Status :
       /\ Deliver([src |-> "platform", type |-> "command", cmd |-> m.cmd,
                   words |-> <<s>>, seq |-> m.seq])
       /\ owed' = IF s = SCMI_SUCCESS /\ m.cmd \in AsyncCmd
                  THEN owed \cup {DelayedResponse(m)}
                  ELSE owed
       /\ subs' = IF s = SCMI_SUCCESS /\ m.cmd \in NotifyCmd
                  THEN IF m.words[1] = NOTIFY_ENABLE
                       THEN subs \cup {m.cmd} ELSE subs \ {m.cmd}
                  ELSE subs
  /\ work' = Tail(work)
  /\ UNCHANGED <<agentVars, tx, testVars>>

\* A command that gets no answer at all.
PlatformDrops ==
  /\ Silent /\ work # <<>>
  /\ work' = Tail(work)
  /\ UNCHANGED <<agentVars, tx, rx, platformVars, testVars>>

PlatformCompletes ==
  \E m \in owed :
    /\ Deliver(m)
    /\ owed' = owed \ {m}
    /\ UNCHANGED <<agentVars, tx, work, subs, testVars>>

\* A notification: agent id, domain id, new value.
PlatformNotifies ==
  \E c \in subs, d \in Param, v \in Param :
    /\ Deliver([src |-> "platform", type |-> "notification", cmd |-> c,
                words |-> <<0, d, v>>, seq |-> 0])
    /\ UNCHANGED <<agentVars, tx, work, platformVars, testVars>>

-----------------------------------------------------------------------------
Init ==
  /\ pc = "idle" /\ seq = 0 /\ fds = 0
  /\ call = NoCall /\ buf = None /\ ret = NO_ERROR /\ out = VAL_INIT_TEST_PARAM
  /\ tx = None /\ work = <<>> /\ rx = None
  /\ owed = {} /\ subs = {}
  /\ phase = "base" /\ probed = {} /\ doubted = {} /\ calm = FALSE
  /\ awaiting = None /\ awaitedId = 0 /\ listening = {} /\ failed = FALSE /\ passes = 0
  /\ accepted = [op |-> "none", check |-> "none", cmd |-> None, about |-> 0,
                  from |-> None]

StartCheck  == StartFullCheck \/ StartProbe \/ StartRefute \/ StartStatusCheck
               \/ StartDelayedCheck \/ StartNotificationCheck
FinishCheck == FinishProbe \/ FinishRefute \/ PassCheck \/ FailCheck
Agent       == StartCheck \/ RingDoorbell \/ ReadMessage \/ FinishCheck \/ LeaveBase
Platform    == PlatformAnswers \/ PlatformDrops \/ PlatformCompletes \/ PlatformNotifies

Next == Agent \/ Platform \/ Finished

Spec == Init /\ [][Next]_vars

\* The agent is one thread that the operating system keeps running: it takes
\* its next step, and a read() that has a message, no file or no need to wait
\* comes back.  The platform answers the commands it has, unless it is Silent,
\* and completes the asynchronous ones; it need not notify.
FairSpec ==
  /\ Spec
  /\ WF_vars(RingDoorbell) /\ WF_vars(ReadMessage) /\ WF_vars(FinishCheck)
  /\ WF_vars(PlatformAnswers) /\ WF_vars(PlatformCompletes)

-----------------------------------------------------------------------------
(* Properties.                                                             *)

Call == [op: {"none", "send", "response", "notification"},
         via: {"none", "response", "notification"},
         check: {"none", "full", "status", "probe", "refute", "wait"},
         cmd: Cmd \cup {None}, expect: Int, param: Int, fd: BOOLEAN, about: Nat]
Outputs == [hdr: Header \cup {None}, status: Int, vals: Seq(Int),
            from: Message \cup {None}]

TypeOK ==
  /\ pc \in {"idle", "written", "polling", "returned", "crashed"}
  /\ call \in Call /\ seq \in Nat /\ fds \in Nat /\ fds <= MaxFds
  /\ buf \in Message \cup {None} /\ ret \in {NO_ERROR, ERROR} /\ out \in Outputs
  /\ tx \in Message \cup {None} /\ work \in Seq(Message) /\ rx \in Message \cup {None}
  /\ owed \subseteq Message /\ subs \subseteq Cmd
  /\ phase \in {"base", "others"} /\ probed \subseteq ProbeCmd
  /\ doubted \subseteq RefuteCmd /\ calm \in BOOLEAN
  /\ awaiting \in AsyncCmd \cup {None} /\ awaitedId \in Int /\ listening \subseteq NotifyCmd
  /\ failed \in BOOLEAN /\ passes \in Nat
  /\ accepted \in [op: {"none", "send", "response", "notification"},
                   check: {"none", "full", "status", "wait"}, cmd: Cmd \cup {None},
                   about: Nat, from: Message \cup {None}]

\* As long as no check has reported FAIL, every verdict was reached on the
\* answer to the very command it is about, however late, silent or talkative
\* the platform was, although no header carries a token and linux_send_message
\* reads after a timeout.  One command is excepted: the one test_r005_v3.c has
\* sent and gone on from without its answer, which the checks that follow take
\* for their own; no other command's verdict is touched by that.
TrustedAnswers ==
  ~failed /\ accepted.op \in {"send", "response"} =>
    \/ accepted.from # None /\ accepted.from.seq = accepted.about
    \/ accepted.cmd \in doubted

\* Even after a FAIL no check passes on nothing or on the agent's own command
\* left in the buffer: the message was written by the platform, and when the
\* test compares headers it carries the header of the command.  (The check of
\* test_r005_v3.c that no answer is NOT_FOUND is about an answer that must not
\* come, and says nothing here.)
GenuineAnswers ==
  accepted.op # "none" =>
    /\ accepted.from # None /\ accepted.from.src = "platform"
    /\ accepted.check # "status" => accepted.from.cmd = accepted.cmd

\* Every command that passes has cost two descriptors that are never closed,
\* whatever has failed, come late or been answered in place of another: a run
\* passes at most MaxFds / 2 commands.
DescriptorBudget == 2 * passes <= fds

\* With a driver that waits in read() and a platform that answers, every call
\* comes back that has rung its doorbell or found no descriptor at all, and so
\* does every wait for a delayed response; the receive buffer holds one message
\* and any may take the place of the one waited for.  Excepted are the wait for
\* a notification, and the command that took the last descriptor for its
\* message and has none for its doorbell: they may wait for ever.
CallReturns ==
  \/ pc = "written" /\ FdFree
  \/ pc = "polling" /\ (~call.fd \/ call.op = "response")
  ~> pc \in {"idle", "crashed"}

\* A delayed response is taken for what it is with either parser: the one of
\* notifications stores the id where test_m014.c looks for it only because it
\* stores every word one place early.
DelayedAccepted ==
  pc = "returned" /\ call.op = "response" /\ out.from # None
    /\ out.from.type = "delayed" /\ out.from.cmd = call.cmd /\ out.from.seq = call.about
  => CheckPasses

\* linux_send_message "sends a command to mailbox driver interfaces and
\* receives a platform message" (transport_mailbox.c:68-70), and takes a
\* non-negative poll for "successful completion" (line 152): a call that
\* returns NO_ERROR comes back with a message.
NoErrorMeansReceived ==
  pc = "returned" /\ call.op = "send" /\ ret = NO_ERROR => out.from # None

\* "return_values starts from 0, hence subtract 2 here"
\* (transport_mailbox.c:344): the payload of a notification is in
\* return_values from index 0 on.
NotificationFromZero ==
  pc = "returned" /\ call.op = "notification" /\ out.from # None
    => out.vals = out.from.words

=============================================================================
