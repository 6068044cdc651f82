---------------------------- MODULE TestEngine ------------------------------
(***************************************************************************)
(* How a test of the pool runs: val_interface.c and the shape every        *)
(* test_*.c file shares.                                                   *)
(*                                                                         *)
(* A test is a sequence of steps.  A step sends one command, compares the  *)
(* answer with what it expects and goes on, or ends the test: a check that *)
(* does not hold is a FAIL, a probe answered NOT_FOUND is a SKIP, the end  *)
(* of the sequence is a PASS.  Nothing that was begun is undone on the     *)
(* way out.  RUN_TEST counts the verdict.                                  *)
(***************************************************************************)
EXTENDS Scmi, Integers, Sequences

Lists == INSTANCE SequencesExt

CONSTANTS
  Any,       \* a step that compares no return value
  Garbage    \* a return value no step expects

VARIABLES
  queue,   \* tests val_*_execute_tests has still to run
  test,    \* the test running, "none" between two tests
  steps,   \* what is left of it
  count,   \* g_test_pass, g_test_fail, g_test_skip
  last     \* the last verdict reported

engineVars == <<queue, test, steps, count, last>>

Verdict == {"PASS", "FAIL", "SKIP"}

-----------------------------------------------------------------------------
(* The steps tests are made of.                                            *)

\* A command whose status and header are compared.  `sent' is the number of
\* parameters the test counts: linux_send_message sends these and no more.
\* `seen' is what earlier pages held of the list this command asks more of.
Ask(p, m, a, e) ==
  [kind |-> "check", proto |-> p, msg |-> m, args |-> a, sent |-> Len(a), seen |-> <<>>,
   expect |-> e, header |-> TRUE, want |-> Any, learn |-> "nothing"]

\* One that compares a return value as well, or keeps it.
AskValue(p, m, a, w) == [Ask(p, m, a, SCMI_SUCCESS) EXCEPT !.want = w]
AskAndLearn(p, m, a, l) == [Ask(p, m, a, SCMI_SUCCESS) EXCEPT !.learn = l]

\* One that compares the status alone.
AskStatus(p, m, a, e) == [Ask(p, m, a, e) EXCEPT !.header = FALSE]

\* Whether command c exists, from the status alone.  Some tests never count
\* the message id they ask about.
Probe(p, c) ==
  [AskStatus(p, PROTOCOL_MESSAGE_ATTRIBUTES, <<c>>, SCMI_NOT_FOUND)
     EXCEPT !.kind = "probe"]
ProbeUncounted(p, c) == [Probe(p, c) EXCEPT !.sent = 0]

\* val_receive_notification, val_receive_delayed_response: sends nothing, waits for
\* message m of protocol p and compares its words with w, the id it is about first.
Receive(p, m, w) == [Ask(p, m, <<>>, SCMI_SUCCESS) EXCEPT !.kind = "receive", !.want = w]

\* Where a test ends before its last line: without a verdict on the platform
\* (SKIP), or because of what it read (FAIL).
Skip == [Ask(PROTOCOL_BASE, PROTOCOL_VERSION, <<>>, SCMI_SUCCESS) EXCEPT !.kind = "skip"]
Fail == [Skip EXCEPT !.kind = "fail"]

\* for (id = 0; id < n; id++), and the same with a run_flag.
ForEach(n, Steps(_)) == Lists!FlattenSeq([i \in 1..n |-> Steps(i - 1)])
WhenAny(program) == IF program = <<>> THEN <<Skip>> ELSE program

\* The same over the ids 0..n-1 that are Capable; n is what the platform told.
IfSome(n, program) == IF n = 0 THEN <<Skip>> ELSE program
ForCapable(n, Capable(_), Steps(_)) ==
  LET Of(id) == IF Capable(id) THEN Steps(id) ELSE <<>> IN ForEach(n, Of)

\* Tests that every suite has: the version, and a command past the last.
VersionTest(p) == <<AskAndLearn(p, PROTOCOL_VERSION, <<>>, "version")>>
UnknownCommandTest(p, c) ==
  <<Ask(p, c, <<>>, SCMI_NOT_FOUND), Ask(p, PROTOCOL_MESSAGE_ATTRIBUTES, <<c>>, SCMI_NOT_FOUND)>>

-----------------------------------------------------------------------------
(* Comparing an answer r with step s.                                      *)

val_compare_status(s, r)  == r.status = s.expect
val_compare_msg_hdr(s, r) == s.header => r.echo
val_compare(s, r) == r.value # Garbage /\ (s.want = Any \/ r.value = s.want)

\* The three comparisons end the test in the same way, so only their
\* conjunction matters.
Holds(s, r) == val_compare_status(s, r) /\ val_compare_msg_hdr(s, r) /\ val_compare(s, r)

\* A Skip left at the end of a test stands for a run_flag that is still 0:
\* steps an answer adds take it away.
Extended(added) ==
  LET rest == Tail(steps)
      ran  == added # <<>> /\ rest # <<>> /\ Lists!Last(rest).kind = "skip"
  IN added \o (IF ran THEN Lists!Front(rest) ELSE rest)

\* What a test that has `more' left to do has come to.
Ended(more) ==
  IF more = <<>> THEN "PASS"
  ELSE CASE Head(more).kind = "skip" -> "SKIP"
         [] Head(more).kind = "fail" -> "FAIL"
         [] OTHER                    -> "none"

Verdicts(s, r, more) ==
  CASE s.kind = "probe" /\ r.status = s.expect -> "SKIP"
    [] s.kind = "refute" /\ r.status = s.expect -> "FAIL"
    [] s.kind \notin {"probe", "refute"} /\ ~Holds(s, r) -> "FAIL"
    [] OTHER                                     -> Ended(more)

\* Mutants: the next test would find steps of this one; skipped tests are not
\* counted.
ReportKeepsSteps(t, v) ==
  /\ count' = [count EXCEPT ![v] = @ + 1]
  /\ last'  = [test |-> t, verdict |-> v]
  /\ test'  = "none"
  /\ steps' = steps
ReportIgnoresSkip(t, v) ==
  /\ count' = IF v = "SKIP" THEN count ELSE [count EXCEPT ![v] = @ + 1]
  /\ last'  = [test |-> t, verdict |-> v]
  /\ test'  = "none"
  /\ steps' = <<>>

\* RUN_TEST(test()): val_report_status counts what the test returned.
val_report_status(t, v) ==
  /\ count' = [count EXCEPT ![v] = @ + 1]
  /\ last'  = [test |-> t, verdict |-> v]
  /\ test'  = "none"
  /\ steps' = <<>>

\* val_test_initialize and whatever ends a test before its first command.
Begin(t, program) ==
  IF Ended(program) # "none" THEN val_report_status(t, Ended(program))
  ELSE test' = t /\ steps' = program /\ UNCHANGED <<count, last>>

\* Answer r to the step in progress; `more' is what is left to do after it.
Proceed(r, more) ==
  LET v == Verdicts(Head(steps), r, more)
  IN IF v = "none" THEN steps' = more /\ UNCHANGED <<test, count, last>>
     ELSE val_report_status(test, v)

\* val_initialize_system clears the counters.
EngineInit(tests) ==
  /\ queue = tests /\ test = "none" /\ steps = <<>>
  /\ count = [v \in Verdict |-> 0]
  /\ last = [test |-> "none", verdict |-> "none"]

Finished == queue = <<>> /\ test = "none"

=============================================================================
