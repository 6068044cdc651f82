---------------------------- MODULE MockerHandler ----------------------------
(***************************************************************************)
(* What the handlers of the simulated platform share: a request is         *)
(* answered at once, in the call of pal_send_message, with a status and,   *)
(* when that is SCMI_SUCCESS, with return values.  Return values are a     *)
(* record of the fields the suite reads.                                   *)
(***************************************************************************)
EXTENDS Scmi, Sequences

VARIABLES
  reply    \* the last request, its status and its return values

NoValues == <<>>

Respond(p, m, a, st, v) ==
  reply' = [request |-> [proto |-> p, msg |-> m, args |-> a],
            status |-> st, value |-> IF st = SCMI_SUCCESS THEN v ELSE NoValues]

\* The first condition of most commands with a domain, a sensor or a clock.
FoundThen(found, st) == IF found THEN st ELSE SCMI_NOT_FOUND
OnOff(enable) == IF enable > 1 THEN SCMI_INVALID_PARAMETERS ELSE SCMI_SUCCESS

NothingAsked(p) ==
  reply = [request |-> [proto |-> p, msg |-> PROTOCOL_VERSION, args |-> <<>>],
           status |-> SCMI_SUCCESS, value |-> NoValues]

=============================================================================
