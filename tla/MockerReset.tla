----------------------------- MODULE MockerReset -----------------------------
(***************************************************************************)
(* The simulated platform's reset handler, reset_send_message of           *)
(* transport_reset.c.  Nothing is reset and nothing is kept.               *)
(*                                                                         *)
(* The tables of pal_reset_expected.h are one record, resets:              *)
(*   domains         num_reset_domains                                     *)
(*   async, notify   the domains that support each                         *)
(*   latency[d]                                                            *)
(***************************************************************************)
EXTENDS MockerHandler

CONSTANTS resets

ResetDomain == 0..(resets.domains - 1)

ResetReport(m, a, st, v) == Respond(PROTOCOL_RESET, m, a, st, v)

-----------------------------------------------------------------------------
Version == ResetReport(PROTOCOL_VERSION, <<>>, SCMI_SUCCESS, [version |-> 2])

Attributes ==
  ResetReport(PROTOCOL_ATTRIBUTES, <<>>, SCMI_SUCCESS,
              [reserved |-> 0, domains |-> resets.domains])

MessageAttributes(id) ==
  ResetReport(PROTOCOL_MESSAGE_ATTRIBUTES, <<id>>,
              FoundThen(id <= RESET_PROTOCOL_NOTIFY, SCMI_SUCCESS), [attributes |-> 0])

Unknown(id) == ResetReport(id, <<>>, SCMI_NOT_FOUND, NoValues)

DomainAttributes(d) ==
  ResetReport(RESET_DOMAIN_ATTRIBUTES, <<d>>, FoundThen(d \in ResetDomain, SCMI_SUCCESS),
              IF d \in ResetDomain
              THEN [reserved |-> 0, async |-> d \in resets.async,
                    notify |-> d \in resets.notify, latency |-> resets.latency[d], name |-> d]
              ELSE NoValues)

\* The flags are three bits, the lowest autonomous reset, the highest
\* asynchronous reset.  The cold reset, state 0, is the only one.
AsyncBit(flags) == (flags \div 4) % 2 = 1

ResetStatus(d, flags, state) ==
  IF d \notin ResetDomain THEN SCMI_NOT_FOUND
  ELSE IF flags > 7 THEN SCMI_INVALID_PARAMETERS
  ELSE IF AsyncBit(flags) /\ d \notin resets.async THEN SCMI_NOT_SUPPORTED
  ELSE IF state > 0 THEN SCMI_INVALID_PARAMETERS
  ELSE SCMI_SUCCESS

Reset(d, flags, state) ==
  ResetReport(RESET_PROTOCOL_RESET, <<d, flags, state>>, ResetStatus(d, flags, state), NoValues)

\* Whether the domain supports notifications is not looked at.
Notify(d, enable) ==
  ResetReport(RESET_PROTOCOL_NOTIFY, <<d, enable>>, FoundThen(d \in ResetDomain, OnOff(enable)),
              NoValues)

\* reset_send_message.
Handle(m, a) ==
  \/ m = PROTOCOL_VERSION /\ Version
  \/ m = PROTOCOL_ATTRIBUTES /\ Attributes
  \/ m = PROTOCOL_MESSAGE_ATTRIBUTES /\ MessageAttributes(a[1])
  \/ m = RESET_DOMAIN_ATTRIBUTES /\ DomainAttributes(a[1])
  \/ m = RESET_PROTOCOL_RESET /\ Reset(a[1], a[2], a[3])
  \/ m = RESET_PROTOCOL_NOTIFY /\ Notify(a[1], a[2])
  \/ m > RESET_PROTOCOL_NOTIFY /\ Unknown(m)

=============================================================================
