----------------------------- MODULE MCMailbox ------------------------------
(* Model checking of Mailbox: one command of each role.                    *)
EXTENDS Mailbox

CONSTANTS attributes, domain, async, notify

MCCmd       == {attributes, domain, async, notify}
MCProbeCmd  == {attributes}
MCRefuteCmd == {domain}
MCAsyncCmd  == {async}
MCNotifyCmd == {notify}
MCParam     == {NOTIFY_DISABLE, NOTIFY_ENABLE}
MCStatus    == {SCMI_SUCCESS, SCMI_NOT_FOUND}

=============================================================================
