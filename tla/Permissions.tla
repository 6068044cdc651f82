---------------------------- MODULE Permissions -----------------------------
(***************************************************************************)
(* What the suite relies on when it tests access permissions: a platform   *)
(* (external) that keeps them honestly.                                    *)
(*                                                                         *)
(* It may refuse or not support any command.  But a permission command it  *)
(* says has succeeded has taken effect, one it refuses has not, and it     *)
(* says DENIED exactly when the agent has no access.  This is the abstract *)
(* specification BaseOnPlatform is built on and Mocker implements.         *)
(*                                                                         *)
(* A request is a record with the fields proto, msg and args.              *)
(***************************************************************************)
EXTENDS Scmi, Sequences

CONSTANTS
  Device,          \* the device the suite denies itself
  TestAgents,      \* the ids under which the platform keeps the test agent's access
  DeviceAliases    \* the device ids it takes for Device in protocol permissions

VARIABLES
  device,      \* the test agent may access Device
  protocol     \* it may access the power protocol of Device

Granted == device /\ protocol

Flag == {FLAG_ACCESS_DENY, FLAG_ACCESS_ALLOW}

SetsDevice(q) ==
  /\ q.proto = PROTOCOL_BASE /\ q.msg = BASE_SET_DEVICE_PERMISSIONS
  /\ q.args[1] \in TestAgents /\ q.args[2] = Device /\ q.args[3] \in Flag
SetsProtocol(q) ==
  /\ q.proto = PROTOCOL_BASE /\ q.msg = BASE_SET_PROTOCOL_PERMISSIONS
  /\ q.args[1] \in TestAgents /\ q.args[2] \in DeviceAliases
  /\ q.args[3] = PROTOCOL_POWER_DOMAIN /\ q.args[4] \in Flag
Resets(q) ==
  /\ q.proto = PROTOCOL_BASE /\ q.msg = BASE_RESET_AGENT_CONFIGURATION
  /\ q.args[1] \in TestAgents /\ q.args[2] = FLAG_RESET_ACCESS

\* What executing request q does to the permissions.
Execute(q) ==
  /\ device'   = IF SetsDevice(q) THEN q.args[3] = FLAG_ACCESS_ALLOW
                 ELSE Resets(q) \/ device
  /\ protocol' = IF SetsProtocol(q) THEN q.args[4] = FLAG_ACCESS_ALLOW
                 ELSE Resets(q) \/ protocol

\* Request q answered with status st.
Keep(q, st) ==
  /\ q.proto = PROTOCOL_POWER_DOMAIN => (st = SCMI_DENIED <=> ~Granted)
  /\ IF st = SCMI_SUCCESS /\ q.proto = PROTOCOL_BASE THEN Execute(q)
     ELSE UNCHANGED <<device, protocol>>

AllGranted == device = TRUE /\ protocol = TRUE

=============================================================================
