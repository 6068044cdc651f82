-------------------------- MODULE MCBaseOnPlatform --------------------------
(* Model checking of BaseOnPlatform: the statuses the base tests tell apart *)
(* and one they do not expect, the two versions they know and another.      *)
EXTENDS BaseOnPlatform

MCStatus  == {SCMI_SUCCESS, SCMI_INVALID_PARAMETERS, SCMI_DENIED, SCMI_NOT_FOUND,
              SCMI_GENERIC_ERROR}
MCVersion == {1, 2, 3}

=============================================================================
