------------------------------ MODULE MCMocker ------------------------------
(* Model checking of Mocker: flags, agents and devices on both sides of their *)
(* limits, the protocols the handlers tell apart, every base message id.      *)
EXTENDS Mocker

MCId       == 0..12
MCNumber   == 0..3
MCProtocol == {PROTOCOL_BASE, PROTOCOL_POWER_DOMAIN, PROTOCOL_POWER_DOMAIN + 1,
               PROTOCOL_POWER_DOMAIN + 7}

=============================================================================
