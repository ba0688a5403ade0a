---------------------------- MODULE MCEngagement ----------------------------
(* A user who calls, and may lose the tenant, and one who does neither; a   *)
(* month of three days, a nudge after one and a win-back after two.         *)
EXTENDS Engagement

CONSTANTS caller, silent

MCUsers == {caller, silent}
MCCallers == {caller}
MCLeavers == {caller}
=============================================================================
