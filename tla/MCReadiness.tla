---------------------------- MODULE MCReadiness ----------------------------
(* Model checking backend readiness with two challenges.                   *)
EXTENDS Readiness

CONSTANTS c1, c2
=============================================================================
