---------------------------- MODULE MCReadiness ----------------------------
(***************************************************************************)
(* An instance of Readiness for TLC: two calls on a pool of two            *)
(* connections, and a check whose handler may outlive Fly's patience.      *)
(***************************************************************************)
EXTENDS Readiness

CONSTANTS q1, q2, p1, c1, c2
=============================================================================
