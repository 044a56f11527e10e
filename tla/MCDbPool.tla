------------------------------ MODULE MCDbPool ------------------------------
(***************************************************************************)
(* Instances of DbPool for TLC: a pool scaled down to two connections,     *)
(* under three calls and a metrics query.                                  *)
(***************************************************************************)
EXTENDS DbPool, TLC

CONSTANTS q1, q2, q3, q4, c1, c2

Symmetry == Permutations({c1, c2}) \cup Permutations({q1, q2, q3})
=============================================================================
