---------------------------- MODULE MCRateLimit ----------------------------
(***************************************************************************)
(* Instances of RateLimit for TLC: one key, with a limit of 1, under load. *)
(***************************************************************************)
EXTENDS RateLimit

CONSTANTS q1, q2, q3, keyA

MCScopeOf == [r \in Req |-> keyA]
MCLimit   == [s \in Scope |-> 1]
=============================================================================
