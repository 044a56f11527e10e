----------------------------- MODULE MCGateway -----------------------------
(***************************************************************************)
(* An instance of Gateway for TLC: calls that two machines answer under a  *)
(* key with a budget of one per window, with the same content or with a    *)
(* body that is too deep to be parsed.                                     *)
(***************************************************************************)
EXTENDS Gateway

CONSTANTS r1, r2, m1, m2, keyA, projA

MCHost      == [r \in Req |-> IF r = r1 THEN m1 ELSE m2]
MCProjectOf == [k \in TapKey |-> projA]
MCScopeOf   == [r \in Req |-> keyA]
MCLimit     == [s \in Scope |-> IF s = keyA THEN 1 ELSE 0]

Chat(p)   == [key |-> keyA, method |-> "POST", endpoint |-> "/v1/chat/completions",
              payload |-> p]
MCCalls   == {Chat([model |-> "gpt-4o", messages |-> "hello"]), Chat(TooDeep)}
MCAnswers == {[status |-> 200, kind |-> "usage"]}
=============================================================================
