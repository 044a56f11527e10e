------------------------------ MODULE MCProxy ------------------------------
(***************************************************************************)
(* Instances of Proxy for TLC: two projects with a key each, two machines, *)
(* and calls chosen so that cache keys collide across projects and         *)
(* non-semantic fields.                                                    *)
(***************************************************************************)
EXTENDS Proxy, FiniteSets

CONSTANTS r1, r2, r3, m1, m2, keyA, keyB, projA, projB

MCHost      == [r \in Req |-> IF r = r1 THEN m1 ELSE m2]
MCProjectOf == [k \in TapKey |-> IF k = keyA THEN projA ELSE projB]

Hello     == [model |-> "gpt-4o", messages |-> "hello"]
HelloUser == [model |-> "gpt-4o", messages |-> "hello", user |-> "u1"]
Streamed  == [model |-> "gpt-4o", messages |-> "hello", stream |-> TRUE]

Chat(k, p)     == [key |-> k, method |-> "POST", endpoint |-> "/v1/chat/completions",
                   payload |-> p]
ListModels(k)  == [key |-> k, method |-> "GET", endpoint |-> "/v1/models",
                   payload |-> NotAnObject]

\* A call whose path holds a control character.
Garbled(k) == [Chat(k, Hello) EXCEPT !.endpoint = "/v1/chat/\t"]

\* The same content from two projects, no content, and a streamed call; and two
\* calls that end in an exception, if they are not answered from the cache before.
MCCalls == {Chat(keyA, Hello), Chat(keyB, HelloUser), ListModels(keyB),
            Chat(keyA, Streamed), Chat(keyB, TooDeep), Garbled(keyB)}
MCUnsendable == {Garbled(keyB)}

\* One call, made by everyone.
MCCallsOne == {Chat(keyA, Hello)}

Ok          == [status |-> 200, kind |-> "usage"]
OkArray     == [status |-> 200, kind |-> "array"]
OkNotJson   == [status |-> 200, kind |-> "none"]
ServerError == [status |-> 500, kind |-> "plain"]

Deep        == [status |-> 200, kind |-> "deep"]
Odd         == [status |-> 200, kind |-> "odd"]

MCAnswers       == {Ok, OkArray, OkNotJson, ServerError, Deep, Odd}
MCAnswersLive   == {Ok, OkArray, Odd}
MCAnswersTwo    == {Ok, ServerError}
=============================================================================
