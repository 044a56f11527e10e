--------------------------- MODULE MCStreamProxy ---------------------------
(***************************************************************************)
(* Instances of StreamProxy for TLC: bodies in which every position of an  *)
(* event, its delimiter and the cap can fall on a chunk boundary.          *)
(***************************************************************************)
EXTENDS StreamProxy

Content  == <<"c", "t", "nl", "nl">>
Usage(v) == <<"u", v, "nl", "nl">>
Ping     == <<"x", "nl", "nl">>
NullUsage == <<"u", "x", "nl", "nl">>

\* An event of two lines, one of exactly Cap bytes, and one beyond it.
TwoLines == <<"x", "nl", "u", "2", "nl", "nl">>
Full     == <<"u", "1", "nl", "x", "nl", "nl">>
TooLong  == <<"u", "1", "nl", "x", "x", "nl", "nl">>

MCBodies == {<<>>,
             Content \o NullUsage \o Usage("1") \o Ping,    \* as OpenAI sends it
             Usage("1") \o Content \o Usage("2"),           \* interim usage
             Content \o <<"u", "1", "nl">>,                 \* no last delimiter
             Content \o <<"nl">> \o Usage("1"),             \* a run of newlines
             TooLong \o Usage("2") \o Content,
             Full \o TwoLines,
             Usage("1") \o Usage("3"),                      \* the last one unrecordable
             Usage("3") \o Content \o Usage("1")}           \* or replaced in time

MCUnrecordable == {"3"}

MCBodiesShort == {Content \o Usage("1")}
=============================================================================
