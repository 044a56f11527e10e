------------------------------- MODULE Usage -------------------------------
(***************************************************************************)
(* backend/app/providers.py: what OpenAIAdapter reads out of the JSON of a *)
(* response, in the spelling of either of the two APIs.                    *)
(*                                                                         *)
(* A JSON value is a record with its type: an object with its fields, a    *)
(* finite number, a model name as text, or "other" (null, a boolean, an    *)
(* array), which the code treats alike wherever it looks.                  *)
(***************************************************************************)
EXTENDS Integers

Other     == [type |-> "other"]
Number(n) == [type |-> "number", value |-> n]
Text(s)   == [type |-> "text", value |-> s]
Object(f) == [type |-> "object", fields |-> f]

IsObject(v) == v.type = "object"

\* dict.get: a field, the default if there is none.
GetOr(v, name, default) == IF name \in DOMAIN v.fields THEN v.fields[name] ELSE default
Get(v, name)            == GetOr(v, name, Other)

----------------------------------------------------------------------------
AsTokenCount(v) == IF v.type = "number" /\ v.value > 0 THEN v.value ELSE 0

\* Chat Completions nests the count in one object, the Responses API in another.
CachedInputTokens(usage) ==
    LET chat      == Get(usage, "prompt_tokens_details")
        responses == Get(usage, "input_tokens_details")
    IN  IF IsObject(chat) THEN AsTokenCount(Get(chat, "cached_tokens"))
        ELSE IF IsObject(responses) THEN AsTokenCount(Get(responses, "cached_tokens"))
        ELSE 0

\* Mutant of ExtractUsage: the Responses API spells its tokens another way.
ExtractChatUsage(response) ==
    LET usage == IF IsObject(Get(response, "usage")) THEN Get(response, "usage")
                 ELSE Object(<<>>)
        model == Get(response, "model")
    IN  [model  |-> IF model.type = "text" THEN model.value ELSE <<>>,
         input  |-> AsTokenCount(Get(usage, "prompt_tokens")),
         output |-> AsTokenCount(Get(usage, "completion_tokens")),
         cached |-> CachedInputTokens(usage)]

\* A field that is there but null hides the other spelling.
ExtractUsage(response) ==
    LET usage == IF IsObject(Get(response, "usage")) THEN Get(response, "usage")
                 ELSE Object(<<>>)
        model == Get(response, "model")
    IN  [model  |-> IF model.type = "text" THEN model.value ELSE <<>>,
         input  |-> AsTokenCount(GetOr(usage, "prompt_tokens", Get(usage, "input_tokens"))),
         output |-> AsTokenCount(GetOr(usage, "completion_tokens", Get(usage, "output_tokens"))),
         cached |-> CachedInputTokens(usage)]

\* What _build_log_record asks before it trusts any count.
ReportsUsage(response) == IsObject(response) /\ IsObject(Get(response, "usage"))
=============================================================================
