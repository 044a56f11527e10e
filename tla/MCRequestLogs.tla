--------------------------- MODULE MCRequestLogs ---------------------------
(***************************************************************************)
(* A small instance of RequestLogs.  Its table has a dearer release next   *)
(* to the family it belongs to, and a cheaper one; the amounts of the      *)
(* invoices are worked out by hand.                                        *)
(***************************************************************************)
EXTENDS RequestLogs, TLC

CONSTANT MCNull

Usage1(input, output) == "prompt_tokens" :> Number(input) @@ "completion_tokens" :> Number(output)
Response(model, usage) == Object("model" :> Text(model) @@ "usage" :> Object(usage))

MCPricing == <<"4o">>                     :> [input |-> 4, cached |-> 2, output |-> 10]
          @@ <<"4o", "mini">>             :> [input |-> 2, cached |-> 1, output |-> 5]
          @@ <<"4o", "2024", "05", "13">> :> [input |-> 7, output |-> 9]

Outcome(model, response, status, error, hit, latency) ==
    [model |-> model, response |-> response, status_code |-> status, error |-> error,
     cache_hit |-> hit, latency_ms |-> latency]

MCForwarded ==
       "dated"     :> Outcome(<<"4o", "mini">>,
                         Response(<<"4o", "mini", "2024">>,
                             Usage1(10, 3) @@ "prompt_tokens_details" :>
                                 Object("cached_tokens" :> Number(4))),
                         200, FALSE, FALSE, 30)
    @@ "responses" :> Outcome(<<"4o">>,
                         Response(<<"4o", "2024">>,
                             "input_tokens" :> Number(5) @@ "output_tokens" :> Number(1)
                             @@ "prompt_tokens_details" :> Other
                             @@ "input_tokens_details" :> Object("cached_tokens" :> Number(5))),
                         200, FALSE, FALSE, 1)
    @@ "clamped"   :> Outcome(<<"4o", "mini">>,
                         Response(<<"4o", "mini", "2024">>,
                             Usage1(1, -2) @@ "prompt_tokens_details" :>
                                 Object("cached_tokens" :> Number(3))),
                         200, FALSE, FALSE, 20)
    @@ "failed"    :> Outcome(<<"4o">>, Other, 502, TRUE, FALSE, 90)
    @@ "unpriced"  :> Outcome(<<"4o", "mini">>, Response(<<"4omni">>, Usage1(8, 8)), 200, FALSE, FALSE, 7)
    @@ "nameless"  :> Outcome(MCNull, Object("object" :> Text(<<"list">>)), 200, FALSE, FALSE, 2)

\* A cache hit on the answer of "dated".
MCCall == "hit" :> [MCForwarded["dated"] EXCEPT !.cache_hit = TRUE, !.latency_ms = 2]
          @@ MCForwarded

MCOrigin == [c \in DOMAIN MCCall |-> IF c = "hit" THEN "dated" ELSE c]

Counted(input, output, cached) == [input |-> input, output |-> output, cached |-> cached]

MCTokens    == "dated" :> Counted(10, 3, 4) @@ "responses" :> Counted(5, 1, 5)
            @@ "clamped" :> Counted(1, -2, 3) @@ "unpriced" :> Counted(8, 8, 0)

\* "failed" was charged for an answer that never arrived, "unpriced" is charged for
\* all the same, and nothing is charged for "hit".
MCInvoice   == "dated" :> 31 @@ "responses" :> 20 @@ "clamped" :> 1
            @@ "failed" :> 12 @@ "unpriced" :> 88 @@ "nameless" :> 0 @@ "hit" :> 0
MCFullPrice == "dated" :> 35 @@ "responses" :> 30 @@ "clamped" :> 2
            @@ "failed" :> 12 @@ "unpriced" :> 88 @@ "nameless" :> 0 @@ "hit" :> 0

ASSUME AmountsAssumption == ProviderIsTrue

MCWindows == {[start |-> MCNull, end |-> 1], [start |-> 1, end |-> 2],
              [start |-> 1, end |-> MCNull], [start |-> MCNull, end |-> MCNull]}
=============================================================================
