-------------------------------- MODULE Cost --------------------------------
(***************************************************************************)
(* backend/app/cost.py: from token counts to money.  Pure, except for the  *)
(* warnings about models without a price, which RequestLogs keeps.         *)
(*                                                                         *)
(* The name of a model is the sequence of its hyphen-separated parts:      *)
(* "gpt-4o-mini" is <<"gpt", "4o", "mini">>, and model.startswith(key +    *)
(* "-") says that the parts of key are a proper prefix of the parts of     *)
(* model.  Amounts are whole numbers of a unit small enough for the table; *)
(* the division by TOKENS_PER_PRICE_UNIT and floating point are left out.  *)
(***************************************************************************)
EXTENDS Integers, Sequences

CONSTANTS Pricing,  \* PRICING: the rates of each model that has some
          Unpriced  \* None: lookup_pricing found no rates

Name  == Seq(STRING)
Rates == [input: Nat, output: Nat] \cup [input: Nat, cached: Nat, output: Nat]

\* What the tests demand of the table (test_cost.py, "guarding the table itself").
ASSUME PricingAssumption ==
    /\ Unpriced \notin Rates
    /\ DOMAIN Pricing \subseteq Name \ {<<>>}
    /\ \A key \in DOMAIN Pricing :
          /\ Pricing[key] \in Rates
          /\ "cached" \in DOMAIN Pricing[key] => Pricing[key].cached <= Pricing[key].input

----------------------------------------------------------------------------
Positive(n) == IF n > 0 THEN n ELSE 0

IsReleaseOf(model, key) ==
    Len(key) < Len(model) /\ SubSeq(model, 1, Len(key)) = key

Candidates(model) == {key \in DOMAIN Pricing : IsReleaseOf(model, key)}

\* Mutant of LookupPricing: min() for max().
LookupShortest(model) ==
    IF model \in DOMAIN Pricing THEN Pricing[model]
    ELSE IF Candidates(model) = {} THEN Unpriced
    ELSE Pricing[CHOOSE key \in Candidates(model) :
                     \A other \in Candidates(model) : Len(key) <= Len(other)]

\* A model without an entry is priced as the longest entry it is a release of.
LookupPricing(model) ==
    IF model \in DOMAIN Pricing THEN Pricing[model]
    ELSE IF Candidates(model) = {} THEN Unpriced
    ELSE Pricing[CHOOSE key \in Candidates(model) :
                     \A other \in Candidates(model) : Len(other) <= Len(key)]

\* Whether the lookup warns: "" is not worth one.
LacksPrice(model) == model # <<>> /\ LookupPricing(model) = Unpriced

CachedInputRate(rates) == IF "cached" \in DOMAIN rates THEN rates.cached ELSE rates.input

\* Mutant of ComputeCost: the cached tokens are billed next to the others.
ComputeCostAlongside(model, input, output, cached) ==
    IF LookupPricing(model) = Unpriced THEN 0
    ELSE LET rates == LookupPricing(model)
         IN  Positive(input) * rates.input + Positive(cached) * CachedInputRate(rates)
             + Positive(output) * rates.output

\* cached counts some of the input tokens; no more than there are is believed.
ComputeCost(model, input, output, cached) ==
    IF LookupPricing(model) = Unpriced THEN 0
    ELSE LET rates == LookupPricing(model)
             hits  == IF Positive(cached) <= Positive(input) THEN Positive(cached)
                                                             ELSE Positive(input)
         IN  (Positive(input) - hits) * rates.input + hits * CachedInputRate(rates)
             + Positive(output) * rates.output

CacheSavings(model, cached) ==
    IF LookupPricing(model) = Unpriced THEN 0
    ELSE LET rates == LookupPricing(model)
         IN  Positive(cached) * (rates.input - CachedInputRate(rates))
=============================================================================
