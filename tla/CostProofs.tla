----------------------------- MODULE CostProofs -----------------------------
(***************************************************************************)
(* What bills and savings are for every price table that keeps             *)
(* PricingAssumption, and for every count a provider may report.           *)
(***************************************************************************)
EXTENDS Cost, WellFoundedInduction, TLAPS

\* The product of two natural numbers is one, and grows with each of them.
LEMMA Product == \A a, b \in Nat : a * b \in Nat
OBVIOUS

LEMMA ProductGrows == \A a, b, c \in Nat : b <= c => a * b <= a * c
<1> SUFFICES ASSUME NEW a \in Nat, NEW b \in Nat, NEW c \in Nat, b <= c
             PROVE a * b <= a * c
  OBVIOUS
<1>1. PICK d \in Nat : c = b + d
  <2>1. c - b \in Nat /\ c = b + (c - b)
    OBVIOUS
  <2> QED
    BY <2>1
<1>2. a * c = a * b + a * d
  BY <1>1
<1>3. a * d \in Nat /\ a * b \in Nat
  BY Product
<1> QED
  BY <1>2, <1>3

\* A set of natural numbers that is not empty has a smallest member.
LEMMA Smallest ==
    ASSUME NEW S \in SUBSET Nat, S # {}
    PROVE  \E n \in S : \A m \in S : n <= m
<1>1. PICK n \in S : \A m \in S : ~ (<<m, n>> \in OpToRel(<, Nat))
  BY NatLessThanWellFounded, WFMin
<1>2. \A m \in S : ~ (m < n)
  BY <1>1 DEF OpToRel
<1> QED
  BY <1>2

\* Among the entries a model is a release of, one is longest: the model's name
\* bounds their lengths.
LEMMA LongestCandidate ==
    ASSUME NEW model \in Name, Candidates(model) # {}
    PROVE  \E key \in Candidates(model) :
               \A other \in Candidates(model) : Len(other) <= Len(key)
<1> DEFINE Missing == {Len(model) - Len(key) : key \in Candidates(model)}
<1>1. \A key \in Candidates(model) : Len(key) \in Nat /\ Len(key) <= Len(model)
  <2>1. ASSUME NEW key \in Candidates(model) PROVE Len(key) \in Nat /\ Len(key) <= Len(model)
    <3>1. key \in Name /\ Len(key) < Len(model)
      BY PricingAssumption DEF Candidates, IsReleaseOf
    <3>2. Len(key) \in Nat /\ Len(model) \in Nat
      BY <3>1 DEF Name
    <3> QED
      BY <3>1, <3>2
  <2> QED
    BY <2>1
<1>2. Len(model) \in Nat
  BY DEF Name
<1>3. Missing \in SUBSET Nat /\ Missing # {}
  BY <1>1, <1>2
<1>4. PICK n \in Missing : \A m \in Missing : n <= m
  BY <1>3, Smallest
<1>5. PICK key \in Candidates(model) : n = Len(model) - Len(key)
  BY <1>4
<1>6. ASSUME NEW other \in Candidates(model) PROVE Len(other) <= Len(key)
  <2>1. Len(model) - Len(key) <= Len(model) - Len(other)
    BY <1>4, <1>5
  <2> QED
    BY <2>1, <1>1, <1>2
<1> QED
  BY <1>6

\* What a lookup finds is an entry of the table, the model's own or the longest
\* that it is a release of.
LEMMA LookupFindsAnEntry ==
    ASSUME NEW model \in Name, LookupPricing(model) # Unpriced
    PROVE  \E key \in DOMAIN Pricing :
               /\ LookupPricing(model) = Pricing[key]
               /\ key = model \/ IsReleaseOf(model, key)
               /\ \A other \in DOMAIN Pricing :
                     IsReleaseOf(model, other) => Len(other) <= Len(key)
<1>1. CASE model \in DOMAIN Pricing
  <2>1. \A other \in DOMAIN Pricing : IsReleaseOf(model, other) => Len(other) <= Len(model)
    BY PricingAssumption DEF Name, IsReleaseOf
  <2> QED
    BY <1>1, <2>1 DEF LookupPricing
<1>2. CASE model \notin DOMAIN Pricing
  <2> DEFINE key == CHOOSE k \in Candidates(model) :
                        \A other \in Candidates(model) : Len(other) <= Len(k)
  <2>1. Candidates(model) # {}
    BY <1>2 DEF LookupPricing
  <2>2. key \in Candidates(model) /\ \A other \in Candidates(model) : Len(other) <= Len(key)
    BY <2>1, LongestCandidate
  <2>3. LookupPricing(model) = Pricing[key]
    BY <1>2, <2>1 DEF LookupPricing
  <2> HIDE DEF key
  <2> QED
    BY <2>2, <2>3 DEF Candidates
<1> QED
  BY <1>1, <1>2

\* Its rates are natural numbers, the cached one no higher than the full one.
LEMMA RatesFound ==
    ASSUME NEW model \in Name, LookupPricing(model) # Unpriced
    PROVE  /\ LookupPricing(model).input \in Nat
           /\ LookupPricing(model).output \in Nat
           /\ CachedInputRate(LookupPricing(model)) \in Nat
           /\ CachedInputRate(LookupPricing(model)) <= LookupPricing(model).input
<1>1. PICK key \in DOMAIN Pricing : LookupPricing(model) = Pricing[key]
  BY LookupFindsAnEntry
<1>2. Pricing[key] \in Rates
  BY PricingAssumption
<1> QED
  BY <1>1, <1>2, PricingAssumption DEF Rates, CachedInputRate

----------------------------------------------------------------------------
\* What a call would cost without the provider's cache.
FullPriceOf(model, input, output) == ComputeCost(model, input, output, 0)

\* compute_cost: whatever counts a provider reports, a bill is never negative
\* and never more than the call would cost without the provider's cache.
THEOREM BillIsBounded ==
    \A model \in Name, input, output, cached \in Int :
        /\ ComputeCost(model, input, output, cached) \in Nat
        /\ ComputeCost(model, input, output, cached) <= FullPriceOf(model, input, output)
<1> SUFFICES ASSUME NEW model \in Name, NEW input \in Int, NEW output \in Int, NEW cached \in Int
             PROVE  /\ ComputeCost(model, input, output, cached) \in Nat
                    /\ ComputeCost(model, input, output, cached)
                          <= FullPriceOf(model, input, output)
  OBVIOUS
<1>1. CASE LookupPricing(model) = Unpriced
  BY <1>1 DEF ComputeCost, FullPriceOf
<1>2. CASE LookupPricing(model) # Unpriced
  <2> DEFINE full == LookupPricing(model).input
             less == CachedInputRate(LookupPricing(model))
             out  == LookupPricing(model).output
             hits == IF Positive(cached) <= Positive(input) THEN Positive(cached) ELSE Positive(input)
             rest == Positive(input) - hits
  <2>1. full \in Nat /\ less \in Nat /\ out \in Nat /\ less <= full
    BY <1>2, RatesFound
  <2>2. hits \in Nat /\ rest \in Nat /\ Positive(input) = rest + hits
        /\ Positive(input) \in Nat /\ Positive(output) \in Nat
    BY DEF Positive
  <2>3. ComputeCost(model, input, output, cached)
            = rest * full + hits * less + Positive(output) * out
    BY <1>2 DEF ComputeCost
  <2>4. FullPriceOf(model, input, output)
            = Positive(input) * full + Positive(output) * out
    <3>1. Positive(0) = 0
      BY DEF Positive
    <3>2. FullPriceOf(model, input, output)
              = (Positive(input) - 0) * full + 0 * less + Positive(output) * out
      BY <1>2, <2>2, <3>1 DEF ComputeCost, FullPriceOf
    <3> QED
      BY <2>1, <2>2, <3>2
  <2> HIDE DEF full, less, out, hits, rest
  <2>5. Positive(input) * full = rest * full + hits * full
    BY <2>1, <2>2
  <2>6. hits * less <= hits * full
    BY <2>1, <2>2, ProductGrows
  <2>7. /\ rest * full \in Nat /\ hits * full \in Nat /\ hits * less \in Nat
        /\ Positive(output) * out \in Nat
    BY <2>1, <2>2, Product
  <2> QED
    BY <2>3, <2>4, <2>5, <2>6, <2>7
<1> QED
  BY <1>1, <1>2

\* cache_savings: next to a bill whose cached tokens are among the input tokens,
\* the savings make up exactly the full price; where a provider claims more than
\* that, they are more than what was saved, never less.
THEOREM SavingsComplement ==
    \A model \in Name, input, output, cached \in Nat :
        LET both == ComputeCost(model, input, output, cached) + CacheSavings(model, cached)
        IN  /\ both >= FullPriceOf(model, input, output)
            /\ cached <= input => both = FullPriceOf(model, input, output)
<1> SUFFICES ASSUME NEW model \in Name, NEW input \in Nat, NEW output \in Nat, NEW cached \in Nat
             PROVE  LET both == ComputeCost(model, input, output, cached) + CacheSavings(model, cached)
                    IN  /\ both >= FullPriceOf(model, input, output)
                        /\ cached <= input => both = FullPriceOf(model, input, output)
  OBVIOUS
<1>1. CASE LookupPricing(model) = Unpriced
  BY <1>1 DEF ComputeCost, FullPriceOf, CacheSavings
<1>2. CASE LookupPricing(model) # Unpriced
  <2> DEFINE full == LookupPricing(model).input
             less == CachedInputRate(LookupPricing(model))
             out  == LookupPricing(model).output
             hits == IF cached <= input THEN cached ELSE input
             rest == input - hits
             over == cached - hits
  <2>1. full \in Nat /\ less \in Nat /\ out \in Nat /\ less <= full
    BY <1>2, RatesFound
  <2>2. /\ Positive(input) = input /\ Positive(output) = output
        /\ Positive(cached) = cached /\ Positive(0) = 0
    BY DEF Positive
  <2>3. /\ hits \in Nat /\ rest \in Nat /\ over \in Nat
        /\ input = rest + hits /\ cached = hits + over
        /\ cached <= input => over = 0
    OBVIOUS
  <2>4. ComputeCost(model, input, output, cached) = rest * full + hits * less + output * out
    BY <1>2, <2>2 DEF ComputeCost
  <2>5. FullPriceOf(model, input, output) = input * full + output * out
    <3>1. FullPriceOf(model, input, output) = (input - 0) * full + 0 * less + output * out
      BY <1>2, <2>2 DEF ComputeCost, FullPriceOf
    <3> QED
      BY <2>1, <3>1
  <2>6. CacheSavings(model, cached) = cached * (full - less)
    BY <1>2, <2>2 DEF CacheSavings
  <2> HIDE DEF full, less, out, hits, rest, over
  <2>7. PICK off \in Nat : full = less + off
    <3>1. full - less \in Nat /\ full = less + (full - less)
      BY <2>1
    <3> QED
      BY <3>1
  <2>8. input * full = rest * full + hits * less + hits * off
    BY <2>1, <2>3, <2>7
  <2>9. cached * (full - less) = hits * off + over * off
    BY <2>1, <2>3, <2>7
  <2>10. /\ over * off \in Nat /\ rest * full \in Nat /\ hits * less \in Nat
         /\ hits * off \in Nat /\ output * out \in Nat
    BY <2>1, <2>3, <2>7, Product
  <2>11. ComputeCost(model, input, output, cached) + CacheSavings(model, cached)
             = FullPriceOf(model, input, output) + over * off
    BY <2>4, <2>5, <2>6, <2>8, <2>9, <2>10
  <2>12. cached <= input => over * off = 0
    BY <2>3, <2>7
  <2>13. FullPriceOf(model, input, output) \in Nat
    BY <2>5, <2>8, <2>10
  <2> QED
    BY <2>10, <2>11, <2>12, <2>13
<1> QED
  BY <1>1, <1>2
=============================================================================
