------------------------------- MODULE Pricing -------------------------------
(***************************************************************************)
(* The settlement formula.  Multipliers, overages and shares are percents, *)
(* amounts whole units; a product is rounded down at every factor.         *)
(***************************************************************************)
EXTENDS Integers

Percent(x, p) == (x * p) \div 100
Least(x, y) == IF x < y THEN x ELSE y
Most(x, y) == IF x > y THEN x ELSE y
Between(lo, x, hi) == Most(lo, Least(x, hi))

Tiers == {"tiny", "small", "medium", "big"}
tier_multiplier(tier) == [tiny |-> 1, small |-> 2, medium |-> 4, big |-> 8][tier]
ExpectedLatency(tier) == [tiny |-> 200, small |-> 600, medium |-> 1500, big |-> 4000][tier]

(* The hold: neutral multipliers, and the whole budget of characters.      *)
EstimateHold(base_rate, tier, prompt_chars, max_response_chars) ==
    base_rate * tier_multiplier(tier) * (Most(0, prompt_chars) + Most(0, max_response_chars))

(* log10, rounded down, of a count of calls below a billion.              *)
Log10(n) == IF n < 10 THEN 0 ELSE CHOOSE k \in 1..8 : 10^k <= n /\ (k = 8 \/ n < 10^(k + 1))

Retention(completed_with_caller) == 100 + 5 * Log10(1 + Most(0, completed_with_caller))
ReputationMultiplier(reputation) == Between(50, 50 + Between(0, reputation, 100), 150)
VerbosityMultiplier(avg_overage) == Between(50, 200 - Most(0, avg_overage), 110)
ComputeMultiplier(latency, tier, tier_verdict) ==
    (IF 10 * latency < 3 * ExpectedLatency(tier) THEN 50 ELSE 100)
      \div (IF tier_verdict = "sub_tier" THEN 2 ELSE 1)

(* Mutant: the response is not capped by the caller's budget.              *)
EffectiveCharsUncapped(inp) == Most(0, inp.response_chars)

EffectiveChars(inp) == Most(0, Least(inp.response_chars, inp.max_response_chars))

PreTax(inp) ==
    Percent(Percent(Percent(Percent(
      inp.base_rate * tier_multiplier(inp.tier) * EffectiveChars(inp),
      Retention(inp.completed_with_caller)), ReputationMultiplier(inp.reputation)),
      VerbosityMultiplier(inp.avg_overage)),
      ComputeMultiplier(inp.latency, inp.tier, inp.tier_verdict))

(* The server is the residual claimant: its share may be negative.         *)
settle_payment(inp) ==
    LET pre_tax == PreTax(inp)
        to_compute == (inp.leaf_rate * EffectiveChars(inp)) \div 1000
        protocol_tax == Percent(pre_tax, 5)
        to_broker == Percent(protocol_tax, 60)
    IN [pre_tax |-> pre_tax, compute |-> to_compute, broker |-> to_broker,
        commons |-> protocol_tax - to_broker,
        server |-> pre_tax - to_compute - protocol_tax]

update_avg_overage(current, response_chars, max_response_chars) ==
    IF max_response_chars <= 0 THEN current
    ELSE (95 * current + 5 * ((100 * Most(0, response_chars)) \div max_response_chars)) \div 100
=============================================================================
