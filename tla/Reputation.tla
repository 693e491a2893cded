----------------------------- MODULE Reputation -----------------------------
(***************************************************************************)
(* The ledger of reputation and visibility of one economic actor.          *)
(* Reputation is counted in steps of 0.005, so that 200 is 1.0; a survey's *)
(* score, and the average of them, in percent.                             *)
(***************************************************************************)
EXTENDS Integers
LOCAL INSTANCE Pricing

DEFAULT_REPUTATION == 100
MIN_REPUTATION_FLOOR == 60
REP_PENALTY_FAILURE == 10
FullReputation == 200
VISIBILITY_FULL_AT == 500

Outcomes == {"accepted", "verbose", "sub_tier", "refunded", "timeout"}

NewEntry ==
    [reputation |-> DEFAULT_REPUTATION, completed_accepted |-> 0, completed_total |-> 0,
     failed |-> 0, sum_latency |-> 0, avg_overage |-> 100, csat |-> 50, csat_samples |-> 0]

IsEntry(entry) ==
    entry \in [reputation : Int, completed_accepted : Nat, completed_total : Nat, failed : Nat,
               sum_latency : Nat, avg_overage : Int, csat : Int, csat_samples : Nat]

avg_latency(entry) ==
    IF entry.completed_total = 0 THEN 0 ELSE entry.sum_latency \div entry.completed_total

apply_outcome(entry, outcome, latency) ==
    CASE outcome = "accepted" ->
           [entry EXCEPT !.reputation = Least(FullReputation, @ + 1),
              !.completed_accepted = @ + 1,
              !.completed_total = @ + 1, !.sum_latency = @ + Most(0, latency)]
      [] outcome = "verbose" ->
           [entry EXCEPT !.reputation = Most(0, @ - 1),
              !.completed_total = @ + 1, !.sum_latency = @ + Most(0, latency)]
      [] OTHER ->
           [entry EXCEPT !.reputation = Most(0, @ - REP_PENALTY_FAILURE), !.failed = @ + 1]

(* The first score replaces the neutral default, later ones are averaged.  *)
apply_csat(entry, score) ==
    LET s == Between(0, score, 100)
    IN [entry EXCEPT !.csat = IF entry.csat_samples = 0 THEN s ELSE (90 * @ + 10 * s) \div 100,
          !.csat_samples = @ + 1]

(* Whether the router's coin may fall for, and against, the actor.         *)
VisibilityFactor(entry) ==
    IF entry.reputation < MIN_REPUTATION_FLOOR THEN "none"
    ELSE IF entry.completed_accepted >= VISIBILITY_FULL_AT THEN "full" ELSE "some"

record_outcome(entry, outcome, latency, response_chars, max_response_chars) ==
    LET updated == apply_outcome(entry, outcome, latency)
    IN IF max_response_chars > 0
       THEN [updated EXCEPT !.avg_overage =
               update_avg_overage(@, response_chars, max_response_chars)]
       ELSE updated
=============================================================================
