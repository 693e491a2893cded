-------------------------------- MODULE Menu --------------------------------
(***************************************************************************)
(* The leaves that compute providers offer, and which of them a server's   *)
(* compute_binding picks.  A leaf is a record with the fields of its       *)
(* address (provider, tier, model) and rate, latency, capacity, healthy,   *)
(* place: its rank in the alphabetical order of the addresses.  A pattern  *)
(* gives the set of names that each field's glob matches.                  *)
(***************************************************************************)
EXTENDS Integers, FiniteSets, FiniteSetsExt

IsLeaf(leaf) ==
    /\ leaf.rate \in Nat /\ leaf.latency \in Nat /\ leaf.capacity \in 0..100
    /\ leaf.healthy \in BOOLEAN /\ leaf.place \in Int

PatternMatches(pattern, leaf) ==
    leaf.provider \in pattern.provider /\ leaf.tier \in pattern.tier /\ leaf.model \in pattern.model

matching_leaves(pattern, leaves) == {leaf \in leaves : PatternMatches(pattern, leaf)}

(* Where a value is between the worst and the best: a fraction, whose      *)
(* denominator is the span of the values; everything is best among equals. *)
Span(values) == IF Max(values) = Min(values) THEN 1 ELSE Max(values) - Min(values)
NormalizeInverse(v, values) == IF Max(values) = Min(values) THEN 1 ELSE Max(values) - v
NormalizeDirect(v, values) == IF Max(values) = Min(values) THEN 1 ELSE v - Min(values)

(* Price, latency, capacity and reputation, in percent.                    *)
Weights(rank_by) ==
    CASE rank_by = "lowest_latency" -> <<15, 60, 20, 5>>
      [] rank_by = "best_uptime" -> <<15, 20, 60, 5>>
      [] rank_by = "best_reputation" -> <<15, 10, 10, 65>>
      [] OTHER -> <<60, 20, 15, 5>>

(* The weighted sum of four fractions, over their common denominator.      *)
Weighted(w, part, span) ==
    w[1] * (part[1] * (span[2] * (span[3] * span[4])))
      + w[2] * (part[2] * (span[1] * (span[3] * span[4])))
      + w[3] * (part[3] * (span[1] * (span[2] * span[4])))
      + w[4] * (part[4] * (span[1] * (span[2] * span[3])))

Rates(leaves) == {l.rate : l \in leaves}
Latencies(leaves) == {l.latency : l \in leaves}
Capacities(leaves) == {l.capacity : l \in leaves}
Reputations(leaves, reputations) == {reputations[l.provider] : l \in leaves}
Spans(leaves, reputations) ==
    <<Span(Rates(leaves)), Span(Latencies(leaves)), Span(Capacities(leaves)),
      Span(Reputations(leaves, reputations))>>

(* Mutant: slower leaves score higher.                                     *)
ScoreSlowFirst(leaf, leaves, rank_by, reputations) ==
    Weighted(Weights(rank_by),
      <<NormalizeInverse(leaf.rate, Rates(leaves)), NormalizeDirect(leaf.latency, Latencies(leaves)),
        NormalizeDirect(leaf.capacity, Capacities(leaves)),
        NormalizeDirect(reputations[leaf.provider], Reputations(leaves, reputations))>>,
      Spans(leaves, reputations))

Score(leaf, leaves, rank_by, reputations) ==
    Weighted(Weights(rank_by),
      <<NormalizeInverse(leaf.rate, Rates(leaves)), NormalizeInverse(leaf.latency, Latencies(leaves)),
        NormalizeDirect(leaf.capacity, Capacities(leaves)),
        NormalizeDirect(reputations[leaf.provider], Reputations(leaves, reputations))>>,
      Spans(leaves, reputations))

(* The score decides, then the address.                                    *)
Outranks(leaf, other, leaves, rank_by, reputations) ==
    \/ Score(leaf, leaves, rank_by, reputations) > Score(other, leaves, rank_by, reputations)
    \/ /\ Score(leaf, leaves, rank_by, reputations) = Score(other, leaves, rank_by, reputations)
       /\ leaf.place < other.place

(* Unhealthy leaves are out.                                               *)
best_leaf(pattern, leaves, rank_by, reputations) ==
    LET healthy == {leaf \in matching_leaves(pattern, leaves) : leaf.healthy}
    IN CHOOSE leaf \in healthy : \A other \in healthy \ {leaf} :
         Outranks(leaf, other, healthy, rank_by, reputations)
=============================================================================
