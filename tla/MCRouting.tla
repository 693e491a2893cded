------------------------------ MODULE MCRouting ------------------------------
(* Three servers on a menu of three leaves, and requests that want         *)
(* different things of them.                                               *)
EXTENDS Routing, TLC

Leaf(provider, tier, model, rate, latency, capacity, place) ==
    [provider |-> provider, tier |-> tier, model |-> model, rate |-> rate, latency |-> latency,
     capacity |-> capacity, healthy |-> TRUE, place |-> place]

ThreeLeaves ==
    {Leaf("east", "small", "haiku", 4, 600, 50, 1), Leaf("west", "small", "haiku", 4, 900, 50, 2),
     Leaf("west", "big", "opus", 3, 2000, 100, 3)}

Binding(tiers) == [provider |-> {"east", "west"}, tier |-> tiers, model |-> {"haiku", "opus"}]

Server(rate, specialties, integrations, tiers, place) ==
    [base_rate |-> rate, specialties |-> specialties, integrations |-> integrations,
     codes |-> {}, tiers |-> {"small"}, binding |-> Binding(tiers), place |-> place]

ThreeServers ==
    [s1 |-> Server(2, {"law"}, {}, {"small"}, 1), s2 |-> Server(2, {"tax"}, {"crm"}, {"small"}, 2),
     s3 |-> Server(3, {"law", "tax"}, {"crm"}, {"small", "big"}, 3)]

Prefs == [min_reputation |-> MIN_REPUTATION_FLOOR, min_csat |-> 0, blocked |-> {},
          required_specialties |-> {}, required_integrations |-> {}, max_cost |-> 100000,
          specialties |-> <<>>, integrations |-> <<>>, servers |-> {},
          server_rank_by |-> "cheapest", compute_rank_by |-> "cheapest"]
Request(prefs) == [code |-> "ask", tier |-> "small", prompt_chars |-> 0,
                   max_response_chars |-> 100, prefs |-> prefs]

Various ==
    {Request(Prefs),
     Request([Prefs EXCEPT !.server_rank_by = "best_reputation", !.blocked = {"s1"}]),
     Request([Prefs EXCEPT !.specialties = <<"law", "tax">>, !.integrations = <<"crm">>,
                !.servers = {"s2"}, !.server_rank_by = "lowest_latency",
                !.compute_rank_by = "lowest_latency"]),
     Request([Prefs EXCEPT !.min_csat = 60, !.required_specialties = {"tax"}, !.max_cost = 500,
                !.server_rank_by = "highest_csat", !.compute_rank_by = "best_uptime"])}

Answer(chars, latency, verdict) == [chars |-> chars, latency |-> latency, tier_verdict |-> verdict]
ThreeAnswers == {Answer(100, 700, "matched"), Answer(250, 700, "matched"), Answer(50, 100, "sub_tier")}
LowAndHigh == {-20, 130}

Seasoned(reputation) ==
    [NewEntry EXCEPT !.reputation = reputation, !.completed_accepted = 600,
                     !.completed_total = 600, !.sum_latency = 6000]
AllNew == [s \in Servers |-> NewEntry]
Alike == Permutations(Resolvers)
OldAndNew == {[AllNew EXCEPT !["s2"] = Seasoned(160)], [AllNew EXCEPT !["s3"] = Seasoned(62)]}
=============================================================================
