------------------------------- MODULE Routing -------------------------------
(***************************************************************************)
(* Router.resolve picks a server and one of its compute leaves for a call  *)
(* and estimates the hold; when the call has been answered the settlement  *)
(* prices it and rates the server, which the next decision sees.  Several  *)
(* resolutions run at once: between any two reads servers come and go,     *)
(* menus change and records move.                                          *)
(***************************************************************************)
EXTENDS Pricing, Reputation, Menu, Sequences

CONSTANTS Servers, Leaves,   \* Leaves: the records that may be on offer
          Meta,          \* [Servers -> what a server declares; place: alphabetical rank]
          Resolvers,     \* coroutines, each resolving one request at a time
          Requests,      \* what may be asked for, with the caller's preferences
          Answers,       \* [chars, latency, tier_verdict] of the answers
          Scores,        \* scores of surveys
          Records,       \* what [Servers -> record] there may be to begin with
          MaxCalls, MaxChanges   \* bounds of the model: decisions; comings and goings

(* A server's rate is not negative, nor are a leaf's rate and latency; the *)
(* ids of servers and the addresses of leaves are keys.                    *)
ASSUME RoutingAssumption ==
    /\ IsFiniteSet(Servers) /\ IsFiniteSet(Leaves)
    /\ \A s \in Servers : Meta[s].base_rate \in Nat /\ Meta[s].place \in Int
    /\ \A s, t \in Servers : Meta[s].place = Meta[t].place => s = t
    /\ \A l \in Leaves : IsLeaf(l) /\ l.tier \in Tiers
    /\ \A l, m \in Leaves : l.place = m.place => l = m
    /\ Requests # {}
    /\ \A r \in Requests :
         /\ r.tier \in Tiers /\ r.prompt_chars \in Int /\ r.max_response_chars \in Int
         /\ r.prefs.specialties \in Seq(Range(r.prefs.specialties))
         /\ r.prefs.integrations \in Seq(Range(r.prefs.integrations))
         /\ r.prefs.server_rank_by
              \in {"cheapest", "best_reputation", "highest_csat", "lowest_latency"}
    /\ \A a \in Answers :
         a.chars \in Int /\ a.latency \in Int /\ a.tier_verdict \in {"matched", "sub_tier"}
    /\ Scores \subseteq Int
    /\ \A reps \in Records : DOMAIN reps = Servers /\ \A s \in Servers : IsEntry(reps[s])

VARIABLES alive,      \* servers whose liveness key exists
          offered,    \* leaves list_leaves(only_alive_providers) returns
          entries,    \* [Servers -> reputation record]
          stage,      \* of each resolver
          request,    \* what it was asked for
          todo,       \* the servers it still has to look at
          listed,     \* those discover has found so far
          kept,       \* the records it read of those that pass the hard filter
          gated,      \* those that passed the coin flip, or all
          decision,   \* server, leaf and hold; or failed
          answer,     \* of the call that was routed
          settlement, \* what it is priced at
          current,    \* the server's record as record_outcome loaded it
          on_offer,   \* history: the leaves the decision chose from
          record,     \* history: the server's record the price was made with
          decisions, changes

world_vars == <<alive, offered, entries, changes>>
choice_vars == <<request, todo, listed, kept, gated, decision, on_offer, decisions>>
settled_vars == <<answer, settlement, current, record>>
routing_vars == <<world_vars, stage, choice_vars, settled_vars>>

NoLeaf == [rate |-> 0]
Undecided == [server |-> "none", leaf |-> NoLeaf, hold |-> 0]

(* ServerRegistry.discover: a server that lists no codes, or no tiers,     *)
(* takes all of them.                                                      *)
Capable(s, r) ==
    /\ Meta[s].codes = {} \/ r.code \in Meta[s].codes
    /\ Meta[s].tiers = {} \/ r.tier \in Meta[s].tiers

PassesHardFilter(s, rep, prefs) ==
    /\ s \notin prefs.blocked
    /\ rep.reputation >= prefs.min_reputation
    /\ rep.csat >= prefs.min_csat
    /\ prefs.required_specialties \subseteq Meta[s].specialties
    /\ prefs.required_integrations \subseteq Meta[s].integrations

(* The preferences in the order in which they are applied, each as the set *)
(* of the servers that meet it.                                            *)
Wishes(prefs) ==
    [i \in DOMAIN prefs.specialties |-> {s \in Servers : prefs.specialties[i] \in Meta[s].specialties}]
    \o [i \in DOMAIN prefs.integrations |-> {s \in Servers : prefs.integrations[i] \in Meta[s].integrations}]
    \o (IF prefs.servers = {} THEN <<>> ELSE <<prefs.servers>>)

(* Mutant: each preference is tried on the whole set, the last one wins.   *)
SoftFilterLastWins(servers, prefs) ==
    LET w == Wishes(prefs)
        granted[i \in 0..Len(w)] ==
          IF i = 0 THEN servers
          ELSE IF servers \cap w[i] = {} THEN granted[i - 1] ELSE servers \cap w[i]
    IN granted[Len(w)]

(* _apply_soft_filter: a preference that would empty the set is skipped.   *)
Narrow(servers, wish) == IF servers \cap wish = {} THEN servers ELSE servers \cap wish

SoftFilter(servers, prefs) ==
    LET w == Wishes(prefs)
        narrowed[i \in 0..Len(w)] ==
          IF i = 0 THEN servers ELSE Narrow(narrowed[i - 1], w[i])
    IN narrowed[Len(w)]

(* _rank: the key of the sort, before the server id; no latency is last.   *)
RankKey(s, rep, rank_by) ==
    CASE rank_by = "cheapest" -> Meta[s].base_rate
      [] rank_by = "best_reputation" -> - rep.reputation
      [] rank_by = "highest_csat" -> - rep.csat
      [] rank_by = "lowest_latency" -> IF avg_latency(rep) = 0 THEN 1000000 ELSE avg_latency(rep)

RanksBefore(s, t, reps, rank_by) ==
    \/ RankKey(s, reps[s], rank_by) < RankKey(t, reps[t], rank_by)
    \/ RankKey(s, reps[s], rank_by) = RankKey(t, reps[t], rank_by) /\ Meta[s].place < Meta[t].place

First(servers, reps, rank_by) ==
    CHOOSE s \in servers : \A t \in servers \ {s} : RanksBefore(s, t, reps, rank_by)

-----------------------------------------------------------------------------
Resolve(c) ==
    /\ stage[c] = "idle" /\ decisions < MaxCalls
    /\ \E r \in Requests : request' = [request EXCEPT ![c] = r]
    /\ todo' = [todo EXCEPT ![c] = Servers]
    /\ listed' = [listed EXCEPT ![c] = {}]
    /\ kept' = [kept EXCEPT ![c] = [s \in {} |-> NewEntry]]
    /\ gated' = [gated EXCEPT ![c] = {}]
    /\ stage' = [stage EXCEPT ![c] = "discover"]
    /\ decisions' = decisions + 1
    /\ UNCHANGED <<world_vars, decision, on_offer, settled_vars>>

(* ServerRegistry._scan: one EXISTS for each server of the directory, *)
Discover(c) ==
    /\ stage[c] = "discover"
    /\ \E s \in todo[c] :
         /\ todo' = [todo EXCEPT ![c] = @ \ {s}]
         /\ listed' = IF s \in alive /\ Capable(s, request[c])
                      THEN [listed EXCEPT ![c] = @ \cup {s}] ELSE listed
    /\ UNCHANGED <<world_vars, stage, request, kept, gated, decision, on_offer, decisions,
                   settled_vars>>

(* and the list of those that answered it is returned.                     *)
Discovered(c) ==
    /\ stage[c] = "discover" /\ todo[c] = {}
    /\ todo' = [todo EXCEPT ![c] = listed[c]]
    /\ stage' = [stage EXCEPT ![c] = "rate"]
    /\ UNCHANGED <<world_vars, request, listed, kept, gated, decision, on_offer, decisions,
                   settled_vars>>

(* One GET per candidate, and the hard filter on what it read.             *)
Rate(c) ==
    /\ stage[c] = "rate"
    /\ \E s \in todo[c] :
         /\ todo' = [todo EXCEPT ![c] = @ \ {s}]
         /\ kept' = IF PassesHardFilter(s, entries[s], request[c].prefs)
                    THEN [kept EXCEPT ![c] = [t \in DOMAIN @ \cup {s} |-> IF t = s THEN entries[s] ELSE @[t]]]
                    ELSE kept
    /\ UNCHANGED <<world_vars, stage, request, listed, gated, decision, on_offer, decisions,
                   settled_vars>>

Fail(c) ==
    /\ stage' = [stage EXCEPT ![c] = "failed"]
    /\ decision' = [decision EXCEPT ![c] = Undecided]

(* The coin is flipped for each server; if none passes, all of them do.    *)
Flip(reps, passed) ==
    /\ {s \in DOMAIN reps : VisibilityFactor(reps[s]) = "full"} \subseteq passed
    /\ \A s \in passed : VisibilityFactor(reps[s]) # "none"

Choose(c) ==
    /\ stage[c] = "rate" /\ todo[c] = {}
    /\ \/ DOMAIN kept[c] = {} /\ Fail(c) /\ UNCHANGED gated
       \/ \E passed \in SUBSET DOMAIN kept[c] :
            /\ DOMAIN kept[c] # {} /\ Flip(kept[c], passed)
            /\ LET pool == IF passed = {} THEN DOMAIN kept[c] ELSE passed
                   prefs == request[c].prefs
                   s == First(SoftFilter(pool, prefs), kept[c], prefs.server_rank_by)
               IN /\ gated' = [gated EXCEPT ![c] = pool]
                  /\ decision' = [decision EXCEPT ![c] = [Undecided EXCEPT !.server = s]]
            /\ stage' = [stage EXCEPT ![c] = "leaf"]
    /\ UNCHANGED <<world_vars, request, todo, listed, kept, on_offer, decisions, settled_vars>>

(* The best leaf for the one server that was chosen, and the cost ceiling. *)
PickLeaf(c) ==
    /\ stage[c] = "leaf"
    /\ LET s == decision[c].server
           r == request[c]
           reps == [p \in {l.provider : l \in offered} |-> 50]
           hold == EstimateHold(Meta[s].base_rate, r.tier, r.prompt_chars, r.max_response_chars)
       IN IF \/ {l \in matching_leaves(Meta[s].binding, offered) : l.healthy} = {}
             \/ hold > r.prefs.max_cost
          THEN Fail(c)
          ELSE /\ decision' = [decision EXCEPT ![c].hold = hold, ![c].leaf =
                    best_leaf(Meta[s].binding, offered, r.prefs.compute_rank_by, reps)]
               /\ stage' = [stage EXCEPT ![c] = "routed"]
    /\ on_offer' = [on_offer EXCEPT ![c] = offered]
    /\ UNCHANGED <<world_vars, request, todo, listed, kept, gated, decisions, settled_vars>>

(* What the price is made of: the server's record as it is now, and the    *)
(* leaf's tier.                                                            *)
SettlementInputs(chosen, r, rep, a) ==
    [base_rate |-> Meta[chosen.server].base_rate, tier |-> chosen.leaf.tier,
     response_chars |-> a.chars, max_response_chars |-> r.max_response_chars,
     latency |-> a.latency, leaf_rate |-> chosen.leaf.rate, completed_with_caller |-> 0,
     tier_verdict |-> a.tier_verdict, reputation |-> rep.reputation \div 2,
     avg_overage |-> rep.avg_overage]

(* calculate_and_settle reads the server's record and makes the price. *)
PriceAnswer(c) ==
    /\ stage[c] = "routed"
    /\ \E a \in Answers :
         LET rep == entries[decision[c].server]
         IN /\ answer' = [answer EXCEPT ![c] = a]
            /\ settlement' = [settlement EXCEPT ![c] =
                 settle_payment(SettlementInputs(decision[c], request[c], rep, a))]
            /\ record' = [record EXCEPT ![c] = rep]
    /\ stage' = [stage EXCEPT ![c] = "priced"]
    /\ UNCHANGED <<world_vars, choice_vars, current>>

(* settle_against_hold takes no more than the hold: a price above it is    *)
(* refused, and nothing is billed or rated; else record_outcome loads the  *)
(* record.                                                                 *)
BillAnswer(c) ==
    /\ stage[c] = "priced"
    /\ IF settlement[c].pre_tax > decision[c].hold
       THEN stage' = [stage EXCEPT ![c] = "refused"] /\ UNCHANGED current
       ELSE /\ stage' = [stage EXCEPT ![c] = "rating"]
            /\ current' = [current EXCEPT ![c] = entries[decision[c].server]]
    /\ UNCHANGED <<world_vars, choice_vars, answer, settlement, record>>

(* It stores what it made of the record it loaded, over whatever another   *)
(* settlement or a survey has stored since.                                *)
CountOutcome(c) ==
    /\ stage[c] = "rating"
    /\ LET outcome == IF answer[c].tier_verdict = "sub_tier" THEN "sub_tier" ELSE "accepted"
       IN entries' = [entries EXCEPT ![decision[c].server] =
            record_outcome(current[c], outcome, answer[c].latency, answer[c].chars,
                           request[c].max_response_chars)]
    /\ stage' = [stage EXCEPT ![c] = "settled"]
    /\ UNCHANGED <<alive, offered, changes, choice_vars, settled_vars>>

Again(c) ==
    /\ stage[c] \in {"failed", "refused", "settled"}
    /\ stage' = [stage EXCEPT ![c] = "idle"]
    /\ decision' = [decision EXCEPT ![c] = Undecided]
    /\ kept' = [kept EXCEPT ![c] = [s \in {} |-> NewEntry]]
    /\ UNCHANGED <<world_vars, request, todo, listed, gated, on_offer, decisions, settled_vars>>

-----------------------------------------------------------------------------
(* Heartbeats expire and resume, leaves come and go, surveys are answered. *)
Change ==
    /\ changes < MaxChanges /\ changes' = changes + 1
    /\ \/ \E s \in Servers :
            /\ alive' = IF s \in alive THEN alive \ {s} ELSE alive \cup {s}
            /\ UNCHANGED <<offered, entries>>
       \/ \E l \in Leaves :
            /\ offered' = IF l \in offered THEN offered \ {l} ELSE offered \cup {l}
            /\ UNCHANGED <<alive, entries>>
       \/ \E s \in Servers, score \in Scores :
            /\ entries' = [entries EXCEPT ![s] = apply_csat(@, score)]
            /\ UNCHANGED <<alive, offered>>
    /\ UNCHANGED <<stage, choice_vars, settled_vars>>

RoutingInit ==
    /\ alive = Servers /\ offered = Leaves /\ entries \in Records
    /\ stage = [c \in Resolvers |-> "idle"]
    /\ request \in [Resolvers -> {CHOOSE r \in Requests : TRUE}]
    /\ todo = [c \in Resolvers |-> {}] /\ listed = [c \in Resolvers |-> {}]
    /\ gated = [c \in Resolvers |-> {}]
    /\ kept = [c \in Resolvers |-> [s \in {} |-> NewEntry]]
    /\ decision = [c \in Resolvers |-> Undecided]
    /\ answer \in [Resolvers -> {CHOOSE a \in Answers : TRUE}]
    /\ settlement = [c \in Resolvers |-> [pre_tax |-> 0]]
    /\ current = [c \in Resolvers |-> NewEntry]
    /\ record = [c \in Resolvers |-> NewEntry]
    /\ on_offer = [c \in Resolvers |-> {}]
    /\ decisions = 0 /\ changes = 0

RoutingNext ==
    \/ \E c \in Resolvers :
         \/ Resolve(c) \/ Discover(c) \/ Discovered(c) \/ Rate(c) \/ Choose(c)
         \/ PickLeaf(c) \/ PriceAnswer(c) \/ BillAnswer(c) \/ CountOutcome(c) \/ Again(c)
    \/ Change

RoutingSpec == RoutingInit /\ [][RoutingNext]_routing_vars

-----------------------------------------------------------------------------
Decided(c) == stage[c] \in {"leaf", "routed"}

(* Applying the preferences one after the other, each where it leaves      *)
(* somebody, picks a lexicographic best: another candidate that meets a    *)
(* preference the chosen server does not meet fails an earlier one that    *)
(* the chosen one meets, and among equals none ranks before it.  The       *)
(* chosen server passed the hard filter with the record that was read.     *)
ChosenIsBest ==
    \A c \in Resolvers : Decided(c) =>
      LET s == decision[c].server
          prefs == request[c].prefs
          w == Wishes(prefs)
          Differ(t) == {i \in DOMAIN w : (s \in w[i]) # (t \in w[i])}
      IN /\ s \in gated[c] /\ PassesHardFilter(s, kept[c][s], prefs)
         /\ \A t \in gated[c] \ {s} :
              IF Differ(t) # {} THEN s \in w[Min(Differ(t))]
              ELSE RanksBefore(s, t, kept[c], prefs.server_rank_by)

(* The leaf was on offer when the menus were read, and no leaf the server  *)
(* could have run on is at least as cheap, as fast and as free, and better *)
(* in one of these: whatever the weights of the ranking.                   *)
LeafIsNotDominated ==
    \A c \in Resolvers : stage[c] = "routed" =>
      LET l == decision[c].leaf
      IN /\ l \in on_offer[c] /\ l.healthy
         /\ \A m \in on_offer[c] :
              m.healthy /\ PatternMatches(Meta[decision[c].server].binding, m) =>
                ~ /\ m.rate <= l.rate /\ m.latency <= l.latency /\ m.capacity >= l.capacity
                  /\ <<m.rate, m.latency, m.capacity>> # <<l.rate, l.latency, l.capacity>>

Priced(c) == stage[c] \in {"priced", "rating", "settled", "refused"}

(* estimate_hold, "conservative": whatever happens to the server's record  *)
(* between decision and answer, the price of an answer exceeds what was    *)
(* held for its call, and the bill is then refused, only for a bonus the   *)
(* server's record has earned or for a leaf of a dearer tier; at the rate  *)
(* of the tier that was asked for it exceeds the hold by no more than 65   *)
(* percent, what the two bonuses add.  The shares add up to the price.     *)
HoldsAreConservative ==
    \A c \in Resolvers : Priced(c) =>
      LET asked == tier_multiplier(request[c].tier)
          used == tier_multiplier(decision[c].leaf.tier)
          earned == record[c].reputation > 100 \/ record[c].avg_overage < 100
          due == settlement[c]
          hold == decision[c].hold
      IN /\ due.pre_tax = due.server + due.compute + due.broker + due.commons
         /\ due.pre_tax > hold => used > asked \/ earned
         /\ 100 * due.pre_tax * asked <= 165 * hold * used

=============================================================================
