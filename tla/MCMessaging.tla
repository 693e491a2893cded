----------------------------- MODULE MCMessaging -----------------------------
(* Two agents: ana takes text and JSON and her answers are cached, bob     *)
(* takes text, answers for the moment and is reached by acme only.         *)
EXTENDS Messaging

Address(org, accept, lifecycle, instance, params) ==
    [org |-> org, role |-> "expert", domain |-> "finance", subdomain |-> "x", accept |-> accept,
     lifecycle |-> lifecycle, instance |-> instance, params |-> params]
Ana == Address("acme", {"s", "j"}, "longterm", "ana", {<<"stock", "tesla">>})
Bob == Address("acme", {"s"}, "ephemeral", "bob", {})
Visitor == Address("guest", {"s"}, "session", "visitor", {})
Boss == Address("acme", {"s", "j"}, "session", "boss", {})
TwoAgents == [a \in {"ana", "bob"} |-> IF a = "ana" THEN Ana ELSE Bob]

AcmeOnly == {[target |-> [Everyone EXCEPT !.instance = "bob"],
              allow_sources |-> [Everyone EXCEPT !.org = "acme"], code |-> <<"*">>]}
Socratic ==
    [socratic |-> [recipe_kind |-> "turn_sequence",
                   turn_primitives |-> {<<"turn", "ask">>, <<"turn", "answer">>},
                   role_set |-> {"expert", "pupil"},
                   role_turn_permissions |-> [pupil |-> {<<"turn", "answer">>}]]]

Msg(verb, source, target, code, body) ==
    [verb |-> verb, source |-> source, target |-> target, code |-> code, body |-> body,
     thread |-> "t", format |-> "none", params |-> {}]
Reason == <<"collaborative", "reason">>
Envelopes == [
    ask    |-> Msg("SEND-GET", Visitor, Ana, <<"interview", "data">>, "x"),
    again  |-> Msg("SEND-GET", Boss, Ana, <<"interview", "data">>, "x"),
    other  |-> Msg("SEND-GET", Boss, Ana, <<"interview", "data">>, "y"),
    brief  |-> Msg("SEND-GET", Boss, Bob, Reason, "x"),
    denied |-> Msg("SEND", Visitor, Bob, Reason, "x"),
    tell   |-> Msg("SEND", Boss, Bob, Reason, "x"),
    turn   |-> [Msg("SEND", Boss, Ana, <<"turn", "ask">>, "x") EXCEPT !.format = "socratic"],
    all    |-> Msg("CAST-GET", Boss, Everyone, Reason, "x"),
    guest  |-> Msg("CAST-GET", Visitor, Everyone, Reason, "x"),
    data   |-> Msg("CAST", Boss, Everyone, <<"interview", "data">>, "x"),
    one    |-> Msg("CAST", Boss, Bob, Reason, "x"),
    tap    |-> Msg("CAST-SUB", Boss, [Everyone EXCEPT !.org = "acme"], <<"*">>, "x"),
    bust   |-> [Msg("INVALIDATE", Boss, [Everyone EXCEPT !.role = "expert"], Reason, "x")
                  EXCEPT !.params = {<<"stock", "tesla">>}],
    miss   |-> [Msg("INVALIDATE", Boss, Everyone, Reason, "x")
                  EXCEPT !.params = {<<"stock", "ford">>}],
    wrong  |-> Msg("INVALIDATE", Boss, Ana, Reason, "x")]
Names == DOMAIN Envelopes
OneAnswer == [c \in Names |-> IF c = "all" THEN 1 ELSE 0]
Together ==
    {{"ask", "other", "bust"}, {"ask", "again"}, {"again", "miss"}, {"guest", "denied"},
     {"all", "tell"}, {"one", "tap"}, {"data", "turn"}, {"brief", "wrong"}}

(* When three calls are made, one question is asked after the other, and   *)
(* bob, whom none of them concerns, neither stops nor expires.             *)
InTurn ==
    Cardinality(Made) = 3 =>
      /\ pc'["other"] # "new" => pc["ask"] \in {"returned", "raised"}
      /\ doing'["bob"] = doing["bob"] /\ starts'["bob"] = starts["bob"]
      /\ {"bob"} \cap alive' = {"bob"} \cap alive
      /\ {"bob"} \cap registered' = {"bob"} \cap registered
MCNext == Next /\ InTurn
MCSpec == Init /\ [][MCNext]_vars /\ Fairness
=============================================================================
