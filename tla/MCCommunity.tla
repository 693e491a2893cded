----------------------------- MODULE MCCommunity -----------------------------
(* Each behaviour follows two tasks that use the factory, two that invite  *)
(* guests, the banker or the audit sinks; the others rest.                 *)
EXTENDS Community, Sink

VARIABLE focus

Named(v) == <<"named", v>>
Invited(v) == <<Named("club"), Named(v)>>
TwoGuests == {Invited("red"), Invited("blue")}
OneGuest == {Invited("red")}
Sessions == [a \in TwoGuests |-> IF a = Invited("red") THEN "session" ELSE "ephemeral"]
OneSession == [a \in OneGuest |-> "session"]
TheHost == <<Named("host")>>
Commons == <<Named("commons")>>
Funds == [l \in Lifecycles |-> IF l = "ephemeral" THEN 2 ELSE 1]
Club(f) == <<fixed(Named("club")), f>>
ClubSpecs ==
    {Club(cycled(1)), Club(cycled(3)), Club(always_fresh(cycled(2))),
     <<crossed(2), cycled(1)>>, <<crossed(2), cycled(2)>>}
OneAlive == {{}, {Invited("red")}}
Nobody == {{}}
NoSpecs == {}

(* What the proof about spawns asks of patterns holds of these. *)
ASSUME ClubsAgree == SpecsAgree /\ GuestsHaveNames

vars == <<focus, community_vars, banker_vars, sink_vars>>

Init ==
    /\ focus \in {"factory", "guests", "bank", "sink"} /\ CommunityInit /\ SinkInit
    /\ focus # "factory" => alive = {}
On(activity) == focus = activity /\ UNCHANGED focus

Departs == \E a \in alive : Depart(a)
SpawnStep(p) == JobStep(p) /\ job'[p].kind = "spawn"
GuestStep(p) == JobStep(p) /\ job'[p].kind = "invite"
Provisions == On("factory") /\ (\E p \in Spawners : SpawnStep(p)) /\ UNCHANGED sink_vars
Invites == On("guests") /\ ((\E p \in Spawners : GuestStep(p)) \/ Departs) /\ UNCHANGED sink_vars
Banks == On("bank") /\ BankerStep /\ UNCHANGED sink_vars
Logs == On("sink") /\ SinkStep /\ UNCHANGED <<community_vars, banker_vars>>
Next == Provisions \/ Invites \/ Banks \/ Logs
Spec == Init /\ [][Next]_vars
=============================================================================
