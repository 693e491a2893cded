---------------------------- MODULE MCRegistries ----------------------------
(* Two clients and a watchdog on a server, an agent, or a provider with a  *)
(* leaf on its menu: the three registries share no keys, so a behaviour    *)
(* keeps to one of them.                                                   *)
EXTENDS Registries, TLC

VARIABLE focus

BothOwnTheAgent == [c \in Clients |-> IF c = "dog" THEN {} ELSE {"agent"}]
TheProvider == [l \in Leaves |-> "gpu"]
UpOrDown == {-1, 2}
OnAnything == [c \in Clients |-> IF c = "dog" THEN {Nobody} ELSE Entities \cup {Nobody}]
TwoAndOne == [c \in Clients |-> IF c = "two" THEN 1 ELSE 2]

MCInit == Init /\ focus \in {{"srv"}, {"agent"}, {"gpu", Nobody}}
Focused == \A c \in Clients : todo'[c] # <<>> => on'[c] \in focus
MCNext == Next /\ UNCHANGED focus /\ Focused
MCSpec == MCInit /\ [][MCNext]_<<vars, focus>>
=============================================================================
