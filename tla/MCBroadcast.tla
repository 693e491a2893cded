---------------------------- MODULE MCBroadcast ----------------------------
(* Broadcasts of one caller to two agents, t1 the dearer one. *)
EXTENDS Broadcast, TLC

TwoCasts == {"c1", "c2"}
TwoMessages == {"m1", "m2"}
TwoTargets == {"t1", "t2"}

SentOnce == [c \in TwoCasts |-> IF c = "c1" THEN "m1" ELSE "m2"]

ToBoth == [c \in Casts |-> <<"t1", "t2">>]
DearAndCheap == [c \in Casts |-> [t1 |-> 3, t2 |-> 2]]

(* The whole hold, part of it, and for t2 more than it. *)
WithinOrAbove == [t1 |-> {1, 3}, t2 |-> {3, 2}]

NoLimit == [c \in Casts |-> AllTargets]
=============================================================================
