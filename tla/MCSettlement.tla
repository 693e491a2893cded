---------------------------- MODULE MCSettlement ----------------------------
(* Calls of one caller, alice, to a server that runs on a provider's leaf. *)
EXTENDS Settlement, TLC

MCOwners == {"alice", "srv", "gpu", "broker", "commons"}

Bill(server, compute, broker, commons) ==
    [pre_tax |-> server + compute + broker + commons, server |-> server,
     compute |-> compute, broker |-> broker, commons |-> commons]

TwoMessages == {"m1", "m2"}

(* m1 is sent again while its first handler may still be running.          *)
ThreeHandlers == {"h1", "h2", "h3"}
SentAgain == [h \in ThreeHandlers |-> IF h = "h3" THEN "m2" ELSE "m1"]

ByAlice == [m \in TwoMessages |-> "alice"]
ToServer == [h \in Handlers |-> "srv"]

(* Some calls find a server that hosts its own model. *)
OnProviderOrServer == [h \in Handlers |-> IF h = "h1" THEN "gpu" ELSE "srv"]

(* The leaf that m1 found first costs more than the one it finds later.    *)
CheaperLater == [h \in Handlers |-> IF h = "h2" THEN 3 ELSE 4]

(* A price of the whole hold, one below it, and one above it. *)
SolventBills == [h \in Handlers |-> {Bill(1, 1, 1, 1), Bill(1, 0, 1, 0), Bill(2, 1, 1, 1)}]
=============================================================================
