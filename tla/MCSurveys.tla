----------------------------- MODULE MCSurveys -----------------------------
(* One survey enqueued twice and voted on twice, while it is swept.        *)
EXTENDS Surveys, TLC

AllOnS1 == [e \in Enqueuers |-> "s1"]
TwoVotes == [v \in Voters |-> "s1"]
CronTwice == [w \in Sweepers |-> IF w \in Firing THEN 2 ELSE 1]

TwoEach == [s \in Surveys |-> 2]
InOrder == [s \in Surveys |-> 1]
=============================================================================
