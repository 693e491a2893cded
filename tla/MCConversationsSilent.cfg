SPECIFICATION Spec
CONSTANTS
    Modes = {"directive"}
    AlsoPlays = {}
    Strays = 0
    ThreadCalls = 0
    Sessions <- Consensus
    Panelists <- TwoPanelists
    SessionFaults = 0
    Gateways = {"g1"}
    Humans = {"h"}
    Questions = {}
    Impatient = {}
    Teachers = {"t1"}
    Subjects = {"s1"}
    Rubrics = {"r1"}
    Writings = 0
    Deletions = 0
CHECK_DEADLOCK FALSE
INVARIANTS SessionsAreHeard
