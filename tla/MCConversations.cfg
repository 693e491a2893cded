SPECIFICATION Spec
CONSTANTS
    Modes <- AllModes
    AlsoPlays = {"debate"}
    Strays = 1
    ThreadCalls = 4
    Sessions <- HeardSessions
    Panelists <- TwoPanelists
    SessionFaults = 1
    Gateways = {"g1", "g2"}
    Humans = {"h"}
    Questions <- Circle
    Impatient <- OfOneAnother
    Teachers = {"t1", "t2"}
    Subjects = {"s1", "t1"}
    Rubrics = {"r1", "r2"}
    Writings = 2
    Deletions = 1
CHECK_DEADLOCK FALSE
INVARIANTS TurnsMeetTheirHooks SessionsAreHeard JudgementsAreWhole
PROPERTIES ModesPlayOut RelaysReturn
