SPECIFICATION RoutingSpec
CONSTANTS
    Servers = {"s1", "s2", "s3"}
    Leaves <- ThreeLeaves
    Meta <- ThreeServers
    Resolvers = {c1, c2}
    Requests <- Various
    Answers <- ThreeAnswers
    Scores <- LowAndHigh
    Records <- OldAndNew
    MaxCalls = 2
    MaxChanges = 1
SYMMETRY Alike
CHECK_DEADLOCK FALSE
INVARIANTS ChosenIsBest LeafIsNotDominated HoldsAreConservative
