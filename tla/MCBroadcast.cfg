SPECIFICATION FairSpec
CONSTANTS
    Casts <- TwoCasts
    Messages <- TwoMessages
    Targets <- TwoTargets
    MessageOf <- SentOnce
    TargetsOf <- ToBoth
    HoldAmount <- DearAndCheap
    Prices <- WithinOrAbove
    MaxResponses <- NoLimit
    AllTargets = AllTargets
    MaxFaults = 1
    INITIAL_FUND = 6
CHECK_DEADLOCK FALSE
INVARIANTS DeliveredTargetsAreBacked HoldsCloseWithBroadcasts AnswersAreBilledOnce
PROPERTIES ImplementsEscrow BroadcastsReturn
