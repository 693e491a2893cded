SPECIFICATION FairSpec
CONSTANTS
    Handlers <- ThreeHandlers
    Messages <- TwoMessages
    Owners <- MCOwners
    Broker = "broker"
    Commons = "commons"
    MessageOf <- SentAgain
    CallerOf <- ByAlice
    ServerOf <- ToServer
    ComputeOf <- OnProviderOrServer
    HoldAmount <- CheaperLater
    Bills <- SolventBills
    SurveyThreshold = 3
    MaxFaults = 0
    INITIAL_FUND = 6
CHECK_DEADLOCK FALSE
INVARIANTS HoldsCloseWithHandlers CallersPayWhatTheyOwe AnswersArePaidFor
PROPERTIES CallsReturn
