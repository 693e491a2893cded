SPECIFICATION Spec
CONSTANTS
    Surveys = {"s1"}
    Enqueuers = {"e1", "e2"}
    Sweepers = {"cron", "list"}
    Firing = {"cron"}
    Voters = {"v1", "v2"}
    EnqueueOf <- AllOnS1
    VoteOn <- TwoVotes
    Reward <- TwoEach
    DispatchAt <- InOrder
    MaxDispatch = 1
    ListLimit = 1
    Nobody = Nobody
    MaxSweeps <- CronTwice
    MaxOthers = 1
    MaxFaults = 1
    INITIAL_FUND = 2
CHECK_DEADLOCK FALSE
INVARIANTS RewardPaidOnce OpenSurveysStayQueued AnsweredSurveysLeaveQueue RecordedVotesArePaid
PROPERTIES FiredOnceUntilAnswered
