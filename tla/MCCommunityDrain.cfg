SPECIFICATION Spec
CONSTANTS
    INITIAL_FUND = 2
    Addresses <- OneGuest
    lifecycle <- OneSession
    Host <- TheHost
    COMMONS_WALLET <- Commons
    STARTING_FUND_BY_LIFECYCLE <- Funds
    Tasks = {"d", "e", "p1"}
    Spendings = 1
    Cancellations = 0
    Specs <- NoSpecs
    Already <- Nobody
    Slate = 1
    max_retries = 0
    Spawners = {"p1"}
    Jobs = 0
    Departures = 0
    Events = 0
    batch_size = 1
    max_buffer = 1
    capacity = 1
    LostReplies = 0
    Interruptions = 0
CHECK_DEADLOCK FALSE
INVARIANTS DrainsMintNothing
