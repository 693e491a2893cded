SPECIFICATION Spec
CONSTANTS
    INITIAL_FUND = 2
    Addresses <- TwoGuests
    lifecycle <- Sessions
    Host <- TheHost
    COMMONS_WALLET <- Commons
    STARTING_FUND_BY_LIFECYCLE <- Funds
    Tasks = {"p1", "p2", "d", "e", "f"}
    Spendings = 1
    Cancellations = 1
    Specs <- ClubSpecs
    Already <- OneAlive
    Slate = 2
    max_retries = 1
    Spawners = {"p1", "p2"}
    Jobs = 3
    Departures = 1
    Events = 4
    batch_size = 2
    max_buffer = 3
    capacity = 2
    LostReplies = 1
    Interruptions = 1
CHECK_DEADLOCK FALSE
INVARIANTS SpawnsFillTheirPlaces LiveAgentsAreFunded CreditsAreTraced LogsAreKept
