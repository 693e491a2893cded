SPECIFICATION MCSpec
CONSTANTS
    Clients = {"one", "two", "dog"}
    Servers = {"srv"}
    Agents = {"agent"}
    Providers = {"gpu"}
    Leaves = {"leaf"}
    Entities = {"srv", "agent", "gpu"}
    Nobody = "nobody"
    Claims <- BothOwnTheAgent
    ProviderOf <- TheProvider
    Sweepers = {"dog"}
    Deltas <- UpOrDown
    MaxReputation = 3
    MaxTries = 2
    MaxCalls <- TwoAndOne
    MaxFaults = 1
    Does <- OnAnything
CHECK_DEADLOCK FALSE
INVARIANTS OutagesReportedOnce IndexNamesLeaves
PROPERTIES NudgesBuildOnEachOther
