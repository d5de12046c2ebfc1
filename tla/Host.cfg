CONSTANTS
    MaxOffers = 2
    MaxChanges = 1
    HandFaults = 2
    HandCrashes = 2
    MigFaults = 2
    MigCrashes = 2
    MigWrites = 1
    PrQueue = 2
    PrChanges = 2
    PrFaults = 1
    UpVersions = {1, 2, 3}
    UpJobs = 2
    UpFaults = 2
    NmTags = {1}
    NmChanges = 3
    NmEdits = 1
    NmFaults = 2
    FinWorld = 2
    FinRequests = 1
    FinFaults = 1
SPECIFICATION FairSpec
INVARIANTS RuntimePromises
PROPERTIES HandoffIsSafe HostGetsDone MigrationPromises UpdatePromises NmPromises
CHECK_DEADLOCK FALSE
