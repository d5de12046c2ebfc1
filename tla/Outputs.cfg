CONSTANTS
    RcvSources = {"a"}
    RcvServers = {"d"}
    RcvCommands = 1
    RcvSettings = 1
    RcvWorld = 1
    RcvRefusals = 1
    DispModes = {1, 2}
    DispRequests = 0
    DispChanges = 1
    DispFaults = 1
    DispLosses = 1
    WkSources = {"a", "b"}
    WkChoices = 1
    WkRoutes = 2
    WkWorld = 1
    WkUnlinks = 1
SPECIFICATION FairSpec
INVARIANTS WorkerPromises
PROPERTIES OutputsGetDone
CHECK_DEADLOCK FALSE
