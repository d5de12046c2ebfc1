CONSTANTS
    UiCommits = 2
    UiFaults = 1
    UiCap = 1
    UiElsewhere = {"grp", "mode"}
    BkValues = {1, 2}
    SnapshotCap = 1
    BkChanges = 1
    BkRestores = 2
    BkFaults = 1
    PfContents = {1, 2}
    PfRequests = 3
    PfFaults = 2
    NrBits = 4
    NrPrefixes = {1, 2}
    NrRows = 2
    NrGateways = {2, 5}
    NrHosts = {3, 4, 5, 6, 9, 13}
    VdQueues = {"x", "y"}
    VdDelays = {0, 1, 3}
    VdMemory = {0, 3, 4}
    VdMost = 3
    VdChanges = 3
    BfChanges = 2
    BfEdits = 1
    BfFaults = 1
    RcvSources = {"a"}
    RcvServers = {"d"}
    RcvCommands = 2
    RcvSettings = 0
    RcvWorld = 1
    RcvRefusals = 1
    DispModes = {1, 2}
    DispRequests = 1
    DispChanges = 1
    DispFaults = 1
    DispLosses = 0
    FinWorld = 1
    FinRequests = 2
    FinFaults = 2
SPECIFICATION Spec
INVARIANTS RulesPromises DelayPromises FinderPromises
PROPERTIES UiPromises BackupPromises PackagePromises FilesPromises ReceiverPromises DisplayPromises
CHECK_DEADLOCK FALSE
