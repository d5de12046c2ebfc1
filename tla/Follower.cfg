SPECIFICATION FairSpec
CONSTANTS
    NDomains = 2
    Configs = {"a", "b", "bad"}
    Bad = {"bad"}
    Checked = {1}
    Attempts = 2
    Backlog = 2
    MaxRev = 3
    MaxFaults = 1
    MaxCrashes = 1
    MaxPurges = 1
INVARIANTS LineageIsKnown SettledAgrees
PROPERTIES DeliveryIsSafe Converges
