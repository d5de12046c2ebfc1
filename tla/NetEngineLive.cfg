CONSTANTS
    Nets = {n1, n2}
    MaxJobs = 1
    MaxFaults = 2
    MaxCrashes = 1
    MaxBoots = 1
    MaxWrites = 1
SPECIFICATION FairSpec
PROPERTIES RecoveryEnds
CHECK_DEADLOCK FALSE
