CONSTANTS
    Nets = {n1, n2}
    MaxJobs = 2
    MaxFaults = 2
    MaxCrashes = 1
    MaxBoots = 1
    MaxWrites = 1
SPECIFICATION Spec
SYMMETRY Symmetry
INVARIANTS TypeOK HostFollowsDecision ChangeIsGuarded
PROPERTIES KeepsOnlyApplied
CHECK_DEADLOCK FALSE
