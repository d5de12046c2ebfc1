CONSTANTS
    MaxOps = 2
    LostPolls = 2
    MaxTroubles = 1
SPECIFICATION Spec
INVARIANTS OneAtATime
CHECK_DEADLOCK FALSE
