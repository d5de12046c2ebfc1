CONSTANTS
    MaxOps = 2
    LostPolls = 2
    MaxTroubles = 2
SPECIFICATION FairSpec
INVARIANTS ResultsAreReal
PROPERTIES SettledForGood JobsEnd
CHECK_DEADLOCK FALSE
