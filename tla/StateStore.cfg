CONSTANTS
    MaxTxn = 2
    MaxJobs = 1
    FaultsPerTurn = 1
    UnlockedOverlap = FALSE
SPECIFICATION FairSpec
INVARIANTS PublishedStays OutcomesAreTrue
PROPERTIES KeptDecisionStays RefinesLog MarkerCleared
