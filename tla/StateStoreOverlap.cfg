CONSTANTS
    MaxTxn = 1
    MaxJobs = 1
    FaultsPerTurn = 0
    UnlockedOverlap = TRUE
SPECIFICATION Spec
INVARIANTS AckedSurvives
