CONSTANTS
    MigFaults = 1
    MigCrashes = 1
    MigWrites = 1
SPECIFICATION MigSpec
PROPERTIES NextBootTakesOver
CHECK_DEADLOCK FALSE
