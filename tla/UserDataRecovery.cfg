SPECIFICATION RecoverySpec
CONSTANTS
    MaxRecoveries = 3
    MaxFaults = 2
    MaxCrashes = 3
    MaxWrites = 2
INVARIANTS Recovered
PROPERTIES RecoveryKeepsBytes
CHECK_DEADLOCK FALSE
