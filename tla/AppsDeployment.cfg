SPECIFICATION FairSpec
CONSTANTS
    Workers = {w1, w2}
    Lost = lost
    MaxDeployments = 2
    MaxGeneration = 3
    MaxAttempts = 2
    ClaimLimit = 1
    MaxFaults = 1
INVARIANTS RowsAgree WorkNotLost ReceiptFirst
PROPERTIES ServedIsCurrent EveryQueuedEnds
CHECK_DEADLOCK FALSE
