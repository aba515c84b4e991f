SPECIFICATION FairSpec
CONSTANTS
    MaxJobs = 3
    MaxDrops = 1
    MaxRestarts = 1
    MaxStubborn = 1
INVARIANTS ChildSound KilledIsGone AgreeWhenQuiet
PROPERTIES JobEnds
CHECK_DEADLOCK FALSE
