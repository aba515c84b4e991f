SPECIFICATION FairSpec
CONSTANTS
  MaxTasks = 2
  MaxParallel = 2
  MaxDepth = 2
  MaxModes = 2
  MaxStubborn = 1
  MaxExits = 1
INVARIANTS NothingEscapes PlanHolds
PROPERTIES OutcomeSticks EveryTaskEnds
CHECK_DEADLOCK FALSE
