SPECIFICATION PageFairSpec
CONSTANTS
  Asks = {a1}
  Msgs = {m1}
  BufMax = 1
  MaxSteps = 3
  MaxFaults = 1
INVARIANTS PageAgrees LiveNotDropped
PROPERTIES CatchesUp
CHECK_DEADLOCK FALSE
