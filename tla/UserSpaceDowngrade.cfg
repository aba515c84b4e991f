SPECIFICATION Spec
CONSTANTS
  Tabs = {t1, t2}
  MaxOps = 1
  MaxEpochs = 2
  MaxSocks = 2
  MaxFaults = 0
INVARIANT NeverDowngraded
CHECK_DEADLOCK FALSE
