SPECIFICATION FairSpec
CONSTANTS
  Tabs = {t1, t2}
  MaxOps = 1
  MaxEpochs = 3
  MaxSocks = 3
  MaxFaults = 1
INVARIANTS Truthful AtMostOnce Fenced CheckinTruthful
PROPERTIES Settles
CHECK_DEADLOCK FALSE
