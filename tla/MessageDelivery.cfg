SPECIFICATION FairSpec
CONSTANTS
  Prompts = {p1, oversize, invalid}
  Oversize = {oversize}
  Invalid = {invalid}
  Injections = {i1}
  Flusher = flusher
  QueueLimit = 1
  MaxMessages = 2
  MaxGeneration = 2
  MaxCrashes = 1
INVARIANTS AcknowledgedNeverLost AtMostOncePerCrash OneHolder
PROPERTIES EveryPromptAnswered
CHECK_DEADLOCK FALSE
