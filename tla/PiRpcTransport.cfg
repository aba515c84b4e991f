SPECIFICATION FairSpec
CONSTANTS
    MaxRequests = 2
    MaxUiFrames = 1
    MaxStdout = 2
INVARIANTS FramesSound
PROPERTIES ExpiredNeverWritten ImplementsCalls CallerAlwaysSettles
CHECK_DEADLOCK FALSE
