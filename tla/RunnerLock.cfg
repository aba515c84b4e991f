SPECIFICATION LockSpec
CONSTANTS
    Runners = {r1, r2, r3}
    Recorded = {r1}
INVARIANTS LockSound
CHECK_DEADLOCK FALSE
