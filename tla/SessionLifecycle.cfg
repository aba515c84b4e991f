SPECIFICATION FairSpec
CONSTANTS
    MaxOps = 3
    Kinds = {"create", "activate", "relaunch", "kill", "archive", "delete"}
INVARIANTS NoOrphanProcess Coherent KilledIsGone
PROPERTIES OperationsFinish
CHECK_DEADLOCK FALSE
