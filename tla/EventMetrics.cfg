CONSTANTS
    Names = {"a"}
    Values = {0, 1}
    MaxLevel = 1
    MaxSize = 1
    RollBytes = 4
    StartQueue = 2
    Factor = 1
    HadData = TRUE
    MaxTime = 6
    MaxFlushes = 3
SPECIFICATION Spec
CHECK_DEADLOCK FALSE
INVARIANT BlockHeadersCurrent
