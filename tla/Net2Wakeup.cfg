CONSTANTS
    Producers = {p1, p2}
    Items = {i1, i2}
    Urgent = {l1}
    Local = {l1}
    Timed = {t1}
    Stub = stub
    Sleeping = sleeping
    Null = null
SPECIFICATION FairSpec
CHECK_DEADLOCK FALSE
INVARIANT LoopSafe
PROPERTIES
    QueueIsRight
    EveryTaskRuns
