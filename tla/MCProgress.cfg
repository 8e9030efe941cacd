CONSTANTS
    Threads = {"t1", "t2"}
    Actions = {"a1", "a2"}
    ExplicitStop = TRUE
SPECIFICATION AllFairSpec
CHECK_DEADLOCK FALSE
INVARIANT PoolSafe
PROPERTIES
    QueuedIsServed
    ActorsAnswer
    ThreadsReturn
    LoopsGoOn
    BytesArrive
