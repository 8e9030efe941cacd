CONSTANTS
    Clients = {"c1", "c2", "c3"}
    Owner = "c1"
    Releases = TRUE
SPECIFICATION AllSpec
CHECK_DEADLOCK FALSE
INVARIANTS
    ThreadFutureSafe
    AllocatorSafe
    LogSafe
    SamplesIntact
    TasksInOrder
    StreamInOrder
    DialingSafe
