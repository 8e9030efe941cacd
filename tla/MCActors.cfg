CONSTANTS
    Count = 3
    Handles = {"h1", "h2"}
    Watchers = {w1, w2, w3}
SPECIFICATION AllSpec
SYMMETRY Symmetric
CHECK_DEADLOCK FALSE
INVARIANTS
    QuorumSafe
    CombinatorsRight
    StreamsKeepOrder
    YieldedSafe
    WatchersSafe
    AndFutureRight
    CollectionRight
    AsExpected
