CONSTANTS
    Promises = {p1, p2, p3}
    Futures = {f1, f2, f3}
    Callbacks = {c1, c2, c3}
    Actor = actor
SPECIFICATION FairSpec
CHECK_DEADLOCK FALSE
INVARIANTS
    SavSafe
    NoOrphanWaiter
    ToldTheOutcome
PROPERTIES
    ToldOnce
    ImplementsContract
    PromisesKept
