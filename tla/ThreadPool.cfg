CONSTANTS
    Threads = {t1, t2}
    Actions = {a1, a2}
    ExplicitStop = TRUE
SPECIFICATION FairSpec
CHECK_DEADLOCK FALSE
PROPERTY CalledOrCancelled
