CONSTANTS
    Producers = {p1, p2, p3}
    Consumers = {f1, f2, f3}
    MaxSends = 4
SPECIFICATION Spec
CHECK_DEADLOCK FALSE
INVARIANT StreamSafe
