CONSTANTS
    Plain = {p}
    Yielded = {y1, y2, y3}
    Errors = TRUE
SPECIFICATION Spec
CHECK_DEADLOCK FALSE
INVARIANT SameOutcome
