CONSTANTS
    Kind = "ordered"
    Items = {1, 2}
    MaxItems = 1
SPECIFICATION Spec
CHECK_DEADLOCK FALSE
INVARIANT NoAssertionFails
