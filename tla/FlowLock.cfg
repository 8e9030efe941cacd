CONSTANTS
    Clients = {c1, c2, c3, c4}
    permits = 2
    Amounts = {1, 2, 3}
    UpTo = {1, 3}
SPECIFICATION Spec
SYMMETRY Symmetric
CHECK_DEADLOCK FALSE
INVARIANT LockSafe
