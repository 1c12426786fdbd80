SPECIFICATION Spec
CONSTANTS
    Conns = {c1, c2, c3}
    Limit = 2
    None = None
CHECK_DEADLOCK FALSE
INVARIANTS
    AllClosed
