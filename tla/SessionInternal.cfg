SPECIFICATION Spec
CONSTANTS
    MaxQueue = 2
    Cycles = 1
    Users = {u}
    Internals = {i}
    None = None
CHECK_DEADLOCK FALSE
INVARIANTS
    NoInterference
