SPECIFICATION Spec
CONSTANTS
    Calls = {c1, c2}
    QueueMax = 1
    MaxEvents = 2
    None = None
CHECK_DEADLOCK FALSE
INVARIANTS
    NeverAnothers
