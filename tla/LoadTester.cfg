SPECIFICATION Spec
CONSTANTS
    Goroutines = {1, 2, 3}
    MaxSlots = 2
    MaxTicks = 3
    None = None
CHECK_DEADLOCK FALSE
INVARIANTS
    Balance
    StoppedIsFinal
PROPERTIES
    CancelsOwn
    RunsEnd
