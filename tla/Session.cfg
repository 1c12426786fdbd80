SPECIFICATION FairSpec
CONSTANTS
    MaxQueue = 2
    Cycles = 2
    Users = {u}
    Internals = {i}
    None = None
CHECK_DEADLOCK FALSE
INVARIANTS
    AttachedToOwn
    DeathKnown
    InternalLeftAlone
PROPERTIES
    StreamSettled
