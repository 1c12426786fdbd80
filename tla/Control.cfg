SPECIFICATION FairSpec
CONSTANTS
    Calls = {c1, c2}
    QueueMax = 1
    MaxEvents = 3
    None = None
CHECK_DEADLOCK FALSE
INVARIANTS
    NoEventLost
PROPERTIES
    AnswersOwn
    CommandReturns
