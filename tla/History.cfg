SPECIFICATION FairSpec
CONSTANTS
    IPs = {1, 2}
    PageSize = 1
    Slots = {1, 2}
    MaxClicks = 3
    MaxFailures = 1
INVARIANTS
    ShownIsAsked
PROPERTIES
    Converges
