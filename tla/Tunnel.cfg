SPECIFICATION FairSpec
CONSTANTS
    IdleTimeout = 3
    HeaderTimeout = 2
CHECK_DEADLOCK FALSE
INVARIANTS
    HeaderBounded
PROPERTIES
    DownloadKeepsAlive
    NoByteAfterReturn
    EndsTogether
