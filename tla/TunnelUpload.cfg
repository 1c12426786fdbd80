SPECIFICATION Spec
CONSTANTS
    IdleTimeout = 3
    HeaderTimeout = 2
CHECK_DEADLOCK FALSE
PROPERTIES
    UploadKeepsAlive
