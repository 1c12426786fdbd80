CHECK_DEADLOCK FALSE
SPECIFICATION Spec
CONSTANTS
    UniqueIP = TRUE
    MaxUsedIPRetries = 3
    MaxFailures = 3
PROPERTIES
    RetryStartsAtTen
