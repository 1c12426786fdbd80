CHECK_DEADLOCK FALSE
SPECIFICATION FairSpec
CONSTANTS
    UniqueIP = TRUE
    MaxUsedIPRetries = 3
    MaxFailures = 3
INVARIANTS
    ReapedFirst
    NoWipeOnShutdown
    UsedPolicyExact
    FreshMeansFresh
PROPERTIES
    ShutdownCompletes
    DeadTorReplaced
