SPECIFICATION FairSpec
CONSTANTS
    N = 1
    IPs = {a}
    Clients = {c1, c2}
    Endpoints = {e1, e2}
    Modes = {TRUE, FALSE}
    MaxFailures = 2
    None = None
PROPERTIES
    RotationCompletes
    AcquireReturns
