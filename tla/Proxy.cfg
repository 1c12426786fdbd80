SPECIFICATION ProxyFairSpec
CONSTANTS
    N = 2
    IPs = {a}
    Requests = {r1}
    Clients <- MCClients
    Kinds = {"get", "post", "connect", "bad"}
    Endpoints = {e1}
    Modes = {TRUE, FALSE}
    MaxFailures = 1
    None = None
INVARIANTS
    OneLeaseAtATime
PROPERTIES
    BodyOnce
    NoSplice
    RequestEnds
