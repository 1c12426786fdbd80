SPECIFICATION ProxySpec
CONSTANTS
    N = 2
    IPs = {a, b}
    Requests = {r1}
    Clients <- MCClients
    Kinds = {"get"}
    Endpoints = {e1, e2}
    Modes = {TRUE}
    MaxFailures = 2
    None = None
SYMMETRY Symmetry
INVARIANTS
    NotReplayed
