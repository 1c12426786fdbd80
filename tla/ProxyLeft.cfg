SPECIFICATION ProxySpec
CONSTANTS
    N = 2
    IPs = {a}
    Requests = {r1}
    Clients <- MCClients
    Kinds = {"get"}
    Endpoints = {e1, e2}
    Modes = {FALSE}
    MaxFailures = 2
    None = None
SYMMETRY Symmetry
INVARIANTS
    OnlyForThoseWhoLeft
