SPECIFICATION Spec
CONSTANTS
    N = 2
    IPs = {a, b}
    Clients = {c1, c2}
    Endpoints = {e1, e2, e3}
    Modes = {TRUE, FALSE}
    MaxFailures = 2
    None = None
SYMMETRY Symmetry
INVARIANTS
    LeaseExclusive
    ReservationsExact
    NoInstanceLost
    NoLostWakeup
    LeasesCounted
    NoCloseUnderLease
    BoundedBypass
PROPERTIES
    PromiseSpec
