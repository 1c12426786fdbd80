SPECIFICATION Spec
CONSTANTS
    N = 1
    IPs = {a}
    Clients = {c1, c2}
    Endpoints = {e1, e2}
    Modes = {FALSE}
    MaxFailures = 3
    None = None
SYMMETRY Symmetry
PROPERTIES
    LastErrSettled
