\* Two loopback endpoints and a wildcard one, backlog of two, up to two connections each.
CONSTANTS
    Ports = {p1, p2, p3}
    Wildcard = {p3}
    Backlog = 2
    MaxConn = 2
SPECIFICATION FairSpec
INVARIANT PortsReleased
PROPERTY ShutdownReturns
