\* Three commands, two at a time, any of the six, and up to two faults.  What follows
\* a mishap is not explored: every property is about states without one.
CONSTANTS
    Procs = {p1, p2}
    Containers = {c1, c2}
    Addrs = {2, 3}
    Commands = {"create", "run", "start", "exec", "stop", "rm"}
    MaxCommands = 3
    MaxFaults = 2
    None = None
SPECIFICATION Spec
CONSTRAINT NoMishap
SYMMETRY MCSymmetry
INVARIANT AddressesApart
INVARIANT LeaseCovers
INVARIANT LeasesBalanced
\* The system may stop: every id was used and removed.
CHECK_DEADLOCK FALSE
