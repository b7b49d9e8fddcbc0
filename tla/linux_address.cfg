\* Two commands at a time, nobody is killed.
CONSTANTS
    Procs = {p1, p2}
    Containers = {c1, c2}
    Addrs = {2, 3, 4}
    Commands = {"run"}
    MaxCommands = 2
    MaxFaults = 0
    None = None
SPECIFICATION Spec
INVARIANT OwnAddress
CHECK_DEADLOCK FALSE
