\* Three commands, two at a time, any of them, on one container; one fault.
CONSTANTS
    Procs = {p1, p2}
    MaxCommands = 3
    Containers = {c1}
    MaxFaults = 1
    None = None
    Torn = Torn
SPECIFICATION FairSpec
INVARIANT ProgramHasCage
 
INVARIANT MountedWhileRunning
INVARIANT GrantsRevoked
INVARIANT LoadableAtRest
PROPERTY EveryProcessExits
\* Every process has exited.
CHECK_DEADLOCK FALSE
