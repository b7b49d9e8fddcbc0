\* Three commands, two at a time, two files, one of them copied, one upgrade or other fault.
CONSTANTS
    Procs = {p1, p2}
    MaxCommands = 3
    Files <- MCFiles
    Linkable = {"pwsh.dll"}
    Releases <- MCReleases
    MaxFaults = 1
    None = None
    Torn = Torn
    Numbers = {0, 1, 2}
    Letters = {"a", "b"}
    MaxLength = 4
SYMMETRY MCSymmetry
SPECIFICATION Spec
INVARIANT CacheComplete
INVARIANT CopiedOrCopying
INVARIANT ReferencesExact
INVARIANT UsableWhileRunning
INVARIANT HostUntouched
INVARIANT GlobAgrees
INVARIANT VersionsOrdered
\* All commands have been given.
CHECK_DEADLOCK FALSE
