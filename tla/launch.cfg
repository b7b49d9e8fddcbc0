\* Two launches of one process, each any of the ten functions, every call failing.
CONSTANTS
    Vars = {"PATH", "TEMP", "PSMODULEPATH", "ONEDRIVE", "PROJECT", "HOME", "PORT"}
    SandboxVars = {"PATH", "TEMP"}
    UsersPaths = {"ONEDRIVE", "PROJECT"}
    RootfsPaths = {"PROJECT"}
    AppPaths = {"HOME"}
    UserEnv = {"PORT"}
    PlanEnv = {"PATH", "PROJECT", "HOME"}
    MaxLaunches = 2
SPECIFICATION Spec
INVARIANT CagedBeforeRunning
 
INVARIANT EnvironmentBack
INVARIANT NothingElseLost
INVARIANT SessionOver
\* The process ends after its last launch.
CHECK_DEADLOCK FALSE
