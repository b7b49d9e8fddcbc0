------------------------------- MODULE Launch -------------------------------
(***************************************************************************)
(* How psroot starts a sandboxed program on Windows (psroot-container,     *)
(* sandbox.rs, with psroot-silo, psroot-namespace, psroot-desktop and      *)
(* psroot-job; app_stage.rs).  There are ten ways to launch.  Each is a     *)
(* sequence of system calls, any of which may fail, and all but one change *)
(* psroot's own environment for a while, because the child inherits it.    *)
(*                                                                         *)
(* The launcher is one thread.  A function is the sequence of its steps;   *)
(* todo holds the steps that remain, and every step is an action that      *)
(* succeeds, fails and returns, or falls back to another function.  An     *)
(* early return drops the guards (Rust's RAII) the function holds; what    *)
(* else is held then is lost.                                              *)
(***************************************************************************)
EXTENDS Naturals, Sequences, SequencesExt, FiniteSets

CONSTANTS Vars,        \* environment variables, their names without case
          SandboxVars, \* those that get a value of their own in the sandbox
          UsersPaths,  \* variables whose host value contains \users\
          RootfsPaths, \* variables whose host value contains the rootfs path
          AppPaths,    \* ... contains \appdata\ or "program files"
          UserEnv,     \* variables the container's configuration sets
          PlanEnv,     \* variables the launch plan sets, prepends or appends to
          MaxLaunches  \* launches of one psroot process

\* Names are case-insensitive on Windows, so one variable occurs twice here.
SANITIZED_VARS == <<"PATH", "TEMP", "PSMODULEPATH", "PSMODULEPATH">>
Sanitized == ToSet(SANITIZED_VARS)

\* The dynamic detection: three substring tests on the value of every other
\* variable, the first of them lifted by a rootfs path in the same value.
Detected == ((UsersPaths \ RootfsPaths) \cup AppPaths) \ Sanitized

ASSUME LaunchAssumption ==
    /\ Sanitized \cup UsersPaths \cup AppPaths \cup UserEnv \cup PlanEnv \subseteq Vars
    /\ SandboxVars \subseteq Sanitized
    /\ IsFiniteSet(Vars)
    /\ MaxLaunches \in Nat

VARIABLES path,       \* the function in progress, or "idle"
          todo,       \* its remaining steps
          full,       \* the container has full network access
          env,        \* the environment of the psroot process
          saved,      \* what restore_env gets: variables and values in order
          origin,     \* history: environment and sessions when the launch began
          held,       \* guards and raw handles of the launcher
          registered, \* the AppContainer profile exists in Windows
          sessions,   \* names whose inbound loopback session is alive
          drive,      \* what C: is to psroot itself: "host" or "rootfs"
          child,      \* the child process
          last,       \* how the last launch ended, and at which step
          launches    \* launches so far

os == <<registered, sessions, drive>>
environ == <<env, saved>>
vars == <<path, todo, full, env, saved, origin, held, registered, sessions,
          drive, child, last, launches>>

Values == {"unset", "host", "sandbox", "user", "plan"}
NoChild == [state |-> "none", cage |-> {}, env |-> [v \in Vars |-> "unset"]]
Guards == {"profile", "desktop", "silo", "map"}
Handles == {"attrs", "desk", "token", "process", "thread", "system", "rootfs"}

-----------------------------------------------------------------------------
(* The functions, as sequences of steps.                                   *)

spawn_interactive ==
    <<"available", "profile", "grant", "volumes", "caps", "exempt", "attrs",
      "env", "create", "wait", "close">>

spawn_gui_isolated ==
    <<"available", "profile", "grant", "caps", "exempt", "attrs", "desktop",
      "env", "create", "sid", "wait", "close">>

spawn_gui_isolated_async ==
    <<"available", "profile", "grant", "caps", "exempt", "attrs", "desktop",
      "env", "create", "sid", "detach">>

\* spawn_gui_plan in two parts.
gui_plan_prepare ==
    <<"available", "profile", "sid", "grant", "stage", "caps", "exempt", "attrs">>
gui_plan_start == <<"desktop", "plan_env", "create", "wait", "close">>

spawn_interactive_plan ==
    <<"available", "profile", "sid", "grant", "stage", "caps", "exempt", "attrs",
      "plan_env", "create", "wait", "close">>

\* spawn_interactive_plan_silo: what precedes and follows Silo::create.
silo_create == <<"job", "namespace", "privilege", "root", "init", "revert">>
silo_prepare == <<"detect", "stage", "plan_env">>
silo_start == <<"spawn", "assign", "resume", "open", "restore", "wait", "close">>

\* spawn_interactive_plan_devicemap in two parts.
devicemap_prepare == <<"stage", "psh", "plan_env", "binds", "map", "impersonate",
                       "swap", "revert">>
devicemap_start == <<"spawn", "impersonate", "assign", "resume", "restore",
                     "wait", "close">>

\* spawn_sandboxed takes the first when AppContainers exist, else the second.
\* Mutant: the program runs before it is in its job.
spawn_with_appcontainer_early ==
    <<"profile", "grant", "caps", "exempt", "attrs", "env", "create", "resume",
      "assign", "forget">>

spawn_with_appcontainer ==
    <<"profile", "grant", "caps", "exempt", "attrs", "env", "create", "assign",
      "resume", "forget">>
spawn_with_restricted_token == <<"token", "spawn", "assign", "resume">>

\* psroot gui: stage_and_spawn_gui, then the end of cmd_gui.
stage_and_spawn_gui == <<"rootfs", "tree", "desktop", "launch">>
cmd_gui == stage_and_spawn_gui \o <<"wait", "cleanup">>

Program ==
    [interactive  |-> spawn_interactive,
     gui          |-> spawn_gui_isolated,
     gui_async    |-> spawn_gui_isolated_async,
     gui_plan     |-> gui_plan_prepare \o gui_plan_start,
     plan         |-> spawn_interactive_plan,
     silo         |-> silo_prepare \o silo_create \o silo_start,
     devicemap    |-> devicemap_prepare \o devicemap_start,
     appcontainer |-> spawn_with_appcontainer,
     restricted   |-> spawn_with_restricted_token,
     app          |-> cmd_gui]

Init ==
    /\ path = "idle"
    /\ todo = <<>>
    /\ full \in BOOLEAN
    /\ env \in {[v \in Vars |-> IF v \in set THEN "host" ELSE "unset"] : set \in SUBSET Vars}
    /\ saved = <<>>
    /\ origin = [env |-> env, sessions |-> {}]
    /\ held = {}
    /\ registered = FALSE
    /\ sessions = {}
    /\ drive = "host"
    /\ child = NoChild
    /\ last = [path |-> "idle", ok |-> TRUE, at |-> "none"]
    /\ launches = 0

-----------------------------------------------------------------------------
(* The environment.                                                        *)

\* apply_sandbox_env: remember and remove the listed variables one after the
\* other, then those with host paths; then the sandbox's and the user's values.
\* A variable the list names twice is already gone the second time.
SavedBase ==
    [i \in DOMAIN SANITIZED_VARS |->
        <<SANITIZED_VARS[i],
          IF \E j \in 1..(i - 1) : SANITIZED_VARS[j] = SANITIZED_VARS[i]
          THEN "unset" ELSE env[SANITIZED_VARS[i]]>>]
\* Mutant: only the listed variables are removed.
LeakingVarsNone == {}

LeakingVars == {v \in Detected : env[v] = "host"}
apply_sandbox_env ==
    [v \in Vars |-> CASE v \in UserEnv -> "user"
                      [] v \in SandboxVars \ UserEnv -> "sandbox"
                      [] v \in (Sanitized \cup LeakingVars) \ (SandboxVars \cup UserEnv)
                           -> "unset"
                      [] OTHER -> env[v]]
saved_env ==
    SavedBase \o [i \in 1..Cardinality(LeakingVars) |-> <<SetToSeq(LeakingVars)[i], "host">>]

\* apply_sandbox_env_with_plan: on top of that, and each variable the plan sets
\* is remembered with the value it has by now.
apply_sandbox_env_with_plan == [v \in Vars |-> IF v \in PlanEnv THEN "plan"
                                                              ELSE apply_sandbox_env[v]]
saved_env_with_plan ==
    saved_env \o [i \in 1..Cardinality(PlanEnv) |->
        LET v == SetToSeq(PlanEnv)[i] IN <<v, apply_sandbox_env[v]>>]

\* restore_env: drop the sandbox's variables, then write the list back in order.
restore_env ==
    [v \in Vars |->
        LET entries == {i \in DOMAIN saved : saved[i][1] = v}
        IN IF entries # {}
           THEN saved[CHOOSE i \in entries : \A j \in entries : j <= i][2]
           ELSE IF v \in SandboxVars THEN "unset" ELSE env[v]]

Restore == env' = restore_env /\ saved' = <<>>

-----------------------------------------------------------------------------
(* Taking a step, returning, failing.                                      *)

At(s) == todo # <<>> /\ Head(todo) = s
Pop == todo' = Tail(todo) /\ UNCHANGED <<path, full, origin, last, launches>>

\* The guards a returning function still holds are dropped: the profile is
\* deleted, the desktop closed, a silo's processes are terminated.
DropGuards ==
    /\ held' = held \ Guards
    /\ registered' = (registered /\ "profile" \notin held)

Leave(ok, at) ==
    /\ path' = "idle"
    /\ todo' = <<>>
    /\ last' = [path |-> path, ok |-> ok, at |-> at]
    /\ UNCHANGED <<full, origin, launches>>

Gone(c) == IF c.state = "none" THEN c ELSE [c EXCEPT !.state = "gone"]

\* An early return: the handles in closed are closed by hand first.
Fail(closed) ==
    /\ Leave(FALSE, Head(todo))
    /\ held' = held \ (Guards \cup closed)
    /\ registered' = (registered /\ "profile" \notin held)
    /\ UNCHANGED drive

FailOnly ==
    /\ Fail({})
    /\ child' = IF "silo" \in held THEN Gone(child) ELSE child
    /\ UNCHANGED <<environ, sessions>>

\* A step that changes nothing the model keeps, or fails.
Attempt(s) ==
    /\ At(s)
    /\ \/ Pop /\ UNCHANGED <<environ, held, os, child>>
       \/ FailOnly

\* A step that leaves something in the launcher's hands, or fails.
Acquire(s, what) ==
    /\ At(s)
    /\ \/ Pop /\ held' = held \cup {what} /\ UNCHANGED <<environ, os, child>>
       \/ FailOnly

\* The loopback session is registered under this name.  The profile of the two
\* functions for GUI programs is called psroot.container too.
SessionName(f) == IF f \in {"gui", "gui_async", "gui_plan"} THEN "psroot.gui"
                                                          ELSE "psroot.container"
remove_loopback_exemption ==
    sessions' = IF full THEN sessions \ {SessionName(path)} ELSE sessions

-----------------------------------------------------------------------------
(* The steps.                                                              *)

\* A caller launches a program.  The process whose drive C: was replaced ends
\* with that launch, so it launches nothing else.
Start(f) ==
    /\ path = "idle"
    /\ launches < MaxLaunches
    /\ drive = "host"
    /\ f \in DOMAIN Program \ {"restricted"}
    /\ \E g \in IF f = "appcontainer" THEN {f, "restricted"} ELSE {f} :
          path' = g /\ todo' = Program[g]
    /\ origin' = [env |-> env, sessions |-> sessions]
    /\ held' = {}
    /\ child' = NoChild
    /\ launches' = launches + 1
    /\ UNCHANGED <<full, environ, os, last>>

appcontainer_available == Attempt("available")

\* AppContainerProfile::create: a new profile, the SID of one that may exist, or
\* neither, the old profile deleted.
CreateProfile ==
    /\ At("profile")
    /\ \/ /\ Pop
          /\ held' = held \cup {"profile"}
          /\ registered' \in {registered, TRUE}
          /\ UNCHANGED <<environ, sessions, drive, child>>
       \/ /\ Leave(FALSE, "profile")
          /\ registered' = FALSE
          /\ UNCHANGED <<environ, held, sessions, drive, child>>

grant_appcontainer_access == Attempt("grant")
sid_to_string == Attempt("sid")
build_network_capabilities == Attempt("caps")
apply_plan == Attempt("stage")
materialize_psh_via_hardlinks == Attempt("psh")

\* Access to bind mounts is granted as far as possible.
GrantVolumes == At("volumes") /\ Pop /\ UNCHANGED <<environ, held, os, child>>

\* Path binds become junctions, drive letters wait for the device map; a
\* junction that fails is only logged.
create_volume_guid_junction == At("binds") /\ Pop /\ UNCHANGED <<environ, held, os, child>>

\* add_loopback_exemption never fails; the session may not start.
add_loopback_exemption ==
    /\ At("exempt")
    /\ Pop
    /\ IF full THEN sessions' \in {sessions, sessions \cup {SessionName(path)}}
               ELSE UNCHANGED sessions
    /\ UNCHANGED <<environ, held, registered, drive, child>>

AttributeList == Acquire("attrs", "attrs")

\* IsolatedDesktop::create: when the access to the window station cannot be
\* granted to the SID (psroot gui has none), the desktop's handle is lost.
CreateDesktop ==
    /\ At("desktop")
    /\ \/ Pop /\ held' = held \cup {"desktop"} /\ UNCHANGED <<environ, os, child>>
       \/ FailOnly
       \/ /\ path # "app"
          /\ Leave(FALSE, "desktop")
          /\ held' = (held \ Guards) \cup {"desk"}
          /\ registered' = (registered /\ "profile" \notin held)
          /\ UNCHANGED <<environ, sessions, drive, child>>

ApplyEnv ==
    /\ \/ At("env") /\ env' = apply_sandbox_env /\ saved' = saved_env
       \/ At("plan_env") /\ env' = apply_sandbox_env_with_plan /\ saved' = saved_env_with_plan
    /\ Pop
    /\ UNCHANGED <<held, os, child>>

\* CreateProcessW with the security capabilities, then the attribute list is
\* deleted and the environment restored, then the result is looked at.
CreateProcess ==
    /\ At("create")
    /\ Restore
    /\ \/ /\ Pop
          /\ held' = (held \ {"attrs"}) \cup {"process", "thread"}
          /\ child' = [state |-> IF path = "appcontainer" THEN "suspended" ELSE "running",
                       cage |-> {"appcontainer"} \cup (held \cap {"desktop"}),
                       env |-> env]
          /\ UNCHANGED os
       \/ /\ Fail({"attrs"})
          /\ remove_loopback_exemption
          /\ UNCHANGED child
       \/ \* GetLastError is zero by now: no cleanup but the guards.
          /\ path = "appcontainer"
          /\ Fail({"attrs"})
          /\ UNCHANGED <<sessions, child>>
       \/ \* The restricted token instead.
          /\ path = "appcontainer"
          /\ path' = "restricted"
          /\ todo' = Program.restricted
          /\ held' = held \ {"attrs", "profile"}
          /\ registered' = FALSE
          /\ remove_loopback_exemption
          /\ UNCHANGED <<full, origin, last, launches, drive, child>>

\* The remaining ways to create the child, suspended, with an environment block
\* of its own: in a silo, for a device map, with the restricted token.
build_env_block == [v \in Vars |-> IF v \in UserEnv THEN "user" ELSE
                                   IF v \in SandboxVars THEN "sandbox" ELSE "unset"]
\* Mutant: a failed launch under a device map does not restore the environment.
SpawnSuspendedForgets ==
    /\ At("spawn")
    /\ \/ /\ Pop
          /\ held' = (held \ {"token"}) \cup {"process", "thread"}
          /\ child' = [state |-> "suspended",
                       cage |-> IF "token" \in held THEN {"restricted"} ELSE {},
                       env |-> IF path = "restricted" THEN build_env_block ELSE env]
          /\ UNCHANGED <<environ, os>>
       \/ /\ Fail({"token"})
          /\ UNCHANGED <<environ, sessions, child>>

SpawnSuspended ==
    /\ At("spawn")
    /\ \/ /\ Pop
          /\ held' = (held \ {"token"}) \cup {"process", "thread"}
          /\ child' = [state |-> "suspended",
                       cage |-> IF "token" \in held THEN {"restricted"} ELSE {},
                       env |-> IF path = "restricted" THEN build_env_block ELSE env]
          /\ UNCHANGED <<environ, os>>
       \/ /\ Fail({"token"})
          /\ IF path = "devicemap" THEN Restore ELSE UNCHANGED environ
          /\ UNCHANGED <<sessions, child>>

\* Mutant: the suspended child is left alone when it cannot be assigned.
AssignLeavesChild ==
    /\ At("assign")
    /\ \/ /\ Pop
          /\ child' = [child EXCEPT !.cage =
                          @ \cup {IF path = "devicemap" THEN "device map" ELSE "job"}]
          /\ held' = held \ {"system"}
          /\ UNCHANGED <<environ, os>>
       \/ /\ Fail({"process", "thread", "system"})
          /\ IF path = "devicemap" THEN Restore ELSE UNCHANGED environ
          /\ UNCHANGED <<sessions, child>>

\* The suspended child goes into its job or gets its device map; else it is
\* terminated.  Both uses of the system token are reverted before the result
\* is looked at.
Assign ==
    /\ At("assign")
    /\ \/ /\ Pop
          /\ child' = [child EXCEPT !.cage =
                          @ \cup {IF path = "devicemap" THEN "device map" ELSE "job"}]
          /\ held' = held \ {"system"}
          /\ UNCHANGED <<environ, os>>
       \/ /\ Fail({"process", "thread", "system"})
          /\ child' = Gone(child)
          /\ IF path = "devicemap" THEN Restore ELSE UNCHANGED environ
          /\ IF path = "appcontainer" THEN remove_loopback_exemption ELSE UNCHANGED sessions

\* ResumeThread; all but the device map launch then close both handles.
Resume ==
    /\ At("resume")
    /\ Pop
    /\ child' = [child EXCEPT !.state = "running"]
    /\ held' = IF path = "devicemap" THEN held ELSE held \ {"process", "thread"}
    /\ UNCHANGED <<environ, os>>

RestoreStep == At("restore") /\ Pop /\ Restore /\ UNCHANGED <<held, os, child>>

\* The wait is for the child's exit, whatever it does.
WaitForChild ==
    /\ At("wait")
    /\ Pop
    /\ child' = [child EXCEPT !.state = "gone"]
    /\ UNCHANGED <<environ, held, os>>

\* Mutant: the session is left to the operating system.
CloseKeepsSession ==
    /\ At("close")
    /\ Pop
    /\ held' = held \ {"process", "thread"}
    /\ UNCHANGED <<environ, os, child>>

\* After the wait: handles are closed, the session of the container is ended.
\* The silo and device map functions register no session.
Close ==
    /\ At("close")
    /\ Pop
    /\ held' = held \ {"process", "thread"}
    /\ IF path \in {"silo", "devicemap"} THEN UNCHANGED sessions ELSE remove_loopback_exemption
    /\ UNCHANGED <<environ, registered, drive, child>>

\* The asynchronous launch closes one handle, hands the desktop to its caller
\* and forgets the profile; spawn_with_appcontainer forgets the profile too.
Detach ==
    /\ At("detach") \/ At("forget")
    /\ Pop
    /\ held' = held \ {"thread", "profile", "desktop"}
    /\ UNCHANGED <<environ, os, child>>

create_restricted_token == Acquire("token", "token")

-----------------------------------------------------------------------------
(* The silo.                                                               *)

\* IsolationLevel::detect: without server silos the device map is used.
Detect ==
    /\ At("detect")
    /\ \/ Pop
       \/ /\ path' = "devicemap"
          /\ todo' = Program.devicemap
          /\ UNCHANGED <<full, origin, last, launches>>
    /\ UNCHANGED <<environ, held, os, child>>

\* JobObject::new, kill-on-close, the limits and the conversion to a silo.
SiloJob == Acquire("job", "silo")
SiloNamespace == Attempt("namespace")

\* SeTcbPrivilege in the own token, else impersonation of SYSTEM.
enable_privilege ==
    /\ At("privilege")
    /\ \/ Pop /\ held' \in {held, held \cup {"system"}} /\ UNCHANGED <<environ, os, child>>
       \/ FailOnly

\* The kernel accepts one of the shapes of the silo's root directory or none.
SetSiloRoot ==
    /\ At("root")
    /\ todo' \in {Tail(todo), <<"revert", "no root">>}
    /\ UNCHANGED <<path, full, environ, origin, held, os, child, last, launches>>

try_server_silo_init ==
    /\ At("init")
    /\ todo' \in {Tail(todo), <<"revert", "no init">>}
    /\ UNCHANGED <<path, full, environ, origin, held, os, child, last, launches>>

revert_to_self ==
    At("revert") /\ Pop /\ held' = held \ {"system"} /\ UNCHANGED <<environ, os, child>>

\* No root directory: the device map instead, the environment restored first.
\* Any other error of Silo::create is returned as it is.
SiloRefused ==
    \/ /\ At("no root")
       /\ Restore
       /\ path' = "devicemap"
       /\ todo' = Program.devicemap
       /\ held' = held \ {"silo"}
       /\ UNCHANGED <<full, origin, os, child, last, launches>>
    \/ At("no init") /\ FailOnly

open_init_process == Acquire("open", "process")

-----------------------------------------------------------------------------
(* The device map.                                                         *)

BuildDeviceMap ==
    /\ At("map")
    /\ \/ Pop /\ held' = held \cup {"map"} /\ UNCHANGED <<environ, os, child>>
       \/ Fail({}) /\ Restore /\ UNCHANGED <<sessions, child>>

\* impersonate_system_token, as far as it goes.
impersonate_system_token ==
    /\ At("impersonate")
    /\ Pop
    /\ held' \in {held, held \cup {"system"}}
    /\ UNCHANGED <<environ, os, child>>

\* The map becomes psroot's own; reverting comes before the error is returned.
SwapOwnMap ==
    /\ At("swap")
    /\ \/ /\ Pop
          /\ drive' = "rootfs"
          /\ UNCHANGED <<environ, held, registered, sessions, child>>
       \/ Fail({"system"}) /\ Restore /\ UNCHANGED <<sessions, child>>

-----------------------------------------------------------------------------
(* psroot gui: an app's own tree, linked into a directory made for it.      *)

\* The directory has the name of the app and may be there from an earlier run.
prepare_rootfs ==
    /\ At("rootfs")
    /\ \/ Pop /\ held' = held \cup {"rootfs"} /\ UNCHANGED <<environ, os, child>>
       \/ /\ Leave(FALSE, "rootfs")
          /\ held' \in {held, held \cup {"rootfs"}}
          /\ UNCHANGED <<environ, os, child>>

\* Files that can be neither linked nor copied are only logged, but for the
\* executable of a system directory.
stage_app == Attempt("tree")

\* IsolatedDesktop::spawn_process: no AppContainer, no job, psroot's environment.
spawn_process ==
    /\ At("launch")
    /\ \/ /\ Pop
          /\ held' = held \cup {"process", "thread"}
          /\ child' = [state |-> "running", cage |-> held \cap {"desktop"}, env |-> env]
          /\ UNCHANGED <<environ, os>>
       \/ FailOnly

\* The desktop and the process handles are dropped, the directory is removed if
\* that is possible: nobody waits for an app that was terminated at its timeout.
Cleanup ==
    /\ At("cleanup")
    /\ Pop
    /\ \E left \in {{}, {"rootfs"}} :
          held' = (held \ {"desktop", "process", "thread", "rootfs"}) \cup left
    /\ UNCHANGED <<environ, os, child>>

-----------------------------------------------------------------------------
\* The function returns.
Return ==
    /\ path # "idle"
    /\ todo = <<>>
    /\ Leave(TRUE, "end")
    /\ DropGuards
    /\ child' = IF "silo" \in held THEN Gone(child) ELSE child
    /\ UNCHANGED <<environ, sessions, drive>>

Next ==
    \/ \E f \in DOMAIN Program : Start(f)
    \/ appcontainer_available \/ CreateProfile \/ grant_appcontainer_access
    \/ sid_to_string \/ build_network_capabilities \/ apply_plan
    \/ materialize_psh_via_hardlinks \/ GrantVolumes \/ create_volume_guid_junction
    \/ add_loopback_exemption \/ AttributeList \/ CreateDesktop \/ ApplyEnv
    \/ CreateProcess \/ SpawnSuspended \/ Assign \/ Resume \/ RestoreStep
    \/ WaitForChild \/ Close \/ Detach \/ create_restricted_token
    \/ Detect \/ SiloJob \/ SiloNamespace \/ enable_privilege \/ SetSiloRoot
    \/ try_server_silo_init \/ revert_to_self \/ SiloRefused \/ open_init_process
    \/ BuildDeviceMap \/ impersonate_system_token \/ SwapOwnMap
    \/ prepare_rootfs \/ stage_app \/ spawn_process \/ Cleanup \/ Return

\* Every step of the launcher returns; a wait may not, and is not assumed to.
Spec == Init /\ [][Next]_vars

-----------------------------------------------------------------------------
(* Properties.                                                             *)

Steps == (UNION {ToSet(Program[f]) : f \in DOMAIN Program}) \cup {"no root", "no init"}

\* Type invariant of the launcher's state.
TypeOK ==
    /\ path \in DOMAIN Program \cup {"idle"}
    /\ todo \in Seq(Steps)
    /\ env \in [Vars -> Values]
    /\ held \subseteq Guards \cup Handles
    /\ sessions \subseteq {"psroot.gui", "psroot.container"}
    /\ child.state \in {"none", "suspended", "running", "gone"}
    /\ launches \in 0..MaxLaunches

\* The function that started the child.
Current == IF path = "idle" THEN last.path ELSE path

\* The layers docs/isolation.md gives every program of a container: a Job Object
\* ("Every container runs inside a Windows Job Object"), and an AppContainer or,
\* instead of it, the restricted token; a GUI program has a desktop of its own.
\* What the code leaves out of it: only spawn_sandboxed and the silo have a job,
\* not the shells, the GUI programs or the device map; the silo and the device
\* map, to which the silo falls back, have no AppContainer, nor has psroot gui.
OutsideJob == {"interactive", "plan", "gui", "gui_async", "gui_plan", "devicemap", "app"}
OutsideContainer == {"silo", "devicemap", "app"}
OnDesktop == {"gui", "gui_async", "gui_plan", "app"}
Cage ==
    [f \in DOMAIN Program |->
        (IF f \in OutsideJob THEN {} ELSE {"job"})
        \cup (IF f \in OutsideContainer THEN {}
              ELSE {IF f = "restricted" THEN "restricted" ELSE "appcontainer"})
        \cup (IF f \in OnDesktop THEN {"desktop"} ELSE {})
        \cup (IF f = "devicemap" THEN {"device map"} ELSE {})]

\* A program never executes an instruction before the layers of its cage are all
\* there, whichever function started it and after whatever fallback: but for the
\* functions named above, it is in its job, in its AppContainer or under the
\* restricted token, on its desktop, under its device map before it runs.
CagedBeforeRunning ==
    /\ TypeOK
    /\ child.state = "running" => Cage[Current] \subseteq child.cage

\* The child inherits no host value of a sanitized variable, nor of one that the
\* substring tests detect, although it inherits psroot's own environment, and
\* although an earlier launch may have restored that environment incompletely.
\* Host values that pass the tests are inherited (ComSpec, ALLUSERSPROFILE, a
\* value that names the rootfs besides a user's directory), although README.md
\* says the host's variables are completely replaced; the app of psroot gui
\* inherits all of them.
NoHostValueInChild ==
    child.state # "none" /\ Current # "app" => \A v \in Sanitized \cup Detected : child.env[v] # "host"

\* Every return, but an error in the silo function after the environment was
\* changed, leaves psroot's variables as they were before the launch, as far as
\* each of them was saved once only: not those of the configuration, not the
\* sanitized or detected ones that the plan sets, nor the one the list names
\* twice.
SavedTwice == (PlanEnv \cap (Sanitized \cup Detected \cup UserEnv)) \cup {"PSMODULEPATH"}
EnvironmentBack ==
    path = "idle" /\ (last.ok \/ last.path # "silo") =>
        \A v \in Vars \ (UserEnv \cup SavedTwice) : env[v] = origin.env[v]

\* What a function returns without having given back: the attribute list when no
\* desktop can be made, the handle of a desktop without access to its window
\* station, and the child's handles when the SID of a GUI program that runs
\* already cannot be printed.  The asynchronous launch keeps the process handle.
\* psroot gui leaves the app's directory whenever it fails, and may leave it when
\* it does not.
Lost(l) ==
    {h \in Handles : \/ h = "rootfs" /\ l.path = "app"
                     \/ h \in {"attrs", "desk"} /\ l.at = "desktop" /\ l.path # "app"
                     \/ /\ h \in {"process", "thread"}
                        /\ l.at = "sid" /\ l.path \in {"gui", "gui_async"}
                     \/ h = "process" /\ l.ok /\ l.path = "gui_async"}

\* No other handle is lost on any path, psroot never returns with the SYSTEM
\* token of the silo or device map calls on its thread, and a launch that reports
\* an error leaves no process behind, running or suspended, unless the error is
\* the SID of a GUI program.
NothingElseLost ==
    path = "idle" =>
        /\ held \subseteq Lost(last)
        /\ ~last.ok /\ ~(last.at = "sid" /\ last.path \in {"gui", "gui_async"})
             => child.state \in {"none", "gone"}

\* The endings that leave the session of their launch open: the program goes on
\* (the asynchronous launch and spawn_with_appcontainer); an early return between
\* add_loopback_exemption and CreateProcessW, or for the SID of a GUI program; and
\* spawn_with_appcontainer when the error code is lost.
LeftOpen(l) ==
    IF \/ l.ok /\ l.path \in {"gui_async", "appcontainer"}
       \/ l.at \in {"attrs", "desktop"} /\ l.path # "app"
       \/ l.at = "sid" /\ l.path \in {"gui", "gui_async"}
       \/ l.at = "create" /\ l.path = "appcontainer"
    THEN {SessionName(l.path)} ELSE {}

\* A launch leaves no inbound loopback session behind but in those endings: one
\* that is alive when a function has returned was alive before, or is LeftOpen.
\* A launch that waited for its program, or that could not create it, also ends
\* the session of its name that an earlier launch had left.
SessionOver ==
    path = "idle" =>
        /\ sessions \subseteq origin.sessions \cup LeftOpen(last)
        /\ full /\ last.path \in {"interactive", "gui", "gui_plan", "plan"}
             /\ (last.ok \/ last.at = "create")
             => SessionName(last.path) \notin sessions
=============================================================================
