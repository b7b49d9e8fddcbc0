-------------------------- MODULE WindowsContainer --------------------------
(***************************************************************************)
(* Containers on Windows (psroot-container, container.rs, as the commands  *)
(* of psroot-cli use them).  A psroot process makes a Container object     *)
(* with create or load and calls its methods; the object holds the job or  *)
(* silo of the program, the bind links, the port mapper and the netstack   *)
(* daemon, and its Drop stops a running container.  All that processes     *)
(* share is the container's directory with state.json, which nobody locks, *)
(* and what Windows keeps: the bound host port, the bind links, the ACEs.  *)
(*                                                                         *)
(* Every container of the model publishes a port, mounts a volume and has  *)
(* the netstack; the launch itself is module Launch.  config.json, which   *)
(* is written once, and the listing commands, which change nothing, are    *)
(* left out.                                                               *)
(***************************************************************************)
EXTENDS Naturals, Sequences

CONSTANTS Procs,       \* psroot processes that may run at the same time
          MaxCommands, \* how many commands are given
          Containers,  \* container ids
          MaxFaults,   \* processes killed and calls failed, together
          None,        \* no container, no file, no state
          Torn         \* a file truncated and not written yet

ASSUME WindowsAssumption == {MaxFaults, MaxCommands} \subseteq Nat /\ None \notin Containers \cup Procs

VARIABLES proc,     \* the processes
          dir,      \* "new", "there" or "gone": the container's directory
          file,     \* state.json: a record, Torn or None
          port,     \* processes that have the container's host port bound
          linked,   \* the container's bind link exists
          running,  \* processes in whose job or silo its program runs
          grants,   \* SIDs with an ACE on the shell cache for this container
          starts,   \* history: how often start got past its check
          calm,     \* history: nothing failed and only one command worked on it
          killed,   \* history: containers one of whose processes was killed
          commands, \* commands given so far
          faults    \* processes killed and calls failed so far

disk == <<dir, file>>
winnt == <<port, linked, running, grants>>
history == <<starts, calm, killed, commands, faults>>
vars == <<proc, disk, winnt, history>>

Runtime == {"cage", "links", "mapper", "netstack"}
Status == {"created", "running", "stopped"}
Sids == {"container", "all packages"}

\* What state.json says.
State == [status : Status, aces : SUBSET Sids]

ASSUME NoneAssumption == None \notin Status \cup Sids /\ None # Torn /\ {None, Torn} \cap State = {}

\* A process: its remaining calls, the steps of the call it is in, whether it has
\* the bind filter (which takes an administrator), the id and the state of its
\* object, what the object holds (rt), what only the current call holds (loc), the
\* SID a shell ran under and the state.json it is about to write.
Unused == [calls |-> <<>>, steps |-> <<>>, lib |-> FALSE, filter |-> FALSE, c |-> None,
           mem |-> None, rt |-> {}, loc |-> {}, sid |-> None, out |-> None]

-----------------------------------------------------------------------------
(* The commands as calls, the calls as steps.                              *)

cmd_create == <<"create", "exit">>
cmd_start == <<"load", "start", "exit">>
cmd_run == <<"create", "start", "exit">>
cmd_exec == <<"load", "exec", "exit">>
cmd_stop == <<"load", "stop", "exit">>
cmd_rm == <<"load", "remove", "exit">>
cmd_shell_binary == <<"create", "ports", "shell", "teardown", "remove", "exit">>
cmd_shell == <<"create", "resolve", "shell_with_plan", "remove", "exit">>

\* A program that links psroot-container and goes on after an error.
library == <<"create", "start", "start", "exec", "stop", "remove", "exit">>

Commands == {cmd_create, cmd_start, cmd_run, cmd_exec, cmd_stop, cmd_rm,
             cmd_shell_binary, cmd_shell}

\* Mutant: the file is opened and never written.
write_state_opened == <<"truncate">>

write_state == <<"truncate", "write">>
start_steps == <<"publish", "cage", "links", "netstack", "spawn", "inject", "keep">>
               \o write_state
\* Mutant: the mounts go before the program.
stop_steps_unlink_first == <<"unlink", "kill", "unpublish", "unnet">> \o write_state

\* Mutant: the program goes last, after the threads that serve it.
stop_steps_kill_last == <<"unlink", "unpublish", "unnet", "kill">> \o write_state

stop_steps == <<"kill", "unlink", "unpublish", "unnet">> \o write_state
\* Mutant: the directory goes before the grants are read from it.
remove_steps_delete_first == <<"delete", "revoke">>

remove_steps == <<"revoke", "delete">>

Steps(call) ==
    CASE call = "create" -> <<"mkdir", "rootfs">> \o write_state
      [] call = "start" -> start_steps
      [] call = "stop" -> stop_steps
      [] call = "remove" -> remove_steps
      [] call = "shell_with_plan" -> <<"stage", "wait", "record", "write">>
      [] call = "shell" -> <<"wait">>
      [] OTHER -> <<call>>

Init ==
    /\ proc = [p \in Procs |-> Unused]
    /\ dir = [c \in Containers |-> "new"]
    /\ file = [c \in Containers |-> None]
    /\ port = [c \in Containers |-> {}]
    /\ linked = [c \in Containers |-> FALSE]
    /\ running = [c \in Containers |-> {}]
    /\ grants = [c \in Containers |-> {}]
    /\ starts = [c \in Containers |-> 0]
    /\ calm = [c \in Containers |-> TRUE]
    /\ killed = {}
    /\ commands = 0
    /\ faults = 0

At(p, s) == proc[p].steps # <<>> /\ Head(proc[p].steps) = s
Holds(p, r) == r \in proc[p].rt \cup proc[p].loc

\* The process goes on with the next step and changes its fields by d.
Goto(p, d) == proc' = [proc EXCEPT ![p] = [d EXCEPT !.steps = Tail(@)]]
Same(p) == Goto(p, proc[p])

\* Mutant: closing the job does not end the program.
DropWithoutKill(p, gone) ==
    LET c == proc[p].c
    IN /\ port' = IF "mapper" \in gone THEN [port EXCEPT ![c] = @ \ {p}] ELSE port
       /\ linked' = IF "links" \in gone THEN [linked EXCEPT ![c] = FALSE] ELSE linked
       /\ UNCHANGED running

\* What a set of guards held by p does when it is dropped: the job or silo ends
\* the program, the mapper frees the port, the filter removes its link.
Drop(p, gone) ==
    LET c == proc[p].c
    IN /\ running' = IF "cage" \in gone THEN [running EXCEPT ![c] = @ \ {p}] ELSE running
       /\ port' = IF "mapper" \in gone THEN [port EXCEPT ![c] = @ \ {p}] ELSE port
       /\ linked' = IF "links" \in gone THEN [linked EXCEPT ![c] = FALSE] ELSE linked

\* After an error the commands end; a library user goes on, if there is an object
\* to go on with.
AfterError(r) == IF r.lib /\ r.mem # None THEN r.calls ELSE <<"exit">>

\* A method returns an error: the guards of the call are dropped.
Error(p) ==
    /\ proc' = [proc EXCEPT ![p] = [@ EXCEPT !.steps = <<>>, !.loc = {},
                                             !.calls = AfterError(proc[p])]]
    /\ Drop(p, proc[p].loc)
    /\ UNCHANGED <<disk, grants>>

\* A call that Windows or the file system may refuse.
Fault(c) ==
    /\ faults < MaxFaults
    /\ faults' = faults + 1
    /\ calm' = [calm EXCEPT ![c] = FALSE]
    /\ UNCHANGED <<starts, commands>>

Refused(p) == Error(p) /\ Fault(proc[p].c) /\ UNCHANGED killed

-----------------------------------------------------------------------------
(* Processes and calls.                                                    *)

\* A process is given a command and the id it works on, or makes a new one.  The
\* bind filter is of interest only to one that calls start.
Launch(p) ==
    /\ proc[p] = Unused
    /\ commands < MaxCommands
    /\ commands' = commands + 1
    /\ \E cs \in Commands \cup {library}, c \in Containers, filter \in BOOLEAN :
          /\ filter => \E i \in DOMAIN cs : cs[i] = "start"
          /\ Head(cs) = "create" => dir[c] = "new" /\ \A q \in Procs : proc[q].c # c
          /\ proc' = [proc EXCEPT ![p] = [Unused EXCEPT !.calls = cs, !.c = c,
                                                        !.lib = (cs = library),
                                                        !.filter = filter]]
          /\ calm' = [calm EXCEPT ![c] = @ /\ Head(cs) = "create"]
    /\ UNCHANGED <<disk, winnt, starts, killed, faults>>

\* The next call.  start, exec and remove (never forced here) check the state
\* the object believes in; stop on a container that does not run does nothing.
Allowed(call, mem) ==
    CASE call = "start" -> mem = "created"
      [] call = "exec" -> mem = "running"
      [] call = "remove" -> mem # "running"
      [] OTHER -> TRUE

Call(p) ==
    /\ proc[p].steps = <<>> /\ proc[p].calls # <<>>
    /\ LET call == Head(proc[p].calls)
           d == [proc[p] EXCEPT !.calls = Tail(@)]
       IN /\ proc' = [proc EXCEPT ![p] =
                IF call = "stop" /\ d.mem # "running" THEN d
                ELSE IF Allowed(call, d.mem) THEN [d EXCEPT !.steps = Steps(call)]
                ELSE [d EXCEPT !.calls = AfterError(d)]]
          /\ starts' = IF call = "start" /\ Allowed(call, d.mem)
                       THEN [starts EXCEPT ![d.c] = @ + 1] ELSE starts
    /\ UNCHANGED <<disk, winnt, calm, killed, commands, faults>>

\* Container::drop at the end of the process: a running container is stopped once,
\* its state written as far as that is possible, then every field is dropped.
Exit(p) ==
    /\ At(p, "exit")
    /\ proc[p].mem = "running"
    /\ proc' = [proc EXCEPT ![p] = [@ EXCEPT !.steps = stop_steps \o <<"drop">>]]
    /\ UNCHANGED <<disk, winnt, history>>

Exited(p) ==
    /\ \/ At(p, "exit") /\ proc[p].mem # "running"
       \/ At(p, "drop")
    /\ Drop(p, proc[p].rt)
    /\ proc' = [proc EXCEPT ![p] = Unused]
    /\ UNCHANGED <<disk, grants, history>>

\* The process is killed: Windows closes its handles and sockets, so the job
\* ends the program; the bind link stays.
Killed(p) ==
    /\ proc[p].c # None
    /\ Fault(proc[p].c)
    /\ LET c == proc[p].c
       IN /\ running' = [running EXCEPT ![c] = @ \ {p}]
          /\ port' = [port EXCEPT ![c] = @ \ {p}]
          /\ killed' = killed \cup {c}
    /\ proc' = [proc EXCEPT ![p] = Unused]
    /\ UNCHANGED <<disk, linked, grants>>

-----------------------------------------------------------------------------
(* create, load, write_state.                                              *)

Mkdir(p) ==
    /\ At(p, "mkdir")
    /\ Same(p)
    /\ dir' = [dir EXCEPT ![proc[p].c] = "there"]
    /\ UNCHANGED <<file, winnt, history>>

\* prepare_rootfs, then config.json: an error leaves the directory.
PrepareRootfs(p) ==
    /\ At(p, "rootfs")
    /\ \/ /\ Goto(p, [proc[p] EXCEPT !.mem = "created"])
          /\ UNCHANGED <<disk, winnt, history>>
       \/ Refused(p)

\* load: no directory, no state.json or half a state.json is an error.  A file
\* that says running was left by another process: the object is stopped.
Load(p) ==
    /\ At(p, "load")
    /\ LET f == file[proc[p].c]
       IN IF f \in {None, Torn}
          THEN Error(p) /\ UNCHANGED history
          ELSE /\ Goto(p, [proc[p] EXCEPT !.mem = IF f.status = "running" THEN "stopped"
                                                                        ELSE f.status])
               /\ UNCHANGED <<disk, winnt, history>>

\* write_state reads the grants recorded in the file, then fs::write truncates
\* and writes it.  When the directory is gone the call fails; from drop, which
\* ignores the error, the process just exits.
Truncate(p) ==
    /\ At(p, "truncate")
    /\ LET c == proc[p].c
           old == IF file[c] \in {None, Torn} THEN {} ELSE file[c].aces
       IN IF dir[c] # "there"
          THEN /\ LET dropping == \E i \in DOMAIN proc[p].steps : proc[p].steps[i] = "drop"
                  IN proc' = [proc EXCEPT ![p] =
                        [@ EXCEPT !.steps = IF dropping THEN <<"drop">> ELSE <<>>,
                                  !.calls = AfterError(proc[p])]]
               /\ UNCHANGED <<disk, winnt, history>>
          ELSE /\ Goto(p, [proc[p] EXCEPT !.out = [status |-> proc[p].mem, aces |-> old]])
               /\ file' = [file EXCEPT ![c] = Torn]
               /\ UNCHANGED <<dir, winnt, history>>

WriteState(p) ==
    /\ At(p, "write")
    /\ Goto(p, [proc[p] EXCEPT !.sid = None, !.out = None])
    /\ LET c == proc[p].c
       IN file' = IF dir[c] # "there" THEN file ELSE [file EXCEPT ![c] = proc[p].out]
    /\ UNCHANGED <<dir, winnt, history>>

-----------------------------------------------------------------------------
(* start.                                                                  *)

\* The host port may be bound already, by another psroot process, by an earlier
\* start of this object that failed, or by somebody else.
\* setup_port_mappings_for_shell does the same for a shell without a plan, but
\* its caller goes on after an error.
Publish(p) ==
    /\ At(p, "publish") \/ At(p, "ports")
    /\ LET c == proc[p].c
       IN \/ /\ port[c] = {}
             /\ Goto(p, [proc[p] EXCEPT !.rt = @ \cup {"mapper"}])
             /\ port' = [port EXCEPT ![c] = {p}]
             /\ UNCHANGED <<disk, linked, running, grants, history>>
          \/ /\ IF At(p, "ports") THEN Same(p) /\ UNCHANGED <<disk, winnt>> ELSE Error(p)
             /\ \/ port[c] # {} /\ UNCHANGED history
                \/ Fault(c) /\ UNCHANGED killed

\* The silo, or the job with its limits: the call holds it until it is stored.
MakeCage(p) ==
    /\ At(p, "cage")
    /\ \/ /\ Goto(p, [proc[p] EXCEPT !.loc = @ \cup {"cage"}])
          /\ UNCHANGED <<disk, winnt, history>>
       \/ Refused(p)

\* setup_bind_links: without the bind filter the mounts are skipped.  Else the
\* filter is stored at once; one that was stored by a start that failed is dropped
\* by the assignment, and removes its link by name.
setup_bind_links(p) ==
    /\ At(p, "links")
    /\ \/ ~proc[p].filter /\ Same(p) /\ UNCHANGED <<disk, winnt, history>>
       \/ /\ proc[p].filter
          /\ Goto(p, [proc[p] EXCEPT !.rt = @ \cup {"links"}])
          /\ linked' = [linked EXCEPT ![proc[p].c] = "links" \notin proc[p].rt]
          /\ UNCHANGED <<disk, port, running, grants, history>>
       \/ proc[p].filter /\ Refused(p)

\* try_start_netstack: a daemon, or no network of its own.
try_start_netstack(p) ==
    /\ At(p, "netstack")
    /\ \E ns \in {{}, {"netstack"}} : Goto(p, [proc[p] EXCEPT !.loc = @ \cup ns])
    /\ UNCHANGED <<disk, winnt, history>>

\* spawn_sandboxed or Silo::spawn: the program is in the cage and runs.
Spawn(p) ==
    /\ At(p, "spawn") \/ At(p, "exec")
    /\ \/ /\ Same(p)
          /\ running' = [running EXCEPT ![proc[p].c] = @ \cup {p}]
          /\ UNCHANGED <<disk, port, linked, grants, history>>
       \/ Refused(p)

\* try_inject_netstack keeps the daemon, or drops it when the injection fails;
\* try_inject_procshim only logs.
Inject(p) ==
    /\ At(p, "inject")
    /\ \E keep \in SUBSET (proc[p].loc \cap {"netstack"}) :
          Goto(p, [proc[p] EXCEPT !.loc = @ \ {"netstack"}, !.rt = @ \cup keep])
    /\ UNCHANGED <<disk, winnt, history>>

\* The job or silo becomes the object's, which is running now.
Keep(p) ==
    /\ At(p, "keep")
    /\ Goto(p, [proc[p] EXCEPT !.loc = {}, !.rt = @ \cup {"cage"}, !.mem = "running"])
    /\ UNCHANGED <<disk, winnt, history>>

\* The program exits by itself.
ProgramExits(p) ==
    /\ proc[p].c # None
    /\ p \in running[proc[p].c]
    /\ running' = [running EXCEPT ![proc[p].c] = @ \ {p}]
    /\ UNCHANGED <<proc, disk, port, linked, grants, history>>

-----------------------------------------------------------------------------
(* stop, remove.                                                           *)

\* Mutant: stop does not set the state.
StopStepStaysRunning(p, step, part) ==
    /\ At(p, step)
    /\ Goto(p, [proc[p] EXCEPT !.rt = @ \ {part}])
    /\ Drop(p, proc[p].rt \cap {part})
    /\ UNCHANGED <<disk, grants, history>>

\* stop takes the runtime apart: program, links, ports, netstack.
StopStep(p, step, part) ==
    /\ At(p, step)
    /\ Goto(p, [proc[p] EXCEPT !.rt = @ \ {part},
                               !.mem = IF part = "netstack" THEN "stopped" ELSE @])
    /\ Drop(p, proc[p].rt \cap {part})
    /\ UNCHANGED <<disk, grants, history>>

Kill(p) == StopStep(p, "kill", "cage")
Unlink(p) == StopStep(p, "unlink", "links")
Unpublish(p) == StopStep(p, "unpublish", "mapper")
StopNetstack(p) == StopStep(p, "unnet", "netstack")

teardown_port_mappings(p) ==
    /\ At(p, "teardown")
    /\ Goto(p, [proc[p] EXCEPT !.rt = @ \ {"mapper"}])
    /\ Drop(p, proc[p].rt \cap {"mapper"})
    /\ UNCHANGED <<disk, grants, history>>

\* remove revokes the grants state.json lists, under the SID they list.  The
\* entry of a silo shell names the silo, which no ACE has.
Revoke(p) ==
    /\ At(p, "revoke")
    /\ Same(p)
    /\ LET c == proc[p].c
       IN grants' = IF file[c] \in {None, Torn} THEN grants
                    ELSE [grants EXCEPT ![c] = @ \ file[c].aces]
    /\ UNCHANGED <<disk, port, linked, running, history>>

\* remove_dir_all, three times: what is left after a failure may lack state.json.
Delete(p) ==
    /\ At(p, "delete")
    /\ LET c == proc[p].c
       IN \/ /\ Same(p)
             /\ dir' = [dir EXCEPT ![c] = "gone"]
             /\ file' = [file EXCEPT ![c] = None]
             /\ UNCHANGED <<winnt, history>>
          \/ /\ dir[c] = "there"
             /\ Fault(c)
             /\ UNCHANGED killed
             /\ file' \in {file, [file EXCEPT ![c] = None]}
             /\ proc' = [proc EXCEPT ![p] = [@ EXCEPT !.steps = <<>>,
                                                      !.calls = AfterError(proc[p])]]
             /\ UNCHANGED <<dir, winnt>>

-----------------------------------------------------------------------------
(* Shells.                                                                 *)

\* The resolver finds the shell or not; an error leaves the container.
Resolve(p) ==
    /\ At(p, "resolve")
    /\ \/ Same(p) /\ UNCHANGED <<disk, winnt, history>>
       \/ Refused(p)

\* The launch stages the shell: ACEs for the container's SID, or for all
\* packages when it uses a silo or a device map.
Stage(p) ==
    /\ At(p, "stage")
    /\ \E sid \in Sids :
          /\ Goto(p, [proc[p] EXCEPT !.sid = sid])
          /\ grants' = [grants EXCEPT ![proc[p].c] = @ \cup {sid}]
    /\ UNCHANGED <<disk, port, linked, running, history>>

\* The launch waits for the shell to exit, or fails somewhere on its way.
WaitShell(p) ==
    /\ At(p, "wait")
    /\ \/ Same(p) /\ UNCHANGED <<disk, winnt, history>>
       \/ Refused(p)

\* shell_with_plan then adds the grants, under the SID the launch returned, to the
\* state.json it reads back and writes as it was otherwise; when it cannot read the
\* file it records nothing.
Record(p) ==
    /\ At(p, "record")
    /\ LET c == proc[p].c
           new == IF proc[p].sid = "container" THEN {"container"} ELSE {}
       IN IF file[c] \in {None, Torn}
          THEN /\ proc' = [proc EXCEPT ![p] = [@ EXCEPT !.steps = <<>>]]
               /\ UNCHANGED file
          ELSE /\ Goto(p, [proc[p] EXCEPT !.out = [file[c] EXCEPT !.aces = @ \cup new]])
               /\ file' = [file EXCEPT ![c] = Torn]
    /\ UNCHANGED <<dir, winnt, history>>

-----------------------------------------------------------------------------
Step(p) ==
    \/ Launch(p) \/ Call(p) \/ Exit(p) \/ Exited(p)
    \/ Mkdir(p) \/ PrepareRootfs(p) \/ Load(p) \/ Truncate(p) \/ WriteState(p)
    \/ Publish(p) \/ MakeCage(p) \/ setup_bind_links(p) \/ try_start_netstack(p)
    \/ Spawn(p) \/ Inject(p) \/ Keep(p)
    \/ Kill(p) \/ Unlink(p) \/ Unpublish(p) \/ StopNetstack(p)
    \/ teardown_port_mappings(p) \/ Revoke(p) \/ Delete(p)
    \/ Resolve(p) \/ Stage(p) \/ WaitShell(p) \/ Record(p)

Next == \E p \in Procs : Step(p) \/ Killed(p) \/ ProgramExits(p)

Spec == Init /\ [][Next]_vars

\* Where psroot waits for somebody else: for the shell; for the loader of the
\* program it injects into; for the threads of the port mapper and of the netstack
\* daemon, when they are shut down or dropped.
Waits(p) ==
    \/ \E s \in {"wait", "inject", "unpublish", "unnet", "teardown"} : At(p, s)
    \/ At(p, "spawn") /\ "netstack" \in proc[p].loc
    \/ /\ (At(p, "exit") /\ proc[p].mem # "running") \/ At(p, "drop")
       /\ proc[p].rt \cap {"mapper", "netstack"} # {}

\* Every psroot process is scheduled, but none of these waits is taken to end.
FairSpec == Spec /\ \A p \in Procs : WF_vars(proc[p] # Unused /\ ~Waits(p) /\ Step(p))

-----------------------------------------------------------------------------
(* Properties.                                                             *)

\* Type invariant.
TypeOK ==
    /\ dir \in [Containers -> {"new", "there", "gone"}]
    /\ file \in [Containers -> State \cup {None, Torn}]
    /\ port \in [Containers -> SUBSET Procs]
    /\ running \in [Containers -> SUBSET Procs]
    /\ \A p \in Procs : proc[p].rt \subseteq Runtime /\ proc[p].mem \in Status \cup {None}
    /\ faults \in 0..MaxFaults

\* A program never outlives the job or silo it was started in: whatever fails in
\* start, and however psroot ends, it runs only while a living process holds its
\* cage.
ProgramHasCage ==
    /\ TypeOK
    /\ \A c \in Containers : \A p \in running[c] : proc[p].c = c /\ Holds(p, "cage")

\* What outlives a psroot process is the bind link, which is the machine's, and
\* what state.json says.  When nobody works on a container, and no process of it
\* was killed, its link is gone, whatever failed; and if nothing failed either, its
\* file does not say that it runs, although processes that start, stop and record
\* grants write it in any order.
NothingLeftBehind ==
    \A c \in Containers :
        (c \notin killed /\ \A p \in Procs : proc[p].c # c) =>
            /\ ~linked[c]
            /\ faults = 0 /\ file[c] \in State => file[c].status # "running"

\* As long as the program runs its volume is mounted: stop ends the program
\* before it removes the bind link, and start links before it spawns.  Not when
\* the process has no bind filter, which start only warns of; and only for a
\* container that was started once: a second start, after one that failed or in
\* another process, ends with no link.
MountedWhileRunning ==
    \A c \in Containers : \A p \in running[c] :
        proc[p].filter /\ starts[c] = 1 => linked[c]

\* When a container that one process created, used and removed without an error
\* is gone, so is every ACE that was granted to its own SID.
GrantsRevoked ==
    \A c \in Containers : dir[c] = "gone" /\ calm[c] => "container" \notin grants[c]

\* A container nobody works on can be loaded, and so removed, as long as no
\* process was killed and no call failed: state.json is there and whole.
LoadableAtRest ==
    \A c \in Containers :
        (faults = 0 /\ dir[c] = "there" /\ \A p \in Procs : proc[p].c # c)
            => file[c] \notin {None, Torn}

\* A command exits, or waits for ever at one of the waits above.  Even then the
\* program it runs ends, if psroot does not wait for that program's own loader:
\* stop and drop kill it before they join any thread.
EveryProcessExits ==
    \A p \in Procs :
        /\ []<>(proc[p].c = None) \/ <>[]Waits(p)
        /\ []<>(\A c \in Containers : p \notin running[c]) \/ <>[]At(p, "inject")
=============================================================================
