------------------------------- MODULE Shims -------------------------------
(***************************************************************************)
(* How the two shims get into a container's program: psroot's start (the   *)
(* job branch of container.rs) resumes the program in spawn_sandboxed and  *)
(* then injects psroot_netshim.dll and psroot_procshim.dll with            *)
(* psroot-netinject.  netshim's DllMain leaves the work to a thread, which *)
(* patches the import table of the executable one function at a time;      *)
(* procshim's DllMain overwrites the entry of two ntdll functions itself,  *)
(* under the loader lock.  The program's main thread runs meanwhile and    *)
(* calls the functions in whatever state they are.                         *)
(*                                                                         *)
(* Of the eleven Winsock functions three are kept: one that makes a handle,*)
(* one that uses it and one that ends it.  A call is one step when it goes *)
(* to the system, and an entry and a return when it goes to a hook.        *)
(***************************************************************************)
EXTENDS ProcessView, FiniteSets

CONSTANTS MaxForks,  \* processes created in the model
          Pids,      \* PIDs the system hands out
          Root,      \* PID of the container's program
          Host       \* PID of a process of the host

ASSUME ShimsAssumption ==
  /\ MaxForks \in Nat
  /\ Pids \subseteq Nat \ {Idle, System}
  /\ Root \in Pids /\ Host \in Pids \ {Root}

VARIABLES pc,       \* psroot: "spawn", "net", "proc" (to be injected), "wait", "up"
          path,     \* the path buffer in the program's memory
          loader,   \* the remote thread: the DLL and where it is
          held,     \* the program keeps that thread from going on: one of its
                    \* threads has the loader lock, or has suspended it
          init,     \* netshim's init thread
          pending,  \* functions of the import table it has not looked at
          state,    \* shims whose STATE is set
          slot,     \* what a call of the function reaches
          original, \* what the hook calls as the real function
          call,     \* the main thread's call in progress, or None
          bypass,   \* its procshim BYPASS counter
          handle,   \* the socket the program has: "none", "os" or "virt"
          last,     \* how its last call was answered
          panicked, \* the program was ended by an assertion or a torn stub
          list,     \* the system's process list
          forks     \* processes created so far

injection == <<pc, path, loader, held>>
shim == <<init, pending, state, slot, original>>
program == <<call, bypass, handle, last, panicked>>
system == <<list, forks>>
vars == <<injection, shim, program, system>>

Net == {"socket", "connect", "closesocket"}
Nt == <<"NtQuerySystemInformation", "NtOpenProcess">>
Query == Nt[1]
Open == Nt[2]
Functions == Net \cup {Query, Open}
NoCall == [fun |-> "none", late |-> FALSE, pid |-> Idle, ok |-> FALSE]
NoThread == [dll |-> "none", at |-> "none", fun |-> 1, ok |-> FALSE]

\* An entry of the list.  mine (it descends from the program), line (the PIDs
\* its ancestors had, as far as the program for its descendants) and intact
\* (those ancestors all live) are history.
Entry(pid, ppid, mine, line, intact) ==
  [pid |-> pid, ppid |-> ppid, mine |-> mine, line |-> line, intact |-> intact]

\* The host process may have been left by a parent whose PID Root has now.
Init ==
  /\ pc = "spawn" /\ path = "none" /\ loader = NoThread /\ held = FALSE
  /\ init = "none" /\ pending = Net /\ state = {}
  /\ slot = [f \in Functions |-> "real"]
  /\ original = [f \in Functions |-> "null"]
  /\ call = NoCall /\ bypass = 0 /\ handle = "none"
  /\ last = [fun |-> "none", how |-> "none", late |-> FALSE]
  /\ panicked = FALSE /\ forks = 0
  /\ \E parent \in {System, Root} :
       list = << Entry(Idle, Idle, FALSE, {}, TRUE),
                 Entry(System, Idle, FALSE, {Idle}, TRUE),
                 Entry(Host, parent, FALSE, {Idle, parent}, parent = System) >>

Running == pc # "spawn" /\ ~panicked

-----------------------------------------------------------------------------
(* psroot: start, try_inject_netstack, try_inject_procshim, inject_dll.    *)

\* spawn_sandboxed has resumed the main thread when it returns.
spawn_sandboxed ==
  /\ pc = "spawn"
  /\ pc' \in {"net", "proc"}  \* the netstack may not have come up
  /\ list' = Append(list, Entry(Root, Host, TRUE, {}, TRUE))
  /\ UNCHANGED <<path, loader, held, shim, program, forks>>

AfterInjection(dll) == IF dll = "net" THEN "proc" ELSE "up"

\* The DLL is not found, or a call before the remote thread runs fails.
NotInjected ==
  /\ pc \in {"net", "proc"}
  /\ pc' = AfterInjection(pc)
  /\ UNCHANGED <<path, loader, held, shim, program, system>>

CreateRemoteThread ==
  /\ pc \in {"net", "proc"}
  /\ ~panicked
  /\ loader' = [NoThread EXCEPT !.dll = pc, !.at = "load"]
  /\ path' = "held"
  /\ pc' = "wait"
  /\ UNCHANGED <<held, shim, program, system>>

\* The wait is over: RemoteBuf is dropped on every way out.
WaitOver ==
  /\ pc = "wait"
  /\ loader.at = "exited" \/ panicked
  /\ pc' = AfterInjection(loader.dll)
  /\ path' = "freed"
  /\ UNCHANGED <<loader, held, shim, program, system>>

-----------------------------------------------------------------------------
(* The remote thread: LoadLibraryW and the DllMain it runs.                *)

LoaderGoes(at) == loader' = [loader EXCEPT !.at = at]

\* The program's threads take the loader lock and give it back, and may suspend
\* and resume any thread of their process.  (A bound: only while psroot waits,
\* since nothing else depends on it.)
Hold ==
  /\ pc = "wait" /\ loader.at # "exited" /\ ~held /\ ~panicked
  /\ held' = TRUE
  /\ UNCHANGED <<pc, path, loader, shim, program, system>>

LetGo ==
  /\ held /\ ~panicked
  /\ held' = FALSE
  /\ UNCHANGED <<pc, path, loader, shim, program, system>>

\* The remote thread can take its next step.
Goes == ~held /\ ~panicked

\* Thread starts go through the loader lock, so DllMain must not wait for one.
LoaderLocked == loader.at \notin {"none", "load", "exited"}

LoadLibraryW ==
  /\ loader.at = "load" /\ Goes
  /\ \/ loader' = [loader EXCEPT !.at = "DllMain", !.ok = TRUE]
     \/ LoaderGoes("exited")
  /\ UNCHANGED <<pc, path, held, shim, program, system>>

\* Mutant: DllMain waits for the init thread, to report its result.
DllMain_netshim_joins ==
  /\ loader.dll = "net" /\ Goes
  /\ \/ /\ loader.at = "DllMain"
        /\ init' = "starting"
        /\ LoaderGoes("join")
     \/ /\ loader.at = "join" /\ init \in {"done", "failed"}
        /\ LoaderGoes("exited")
        /\ UNCHANGED init
  /\ UNCHANGED <<pc, path, held, pending, state, slot, original, program, system>>

\* netshim: the thread is started, or could not be; TRUE is returned.
DllMain_netshim ==
  /\ loader.dll = "net" /\ loader.at = "DllMain" /\ Goes
  /\ init' \in {"starting", "failed"}
  /\ LoaderGoes("exited")
  /\ UNCHANGED <<pc, path, held, pending, state, slot, original, program, system>>

\* procshim: install, in DllMain.
install_procshim ==
  /\ loader.dll = "proc" /\ loader.at = "DllMain" /\ Goes
  /\ state' = state \cup {"proc"}
  /\ LoaderGoes("hook")
  /\ UNCHANGED <<pc, path, held, init, pending, slot, original, program, system>>

Hooking == Nt[loader.fun]

\* apply_inline_hook: the trampoline is a copy of the stub, and then the
\* stub is overwritten by a memcpy of sixteen bytes.
apply_inline_hook ==
  /\ loader.at = "hook" /\ Goes
  /\ slot' = [slot EXCEPT ![Hooking] = "torn"]
  /\ LoaderGoes("overwrite")
  /\ UNCHANGED <<pc, path, held, init, pending, state, original, program, system>>

\* No memory or no protection change: install returns, with what it patched
\* before in place, and DllMain returns TRUE.
PatchFailed ==
  /\ loader.at = "hook" /\ Goes
  /\ LoaderGoes("exited")
  /\ UNCHANGED <<pc, path, held, shim, program, system>>

Overwritten ==
  /\ loader.at = "overwrite" /\ Goes
  /\ slot' = [slot EXCEPT ![Hooking] = "hook"]
  /\ LoaderGoes("store")
  /\ UNCHANGED <<pc, path, held, init, pending, state, original, program, system>>

StoreOriginal ==
  /\ loader.at = "store" /\ Goes
  /\ original' = [original EXCEPT ![Hooking] = "real"]
  /\ loader' = IF loader.fun = Len(Nt) THEN [loader EXCEPT !.at = "exited"]
                                       ELSE [loader EXCEPT !.at = "hook", !.fun = @ + 1]
  /\ UNCHANGED <<pc, path, held, init, pending, state, slot, program, system>>

-----------------------------------------------------------------------------
(* netshim's init thread: try_init, install, patch_descriptor.             *)

\* The environment, the layout or the mapping is not what it needs.
InitFails ==
  /\ init = "starting" /\ ~LoaderLocked /\ ~panicked
  /\ init' = "failed"
  /\ UNCHANGED <<pending, state, slot, original, injection, program, system>>

install_netshim ==
  /\ init = "starting" /\ ~LoaderLocked /\ ~panicked
  /\ init' = "patch"
  /\ state' = state \cup {"net"}
  /\ UNCHANGED <<pending, slot, original, injection, program, system>>

\* Mutant: the slot is overwritten before its content is kept.
CaptureAfterwards(f) ==
  /\ init = "patch" /\ f \in pending /\ slot[f] = "real"
  /\ slot' = [slot EXCEPT ![f] = "hook"]
  /\ init' = f
  /\ UNCHANGED <<pending, state, original, injection, program, system>>

\* The import is looked at: its slot is read into Originals.
Capture(f) ==
  /\ init = "patch" /\ f \in pending /\ ~panicked
  /\ original' = [original EXCEPT ![f] = slot[f]]
  /\ init' = f
  /\ UNCHANGED <<pending, state, slot, injection, program, system>>

\* The program does not import it, or by ordinal, which has no name.
NotNamed(f) ==
  /\ init = "patch" /\ f \in pending /\ ~panicked
  /\ pending' = pending \ {f}
  /\ UNCHANGED <<init, state, slot, original, injection, program, system>>

\* write_protected: the slot is written, or its page could not be unprotected.
write_protected(f) ==
  /\ init = f /\ f \in pending /\ ~panicked
  /\ slot' = [slot EXCEPT ![f] = "hook"] \/ UNCHANGED slot
  /\ pending' = pending \ {f}
  /\ init' = "patch"
  /\ UNCHANGED <<state, original, injection, program, system>>

\* NoImportsFound leaves STATE set.
Patched ==
  /\ init = "patch" /\ pending = {} /\ ~panicked
  /\ init' = IF \E f \in Net : slot[f] = "hook" THEN "done" ELSE "failed"
  /\ UNCHANGED <<pending, state, slot, original, injection, program, system>>

-----------------------------------------------------------------------------
(* The program's main thread.                                              *)

\* The installation of f's shim is over, whatever it has hooked: imports by
\* ordinal, a page that cannot be unprotected and a failed detour are left out.
Installed(f) == IF f \in Net THEN init \in {"done", "failed"} ELSE pc = "up"

Callable(f) == /\ f = "socket" => handle = "none"
               /\ f \in {"connect", "closesocket"} => handle # "none"

Idling == Running /\ call = NoCall

Answered(f, how, late) == last' = [fun |-> f, how |-> how, late |-> late]

HandleAfter(f, made) == handle' = CASE f = "socket" -> made
                                    [] f = "closesocket" -> "none"
                                    [] OTHER -> handle

\* The function is not hooked: the system answers, for the handles it made.
CallReal(f) ==
  /\ Idling /\ Callable(f) /\ slot[f] \in {"real", "torn"}
  /\ HandleAfter(f, "os")
  /\ Answered(f, IF f \notin Net THEN "raw"
                 ELSE IF handle = "virt" THEN "wrong stack" ELSE "own stack",
              Installed(f))
  /\ UNCHANGED <<call, bypass, panicked, injection, shim, system>>

\* A half-written stub is executed.
CallTorn(f) ==
  /\ Idling /\ slot[f] = "torn"
  /\ panicked' = TRUE
  /\ call' = [NoCall EXCEPT !.fun = f]
  /\ UNCHANGED <<bypass, handle, last, injection, shim, system>>

\* A hook reads its original through STATE.
NoOriginal(f) == \/ (IF f \in Net THEN "net" ELSE "proc") \notin state
                 \/ original[f] = "null"

\* Entry of a hook.  The ntdll hooks take the original first, or after a
\* check: without one the assertion ends the program.
EnterHook(f) ==
  /\ Idling /\ Callable(f) /\ slot[f] \in {"hook", "torn"}
  /\ \E pid \in (IF f = Open THEN Pids ELSE {Idle}) :
       call' = [fun |-> f, late |-> Installed(f), pid |-> pid, ok |-> FALSE]
  /\ panicked' = (f = Query /\ NoOriginal(f))
  /\ bypass' = IF f \in Net \/ panicked' THEN bypass ELSE bypass + 1
  /\ UNCHANGED <<handle, last, injection, shim, system>>

\* lookup: netshim knows the handles it made.
\* Mutant: a handle it does not know is taken for one of its own.
DaemonTakes_all(h) == h # "none"

DaemonTakes(h) == h = "virt"

\* The Winsock hooks.  hook_socket asks the daemon, which may refuse, or the
\* original for the families it leaves to the system.  The other hooks send a
\* handle of netshim to the daemon and call the original for any other; an
\* original that is missing is an error of the call.
SocketHook ==
  /\ call.fun = "socket" /\ ~panicked
  /\ \/ handle' \in {"virt", "none"} /\ Answered("socket", "own stack", call.late)
     \/ /\ handle' = IF NoOriginal("socket") THEN "none" ELSE "os"
        /\ Answered("socket", IF NoOriginal("socket") THEN "no original"
                                                    ELSE "own stack", call.late)
  /\ call' = NoCall
  /\ UNCHANGED <<bypass, panicked, injection, shim, system>>

HandleHook(f) ==
  /\ call.fun = f /\ f \in {"connect", "closesocket"} /\ ~panicked
  /\ HandleAfter(f, handle)
  /\ Answered(f, IF DaemonTakes(handle)
                   THEN IF handle = "virt" THEN "own stack" ELSE "wrong stack"
                 ELSE IF NoOriginal(f) THEN "no original" ELSE "own stack",
              call.late)
  /\ call' = NoCall
  /\ UNCHANGED <<bypass, panicked, injection, shim, system>>

\* The guard of the hook is dropped.
Leave == bypass' = bypass - 1 /\ call' = NoCall

\* hook_nt_query_system_information, once the original has answered.
QueryHook ==
  /\ call.fun = Query /\ ~panicked
  /\ Answered(Query, IF bypass > 1 THEN "raw" ELSE "filtered", call.late)
  /\ Leave
  /\ UNCHANGED <<handle, panicked, injection, shim, system>>

\* hook_nt_open_process: the check on the list as it is now ...
OpenCheck ==
  /\ call.fun = Open /\ ~call.ok /\ ~panicked
  /\ bypass > 1 \/ MayOpen(list, call.pid, Root)
  /\ call' = [call EXCEPT !.ok = TRUE]
  /\ UNCHANGED <<bypass, handle, last, panicked, injection, shim, system>>

OpenDenied ==
  /\ call.fun = Open /\ ~call.ok /\ ~panicked
  /\ bypass = 1 /\ call.pid # Root
  /\ Answered(Open, "filtered", call.late)
  /\ Leave
  /\ UNCHANGED <<handle, panicked, injection, shim, system>>

\* ... and the call of the original, by PID.
OpenReal ==
  /\ call.fun = Open /\ call.ok /\ ~panicked
  /\ IF NoOriginal(Open)
       THEN panicked' = TRUE /\ UNCHANGED <<call, bypass, last>>
       ELSE /\ Answered(Open, IF bypass > 1 THEN "raw" ELSE "filtered", call.late)
            /\ Leave
            /\ UNCHANGED panicked
  /\ UNCHANGED <<handle, injection, shim, system>>

-----------------------------------------------------------------------------
(* The system's processes.                                                 *)

Live == { e.pid : e \in Range(list) }

\* A bound: processes come and go once both installations are over.  No step
\* of an installation reads the list, so their order does not matter.
Settled == Running /\ pc = "up" /\ init \in {"none", "done", "failed"}

Fork(parent, pid) ==
  /\ Settled /\ forks < MaxForks
  /\ pid \notin Live
  /\ parent.pid \notin {Idle, System}
  /\ list' = Append(list, Entry(pid, parent.pid, parent.mine,
                                parent.line \cup {parent.pid}, parent.intact))
  /\ forks' = forks + 1
  /\ UNCHANGED <<injection, shim, program>>

Exit(e) ==
  /\ Settled
  /\ e.pid \notin {Idle, System, Root}
  /\ list' = [i \in 1 .. Len(list) - 1 |->
                LET x == SelectSeq(list, LAMBDA y : y # e)[i]
                IN  [x EXCEPT !.intact = @ /\ e.pid \notin x.line]]
  /\ UNCHANGED <<injection, shim, program, forks>>

-----------------------------------------------------------------------------
Psroot == spawn_sandboxed \/ NotInjected \/ CreateRemoteThread \/ WaitOver

RemoteThread == LoadLibraryW \/ DllMain_netshim \/ install_procshim
                \/ apply_inline_hook \/ PatchFailed \/ Overwritten \/ StoreOriginal

InitThread == \/ InitFails \/ install_netshim \/ Patched
              \/ \E f \in Net : Capture(f) \/ NotNamed(f) \/ write_protected(f)

MainThread == \/ Hold \/ LetGo
              \/ \E f \in Functions : CallReal(f) \/ CallTorn(f) \/ EnterHook(f) \/ HandleHook(f)
              \/ SocketHook \/ QueryHook \/ OpenCheck \/ OpenDenied \/ OpenReal

Others == \/ \E parent \in Range(list), pid \in Pids : Fork(parent, pid)
          \/ \E e \in Range(list) : Exit(e)

Next == Psroot \/ RemoteThread \/ InitThread \/ MainThread \/ Others

\* psroot, the remote thread and the init thread are threads the system
\* schedules while nothing holds them; what the program and the other processes
\* do, the release of the loader lock included, is up to them.
Spec == Init /\ [][Next]_vars /\ WF_vars(Psroot) /\ WF_vars(RemoteThread)
             /\ WF_vars(InitThread)

-----------------------------------------------------------------------------
(* Properties.                                                             *)

TypeOK ==
  /\ pc \in {"spawn", "net", "proc", "wait", "up"}
  /\ path \in {"none", "held", "freed"}
  /\ loader.dll \in {"none", "net", "proc"} /\ loader.fun \in DOMAIN Nt
  /\ init \in {"none", "starting", "patch", "done", "failed"} \cup Net
  /\ pending \subseteq Net /\ state \subseteq {"net", "proc"}
  /\ slot \in [Functions -> {"real", "torn", "hook"}]
  /\ original \in [Functions -> {"null", "real", "hook"}]
  /\ call.fun \in Functions \cup {"none"}
  /\ bypass \in 0 .. 1 /\ handle \in {"none", "os", "virt"}
  /\ held \in BOOLEAN /\ panicked \in BOOLEAN /\ forks \in 0 .. MaxForks

\* Injection leaves the program working while it goes on: the path stays in
\* the program's memory until LoadLibraryW has read it (RemoteBuf, inject_dll),
\* and a Winsock call that reaches a hook and must go to the system finds the
\* original, whenever it comes, because patch_descriptor keeps it before it
\* writes the slot.
ProgramKeepsWorking ==
  /\ TypeOK
  /\ loader.at = "load" => path = "held" \/ panicked
  /\ last.how # "no original"
  /\ \A f \in Net : slot[f] = "hook" => ~NoOriginal(f) /\ original[f] = "real"

\* A call begun after the installation of its shim is over reaches the system
\* only through a function the installation left out, such as an import by
\* ordinal or a slot on a page that cannot be written: that one does answer with
\* the raw list, and does take a handle of netshim to the wrong stack.  Every
\* other call is answered by the shim, on the stack that made the handle or from
\* the filtered list, and no call ends the program: what was called, made or left
\* half done before has no effect on it (lookup, BypassGuard, the store of the
\* trampoline before LoadLibraryW returns).
HookedOnceInstalled ==
  /\ last.late => last.how # "no original"
  /\ last.late /\ last.how \in {"raw", "wrong stack"} => slot[last.fun] = "real"
  /\ panicked => ~call.late
  /\ \A f \in Functions :
       Installed(f) /\ ~panicked => slot[f] = "real" \/ (slot[f] = "hook" /\ ~NoOriginal(f))

\* The list the query hook leaves is the kernel's without the entries that are
\* not allowed, in order.  It has a process with living ancestors exactly when
\* that process descends from the program, or is Idle; and what it shows is
\* what the open hook lets through, System apart, although the one closes over
\* children and the other walks up the parents.
ViewExact ==
  pc # "spawn" =>
    LET shown == Shown(list, Root)
        seen == Range(shown)
    IN  /\ shown = SelectSeq([i \in DOMAIN list |-> list[i].pid], LAMBDA p : p \in seen)
        /\ \A e \in Range(list) :
             /\ e.intact => (e.pid \in seen <=> e.mine \/ e.pid = Idle)
             /\ e.pid # System => (MayOpen(list, e.pid, Root) <=> e.pid \in seen)

\* start comes back unless the program holds the remote thread up again and
\* again: inject_dll waits without a time-out, so a program that never releases
\* the loader lock keeps it for ever, but psroot's own side never does, although
\* each DllMain runs under the loader lock and netshim needs a thread of its own.
StartReturns == <>(pc = "up") \/ []<>held
=============================================================================
