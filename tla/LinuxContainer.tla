--------------------------- MODULE LinuxContainer ---------------------------
(***************************************************************************)
(* Containers on Linux (psroot-unix): every psroot command is a process of *)
(* its own, and all they share is on disk (the container records, the      *)
(* lease file of the address pool) or in the kernel (veth links, DNAT      *)
(* rules).  There are no locks, so the steps of two commands interleave at *)
(* every file access, and a command may be killed between any two steps.   *)
(*                                                                         *)
(* Of a record only the address is modelled: no command tests the          *)
(* lifecycle state, which is for psroot ls, and only start_detached, which *)
(* is not modelled, sets host_pid.                                         *)
(* A container id is a fresh UUID: it is created once and never reused.    *)
(***************************************************************************)
EXTENDS Naturals, FiniteSets, FiniteSetsExt

CONSTANTS Procs,       \* commands that may run at the same time
          Containers,  \* container ids
          Addrs,       \* the address pool, host parts in ascending order
          Commands,    \* the commands users give
          MaxCommands, \* how many commands are given
          MaxFaults,   \* how many faults happen: commands killed, forks or writes failed
          None         \* no address, no record, no file

AllCommands == {"create", "run", "start", "exec", "stop", "rm"}

ASSUME LinuxAssumption ==
    /\ Addrs \subseteq Nat
    /\ None \notin Addrs \cup Containers
    /\ Commands \subseteq AllCommands
    /\ {MaxCommands, MaxFaults} \subseteq Nat

VARIABLES rec,      \* container.json of each container, or None
          rootfs,   \* "new", "there", "gone": the container's root directory
          leases,   \* leases.json
          tmp,      \* leases.json.tmp, or None
          link,     \* the veth pair of a container: its address, or None
          dnat,     \* addresses the container's DNAT rules send traffic to
          proc,     \* the commands in progress
          orphans,  \* programs whose command was killed: container and address
          commands, \* commands so far
          faults,   \* faults so far
          left,     \* history: addresses the last clean-up of a container left behind
          mishaps   \* history: what went wrong between commands

vars == <<rec, rootfs, leases, tmp, link, dnat, proc, orphans, commands, faults, left,
          mishaps>>

MaybeAddr == Addrs \cup {None}
Record == [ip : MaybeAddr]

ASSUME NoneAssumption == (\A s \in SUBSET Addrs : None # s) /\ (\A r \in Record : None # r)

\* What a command keeps in memory: its container, the record it works on, the
\* address it allocated, the lease set it read last, the address it releases and
\* where ipam::release returns to.
IdleProc == [pc |-> "idle", cmd |-> "none", c |-> None, mem |-> None,
             ip |-> None, view |-> {}, freed |-> None, ret |-> "idle"]

Init ==
    /\ rec = [c \in Containers |-> None]
    /\ rootfs = [c \in Containers |-> "new"]
    /\ leases = {}
    /\ tmp = None
    /\ link = [c \in Containers |-> None]
    /\ dnat = [c \in Containers |-> {}]
    /\ proc = [p \in Procs |-> IdleProc]
    /\ orphans = {}
    /\ commands = 0
    /\ faults = 0
    /\ left = [c \in Containers |-> {}]
    /\ mishaps = {}

files == <<rec, rootfs>>
pool == <<leases, tmp>>
kernel == <<link, dnat>>
failed == <<orphans, commands, faults>>
history == <<left, mishaps>>

At(p, pc) == proc[p].pc = pc
Goto(p, pc) == proc' = [proc EXCEPT ![p].pc = pc]

\* An ignored or returned error, or a kill.
Fault ==
    /\ faults < MaxFaults
    /\ faults' = faults + 1
    /\ UNCHANGED commands

\* A command is given.
Given ==
    /\ commands < MaxCommands
    /\ commands' = commands + 1
    /\ UNCHANGED <<orphans, faults>>

Mishap(name, happens) == mishaps' = mishaps \cup (IF happens THEN {name} ELSE {})

\* The command exits.
Exit(p) == proc' = [proc EXCEPT ![p] = IdleProc]

\* run_synchronously returns, and its locals are gone: exec is over, the others go
\* on with the record.
Return(p) ==
    proc' = [proc EXCEPT ![p] = IF proc[p].cmd = "exec" THEN IdleProc
                                ELSE [IdleProc EXCEPT !.pc = "stopped", !.cmd = proc[p].cmd,
                                                      !.c = proc[p].c, !.mem = proc[p].mem]]

-----------------------------------------------------------------------------
(* The commands: Container::create, load, run, stop, remove *)

\* create: directories, then the record.  run and shell go on with run.
Create(p, c, cmd) ==
    /\ At(p, "idle")
    /\ cmd \in {"create", "run"} \cap Commands
    /\ rootfs[c] = "new"
    /\ rootfs' = [rootfs EXCEPT ![c] = "there"]
    /\ rec' = [rec EXCEPT ![c] = [ip |-> None]]
    /\ \/ cmd = "create" /\ UNCHANGED proc
       \/ /\ cmd = "run"
          /\ proc' = [proc EXCEPT ![p] = [IdleProc EXCEPT !.pc = "running", !.cmd = cmd,
                                                          !.c = c, !.mem = [ip |-> None]]]
    /\ Given
    /\ UNCHANGED <<pool, kernel, history>>

\* A record with an address is loaded to be written back or removed while
\* another command works on the container: that address is the other's.
Stale(p, c, cmd) ==
    /\ cmd # "exec"
    /\ rec[c].ip # None
    /\ \E q \in Procs \ {p} : proc[q].c = c

\* load: the record is read once, the command works on this copy; exec does not
\* write it back.
Load(p, c, cmd) ==
    /\ At(p, "idle")
    /\ cmd \in {"start", "exec", "stop", "rm"} \cap Commands
    /\ rec[c] # None
    /\ proc' = [proc EXCEPT ![p] =
          [IdleProc EXCEPT
             !.pc = CASE cmd = "start" -> "running" [] cmd = "exec" -> "prepare"
                      [] cmd = "stop" -> "mark" [] cmd = "rm" -> "unlink",
             !.cmd = cmd, !.c = c,
             !.mem = IF cmd = "exec" THEN None ELSE rec[c]]]
    /\ Mishap("stale", Stale(p, c, cmd))
    /\ Given
    /\ UNCHANGED <<files, pool, kernel, left>>

\* run is over, with an error or not; psroot run then removes the container.
AfterRun(p) == IF proc[p].cmd = "run" THEN Goto(p, "unlink") ELSE Exit(p)

\* run: the copy, now marked running, is written back, whatever is on disk.  When
\* that fails there is no run.
MarkRunning(p) ==
    /\ At(p, "running")
    /\ \/ /\ rec' = [rec EXCEPT ![proc[p].c] = proc[p].mem]
          /\ Goto(p, "prepare")
          /\ UNCHANGED <<commands, faults>>
       \/ /\ Fault
          /\ AfterRun(p)
          /\ UNCHANGED rec
    /\ UNCHANGED <<rootfs, pool, kernel, orphans, history>>

\* run: the program is over; the same copy is written again, marked stopped, or
\* cannot be written.
MarkStopped(p) ==
    /\ At(p, "stopped")
    /\ \/ /\ rec' = [rec EXCEPT ![proc[p].c] = proc[p].mem]
          /\ UNCHANGED <<commands, faults>>
       \/ /\ Fault
          /\ UNCHANGED rec
    /\ AfterRun(p)
    /\ UNCHANGED <<rootfs, pool, kernel, orphans, history>>

\* stop: host_pid is not set, so nobody is signalled; the copy is written back,
\* marked stopped.
Stop(p) ==
    /\ At(p, "mark")
    /\ rec' = [rec EXCEPT ![proc[p].c] = proc[p].mem]
    /\ Exit(p)
    /\ UNCHANGED <<rootfs, pool, kernel, failed, history>>

\* nat::cleanup deletes the rules tagged with the container's id, veth::destroy
\* the link named after it.  Both only try: without iptables-save no rule goes, a
\* rule or a link that cannot be deleted stays, and nobody is told.
Cleanup(c) == \E kept \in SUBSET dnat[c] : dnat' = [dnat EXCEPT ![c] = kept]
Destroy(c) == \E kept \in {link[c], None} : link' = [link EXCEPT ![c] = kept]
LeftBehind(c) == left' = [left EXCEPT ![c] = dnat'[c] \cup ({link'[c]} \ {None})]

\* remove: what is left of the networking, then the directory.
Unlink(p) ==
    /\ At(p, "unlink")
    /\ Cleanup(proc[p].c)
    /\ Destroy(proc[p].c)
    /\ LeftBehind(proc[p].c)
    /\ proc' = [proc EXCEPT ![p].freed = proc[p].mem.ip, ![p].ret = "rmdir",
          ![p].pc = IF proc[p].mem.ip = None THEN "rmdir" ELSE "release"]
    /\ UNCHANGED <<files, pool, failed, mishaps>>

\* The record still names the address whose lease the command has released.
Behind(p) ==
    /\ proc[p].pc \in {"clear_load", "clear_save", "rmdir"}
    /\ proc[p].freed # None
    /\ rec[proc[p].c] # None
    /\ rec[proc[p].c].ip = proc[p].freed

\* That the directory cannot be deleted is ignored.
RemoveDir(p) ==
    /\ At(p, "rmdir")
    /\ \/ /\ rec' = [rec EXCEPT ![proc[p].c] = None]
          /\ rootfs' = [rootfs EXCEPT ![proc[p].c] = "gone"]
          /\ UNCHANGED <<commands, faults, mishaps>>
       \/ /\ Fault
          /\ Mishap("behind", Behind(p))
          /\ UNCHANGED files
    /\ Exit(p)
    /\ UNCHANGED <<pool, kernel, orphans, left>>

-----------------------------------------------------------------------------
(* ipam: every operation reads the file, changes the set and writes it back *)
(* through a temporary file that all commands share.                       *)

\* The first address of the pool that is not leased.
Lowest(free) == Min(free)

\* The commands between their read of the lease file and its replacement.
InWindow(p) ==
    proc[p].pc \in {"alloc_tmp", "alloc_rename", "release_tmp", "release_rename"}

\* Another command reads the lease file in between.
Race(p) == \E q \in Procs \ {p} : InWindow(q)

\* release: read, change, write back; that the write fails is ignored.
Release(p) ==
    /\ At(p, "release")
    /\ \/ /\ proc' = [proc EXCEPT ![p].view = leases \ {proc[p].freed},
                                   ![p].pc = "release_tmp"]
          /\ Mishap("race", Race(p))
          /\ UNCHANGED <<commands, faults>>
       \/ /\ Fault
          /\ Goto(p, proc[p].ret)
          /\ UNCHANGED mishaps
    /\ UNCHANGED <<files, pool, kernel, orphans, left>>

WriteTmp(p) ==
    /\ proc[p].pc \in {"alloc_tmp", "release_tmp"}
    /\ tmp' = proc[p].view
    /\ Goto(p, IF At(p, "alloc_tmp") THEN "alloc_rename" ELSE "release_rename")
    /\ UNCHANGED <<files, leases, kernel, failed, history>>

\* The rename fails when another command has renamed the file away.
Rename(p) ==
    /\ proc[p].pc \in {"alloc_rename", "release_rename"}
    /\ leases' = IF tmp = None THEN leases ELSE tmp
    /\ tmp' = None
    /\ proc' = [proc EXCEPT
          ![p].pc = IF At(p, "release_rename") THEN proc[p].ret
                    ELSE IF tmp = None THEN "fork" ELSE "veth",
          ![p].ip = IF At(p, "alloc_rename") /\ tmp = None THEN None ELSE proc[p].ip,
          ![p].view = {}]
    /\ UNCHANGED <<files, kernel, failed, history>>

-----------------------------------------------------------------------------
(* backend_linux: run_noninteractive / run_interactive *)

\* A missing root directory ends the run.  Without bridged networking, or with
\* an exhausted pool, the container goes on without an address.
Prepare(p) ==
    /\ At(p, "prepare")
    /\ \/ /\ rootfs[proc[p].c] # "there"
          /\ Return(p)
          /\ UNCHANGED mishaps
       \/ /\ rootfs[proc[p].c] = "there"
          /\ Goto(p, "fork")
          /\ UNCHANGED mishaps
       \/ /\ rootfs[proc[p].c] = "there"
          /\ Addrs \ leases # {}
          /\ LET a == Lowest(Addrs \ leases) IN
             proc' = [proc EXCEPT ![p].ip = a, ![p].view = leases \cup {a},
                                  ![p].pc = "alloc_tmp"]
          /\ Mishap("race", Race(p))
    /\ UNCHANGED <<files, pool, kernel, failed, left>>

\* The container's own use of an address is not a remnant.
InUse(c, ip) == left' = [left EXCEPT ![c] = @ \ {ip}]

\* Mutation of CreatePair: a failure does not give the lease back.
CreatePairLeaks(p) ==
    /\ At(p, "veth")
    /\ \/ /\ link' = [link EXCEPT ![proc[p].c] = proc[p].ip]
          /\ InUse(proc[p].c, proc[p].ip)
          /\ Goto(p, "fork")
       \/ /\ Destroy(proc[p].c)
          /\ proc' = [proc EXCEPT ![p].pc = "fork", ![p].ip = None]
          /\ UNCHANGED left
    /\ UNCHANGED <<files, pool, dnat, failed, mishaps>>

\* A stale pair of the same container is deleted, if possible, and a new one is
\* made; when that fails the lease is given back and the container goes on
\* without.
CreatePair(p) ==
    /\ At(p, "veth")
    /\ \/ /\ link' = [link EXCEPT ![proc[p].c] = proc[p].ip]
          /\ InUse(proc[p].c, proc[p].ip)
          /\ Goto(p, "fork")
       \/ /\ Destroy(proc[p].c)
          /\ proc' = [proc EXCEPT ![p].pc = "release", ![p].freed = proc[p].ip,
                                  ![p].ret = "fork", ![p].ip = None]
          /\ UNCHANGED left
    /\ UNCHANGED <<files, pool, dnat, failed, mishaps>>

\* Mutation of Fork: a failure gives the lease back but forgets the link.
ForkReleases(p) ==
    /\ At(p, "fork")
    /\ \/ /\ Goto(p, IF proc[p].ip = None THEN "wait" ELSE "dnat")
          /\ UNCHANGED <<commands, faults>>
       \/ /\ proc[p].ip # None
          /\ proc' = [proc EXCEPT ![p].pc = "release", ![p].freed = proc[p].ip,
                                  ![p].ret = "clear_load"]
          /\ Fault
    /\ UNCHANGED <<files, pool, kernel, orphans, history>>

\* make_sync_pipes and fork; a failure returns at once.
Fork(p) ==
    /\ At(p, "fork")
    /\ \/ /\ Goto(p, IF proc[p].ip = None THEN "wait" ELSE "dnat")
          /\ UNCHANGED <<commands, faults>>
       \/ /\ Return(p)
          /\ Fault
    /\ UNCHANGED <<files, pool, kernel, orphans, history>>

\* host_finalize_net: the rules, if a port is published and iptables takes them,
\* then the address into the record on disk.
InstallDnat(p) ==
    /\ At(p, "dnat")
    /\ \/ /\ dnat' = [dnat EXCEPT ![proc[p].c] = @ \cup {proc[p].ip}]
          /\ InUse(proc[p].c, proc[p].ip)
       \/ UNCHANGED <<dnat, left>>
    /\ Goto(p, "ip_load")
    /\ UNCHANGED <<files, pool, link, failed, mishaps>>

\* The record is read, if there is one, ...
LoadForIp(p) ==
    /\ \/ At(p, "ip_load") /\ Goto(p, IF rec[proc[p].c] # None THEN "ip_save" ELSE "wait")
       \/ At(p, "clear_load") /\ rec[proc[p].c] # None /\ Goto(p, "clear_save")
       \/ At(p, "clear_load") /\ rec[proc[p].c] = None /\ Return(p)
    /\ UNCHANGED <<files, pool, kernel, failed, history>>

\* ... and written back with the address set or cleared; that the write fails is
\* ignored.
SaveIp(p) ==
    /\ \/ At(p, "ip_save") /\ Goto(p, "wait")
       \/ At(p, "clear_save") /\ Return(p)
    /\ \/ /\ rec' = [rec EXCEPT ![proc[p].c] =
                        [ip |-> IF At(p, "ip_save") THEN proc[p].ip ELSE None]]
          /\ UNCHANGED <<commands, faults, mishaps>>
       \/ /\ Fault
          /\ Mishap("behind", Behind(p))
          /\ UNCHANGED rec
    /\ UNCHANGED <<rootfs, pool, kernel, orphans, left>>

\* The kernel deletes a container's veth pair with its network namespace.
LinkGone(c, ip) == link' = [link EXCEPT ![c] = IF ip # None /\ @ = ip THEN None ELSE @]

\* The program ends and is reaped.
ProgramExits(p) ==
    /\ At(p, "wait")
    /\ LinkGone(proc[p].c, proc[p].ip)
    /\ IF proc[p].ip = None THEN Return(p) ELSE Goto(p, "teardown")
    /\ UNCHANGED <<files, pool, dnat, failed, history>>

\* Mutation of Teardown: the rules stay until the container is removed.
TeardownKeepsDnat(p) ==
    /\ At(p, "teardown")
    /\ Destroy(proc[p].c)
    /\ proc' = [proc EXCEPT ![p].pc = "release", ![p].freed = proc[p].ip,
                            ![p].ret = "clear_load"]
    /\ UNCHANGED <<files, pool, dnat, failed, history>>

\* cleanup_bridged_net: rules and link go first, then the lease is released,
\* then the address is cleared in the record.
Teardown(p) ==
    /\ At(p, "teardown")
    /\ Cleanup(proc[p].c)
    /\ Destroy(proc[p].c)
    /\ LeftBehind(proc[p].c)
    /\ proc' = [proc EXCEPT ![p].pc = "release", ![p].freed = proc[p].ip,
                            ![p].ret = "clear_load"]
    /\ UNCHANGED <<files, pool, failed, mishaps>>

-----------------------------------------------------------------------------
(* Kills *)

\* Between fork and reaping the sandboxed program exists; with an address it has
\* a network namespace of its own.
HasProgram(p) ==
    /\ proc[p].ip # None
    /\ proc[p].pc \in {"dnat", "ip_load", "ip_save", "wait"}

\* A command is killed, or ends with the error of a write it does not ignore; the
\* program it started goes on (the handshake pipe reads end of file, so it does
\* not wait for its GO either).
Die(p) ==
    /\ ~At(p, "idle")
    /\ Fault
    /\ orphans' = IF HasProgram(p) THEN orphans \cup {[c |-> proc[p].c, ip |-> proc[p].ip]}
                  ELSE orphans
    /\ proc' = [proc EXCEPT ![p] = IdleProc]
    /\ Mishap("behind", Behind(p))
    /\ UNCHANGED <<files, pool, kernel, left>>

OrphanExits(o) ==
    /\ orphans' = orphans \ {o}
    /\ LinkGone(o.c, o.ip)
    /\ UNCHANGED <<files, pool, dnat, proc, commands, faults, history>>

-----------------------------------------------------------------------------
\* The steps a command takes by itself.
Step(p) ==
    \/ MarkRunning(p) \/ MarkStopped(p) \/ Stop(p) \/ Unlink(p) \/ RemoveDir(p)
    \/ Release(p) \/ WriteTmp(p) \/ Rename(p)
    \/ Prepare(p) \/ CreatePair(p) \/ Fork(p) \/ InstallDnat(p)
    \/ LoadForIp(p) \/ SaveIp(p) \/ Teardown(p)

Next ==
    \/ \E p \in Procs : Step(p) \/ ProgramExits(p) \/ Die(p)
    \/ \E p \in Procs, c \in Containers, cmd \in Commands :
          Create(p, c, cmd) \/ Load(p, c, cmd)
    \/ \E o \in orphans : OrphanExits(o)

Spec == Init /\ [][Next]_vars

-----------------------------------------------------------------------------
(* Properties *)

\* Files and kernel objects hold addresses of the pool.
TypeOK ==
    /\ rec \in [Containers -> Record \cup {None}]
    /\ rootfs \in [Containers -> {"new", "there", "gone"}]
    /\ leases \subseteq Addrs
    /\ tmp = None \/ tmp \subseteq Addrs
    /\ link \in [Containers -> MaybeAddr]
    /\ dnat \in [Containers -> SUBSET Addrs]
    /\ \A p \in Procs :
          /\ proc[p].cmd \in AllCommands \cup {"none"}
          /\ proc[p].c \in Containers \cup {None}
          /\ proc[p].mem \in Record \cup {None}
          /\ proc[p].ip \in MaybeAddr /\ proc[p].freed \in MaybeAddr
          /\ proc[p].view \subseteq Addrs
          /\ proc[p].pc = "idle" <=> proc[p] = IdleProc
    /\ orphans \subseteq [c : Containers, ip : MaybeAddr]
    /\ commands \in 0 .. MaxCommands
    /\ faults \in 0 .. MaxFaults
    /\ left \in [Containers -> SUBSET Addrs]
    /\ mishaps \subseteq {"race", "stale", "behind"}

\* Every container gets its own address on the bridge: no two veth pairs have
\* the same one.
OwnAddress ==
    \A c, d \in Containers : c # d /\ link[c] # None => link[c] # link[d]

\* Nothing went wrong between two commands: none read the lease file while another
\* was replacing it (ipam.rs has no lock), none loaded, to write it back or to
\* release it, the address another was using (lib.rs: run, stop and remove work on
\* the copy read at the start), and none ended, killed or by a write that failed,
\* between releasing an address and clearing it in the record.
NoMishap == mishaps = {}

\* The addresses the kernel uses for a container: those of its link and of its
\* rules, but for what the last clean-up could not delete.
Used(c) == (dnat[c] \cup ({link[c]} \ {None})) \ left[c]

\* With any number of commands at once, killed or failing at any step, two veth
\* pairs have the same address only after a mishap between two commands or when
\* one of them is a remnant veth::destroy could not delete.
AddressesApart ==
    NoMishap =>
        \A c, d \in Containers : c # d /\ link[c] # None /\ link[c] = link[d] =>
            link[c] \in left[c] \cup left[d]

\* An address a veth pair or a DNAT rule refers to is leased: it cannot be handed
\* to another container, whose traffic the rule would then catch.
LeaseCovers ==
    /\ TypeOK
    /\ NoMishap => \A c \in Containers : Used(c) \subseteq leases

\* When no command was killed and no fork or write failed, the pool is balanced:
\* with no command in progress no address is leased or recorded, and no link or
\* rule is there but for what could not be deleted.
LeasesBalanced ==
    (NoMishap /\ faults = 0 /\ \A p \in Procs : At(p, "idle")) =>
        /\ leases = {}
        /\ \A c \in Containers : Used(c) = {} /\ (rec[c] # None => rec[c].ip = None)
=============================================================================
