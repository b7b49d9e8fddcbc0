------------------------------ MODULE Staging ------------------------------
(***************************************************************************)
(* The shell cache that all containers share (psroot-rootfs-stager), with  *)
(* the commands that use it: psroot shell, psroot stage and psroot setup.  *)
(* A shell, PowerShell here, is staged from its installation on the host   *)
(* into the cache directory of its version.  Its files are hard links or,  *)
(* where that is impossible, copies; a manifest, written when they are all *)
(* there, lists the containers that use the directory.  Nothing is locked. *)
(*                                                                         *)
(* The shell of a command runs in an AppContainer or in a silo, which      *)
(* differ in the SID that is granted access.  The manifest is reduced to   *)
(* the list referenced_by, the only one that is read.                      *)
(***************************************************************************)
EXTENDS Resolver

CONSTANTS Procs,       \* psroot processes that may run at the same time
          MaxCommands, \* how many commands are given
          Files,       \* the files of the shell, in the order of read_dir
          Linkable,    \* those that can be hard links, on the cache's volume
          Releases,    \* the versions an installation goes through
          MaxFaults,   \* processes killed, calls failed, upgrades, together
          None,        \* nothing
          Torn         \* a manifest that cannot be parsed

ASSUME StagingAssumption ==
    /\ {MaxCommands, MaxFaults} \subseteq Nat
    /\ Linkable \subseteq ToSet(Files)
    /\ Releases \in Seq(Seq(Nat)) /\ Releases # <<>>

VARIABLES host,      \* how many upgrades the installation has seen
          tree,      \* the files in the directory of every version
          manifest,  \* its manifest: the references, Torn or None
          aces,      \* SIDs with access to the directory
          granted,   \* what psroot setup has granted
          touched,   \* host directories the last rootfs preparation changed
          proc,      \* the processes
          commands,  \* commands given so far
          faults,    \* faults so far
          disturbed, \* history: versions replaced while they were being staged
          cut,       \* history: files whose copying a kill or an error cut short
          serial     \* history: no two commands overlapped

cache == <<tree, manifest, aces>>
counts == <<commands, faults>>
history == <<disturbed, cut, serial>>
vars == <<host, cache, granted, touched, proc, counts, history>>

Keys == ToSet(Releases)
NoFile == [st |-> "none", v |-> None, by |-> None]

\* A process: its remaining steps, the container, the version it resolved, its
\* SID, the references it will save, and the file it is at.
Unused == [todo |-> <<>>, cmd |-> None, id |-> 0, key |-> None, sid |-> None,
           refs |-> None, i |-> 1, at |-> "check"]

-----------------------------------------------------------------------------
(* The commands as steps.                                                  *)

\* Mutant: the manifest is written before the files are there.
apply_plan_manifest_first == <<"probe", "grant", "truncate", "save", "files", "junction">>

apply_plan == <<"probe", "files", "junction", "grant", "truncate", "save">>
unreference_cache == <<"reload", "truncate", "save">>
shell_with_plan == <<"run", "revoke">> \o unreference_cache
cmd_shell == <<"ready", "rootfs", "resolve">> \o apply_plan \o shell_with_plan
cmd_stage == <<"resolve">> \o apply_plan
cmd_setup == <<"drive", "cache", "privilege">>

Program == [shell |-> cmd_shell, silo |-> cmd_shell, stage |-> cmd_stage, setup |-> cmd_setup]

\* Who is granted access, and who the manifest says uses the directory.
Sid(cmd, id) == CASE cmd = "shell" -> <<"container", id>>
                  [] cmd = "silo" -> <<"all packages", 0>>
                  [] OTHER -> <<"users", 0>>
Reference(cmd, id) == IF cmd = "stage" THEN <<"stage-cli", 0>> ELSE <<"container", id>>

Init ==
    /\ host = 1
    /\ tree = [k \in Keys |-> [f \in ToSet(Files) |-> NoFile]]
    /\ manifest = [k \in Keys |-> None]
    /\ aces = [k \in Keys |-> {}]
    /\ granted \in {{}, {"C:", "cache"}}
    /\ touched = {}
    /\ proc = [p \in Procs |-> Unused]
    /\ commands = 0
    /\ faults = 0
    /\ disturbed = {}
    /\ cut = {}
    /\ serial = TRUE

At(p, s) == proc[p].todo # <<>> /\ Head(proc[p].todo) = s
Goto(p, d) == proc' = [proc EXCEPT ![p] = [d EXCEPT !.todo = Tail(@)]]
End(p) == proc' = [proc EXCEPT ![p] = Unused]
Fault == faults < MaxFaults /\ faults' = faults + 1 /\ UNCHANGED commands

\* A step that changes only its process.
Quiet == UNCHANGED <<host, cache, granted, touched, history>>

-----------------------------------------------------------------------------
(* Commands start, end and are killed; the host's shell is upgraded.       *)

Start(p, cmd) ==
    /\ proc[p] = Unused
    /\ commands < MaxCommands
    /\ commands' = commands + 1
    /\ proc' = [proc EXCEPT ![p] = [Unused EXCEPT !.todo = Program[cmd], !.cmd = cmd,
                    !.id = commands', !.sid = Sid(cmd, commands')]]
    /\ serial' = (serial /\ \A q \in Procs : proc[q] = Unused)
    /\ UNCHANGED <<host, cache, granted, touched, faults, disturbed, cut>>

Exit(p) == proc[p] # Unused /\ proc[p].todo = <<>> /\ End(p) /\ Quiet /\ UNCHANGED counts

Killed(p) ==
    /\ proc[p] # Unused
    /\ Fault
    /\ End(p)
    /\ tree' = [k \in Keys |-> [f \in ToSet(Files) |->
                   IF tree[k][f].by = p THEN [tree[k][f] EXCEPT !.by = None] ELSE tree[k][f]]]
    /\ cut' = cut \cup {<<k, f>> \in Keys \X ToSet(Files) : tree[k][f].by = p}
    /\ UNCHANGED <<host, manifest, aces, granted, touched, disturbed, serial>>

\* The installer replaces the shell's files.
Upgrade ==
    /\ host < Len(Releases)
    /\ host' = host + 1
    /\ Fault
    /\ disturbed' = disturbed \cup
          {proc[p].key : p \in {q \in Procs : proc[q].key # None /\ "files" \in ToSet(proc[q].todo)}}
    /\ UNCHANGED <<cache, granted, touched, proc, cut, serial>>

-----------------------------------------------------------------------------
(* psroot setup.                                                           *)

\* setup::apply: what is there already is left; an error ends the command.
apply(p, step, what) ==
    /\ At(p, step)
    /\ \/ Goto(p, proc[p]) /\ granted' = granted \cup {what} /\ UNCHANGED counts
       \/ what \notin granted /\ End(p) /\ Fault /\ UNCHANGED granted
    /\ UNCHANGED <<host, cache, touched, history>>

\* The user gets SeTcbPrivilege if possible; module Launch does not rely on it.
grant_se_tcb_privilege(p) == At(p, "privilege") /\ Goto(p, proc[p]) /\ Quiet /\ UNCHANGED counts

require_ready(p) ==
    /\ At(p, "ready")
    /\ IF {"C:", "cache"} \subseteq granted THEN Goto(p, proc[p]) ELSE End(p)
    /\ Quiet /\ UNCHANGED counts

-----------------------------------------------------------------------------
(* The rootfs.                                                             *)

\* winget needs four shares.
effective_shares(tools, shares) ==
    shares \cup (IF "winget" \in tools
                 THEN {"Windows", "Program Files", "ProgramData", "WindowsApps"} ELSE {})

\* Mutant: with Windows shared, ProgramData is labelled in any case.
LabelledAlways(shares) ==
    {"Temp", "ContainerUser", "ProgramData"} \cup (IF "Windows" \in shares THEN {} ELSE {"Windows"})

\* The directories that get a low integrity label: with Windows shared, those of
\* the container; else Windows\Temp, and ProgramData whatever it is.
Labelled(shares) ==
    {"Temp", "ContainerUser"}
        \cup (IF "Windows" \in shares THEN {"ProgramData"} \ shares ELSE {"Windows", "ProgramData"})

\* System32, Globalization and the key store are mirrored unless Windows is shared.
Mirrored(shares) == IF "Windows" \in shares THEN {} ELSE {"Windows", "ProgramData"}

\* prepare_rootfs_with_shares: a share is a junction to the host's directory, and
\* what is written below it is written there.  A junction that fails is only
\* logged; a tool that cannot be installed is an error.
prepare_rootfs(p) ==
    /\ At(p, "rootfs")
    /\ \E tools \in {{}, {"winget"}}, asked \in {{}, {"Windows"}, {"ProgramData"}} :
          LET shares == effective_shares(tools, asked)
          IN \E failed \in {{}} \cup {{s} : s \in shares} :
                /\ touched' = {[dir |-> d, shares |-> shares] :
                       d \in (Labelled(shares) \cup Mirrored(shares)) \cap (shares \ failed)}
                /\ IF failed # {} THEN Fault ELSE UNCHANGED counts
    /\ Goto(p, proc[p])
    /\ UNCHANGED <<host, cache, granted, history>>

install_tools_fail(p) == At(p, "rootfs") /\ Fault /\ End(p) /\ Quiet

-----------------------------------------------------------------------------
(* resolve and apply_plan.                                                 *)

Minimum == <<7, 2, 0>>
Requests == {{}, {[op |-> "~", target |-> <<7, 4>>]}}

\* The version of the installation names the cache directory.
Resolve(p) ==
    /\ At(p, "resolve")
    /\ \E req \in Requests, readable \in BOOLEAN :
          LET version == read_exe_version(Releases[host], readable)
          IN /\ IF resolve(req, Minimum, TRUE, version) = "plan"
                THEN Goto(p, [proc[p] EXCEPT !.key = version]) ELSE End(p)
             /\ IF readable THEN UNCHANGED counts ELSE Fault
    /\ Quiet

\* Mutant: any file in the directory makes it a cache hit.
ProbeDirectory(p) ==
    /\ At(p, "probe")
    /\ LET m == manifest[proc[p].key]
           d == [proc[p] EXCEPT !.refs = IF m \in {None, Torn} THEN {} ELSE m]
       IN Goto(p, IF \A f \in ToSet(Files) : tree[proc[p].key][f] = NoFile THEN d
                  ELSE [d EXCEPT !.todo = SelectSeq(@, LAMBDA s : s # "files")])
    /\ Quiet /\ UNCHANGED counts

\* The manifest is loaded; one that loads is a cache hit, for the directories of
\* the stage operations are not empty: the manifest is in one of them.
Probe(p) ==
    /\ At(p, "probe")
    /\ LET m == manifest[proc[p].key]
           d == [proc[p] EXCEPT !.refs = IF m \in {None, Torn} THEN {} ELSE m]
       IN Goto(p, IF m \in {None, Torn} THEN d
                  ELSE [d EXCEPT !.todo = SelectSeq(@, LAMBDA s : s # "files")])
    /\ Quiet /\ UNCHANGED counts

\* The current file of the process, and moving on to the next one.
File(p) == Files[proc[p].i]
Entry(p) == tree[proc[p].key][File(p)]
Walking(p, at) == At(p, "files") /\ proc[p].at = at
NextFile(p) ==
    proc' = [proc EXCEPT ![p].at = "check",
                         ![p].i = IF @ < Len(Files) THEN @ + 1 ELSE 1,
                         ![p].todo = IF proc[p].i < Len(Files) THEN @ ELSE Tail(@)]
Put(p, e) == tree' = [tree EXCEPT ![proc[p].key][File(p)] = e]

OnlyTree == UNCHANGED <<host, manifest, aces, granted, touched, counts, history>>

\* A file of the same size is kept.  So may be half a copy, which has its full
\* length from the start, and a file of another version.  Another size: the file
\* is removed, if nobody has it open.
CheckFile(p) ==
    /\ Walking(p, "check")
    /\ \/ /\ Entry(p).st # "none"
          /\ NextFile(p) /\ UNCHANGED tree
       \/ /\ Entry(p).st = "none" \/ Entry(p).st = "part" \/ Entry(p).v # Releases[host]
          /\ proc' = [proc EXCEPT ![p].at = "link"]
          /\ \/ UNCHANGED tree
             \/ Entry(p).by = None /\ Put(p, NoFile)
    /\ OnlyTree

\* hardlink, which fails where a file is; then the copy onto the file fails too,
\* be it the same file or one that could not be removed.
Hardlink(p) ==
    /\ Walking(p, "link")
    /\ File(p) \in Linkable
    /\ NextFile(p)
    /\ IF Entry(p).st = "none" THEN Put(p, [st |-> "full", v |-> Releases[host], by |-> None])
                               ELSE UNCHANGED tree
    /\ OnlyTree

\* fs::copy begins: a file that another process is writing cannot be opened.
BeginCopy(p) ==
    /\ Walking(p, "link")
    /\ File(p) \notin Linkable
    /\ IF Entry(p).by # None THEN NextFile(p) /\ UNCHANGED tree
       ELSE /\ proc' = [proc EXCEPT ![p].at = "copy"]
            /\ Put(p, [st |-> "part", v |-> Releases[host], by |-> p])
    /\ OnlyTree

EndCopy(p) ==
    /\ Walking(p, "copy")
    /\ Put(p, [Entry(p) EXCEPT !.st = "full", !.by = None])
    /\ NextFile(p)
    /\ OnlyTree

\* A copy that fails is only logged.
CopyFails(p) ==
    /\ Walking(p, "copy")
    /\ Fault
    /\ \E left \in {NoFile, [Entry(p) EXCEPT !.by = None]} : Put(p, left)
    /\ cut' = cut \cup {<<proc[p].key, File(p)>>}
    /\ NextFile(p)
    /\ UNCHANGED <<host, manifest, aces, granted, touched, disturbed, serial>>

\* The junction into the rootfs; no junction is an error.
create_junction(p) ==
    /\ At(p, "junction")
    /\ \/ Goto(p, proc[p]) /\ UNCHANGED counts
       \/ End(p) /\ Fault
    /\ Quiet

\* The SID gets access, or does not, which is only logged; the container is added
\* to the references that were loaded.
grant_ace(p) ==
    /\ At(p, "grant")
    /\ Goto(p, [proc[p] EXCEPT !.refs = @ \cup {Reference(proc[p].cmd, proc[p].id)}])
    /\ \/ aces' = [aces EXCEPT ![proc[p].key] = @ \cup {proc[p].sid}] /\ UNCHANGED counts
       \/ UNCHANGED aces /\ Fault
    /\ UNCHANGED <<host, tree, manifest, granted, touched, history>>

\* CacheManifest::save is fs::write: truncate, then write from the start.  What
\* another process has written in between may stick out behind.
Truncate(p) ==
    /\ At(p, "truncate")
    /\ Goto(p, proc[p])
    /\ manifest' = [manifest EXCEPT ![proc[p].key] = Torn]
    /\ UNCHANGED <<host, tree, aces, granted, touched, counts, history>>

Save(p) ==
    /\ At(p, "save")
    /\ Goto(p, [proc[p] EXCEPT !.refs = None])
    /\ \E m \in {proc[p].refs} \cup (IF manifest[proc[p].key] = Torn THEN {} ELSE {Torn}) :
          manifest' = [manifest EXCEPT ![proc[p].key] = m]
    /\ UNCHANGED <<host, tree, aces, granted, touched, counts, history>>

-----------------------------------------------------------------------------
(* The shell runs, and its container is removed.                           *)

\* Mutant: the grant is recorded as it was made.
RecordedGranted(p) == proc[p].sid

\* shell_with_plan records the grant under the name of the cage, which is no SID
\* for a silo or device map.
Recorded(p) == IF proc[p].cmd = "silo" THEN <<"silo", proc[p].id>> ELSE proc[p].sid

\* The user leaves the shell and the grant is recorded in the container's own
\* state.json; or the shell could not be launched.
Run(p) ==
    /\ At(p, "run")
    /\ \/ Goto(p, [proc[p] EXCEPT !.sid = Recorded(p)]) /\ UNCHANGED counts
       \/ End(p) /\ Fault
    /\ Quiet

revoke_ace_record(p) ==
    /\ At(p, "revoke")
    /\ Goto(p, proc[p])
    /\ aces' = [aces EXCEPT ![proc[p].key] = @ \ {proc[p].sid}]
    /\ UNCHANGED <<host, tree, manifest, granted, touched, counts, history>>

\* Mutant: retain keeps the wrong ones.
ReloadKeepsOwn(p) ==
    /\ At(p, "reload")
    /\ LET m == manifest[proc[p].key]
       IN IF m \in {None, Torn} THEN proc' = [proc EXCEPT ![p].todo = <<>>]
          ELSE Goto(p, [proc[p] EXCEPT !.refs = m \cap {Reference(proc[p].cmd, proc[p].id)}])
    /\ Quiet /\ UNCHANGED counts

\* unreference_cache does nothing when the manifest cannot be loaded.
Reload(p) ==
    /\ At(p, "reload")
    /\ LET m == manifest[proc[p].key]
       IN IF m \in {None, Torn} THEN proc' = [proc EXCEPT ![p].todo = <<>>]
          ELSE Goto(p, [proc[p] EXCEPT !.refs = m \ {Reference(proc[p].cmd, proc[p].id)}])
    /\ Quiet /\ UNCHANGED counts

-----------------------------------------------------------------------------
Next ==
    \/ Upgrade
    \/ \E p \in Procs :
          \/ \E cmd \in DOMAIN Program : Start(p, cmd)
          \/ Exit(p) \/ Killed(p)
          \/ apply(p, "drive", "C:") \/ apply(p, "cache", "cache") \/ grant_se_tcb_privilege(p)
          \/ require_ready(p) \/ prepare_rootfs(p) \/ install_tools_fail(p) \/ Resolve(p)
          \/ Probe(p) \/ CheckFile(p) \/ Hardlink(p) \/ BeginCopy(p) \/ EndCopy(p)
          \/ CopyFails(p) \/ create_junction(p) \/ grant_ace(p)
          \/ Truncate(p) \/ Save(p) \/ Run(p) \/ revoke_ace_record(p) \/ Reload(p)

Spec == Init /\ [][Next]_vars

-----------------------------------------------------------------------------
(* Properties.                                                             *)

Whole(k) == manifest[k] \notin {None, Torn}
Running(p) == At(p, "run")

\* A manifest that loads, and so lets every later launch skip staging, vouches
\* for the files: those that are hard links are all there, in the version of the
\* directory, whatever commands overlapped, were killed or failed, unless the
\* host's shell was replaced between resolving and staging it.
CacheComplete ==
    \A k \in Keys : Whole(k) /\ k \notin disturbed =>
        \A f \in Linkable : tree[k][f].st = "full" /\ tree[k][f].v = k

\* What a shell that runs finds in the cache, after kills, failures and overlap
\* as well: every file is there in the version of the directory, except those
\* whose own copying was cut short, which a later staging may take for whole
\* because their size is right.  A copied file may be in the course of being
\* written again, by a process that began to stage the same version before the
\* manifest was there; and a replaced installation spoils the version resolved.
CopiedOrCopying ==
    \A p \in Procs : Running(p) /\ proc[p].key \notin disturbed =>
        \A f \in ToSet(Files) :
            LET e == tree[proc[p].key][f]
            IN \/ e.v = proc[p].key /\ (e.st = "full" \/ e.by # None)
               \/ <<proc[p].key, f>> \in cut

\* While commands come one after the other and nothing fails, the manifest lists
\* exactly the containers between staging and removal, and psroot stage.  (Not
\* so when they overlap: each saves what it loaded, changed by its own entry.)
Holder(p, k) ==
    /\ proc[p].key = k /\ proc[p].cmd \in {"shell", "silo"}
    /\ proc[p].todo # <<>> /\ IsSuffix(proc[p].todo, shell_with_plan)
ReferencesExact ==
    serial /\ faults = 0 => \A k \in Keys : Whole(k) =>
        manifest[k] \ {<<"stage-cli", 0>>}
            = {<<"container", proc[p].id>> : p \in {q \in Procs : Holder(q, k)}}

\* The directory of a running shell stays accessible to it: no other container's
\* removal takes away the entry it needs, although all silos share one.
UsableWhileRunning ==
    \A p \in Procs : Running(p) /\ faults = 0 => proc[p].sid \in aces[proc[p].key]

\* Preparing a rootfs changes nothing on the host, except for ProgramData when it
\* is shared and Windows is not.
HostUntouched ==
    \A t \in touched : t.dir = "ProgramData" /\ "Windows" \notin t.shares

(* The computations of Resolver are compared with their definitions before   *)
(* the first command.                                                        *)

\* The matcher without recursion and with one remembered star, which decides the
\* files that staging leaves out, finds exactly the texts that the meaning of the
\* wildcards admits, for every pattern.
GlobAgrees == commands = 0 => MatcherIsGlob

\* Versions are totally ordered, a missing number being zero, and the operators
\* agree with the order: >= and < split the versions, = is contained in <= and
\* >= for a requirement that is not shorter, and ~ is the band from its target
\* to the next minor version, for versions with all the numbers of the target.
VersionsOrdered == commands = 0 => OrderAndOperators
=============================================================================
