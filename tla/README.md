# Psroot in TLA+

Models of Psroot: the shared-memory network stack and the shims it injects, the
port mapper, the containers of Windows and Linux with their launch and clean-up,
and the shell cache. They are checked with TLC on small instances; the safety of
the network stack, of the port mapper, of the containers of both systems and of
the launch functions is proved with TLAPS for every instance.

Psroot runs programs in light containers. On Windows a container is a job
object (or a server silo) with an AppContainer token, a port mapper for
published ports and, optionally, a userland network stack; on Linux it is a
forked program in its own namespaces, with an address on a bridge.

## Inventory

| Component | State it keeps | Operations | Interacts with | What is hard |
|---|---|---|---|---|
| `psroot-netstack-ipc` ring | head, tail, slots in shared memory | `try_push`, `try_pop`, `try_peek`, `commit_peek` | the other process, through memory only | unsynchronised slot accesses; two counters that wrap at different points |
| channel and signal | futex word | `send`, `recv_blocking`, `post`, `park` | ring, `WaitOnAddress` | lost wake-ups; wake-ups that do not cross processes |
| netshim client | next correlation id | `exchange` and typed calls | channel | time-outs and late replies; fragments |
| netshim hooks | map from fake handles to socket ids | eleven Winsock hooks | client | handles and recycled ids; failures half way |
| netstack daemon | stop flag | `run`, `handle` | channel, backend | full reply ring; blocking backend; shutdown |
| NAT backend, socket table | sockets by id, free ids | one method per request | host sockets | id reuse |
| netstack runtime | daemon thread, shared memory | `spawn`, `drop` | daemon, shim injection | join of a blocked thread |
| port mapper | list of mappings, a thread each | `add`, `accept_loop`, `shutdown` | clients, container | waking a blocking `accept`; release of ports |
| Linux containers | `container.json` per container | `create`, `run`, `shell`, `start`, `exec`, `stop`, `rm` | network resources, child process | commands are processes without locks; kills |
| Linux network | `leases.json`, veth pairs, DNAT rules, bridge | `alloc`, `release`, `create_pair`, `install`, `cleanup` | kernel tools | read-change-write of shared files; clean-up order |
| Windows containers | `state.json`, `config.json`, runtime handles | `create`, `load`, `start`, `exec`, `stop`, `remove`, `shell`, `Drop` | job, silo, bind links, port mapper, netstack | partial failure of `start`; a second process with its own idea of the state; files written in place |
| sandbox, silo, job, namespace, desktop | psroot's environment and thread token, Windows handles, profiles, loopback sessions | ten ways to launch a program | Windows | early returns between raw handles; fallbacks; the child inherits what psroot has at that moment |
| staging cache, rootfs, setup | files per version, manifest with reference list, ACEs | `apply_plan`, `unreference_cache`, `prepare_rootfs`, `setup::apply` | several containers | unlocked manifest; interrupted staging; junctions into the host |
| shim installation, injection | import table, function stubs, originals, loader | `inject_dll`, `DllMain`, `install`, `apply_inline_hook` | the program's threads | patching under running threads; loader lock |
| process visibility shim | filtered process list | hooks of `NtQuerySystemInformation`, `NtOpenProcess` | kernel's list | a list edited in place; PID reuse |
| shell resolver | none | version requirements, probes, plan | stager | comparison at the ends |
| CLI, macOS backends | none | argument handling, external tools | all | not concurrent |

`PROJECT.json` lists the same components with their sources, and under
`hazards` each place in the code where something could go wrong that a test
would hardly reach, with the properties that cover it.

## Modules

    Fifo              bounded FIFO queue, the abstract specification
    Ring              ring.rs, one step per memory access; implements Fifo
    RingProofs        theorems about Ring
    Channel           channel.rs and signal.rs, over a queue of counts
    ChannelProofs     theorems about Channel
    Exchange          client.rs and daemon.rs, over two bounded queues
    ExchangeProofs    theorems about Exchange
    Sockets           hooks.rs, state.rs, socket_table.rs, nat.rs
    SocketsProofs     theorems about Sockets
    PortMapper        psroot-portmap
    PortMapperProofs  theorems about PortMapper
    LinuxContainer    psroot-unix on Linux
    LinuxProofs       theorems about LinuxContainer
    MCLinux           symmetry of LinuxContainer for TLC
    WindowsContainer  container.rs and the commands of the CLI that use it
    WindowsProofs     theorems about WindowsContainer
    Launch            sandbox.rs with psroot-silo, -namespace, -desktop, -job
    LaunchProofs      theorems about Launch
    Staging           psroot-rootfs-stager, rootfs.rs, setup.rs; extends Resolver
    Resolver          psroot-shell-resolver and the glob matcher, pure operators
    MCStaging         values for TLC of Staging's constants that are sequences
    Shims             psroot-netinject and both shims' installation; extends ProcessView
    ProcessView       psroot-procshim's filter of the process list, pure operators

The layers of the network stack fit together from below: Ring is shown to be
the queue of Fifo; Channel and Exchange then use that queue and are about what is
built on it; Sockets takes over from Exchange that a reply is accepted only by
the call it belongs to, and models what the requests do to handles and ids.
Shims shows how the hooks of Sockets come into the program. WindowsContainer
uses PortMapper, the netstack, the launch and the staging as resources that are
there or not; Launch and Staging open up two of its steps.

`PROJECT.json` maps every definition that models code to its lines.

**Ring.** `push` and `pop` hold, per thread, the program counter inside
`try_push` / `try_pop` and the registers (the index loaded, the message, what
was read). A slot is two parts, header and data, written and read in separate
steps, so that a torn message is visible in the model. The `Acquire` loads
and `Release` stores of the code order the slot accesses around them on both
sides; this is why whole accesses may be interleaved. `sent` and `rcvd` are
history.

**Channel.** The futex word with its three values, the swap of `post`, the
swap, wait and reset of `park`, and the two polls of `recv_blocking`. The
behaviours start in one of two worlds: `link = "same"`, where
`WakeByAddressSingle` releases a blocked receiver, and `"split"`, sender and
receiver in two processes, where it may do nothing. The loop around the receiver
is `Daemon::run`: it ends when the stop flag is up (`LeaveLoop`) or the wait fails
(`WaitError`).

**Exchange.** `client` is per application thread, `daemon` has a program
counter over `run` and `handle`. Time is abstracted: a waiting call may give up
at any moment; the backend may answer at any moment or never. `answer` and
`outcome` are history and say what the backend answered and what the call
returned.

**Sockets.** The handle map, the socket table with its free list, and the
request and reply rings. The field `born` of a socket, of a request and of a
handle is history: the call that created the socket; `closer` is the call that
closed its handle. The code has only ids, and the properties say that the ids
nevertheless mean the right socket.

**PortMapper.** Per published endpoint the accept loop, its flag, the backlog
and the proxy threads; the thread in `shutdown` with its list and position. The
backlog and whether an address can be connected to are the operating
system's, modelled from their use (`CanKick`, `ClientConnects`).

**LinuxContainer.** Every command is an entry of `proc` with what the process
has in memory: the record it loaded, the address it allocated, the lease set it
read. Each access to a file or to the kernel is a step. `Die` kills a command
anywhere; the program it started lives on in `orphans`. `nat::cleanup` and
`veth::destroy` may fail, without telling anyone, and keep rules or the link; the
history `left` has the addresses of such remnants. The history `mishaps` notes
three things that can happen between two commands and after which nothing is
promised: one reads the lease file while another is replacing it (`race`), one
loads, to write it back or to release it, the address another is using
(`stale`), one ends after it released an address and before the record is
cleared (`behind`). Of a record only the address is modelled, as no command
tests the lifecycle state. A lease file that cannot be parsed, which `ipam` takes
for an empty one, is not modelled.

**WindowsContainer.** A process is a sequence of calls (`cmd_run`, ... and a
library user that goes on after errors), a call a sequence of steps. The fields
`rt` and `loc` separate what the `Container` object holds from what only the
current call holds, because an error drops the second and keeps the first.
`Drop` says what the guards do when they go. Shared are `state.json`, written in
two steps (truncate, write), the host port, which a foreign program may hold, the
bind link and the ACEs. Whether a process has a bind filter (`filter`) is its
machine's affair; without one `start` goes on with no mount. `killed` is history.

**Launch.** One psroot process launches programs in sequence. Each of the ten
functions of `sandbox.rs` (and `cmd_gui`) is a sequence of step names; each step
is an action that succeeds, returns an error or falls back to another function.
`held` has the guards, which every return drops, and the raw handles, which it
does not. The environment is a function from variables to where their value
comes from; `apply_sandbox_env` and `restore_env` are translated with their
order, because the list of saved values names one variable twice
(`PSModulePath`, `PSMODULEPATH`). A value is told apart by the three substring
tests the code makes on it (`UsersPaths`, `RootfsPaths`, `AppPaths`), so that
host values exist which they do not catch.

**Staging.** Commands as sequences of steps over the cache directory of each
version. A file is absent, partly written or whole, of some version and perhaps
open in a process; hard links appear at once, copies in two steps. A manifest
is the set `referenced_by`, or torn. `Upgrade` replaces the shell on the host
between resolving and staging. `cut` is history: the files whose copying was cut
short by a kill or an error. `touched` has the host directories that the last
preparation of a rootfs wrote to through a junction.

**Resolver, ProcessView.** Operators only: `cmp_versions`, `matches`, `resolve`,
the scanning glob matcher and a recursive definition to compare it with; the
closure over children, the unlinking of list entries by their offsets and the
walk over parents.

**Shims.** psroot's thread, the remote thread in `LoadLibraryW`, netshim's init
thread and the program's main thread. The program may hold the loader lock, or
suspend the remote thread, whenever psroot waits for it (`Hold`, `LetGo`). `slot`
is what a call of a function reaches (the system, a hook, a half-written stub),
`original` what its hook would call on. Eleven Winsock functions are reduced to
three, one that makes, one that uses and one that ends a handle. The list of
processes changes after the installation; its history fields say who really
descends from the program.

## Runs

| Run | Shows | Bounds |
|---|---|---|
| `ring` | no data race, nothing lost, torn or out of order; refinement of Fifo | 2 slots, indices modulo 4, 5 messages: slot numbers and indices wrap, the ring fills and empties |
| `channel` | no lost wake-up; every message is received, unless the loop was left | 2 slots, 4 messages, both worlds |
| `exchange` | own and whole answers; the stop flag ends the daemon | 1 thread, 4 calls, 2 slots, up to 2 fragments (`recvfrom` cannot produce more): the reply ring overflows with late replies |
| `exchange_desync` | **violated**: after a time-out the next call meets a foreign reply | 2 calls |
| `sockets` | free list, handles and requests reach their own socket, leaks only through failures of the creating or the closing call | 5 calls, 2 slots: create, close, create again with the recycled id, with a late reply in between |
| `portmap` | shutdown returns and releases the ports | 2 loopback endpoints and a wildcard one, backlog 2, 2 connections: the backlog is full when the kick comes |
| `linux` | containers have their own addresses, addresses in use stay leased, no leak without a fault | 3 commands, 2 at a time, 2 containers, 2 addresses, 2 faults, up to the first mishap; commands and containers are symmetric: a command is killed, and another works on what it left while a third allocates |
| `linux_address` | **violated**: two containers share an address | 2 commands |
| `windows` | programs, links, grants and files follow their owners; every command ends or waits for somebody else | 3 commands, 2 at a time, 1 container, 1 fault: create or run, then two commands against each other |
| `launch` | confinement, environment, handles and sessions on every path | 2 launches of any kind: the second starts from what the first left; variables for each way one is treated, one that escapes the detection by naming the rootfs (`PROJECT`), and one (`HOME`) that both names host paths and is set by the plan |
| `staging` | the cache vouches for what it says, references, access, the host; glob and versions | 3 commands, 2 at a time, 1 linked and 1 copied file, 2 releases, 1 fault; patterns and names up to length 4, versions up to 3 numbers |
| `shims` | the program keeps working under installation; hooks are complete afterwards; the process view is exact; `start` returns unless the program holds the loader | 3 processes created, 3 PIDs, so that PIDs are reused while children of their former owner live |

The violated properties state what a comment or a page of the documentation
says; `findings` in `PROJECT.json` quotes it. Each passing property also has a
mutation of the code, kept next to the definition it changes, that makes TLC
report it.

Several properties hold only with an exception, which their statement names:
what the code leaves behind there is part of what the run shows. The exceptions
are listed under "What the models show of the code".

Type invariants that no run lists are a conjunct of the first property of
their module.

The run `linux` has the constraint `NoMishap`: its properties are about states
without a mishap, so what follows one is not explored. The run `linux_address`
has no such constraint.

Deadlock is checked where the system goes on for ever (`ring` runs out of messages
but its consumer polls on; the port mapper can always add or serve). The others
end when their calls, commands or ids are used up or their loop was left.

**Fairness.** Channel: the receiver's steps and the sender's second and third
step are weakly fair, as both are threads that the system schedules; the
receiver's loop calls again until it is left, and the handler between two calls is
taken to return. Time-outs count among the receiver's steps, while spurious
wake-ups, failing waits and the stop flag are owed to nobody, and the property
lets a loop that was left miss messages. A sender is never forced to send.
Exchange: only the daemon's loop is fair; the backend's return is not, as it
depends on remote peers, and `StopEndsDaemon` therefore assumes in its statement
that the backend returns again and again. PortMapper: accept loops and the thread
in shutdown are fair, clients and connections are not. WindowsContainer: each
psroot process is fair except where it waits for somebody else (`Waits`): for a
shell, for the loader of the program it injects into, for the threads of port
mapper and netstack, which it joins. `EveryProcessExits` says that a process exits
or stays at one of these, and that the program is dead by then except during
injection. Shims: psroot, the remote thread and the init thread are fair; the
program and the other processes are not. The program may stop the remote thread
at every step, so `StartReturns` excepts the behaviours in which it does so again
and again. The remaining modules state safety only.

## What the models show of the code

Found while modelling, in the code as it is; the violated runs show the first
two, the exceptions in the properties' statements the others marked (P).

- Network stack: after a time-out every later call of the thread fails
  (`client.rs:80`). Dropping the runtime joins the daemon, which may sit in a
  blocking host call (`netstack_runtime.rs:175`) (P).
- Port mapper: an endpoint on `0.0.0.0` cannot be kicked on Windows, and
  shutdown waits for it (`lib.rs:149`) (P).
- Linux: two commands may allocate one address (`ipam.rs:45`); `exec` deletes the
  link of the running container (`veth.rs:28`); `stop` signals nobody after `run`
  or `start` (`psroot-unix/src/lib.rs:231`). `stop` or `rm` given while a
  container runs works on the record as it found it: `rm` releases the address in
  use, and `run` writes an old address back (`lib.rs:180`, `:230`) (P). A command
  that is killed, or cannot write, after it released its address and before it
  cleared the record leaves an address there that a later `rm` releases, whoever
  has it then (`backend_linux.rs:195`) (P). `nat::cleanup` and `veth::destroy`
  fail silently and the lease is released all the same (`nat.rs:55`, `:70`,
  `veth.rs:69`): the rule or link goes on using an address that is free (P). A
  failing fork returns past the clean-up (`backend_linux.rs:103`, `:107`) (P).
- Windows containers: without a bind filter the program runs without its volumes,
  after a warning (`container.rs:754`) (P). A second `start` after one that
  failed cannot bind its own port, or ends without its bind link
  (`container.rs:227`) (P). A second process takes a running container for
  stopped (`:666`). `create` that fails leaves a directory nobody can load
  (`:86`) (P). `stop` and drop may wait for ever for a thread of the port mapper
  or of the netstack, and `start` for the program's loader (P). Grants of a shell
  are recorded after it exited and, for a silo or device map, under a name that
  is no SID (`:385`), so they are never revoked (P). `psroot start` and `psroot
  run` stop the container when they return, because the object is dropped.
- Launch: `docs/isolation.md:41` says "Every container runs inside a Windows Job
  Object", but shells, GUI programs and the device map launch are in none, and
  the comment at `sandbox.rs:1799` promises a fall-back to the AppContainer where
  the code falls back to the device map, which has none (P: `OutsideJob`,
  `OutsideContainer`). `README.md:137` says "Host environment variables are
  **completely replaced** inside the container" and `docs/isolation.md:37`
  "Dynamic variables containing host path fragments are also detected and
  removed", but the detection is three substring tests (`sandbox.rs:797`): a
  value with other host paths (`ComSpec`, `ALLUSERSPROFILE`) is inherited, and so
  is one that names a user's directory and the rootfs (P). The inbound loopback
  session stays open after an early return between its start and the launch, and
  after `spawn_with_appcontainer` and the asynchronous GUI launch (P:
  `LeftOpen`). `restore_env` restores neither the variables of the configuration
  nor those saved twice (one that the list names in two spellings, and every
  sanitized variable or one with host paths that the plan sets too), and errors
  of the silo path restore nothing (P). Desktop and SID errors of GUI launches
  lose handles, or a running program (P). The app of `psroot gui` inherits the
  host's environment and is in no job (P). After a device map launch `C:` is the
  rootfs for psroot itself.
- Staging: overlapping commands lose references (P). A copied file may be written
  again under a running shell (P); a failed copy is only logged, and a file whose
  copying was cut short may pass for whole because only its size is compared (P).
  An upgrade between resolving and staging mixes versions in one directory (P).
  Sharing `ProgramData` without `Windows` relabels the host's directory (P).
- Shims: the program runs before the shims are injected, although `dllmain.rs`
  says that it cannot race past them; until the installation is over calls go to
  the system, a half-written stub may be executed, and a hook of procshim entered
  before its original is stored ends the program (P). A function imported by
  ordinal, or whose slot cannot be written, is never hooked (`iat.rs:144`,
  `:174`): it takes the shim's handles to the system, and answers with the raw
  list (P). A program that holds the loader lock keeps `start` waiting
  (`lib.rs:210`) (P). The view is exact only for processes whose ancestors live:
  a reused parent PID shows a host process, a child of a process that is gone is
  hidden (P).

## Proofs

The theorems hold for all values of the constants that satisfy the assumptions
named in the modules; TLC evaluates each assumption on its runs. Where a module
has a value for "nothing" (`None`, `Torn`), `NoneAssumption` says that it is none
of the others. The bounds on calls, commands, connections and faults are
constants too, so a theorem covers every number of them.

- **Ring.** `RingAssumption` says of the code that there are at least two slots
  and that the index space (2^64) is a larger multiple of the slot count (a
  power of two): without it the slot number would jump when an index wraps. The
  theorems add `OnePerSide`, one producer and one consumer, which the ring
  requires of its users. `NoDataRace` is not inductive: that the two sides
  work on different slots follows from how many messages lie between them.
  `RingInv` therefore ties the wrapped indices to the counts of messages
  published and released (`IndicesCount`), says that each side owns the slot it
  works on (`ProducerOwnsNext`, `ConsumerOwnsOldest`) and what is in the slots
  in between (`PendingInSlots`). The arithmetic, that two counts less than
  `SlotCount` apart fall on different slots and that wrapping subtraction
  recovers their difference, is in lemmas that the steps cite.
  `RingCorrect` proves `RingInv`, `RingTypes` and `RingRaceFree` follow, and
  `RingIsFifo` shows that each step is a step of Fifo or a stutter.
- **Channel.** `NoLostWake` becomes inductive with `PostIsSeen`: from the moment
  the receiver finds the ring empty, a later message leaves a trace in the word
  or in the sender's position. `WakeCorrect` proves it, `WakeNotLost` follows.
- **Exchange.** `ExchangeAssumption` has more correlation ids than calls: the
  2^32 ids of the code do not come round within a run. `OwnStatus` is inductive
  with `IdsInv` (an id in the rings or with the daemon is the id of its call),
  `ClientsApart`, `PendingOnce` (a call that is not answered is in one place) and
  `Answered` (what is posted is the answer to the call it names); `StatusIsOwn`
  holds for any number of threads. So does `DataIsOwn`: no call collects a
  foreign fragment. `AnswerIsWhole`, that nothing is missing from an answer
  either, needs the hypothesis `OneThread`, which is what `client.rs` asks of its
  users; with two threads one may take a fragment of the other. Its invariant
  adds `InOrder` (requests in the order of the calls, nothing behind the newest)
  and `InSequence`: the ring holds late replies first, then the fragments that
  follow the ones the call has, and the rest is with the daemon.
- **Sockets.** `HandleReachesOwn` and `RequestReachesOwn` rest on each other and
  on the order of the two rings: a handle means its socket because the close
  request is the last one for it (`CloseLast`), a request because no id is
  recycled before its close was executed, and a new id because a reply that is
  accepted belongs to the call that waits (`RepliesReach`). `Numbering` orders
  calls, requests, replies and sockets, `FreeExact` and `Unique` are about the
  table, `closer` ties a socket whose handle is closed to the call that closed
  it. All four properties of the module follow from the one invariant.
- **PortMapper.** `PortsReleased` is inductive with: an accept loop belongs to an
  entry of the mapper's list or of the list a shutdown works on (`LoopsListed`),
  the loops before the one being joined have ended (`JoinedEnded`), and what
  keeps backlog and connections in their bounds.
- **WindowsContainer.** The invariant is mostly local to a process: the step it
  is at determines what its object and its call hold (`CageOk`), whether there is
  an object (`ObjectOk`), and what calls can remain (`ShellOk`). `StepSeqs` and
  `CallSeqs` list the sequences that occur. On top of that: `RunningOk` for
  programs; `LinkOk`, that a bind link is held by the object of a living process
  unless one was killed; `StartsOk`, that in a container started once only one
  process has anything of `start`, and its link exists; `FileOk`, that an
  unfinished `state.json` has a process about to write it, and one that says
  "running" a process that will write it again or remove it (`Settles`); `CalmOk`
  and `Owes`, that in a container with one command and no fault a grant of its
  SID is still to be recorded, or recorded and about to be revoked. One lemma per
  part (`RunningStep`, `LinkStep`, `StartsStep`, `FileStep`, `CalmStep`) says
  what a step of one process must do to keep it, and one lemma per action checks
  that it does. The five invariants of the run follow, `ProgramHasCage` with the
  types.
- **LinuxContainer.** The theorems hold for any number of commands at the same
  time, of containers, addresses and faults. What they except is in the
  properties: states after a mishap between two commands, and remnants of a
  clean-up that failed. `LeaseCovers` is not inductive, as `rm` releases the
  address it finds in the record, whoever has it now. The invariant speaks of all
  addresses that belong to a container: those in use (`Used`), the one in its
  record unless a command is about to clear it (`Recorded`), and those a command
  holds, because it uses them, is releasing them, or has them in its copy of the
  record (`Held`). Without a mishap (`Safe`) each is leased (`Covered`), belongs
  to one container (`Apart`) and is held by one command (`Alone`); what a command
  releases is in use nowhere (`Loose`), the address in its copy is not the one it
  uses (`Distinct`), and nobody replaces the lease file under a command that read
  it (`OneWriter`, `View`). Without a fault either, `Tidy` names for each lease,
  link, rule and recorded address the command that will take it away.
  `TypeCorrect` needs neither. That `ipam` finds an address is a lemma about the
  least element of a set of naturals (`Least`).
- **Launch.** `LaunchAssumption` relates the sets of variables and takes the
  environment to be finite; which values pass which of the substring tests, which
  variables the configuration and the plan set, and the number of launches, is
  free. The invariant is a table over the ten
  functions and their steps: which guards and handles are held (`HeldOk`), what
  the child is (`ChildOk`), whether the environment is the sandbox's or psroot's
  own (`EnvOk`) and whether a loopback session is open (`SessionOk`). `Track` ties
  `todo` to the end of some function's steps, and one lemma per function
  (`Chain...`) lists which step follows which, so that an action's lemma is about
  steps instead of sequences. The environment needs more than its present value:
  `Restores` says that writing back the saved list, in its order, gives each
  variable that was saved once its value before the launch. Behind it are lemmas
  about `restore_env` (`RestoredValue`: the last entry for a variable counts) and
  about the two lists of saved values (`SavedList`, `PlanList`). This proof showed
  that `EnvironmentBack` had been stated for too many variables: one with host
  paths that the plan also sets is saved twice as well. TLC found the same once
  the run had such a variable, and the statement now excepts it.

Each inductive invariant was checked with TLC before it was proved.

Only model-checked: liveness (the prover has neither fairness nor `ENABLED`):
`EveryMessageReceived`, `StopEndsDaemon`, `ShutdownReturns`, `EveryProcessExits`,
`StartReturns`. Staging and Shims: both reach recursive operators (the matcher
and the version order, the closure and the walk), with which the prover
loses its SMT backend, and that the matcher or the filter computes what its
definition says for every input needs an induction over data, which it
cannot do. Their invariants (`CacheComplete`, `CopiedOrCopying`,
`ReferencesExact`, `UsableWhileRunning`, `HostUntouched`, `ProgramKeepsWorking`,
`HookedOnceInstalled`, `ViewExact`) and the two comparisons (`GlobAgrees`,
`VersionsOrdered`) are therefore checked on the runs' instances only.

## Plan

What could come next:

1. Several application threads in the shim, with the lock that `lib.rs` lists
   as open work, and without; addresses of the NAT backend (`getsockname`).
2. Linux: the READY/GO hand-shake of `child_setup_and_exec` and `start_detached`.
3. The transitions of Staging and Shims in modules without the recursive
   operators, and theorems about them.

## Not modelled

Byte layouts, path handling, formatting and logging; the Windows and kernel calls
behind the wrappers (tokens, ACEs, mounts), which succeed or fail; the contents
of catalogs, plans and capability lists; which files an app consists of
(`app_stage.rs`); window enumeration and screenshots of desktops; job limits and
accounting; `accept` and `shutdown` of sockets, for which no hook exists;
commands that only read (`list`, `inspect`, `stats`) and the CLI's self-tests;
the mapping of shared memory (RAII around two calls); `iat.rs` of procshim, which
nothing calls; the macOS backends, which drive external tools.
