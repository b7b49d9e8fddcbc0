---------------------------- MODULE LinuxProofs ----------------------------
(***************************************************************************)
(* What Linux containers keep, for any number of commands at the same      *)
(* time, of containers, addresses and faults.                              *)
(*                                                                         *)
(* Types always hold.  As long as no mishap happened between two commands, *)
(* every address in use, recorded or held by a command is leased and       *)
(* belongs to one container, and no two commands hold the same one.        *)
(* Without a fault every lease, link, rule and recorded address belongs to *)
(* a command in progress that will take it away.                           *)
(***************************************************************************)
EXTENDS LinuxContainer, FiniteSetTheorems, TLAPS

-----------------------------------------------------------------------------
(* The invariant *)

Releasing == {"release", "release_tmp", "release_rename"}
Linked == {"fork", "dnat", "ip_load", "ip_save", "wait", "teardown"}
Holding == {"veth"} \cup Linked
Clearing == {"clear_load", "clear_save", "rmdir"}
Window == {"alloc_tmp", "alloc_rename", "release_tmp", "release_rename"}
Pcs == {"idle", "running", "prepare", "mark", "unlink", "stopped"}
          \cup Window \cup Releasing \cup Holding \cup Clearing

Process == [pc : Pcs, cmd : AllCommands \cup {"none"}, c : Containers \cup {None},
            mem : Record \cup {None}, ip : MaybeAddr, view : SUBSET Addrs,
            freed : MaybeAddr, ret : {"idle", "rmdir", "fork", "clear_load"}]

\* What a command has in memory at each of its steps.
Local(r) ==
    /\ r.pc = "idle" => r = IdleProc
    /\ r.pc # "idle" => r.c \in Containers
    /\ r.mem = None <=> r.cmd \in {"exec", "none"}
    /\ r.cmd = "none" => r.pc = "idle"
    /\ r.cmd = "exec" => r.pc \notin {"running", "mark", "unlink", "stopped"}
    /\ r.cmd # "create"
    /\ r.cmd = "rm" => r.pc \in {"unlink", "rmdir"} \cup Releasing
    /\ r.cmd = "run" => r.mem = [ip |-> None]
    /\ r.pc \in {"alloc_tmp", "alloc_rename", "veth", "dnat", "ip_load", "ip_save", "teardown"}
          => r.ip \in Addrs
    /\ r.pc \in {"running", "prepare", "stopped", "unlink"} => r.ip = None
    /\ r.pc \in Releasing => r.freed \in Addrs /\ r.ret # "idle"
    /\ r.pc \in Releasing /\ r.ret # "clear_load" => r.ip = None
    /\ r.cmd = "start" => r.pc # "unlink"
    /\ r.cmd = "stop" => r.pc = "mark"
    /\ r.cmd = "rm" /\ r.pc \in Releasing => r.ret = "rmdir"
    /\ r.cmd # "rm" /\ r.pc \in Releasing => r.ret # "rmdir"

FilesOk ==
    /\ rec \in [Containers -> Record \cup {None}]
    /\ rootfs \in [Containers -> {"new", "there", "gone"}]
    /\ leases \in SUBSET Addrs
    /\ tmp = None \/ tmp \in SUBSET Addrs
    /\ link \in [Containers -> MaybeAddr]
    /\ dnat \in [Containers -> SUBSET Addrs]
    /\ orphans \in SUBSET [c : Containers, ip : MaybeAddr]
    /\ commands \in 0 .. MaxCommands
    /\ faults \in 0 .. MaxFaults
    /\ left \in [Containers -> SUBSET Addrs]
    /\ mishaps \in SUBSET {"race", "stale", "behind"}

Types ==
    /\ FilesOk
    /\ proc \in [Procs -> Process]
    /\ \A p \in Procs : Local(proc[p])

\* The leased addresses a command holds: the one it uses, the one it is releasing
\* and the one in its copy of the record that it will write back or release.
Held(r) ==
    {a \in Addrs : \/ r.pc \in Holding /\ r.ip = a
                   \/ r.pc \in Releasing /\ r.freed = a
                   \/ (r.cmd \in {"start", "stop"} \/ r.pc = "unlink") /\ r.mem = [ip |-> a]}

\* The address a container's record names, unless a command has released it and
\* is about to clear it there.
Recorded(c) ==
    {a \in Addrs : /\ rec[c] = [ip |-> a]
                   /\ \A p \in Procs : proc[p].c = c /\ proc[p].pc \in Clearing => proc[p].freed # a}

\* All the addresses that belong to a container.
Belongs(c, a) ==
    \/ a \in Used(c)
    \/ a \in Recorded(c)
    \/ \E p \in Procs : proc[p].c = c /\ a \in Held(proc[p])

Covered == \A c \in Containers, a \in Addrs : Belongs(c, a) => a \in leases
Apart == \A c, d \in Containers, a \in Addrs : Belongs(c, a) /\ Belongs(d, a) => c = d
Alone == \A p, q \in Procs : p # q => Held(proc[p]) \cap Held(proc[q]) = {}

\* What a command gives back is in use nowhere, nor is what it has not used yet.
Loose(r) ==
    /\ r.pc = "veth" => r.ip \notin Used(r.c) \cup Recorded(r.c)
    /\ r.pc \in Releasing => r.freed \notin Used(r.c)
    /\ r.pc \in Releasing /\ r.ret = "fork" => r.freed \notin Recorded(r.c)

\* The address in the copy of the record is another one than the command uses.
Distinct(r) ==
    r.cmd = "start" =>
        /\ r.pc \in Holding => r.ip = None \/ r.mem # [ip |-> r.ip]
        /\ r.pc \in Releasing => r.mem # [ip |-> r.freed]

\* Nobody replaces the lease file behind a command that read it.
View(r) ==
    /\ r.pc \in {"alloc_tmp", "alloc_rename"} => r.ip \notin leases /\ r.view = leases \cup {r.ip}
    /\ r.pc \in {"release_tmp", "release_rename"} => r.view = leases \ {r.freed}
    /\ r.pc \in {"alloc_rename", "release_rename"} => tmp = r.view
OneWriter == \A p, q \in Procs : proc[p].pc \in Window /\ proc[q].pc \in Window => p = q

Safe ==
    /\ Covered
    /\ Apart
    /\ Alone
    /\ OneWriter
    /\ \A p \in Procs : Loose(proc[p]) /\ Distinct(proc[p]) /\ View(proc[p])

\* What a command has still to take away: the link and the rules, the address in
\* the record.
Unlinks(r) == {a \in Addrs : r.pc \in Linked /\ r.ip = a}
Clears(r) ==
    {a \in Addrs : r.pc \in {"wait", "teardown", "clear_load", "clear_save"} \cup Releasing /\ r.ip = a}

Tidy ==
    /\ \A a \in leases : \E p \in Procs : a \in Held(proc[p])
    /\ \A c \in Containers, a \in Addrs : a \in Used(c) =>
          \E p \in Procs : proc[p].c = c /\ a \in Unlinks(proc[p])
    /\ \A c \in Containers, a \in Addrs : rec[c] = [ip |-> a] =>
          \E p \in Procs : proc[p].c = c /\ a \in Clears(proc[p])
    /\ \A p \in Procs : proc[p].mem \in {None, [ip |-> None]}

Inv == Types /\ (NoMishap => Safe) /\ (NoMishap /\ faults = 0 => Tidy)

-----------------------------------------------------------------------------
(* The pool *)

\* Every non-empty set of naturals has a least element: of the intervals from 0
\* to its elements one contains no other.
LEMMA Least ==
    ASSUME NEW S, S \subseteq Nat, S # {}
    PROVE  Min(S) \in S
<1> DEFINE T == {0 .. n : n \in S}
<1>1. T \subseteq FiniteSubsetsOf(Nat)
  <2> SUFFICES ASSUME NEW n \in S PROVE 0 .. n \in FiniteSubsetsOf(Nat)
    OBVIOUS
  <2>1. IsFiniteSet(0 .. n)
    BY FS_Interval
  <2> QED  BY <2>1 DEF FiniteSubsetsOf
<1>2. T # {}
  OBVIOUS
<1>3. IsWellFoundedOn(StrictSubsetOrdering(Nat), FiniteSubsetsOf(Nat))
  BY FS_StrictSubsetOrderingWellFounded
<1>4. PICK x \in T : \A y \in T : ~ (<<y, x>> \in StrictSubsetOrdering(Nat))
  <2> HIDE DEF T
  <2> QED  BY <1>1, <1>2, <1>3, WFMin
<1>5. PICK m \in S : x = 0 .. m
  OBVIOUS
<1>6. \A n \in S : m <= n
  <2> SUFFICES ASSUME NEW n \in S, n < m PROVE FALSE
    OBVIOUS
  <2>1. 0 .. n \in T
    OBVIOUS
  <2>2. 0 .. n \subseteq 0 .. m /\ m \notin 0 .. n /\ m \in 0 .. m
    OBVIOUS
  <2>3. <<0 .. n, x>> \in StrictSubsetOrdering(Nat)
    BY <2>2, <1>5 DEF StrictSubsetOrdering
  <2> QED  BY <2>1, <2>3, <1>4
<1> QED  BY <1>6 DEF Min

\* The address ipam hands out is in the pool and not leased.
LEMMA LowestFree ==
    ASSUME Addrs \ leases # {}
    PROVE  Lowest(Addrs \ leases) \in Addrs \ leases
BY Least, LinuxAssumption DEF Lowest

-----------------------------------------------------------------------------
(* A step of one command *)

\* A command's step writes its own memory only.
Moved(p, d) == proc' = [proc EXCEPT ![p] = d]

\* What such a step does to the memory of the commands.
LEMMA Assigned ==
    ASSUME NEW p \in Procs, Types, NEW d \in Process, Local(d), Moved(p, d)
    PROVE  /\ proc' \in [Procs -> Process]
           /\ \A q \in Procs : Local(proc'[q])
           /\ proc'[p] = d
           /\ \A q \in Procs \ {p} : proc'[q] = proc[q]
BY DEF Moved, Types

\* Only a command that works on a container holds an address.
LEMMA HeldFacts ==
    ASSUME Types, NEW p \in Procs
    PROVE  /\ proc[p] \in Process /\ Local(proc[p])
           /\ proc[p].c = None => proc[p] = IdleProc
           /\ Held(IdleProc) = {}
           /\ \A a \in Held(proc[p]) : a \in Addrs /\ proc[p].c \in Containers
<1>1. proc[p] \in Process /\ Local(proc[p])
  BY DEF Types
<1>2. proc[p].c = None => proc[p] = IdleProc
  BY <1>1, LinuxAssumption DEF Local
<1>3. Held(IdleProc) = {}
  BY DEF Held, IdleProc, Holding, Linked, Releasing
<1>4. proc[p].c \in Containers \cup {None}
  BY <1>1 DEF Process
<1> QED  BY <1>1, <1>2, <1>3, <1>4 DEF Held

\* A step on a container: that of the command, before and after, or none; nothing
\* of another container changes.
On(p, d, c) ==
    /\ proc[p].c \in {c, None} /\ d.c \in {c, None}
    /\ \A e \in Containers \ {c} :
          rec'[e] = rec[e] /\ link'[e] = link[e] /\ dnat'[e] = dnat[e] /\ left'[e] = left[e]

\* What belongs to other containers, and what it rests on, stays the same.
LEMMA OtherContainers ==
    ASSUME Types, NEW p \in Procs, NEW d \in Process, Local(d), Moved(p, d),
           NEW c \in Containers, On(p, d, c), NEW e \in Containers, e # c
    PROVE  /\ Used(e)' = Used(e)
           /\ Recorded(e)' = Recorded(e)
           /\ \A q \in Procs : proc'[q].c = e => q # p /\ proc'[q] = proc[q]
           /\ \A q \in Procs : proc[q].c = e => q # p /\ proc'[q] = proc[q]
<1>1. /\ proc'[p] = d /\ \A q \in Procs \ {p} : proc'[q] = proc[q]
      /\ proc[p].c # e /\ d.c # e
  BY Assigned, LinuxAssumption DEF On
<1>2. Used(e)' = Used(e)
  BY DEF On, Used
<1>3. \A a : (\A q \in Procs : proc'[q].c = e /\ proc'[q].pc \in Clearing => proc'[q].freed # a)
         <=> (\A q \in Procs : proc[q].c = e /\ proc[q].pc \in Clearing => proc[q].freed # a)
  BY <1>1
<1>4. Recorded(e)' = Recorded(e)
  BY <1>3 DEF On, Recorded
<1> QED  BY <1>1, <1>2, <1>4

\* When what is used, recorded or held for the container belonged to it before or
\* is the new address x, nothing else comes to belong to a container.
LEMMA BelongsStep ==
    ASSUME Types, NEW p \in Procs, NEW d \in Process, Local(d), Moved(p, d),
           NEW c \in Containers, On(p, d, c), NEW x,
           \A a \in Addrs : a \in Used(c)' => a \in Used(c) \/ a \in Held(proc[p]),
           \A a \in Addrs : a \in Recorded(c)' => a \in Recorded(c) \/ a \in Held(proc[p]),
           \A a \in Addrs : a \in Held(d) => a \in Held(proc[p]) \/ a = x \/ a \in Recorded(c)
    PROVE  \A e \in Containers, a \in Addrs : Belongs(e, a)' => Belongs(e, a) \/ (e = c /\ a = x)
<1> SUFFICES ASSUME NEW e \in Containers, NEW a \in Addrs, Belongs(e, a)'
             PROVE  Belongs(e, a) \/ (e = c /\ a = x)
  OBVIOUS
<1>1. a \in Used(e)' \/ a \in Recorded(e)' \/ \E q \in Procs : proc'[q].c = e /\ a \in Held(proc'[q])
  BY DEF Belongs, Held
<1>2. CASE e # c
  <2>1. /\ Used(e)' = Used(e) /\ Recorded(e)' = Recorded(e)
        /\ \A q \in Procs : proc'[q].c = e => proc'[q] = proc[q]
    BY <1>2, OtherContainers
  <2> QED  BY <1>1, <2>1 DEF Belongs
<1>3. CASE e = c
  <2>1. a \in Held(proc[p]) => proc[p].c = c
    BY HeldFacts, LinuxAssumption DEF On
  <2>2. a \in Held(proc[p]) => Belongs(c, a)
    BY <2>1 DEF Belongs
  <2>3. CASE a \in Used(e)' \/ a \in Recorded(e)'
    BY <1>3, <2>2, <2>3 DEF Belongs
  <2>4. ASSUME NEW q \in Procs, proc'[q].c = e, a \in Held(proc'[q])
        PROVE  Belongs(e, a) \/ a = x
    <3>1. CASE q = p
      BY <1>3, <2>2, <2>4, <3>1, Assigned DEF Belongs
    <3>2. CASE q # p
      BY <2>4, <3>2, Assigned DEF Belongs
    <3> QED  BY <3>1, <3>2
  <2> QED  BY <1>1, <1>3, <2>3, <2>4
<1> QED  BY <1>2, <1>3

\* A step that keeps every address leased, gives the command no address of another
\* one and leaves the lease file alone unless it was the only one to have read it.
LEMMA SafeStep ==
    ASSUME Types, Safe, NEW p \in Procs, NEW d \in Process, Local(d), Moved(p, d),
           NEW c \in Containers, On(p, d, c), NEW x, x \notin leases,
           \A a \in Addrs : a \in Used(c)' => a \in Used(c) \/ a \in Held(proc[p]),
           \A a \in Addrs : a \in Recorded(c)' => a \in Recorded(c) \/ a \in Held(proc[p]),
           \A a \in Addrs : a \in Held(d) =>
              \/ a \in Held(proc[p])
              \/ a = x
              \/ a \in Recorded(c) /\ \A q \in Procs \ {p} : proc[q].c # c,
           \A e \in Containers, a \in Addrs : Belongs(e, a)' => a \in leases',
           Loose(d)', Distinct(d), View(d)',
           d.pc \in Window => proc[p].pc \in Window \/ \A q \in Procs \ {p} : proc[q].pc \notin Window,
           (leases' = leases /\ tmp' = tmp) \/ proc[p].pc \in Window
    PROVE  Safe'
<1>1. proc'[p] = d /\ \A q \in Procs \ {p} : proc'[q] = proc[q]
  BY Assigned
<1>2. \A e \in Containers, a \in Addrs : Belongs(e, a)' => Belongs(e, a) \/ (e = c /\ a = x)
  BY BelongsStep
<1>3. \A q \in Procs : \A a \in Held(proc[q]) :
         a \in Addrs /\ proc[q].c \in Containers /\ Belongs(proc[q].c, a) /\ a \in leases
  BY HeldFacts DEF Safe, Covered, Belongs
<1>4. Covered'
  BY DEF Covered
<1>5. Apart'
  <2> SUFFICES ASSUME NEW e \in Containers, NEW f \in Containers, NEW a \in Addrs,
                      Belongs(e, a)', Belongs(f, a)'
               PROVE  e = f
    BY DEF Apart
  <2>1. Belongs(e, a) \/ (e = c /\ a = x)
    BY <1>2
  <2>2. Belongs(f, a) \/ (f = c /\ a = x)
    BY <1>2
  <2>3. Belongs(e, a) \/ Belongs(f, a) => a # x
    BY DEF Safe, Covered
  <2> QED  BY <2>1, <2>2, <2>3 DEF Safe, Apart
<1>6. \A q \in Procs \ {p} : Held(d) \cap Held(proc[q]) = {}
  <2> SUFFICES ASSUME NEW q \in Procs \ {p}, NEW a, a \in Held(d), a \in Held(proc[q])
               PROVE  FALSE
    OBVIOUS
  <2>1. a \in Addrs /\ a \in leases /\ proc[q].c \in Containers /\ Belongs(proc[q].c, a)
    BY <1>3
  <2>2. a \notin Held(proc[p])
    BY DEF Safe, Alone
  <2>3. a \in Recorded(c) /\ proc[q].c # c
    BY <2>1, <2>2
  <2>4. Belongs(c, a)
    BY <2>3 DEF Belongs
  <2> QED  BY <2>1, <2>3, <2>4 DEF Safe, Apart
<1>7. Alone'
  <2> SUFFICES ASSUME NEW q \in Procs, NEW s \in Procs, q # s
               PROVE  Held(proc'[q]) \cap Held(proc'[s]) = {}
    BY DEF Alone, Held
  <2>1. CASE q = p
    BY <1>1, <1>6, <2>1
  <2>2. CASE s = p
    BY <1>1, <1>6, <2>2
  <2>3. CASE q # p /\ s # p
    BY <1>1, <2>3 DEF Safe, Alone
  <2> QED  BY <2>1, <2>2, <2>3
<1>8. OneWriter'
  BY <1>1 DEF Safe, OneWriter
<1>9. ASSUME NEW q \in Procs PROVE (Loose(proc[q]) /\ Distinct(proc[q]) /\ View(proc[q]))'
  <2>1. CASE q = p
    BY <1>1, <2>1 DEF Loose, Distinct, View
  <2>2. CASE q # p
    <3>1. proc'[q] = proc[q] /\ Loose(proc[q]) /\ Distinct(proc[q]) /\ View(proc[q])
      BY <1>1, <2>2 DEF Safe
    <3>2. Distinct(proc[q])'
      BY <3>1 DEF Distinct
    <3>3. View(proc[q])'
      <4>1. CASE leases' = leases /\ tmp' = tmp
        BY <3>1, <4>1 DEF View
      <4>2. CASE proc[p].pc \in Window
        <5>1. proc[q].pc \notin Window
          BY <2>2, <4>2 DEF Safe, OneWriter
        <5> QED  BY <3>1, <5>1 DEF View, Window
      <4> QED  BY <4>1, <4>2
    <3>4. ASSUME NEW a, a \in Held(proc[q]), proc[q].c = c
          PROVE  (a \notin Used(c) => a \notin Used(c)') /\ (a \notin Recorded(c) => a \notin Recorded(c)')
      <4>1. a \in Addrs /\ a \notin Held(proc[p])
        BY <1>3, <2>2, <3>4 DEF Safe, Alone
      <4> QED  BY <4>1
    <3>5. /\ proc[q].pc = "veth" => proc[q].ip \in Held(proc[q])
          /\ proc[q].pc \in Releasing => proc[q].freed \in Held(proc[q])
          /\ proc[q].pc \in {"veth"} \cup Releasing => proc[q].c \in Containers
      BY HeldFacts DEF Local, Held, Holding, Releasing
    <3>6. Loose(proc[q])'
      <4>1. CASE proc[q].c = c
        BY <3>1, <3>4, <3>5, <4>1 DEF Loose
      <4>2. CASE proc[q].c # c /\ proc[q].c \in Containers
        BY <3>1, <4>2, OtherContainers DEF Loose
      <4>3. CASE proc[q].c \notin Containers
        BY <3>1, <3>5, <4>3 DEF Loose
      <4> QED  BY <4>1, <4>2, <4>3
    <3> QED  BY <3>2, <3>3, <3>6
  <2> QED  BY <2>1, <2>2
<1> QED  BY <1>4, <1>5, <1>7, <1>8, <1>9 DEF Safe

\* A step that leaves nothing to nobody: what the command had to take away is gone
\* or still its own.
LEMMA TidyStep ==
    ASSUME Types, Tidy, NEW p \in Procs, NEW d \in Process, Local(d), Moved(p, d),
           NEW c \in Containers, On(p, d, c),
           \A a \in leases' : a \in Held(d) \/ (a \in leases /\ a \notin Held(proc[p])),
           \A a \in Addrs : a \in Used(c)' =>
              (d.c = c /\ a \in Unlinks(d)) \/ (a \in Used(c) /\ a \notin Unlinks(proc[p])),
           \A a \in Addrs : rec'[c] = [ip |-> a] =>
              (d.c = c /\ a \in Clears(d)) \/ (rec[c] = [ip |-> a] /\ a \notin Clears(proc[p])),
           d.mem \in {None, [ip |-> None]}
    PROVE  Tidy'
<1>1. proc'[p] = d /\ \A q \in Procs \ {p} : proc'[q] = proc[q]
  BY Assigned
<1>2. ASSUME NEW a \in leases' PROVE \E q \in Procs : a \in Held(proc'[q])
  BY <1>1 DEF Tidy
<1>3. ASSUME NEW e \in Containers, NEW a \in Addrs, a \in Used(e)'
      PROVE  \E q \in Procs : proc'[q].c = e /\ a \in Unlinks(proc'[q])
  <2>1. CASE e = c /\ d.c = c /\ a \in Unlinks(d)
    BY <1>1, <2>1
  <2>2. CASE e = c /\ a \in Used(c) /\ a \notin Unlinks(proc[p])
    BY <1>1, <2>2 DEF Tidy
  <2>3. CASE e # c
    <3>1. a \in Used(e) /\ \A q \in Procs : proc[q].c = e => proc'[q] = proc[q]
      BY <1>3, <2>3, OtherContainers
    <3> QED  BY <3>1 DEF Tidy
  <2> QED  BY <1>3, <2>1, <2>2, <2>3
<1>4. ASSUME NEW e \in Containers, NEW a \in Addrs, rec'[e] = [ip |-> a]
      PROVE  \E q \in Procs : proc'[q].c = e /\ a \in Clears(proc'[q])
  <2>1. CASE e = c /\ d.c = c /\ a \in Clears(d)
    BY <1>1, <2>1
  <2>2. CASE e = c /\ rec[c] = [ip |-> a] /\ a \notin Clears(proc[p])
    BY <1>1, <2>2 DEF Tidy
  <2>3. CASE e # c
    <3>1. rec[e] = [ip |-> a] /\ \A q \in Procs : proc[q].c = e => proc'[q] = proc[q]
      BY <1>4, <2>3, OtherContainers DEF On
    <3> QED  BY <3>1 DEF Tidy
  <2> QED  BY <1>4, <2>1, <2>2, <2>3
<1>5. \A q \in Procs : proc'[q].mem \in {None, [ip |-> None]}
  BY <1>1 DEF Tidy
<1> QED  BY <1>2, <1>3, <1>4, <1>5 DEF Tidy, Held, Unlinks, Clears

\* A step that does not replace the lease file.
LEMMA StepInv ==
    ASSUME Inv, NEW p \in Procs, NEW d \in Process, Local(d), Moved(p, d), FilesOk',
           NEW c \in Containers, On(p, d, c),
           leases' = leases, mishaps \subseteq mishaps', tmp' = tmp \/ proc[p].pc \in Window,
           NoMishap /\ Safe /\ NoMishap' =>
              /\ \A a \in Addrs : a \in Used(c)' => a \in Used(c) \/ a \in Held(proc[p])
              /\ \A a \in Addrs : a \in Recorded(c)' => a \in Recorded(c) \/ a \in Held(proc[p])
              /\ \A a \in Addrs : a \in Held(d) =>
                    \/ a \in Held(proc[p])
                    \/ a \in Recorded(c) /\ \A q \in Procs \ {p} : proc[q].c # c
              /\ Loose(d)' /\ Distinct(d) /\ View(d)'
              /\ d.pc \in Window =>
                    proc[p].pc \in Window \/ \A q \in Procs \ {p} : proc[q].pc \notin Window,
           faults' = 0 => faults = 0,
           Tidy /\ NoMishap' /\ faults' = 0 =>
              /\ Held(proc[p]) \subseteq Held(d)
              /\ \A a \in Addrs : a \in Used(c)' =>
                    (d.c = c /\ a \in Unlinks(d)) \/ (a \in Used(c) /\ a \notin Unlinks(proc[p]))
              /\ \A a \in Addrs : rec'[c] = [ip |-> a] =>
                    (d.c = c /\ a \in Clears(d)) \/ (rec[c] = [ip |-> a] /\ a \notin Clears(proc[p]))
              /\ d.mem \in {None, [ip |-> None]}
    PROVE  Inv'
<1>1. Types /\ Types'
  BY Assigned DEF Inv, Types
<1>2. ASSUME NoMishap' PROVE NoMishap /\ Safe'
  <2>1. NoMishap /\ Safe
    BY <1>2 DEF NoMishap, Inv
  <2>2. /\ \A a \in Addrs : a \in Used(c)' => a \in Used(c) \/ a \in Held(proc[p])
        /\ \A a \in Addrs : a \in Recorded(c)' => a \in Recorded(c) \/ a \in Held(proc[p])
        /\ \A a \in Addrs : a \in Held(d) =>
              \/ a \in Held(proc[p])
              \/ a \in Recorded(c) /\ \A q \in Procs \ {p} : proc[q].c # c
        /\ Loose(d)' /\ Distinct(d) /\ View(d)'
        /\ d.pc \in Window =>
              proc[p].pc \in Window \/ \A q \in Procs \ {p} : proc[q].pc \notin Window
    BY <1>2, <2>1
  <2>3. None \notin leases /\ None \notin Addrs
    BY <1>1, LinuxAssumption DEF Types, FilesOk
  <2>4. \A e \in Containers, a \in Addrs : Belongs(e, a)' => Belongs(e, a) \/ (e = c /\ a = None)
    BY <1>1, <2>2, BelongsStep
  <2>5. \A e \in Containers, a \in Addrs : Belongs(e, a)' => a \in leases'
    BY <2>1, <2>3, <2>4 DEF Safe, Covered
  <2>6. Safe'
    BY <1>1, <2>1, <2>2, <2>3, <2>5, SafeStep
  <2> QED  BY <2>1, <2>6
<1>3. ASSUME NoMishap', faults' = 0 PROVE Tidy'
  <2>1. Tidy
    BY <1>2, <1>3 DEF Inv
  <2> QED  BY <1>1, <1>3, <2>1, TidyStep
<1> QED  BY <1>1, <1>2, <1>3 DEF Inv

\* A record that the step leaves alone names no address anew, unless the command
\* no longer clears it.
LEMMA RecordKept ==
    ASSUME Types, NEW p \in Procs, NEW d \in Process, Local(d), Moved(p, d), NEW c \in Containers,
           rec'[c] = rec[c],
           proc[p].c = c /\ proc[p].pc \in Clearing /\ proc[p].freed \in Addrs
              /\ rec[c] = [ip |-> proc[p].freed] =>
              d.c = c /\ d.pc \in Clearing /\ d.freed = proc[p].freed
    PROVE  \A a \in Addrs : a \in Recorded(c)' => a \in Recorded(c)
<1>1. proc'[p] = d /\ \A q \in Procs \ {p} : proc'[q] = proc[q]
  BY Assigned
<1> SUFFICES ASSUME NEW a \in Addrs, a \in Recorded(c)' PROVE a \in Recorded(c)
  OBVIOUS
<1>2. /\ rec[c] = [ip |-> a]
      /\ \A q \in Procs : proc'[q].c = c /\ proc'[q].pc \in Clearing => proc'[q].freed # a
  BY DEF Recorded
<1>3. ASSUME NEW q \in Procs, proc[q].c = c, proc[q].pc \in Clearing PROVE proc[q].freed # a
  BY <1>1, <1>2, <1>3
<1> QED  BY <1>2, <1>3 DEF Recorded

\* A command that works on a container.
LEMMA Working ==
    ASSUME Types, NEW p \in Procs, proc[p].pc # "idle"
    PROVE  /\ proc[p] \in Process /\ Local(proc[p]) /\ proc[p].c \in Containers
           /\ proc[p].cmd \in AllCommands
BY DEF Types, Local, Process

\* The command ends.
LEMMA IdleFacts ==
    /\ IdleProc \in Process /\ Local(IdleProc) /\ IdleProc.c = None /\ IdleProc.mem = None
    /\ IdleProc.pc = "idle"
    /\ Held(IdleProc) = {} /\ Unlinks(IdleProc) = {} /\ Clears(IdleProc) = {}
    /\ Distinct(IdleProc)
<1>1. IdleProc.pc = "idle" /\ IdleProc.cmd = "none" /\ IdleProc.c = None /\ IdleProc.mem = None
  BY DEF IdleProc
<1>2. IdleProc \in Process
  BY DEF IdleProc, Process, MaybeAddr, Pcs
<1>3. Local(IdleProc)
  BY <1>1 DEF Local, Releasing
<1>4. Held(IdleProc) = {} /\ Unlinks(IdleProc) = {} /\ Clears(IdleProc) = {}
  BY <1>1 DEF Held, Unlinks, Clears, Holding, Linked, Releasing
<1> QED  BY <1>1, <1>2, <1>3, <1>4 DEF Distinct

\* An idle command gives nothing back.
LEMMA IdleLoose == Loose(IdleProc)' /\ View(IdleProc)'
<1>1. IdleProc.pc = "idle"
  BY IdleFacts
<1> QED  BY <1>1 DEF Loose, View, Releasing

\* A fault is counted.
LEMMA FaultFacts ==
    ASSUME Types, Fault
    PROVE  faults' \in 0 .. MaxFaults /\ faults' # 0 /\ commands' = commands
BY LinuxAssumption DEF Fault, Types, FilesOk

\* The command returns from run_synchronously.
LEMMA Returned ==
    ASSUME Types, NEW p \in Procs, Return(p),
           proc[p].pc \in {"prepare", "fork", "wait", "clear_load", "clear_save"}
    PROVE  \E d \in Process :
              /\ Local(d) /\ Moved(p, d) /\ d.pc \in {"idle", "stopped"}
              /\ d.c \in {proc[p].c, None} /\ d.mem \in {proc[p].mem, None}
              /\ Held(d) \subseteq Held(proc[p]) /\ Unlinks(d) = {} /\ Clears(d) = {}
              /\ Loose(d)' /\ Distinct(d) /\ View(d)'
<1>1. /\ proc[p] \in Process /\ Local(proc[p]) /\ proc[p].c \in Containers
      /\ proc[p].cmd \in AllCommands
  BY Working
<1>2. CASE proc[p].cmd = "exec"
  <2>1. Moved(p, IdleProc)
    BY <1>2 DEF Return, Moved
  <2> QED  BY <2>1, IdleFacts, IdleLoose
<1>3. CASE proc[p].cmd # "exec"
  <2>1. PICK d : d = [IdleProc EXCEPT !.pc = "stopped", !.cmd = proc[p].cmd,
                                      !.c = proc[p].c, !.mem = proc[p].mem]
    OBVIOUS
  <2>2. Moved(p, d)
    BY <1>3, <2>1 DEF Return, Moved
  <2>3. /\ d \in Process /\ d.pc = "stopped" /\ d.cmd = proc[p].cmd /\ d.c = proc[p].c
        /\ d.mem = proc[p].mem /\ d.ip = None
    BY <1>1, <2>1 DEF IdleProc, Process, MaybeAddr, Pcs
  <2>4. proc[p].cmd \in {"run", "start", "create"}
    BY <1>1, <1>3 DEF Local, AllCommands, Releasing
  <2>5. Local(d)
    BY <1>1, <2>3, <2>4 DEF Local, Releasing
  <2>6. Held(d) \subseteq Held(proc[p])
    BY <2>3 DEF Held, Holding, Linked, Releasing
  <2>7. Unlinks(d) = {} /\ Clears(d) = {}
    BY <2>3 DEF Unlinks, Clears, Linked, Releasing
  <2>8. Loose(d)' /\ Distinct(d) /\ View(d)'
    BY <2>3 DEF Loose, Distinct, View, Holding, Linked, Releasing
  <2> QED  BY <2>2, <2>3, <2>5, <2>6, <2>7, <2>8
<1> QED  BY <1>2, <1>3

-----------------------------------------------------------------------------
(* The commands *)

\* create, run: a container nobody has worked on yet.
LEMMA CreateInv ==
    ASSUME Inv, NEW p \in Procs, NEW c \in Containers, NEW cmd \in Commands, Create(p, c, cmd)
    PROVE  Inv'
<1>1. Types /\ proc[p] = IdleProc
  BY DEF Create, At, Inv, Types, Local
<1>2. PICK d \in Process :
         /\ Local(d) /\ Moved(p, d) /\ d.pc \in {"idle", "running"} /\ d.c \in {c, None}
         /\ d.mem \in {None, [ip |-> None]} /\ Held(d) = {} /\ d.cmd # "start"
  <2>1. CASE cmd = "create"
    <3>1. Moved(p, IdleProc)
      BY <1>1, <2>1 DEF Create, Moved, Types
    <3> QED  BY <3>1, IdleFacts DEF IdleProc
  <2>2. CASE cmd = "run"
    <3>1. PICK d : d = [IdleProc EXCEPT !.pc = "running", !.cmd = cmd, !.c = c,
                                        !.mem = [ip |-> None]]
      OBVIOUS
    <3>2. Moved(p, d)
      BY <2>2, <3>1 DEF Create, Moved
    <3>3. /\ d \in Process /\ d.pc = "running" /\ d.cmd = "run" /\ d.c = c
          /\ d.mem = [ip |-> None] /\ d.ip = None
      BY <2>2, <3>1 DEF IdleProc, Process, MaybeAddr, Pcs, Record, AllCommands
    <3>4. Local(d)
      BY <3>3, NoneAssumption DEF Local, Releasing, Record, MaybeAddr
    <3>5. Held(d) = {}
      BY <3>3 DEF Held, Holding, Linked, Releasing
    <3> QED  BY <3>2, <3>3, <3>4, <3>5
  <2> QED  BY <2>1, <2>2 DEF Create
<1>3. /\ rec' = [rec EXCEPT ![c] = [ip |-> None]] /\ rootfs' = [rootfs EXCEPT ![c] = "there"]
      /\ leases' = leases /\ tmp' = tmp /\ link' = link /\ dnat' = dnat /\ orphans' = orphans
      /\ commands' = commands + 1 /\ commands < MaxCommands
      /\ faults' = faults /\ left' = left /\ mishaps' = mishaps
  BY DEF Create, Given, pool, kernel, history
<1>4. FilesOk'
  BY <1>1, <1>3, LinuxAssumption DEF Types, FilesOk, Record, MaybeAddr
<1>5. On(p, d, c)
  BY <1>1, <1>2, <1>3, IdleFacts DEF On, Types, FilesOk
<1>6. rec'[c] = [ip |-> None] /\ Used(c)' = Used(c)
  BY <1>1, <1>3 DEF Types, FilesOk, Used
<1>7. \A a \in Addrs : rec'[c] # [ip |-> a]
  BY <1>6, LinuxAssumption
<1>8. \A a \in Addrs : a \notin Recorded(c)'
  BY <1>7 DEF Recorded
<1>9. Loose(d)' /\ Distinct(d) /\ View(d)' /\ d.pc \notin Window
  BY <1>2 DEF Loose, Distinct, View, Window, Releasing
<1>10. Held(proc[p]) = {} /\ Unlinks(proc[p]) = {}
  BY <1>1, IdleFacts
<1> QED  BY <1>2, <1>3, <1>4, <1>5, <1>6, <1>7, <1>8, <1>9, <1>10, StepInv

\* start, exec, stop, rm: the address in the copy is the command's now.
LEMMA LoadInv ==
    ASSUME Inv, NEW p \in Procs, NEW c \in Containers, NEW cmd \in Commands, Load(p, c, cmd)
    PROVE  Inv'
<1>1. Types /\ proc[p] = IdleProc
  BY DEF Load, At, Inv, Types, Local
<1>2. /\ rec' = rec /\ rootfs' = rootfs /\ leases' = leases /\ tmp' = tmp
      /\ link' = link /\ dnat' = dnat /\ orphans' = orphans
      /\ commands' = commands + 1 /\ commands < MaxCommands /\ faults' = faults /\ left' = left
      /\ Mishap("stale", Stale(p, c, cmd))
  BY DEF Load, Given, files, pool, kernel
<1>3. mishaps \subseteq mishaps' /\ mishaps' \subseteq mishaps \cup {"stale"}
  BY <1>2 DEF Mishap
<1>4. rec[c] \in Record /\ cmd \in {"start", "exec", "stop", "rm"}
  BY <1>1 DEF Load, Types, FilesOk
<1>5. PICK pc : pc = CASE cmd = "start" -> "running" [] cmd = "exec" -> "prepare"
                       [] cmd = "stop" -> "mark" [] cmd = "rm" -> "unlink"
  OBVIOUS
<1>6. PICK m : m = IF cmd = "exec" THEN None ELSE rec[c]
  OBVIOUS
<1>7. PICK d : d = [IdleProc EXCEPT !.pc = pc, !.cmd = cmd, !.c = c, !.mem = m]
  OBVIOUS
<1>8. Moved(p, d)
  BY <1>5, <1>6, <1>7 DEF Load, Moved
<1>9. /\ cmd = "start" => pc = "running"
      /\ cmd = "exec" => pc = "prepare" /\ m = None
      /\ cmd = "stop" => pc = "mark"
      /\ cmd = "rm" => pc = "unlink"
      /\ cmd # "exec" => m = rec[c]
  BY <1>5, <1>6
<1>10. /\ d \in Process /\ d.pc = pc /\ d.cmd = cmd /\ d.c = c /\ d.mem = m /\ d.ip = None
       /\ pc \in {"running", "prepare", "mark", "unlink"}
  BY <1>4, <1>7, <1>9 DEF IdleProc, Process, MaybeAddr, Pcs, AllCommands
<1>11. Local(d)
  BY <1>4, <1>9, <1>10, NoneAssumption DEF Local, Releasing
<1>12. FilesOk'
  BY <1>1, <1>2, <1>3, LinuxAssumption DEF Types, FilesOk
<1>13. On(p, d, c)
  BY <1>1, <1>2, <1>10, IdleFacts DEF On
<1>14. Used(c)' = Used(c)
  BY <1>2 DEF Used
<1>15. \A a \in Addrs : a \in Recorded(c)' => a \in Recorded(c)
  BY <1>1, <1>2, <1>8, <1>10, <1>11, RecordKept, IdleFacts, LinuxAssumption
<1>16. Loose(d)' /\ Distinct(d) /\ View(d)' /\ d.pc \notin Window
  BY <1>10 DEF Loose, Distinct, View, Window, Releasing, Holding, Linked
<1>17. \A a \in Addrs : a \in Held(d) => cmd # "exec" /\ rec[c] = [ip |-> a]
  BY <1>9, <1>10, NoneAssumption DEF Held, Holding, Linked, Releasing
<1>18. ASSUME NoMishap', cmd # "exec", NEW a \in Addrs, rec[c] = [ip |-> a]
       PROVE  \A q \in Procs \ {p} : proc[q].c # c
  <2>1. ~Stale(p, c, cmd)
    BY <1>2, <1>18 DEF Mishap, NoMishap
  <2> QED  BY <1>18, <2>1, LinuxAssumption DEF Stale
<1>19. ASSUME NoMishap', NEW a \in Addrs, a \in Held(d)
       PROVE  a \in Recorded(c) /\ \A q \in Procs \ {p} : proc[q].c # c
  <2>1. rec[c] = [ip |-> a] /\ \A q \in Procs \ {p} : proc[q].c # c
    BY <1>17, <1>18, <1>19
  <2>2. proc[p].c # c
    BY <1>1, IdleFacts, LinuxAssumption
  <2> QED  BY <2>1, <2>2 DEF Recorded
<1>20. ASSUME Tidy, NoMishap' PROVE d.mem \in {None, [ip |-> None]}
  <2>1. CASE cmd = "exec"
    BY <1>9, <1>10, <2>1
  <2>2. CASE cmd # "exec"
    <3>1. ASSUME NEW a \in Addrs, rec[c] = [ip |-> a] PROVE FALSE
      <4>1. PICK q \in Procs : proc[q].c = c
        BY <1>20, <3>1 DEF Tidy
      <4>2. q # p
        BY <1>1, <4>1, IdleFacts, LinuxAssumption
      <4> QED  BY <1>18, <1>20, <2>2, <3>1, <4>1, <4>2
    <3>2. rec[c] = [ip |-> None]
      BY <1>4, <3>1 DEF Record, MaybeAddr
    <3> QED  BY <1>9, <1>10, <2>2, <3>2
  <2> QED  BY <2>1, <2>2
<1>21. Held(proc[p]) = {} /\ Unlinks(proc[p]) = {} /\ Clears(proc[p]) = {}
  BY <1>1, IdleFacts
<1> QED
  BY <1>2, <1>3, <1>8, <1>10, <1>11, <1>12, <1>13, <1>14, <1>15, <1>16, <1>19, <1>20, <1>21, StepInv

\* The copy of the record is written back: the address in it is the command's.
LEMMA Written ==
    ASSUME Inv, NEW p \in Procs, NEW d \in Process, Local(d), Moved(p, d),
           proc[p].pc \in {"running", "stopped", "mark"},
           rec' = [rec EXCEPT ![proc[p].c] = proc[p].mem],
           UNCHANGED <<rootfs, pool, kernel, failed, history>>,
           d.c \in {proc[p].c, None}, d.mem \in {proc[p].mem, None}, Held(d) \subseteq Held(proc[p]),
           d.pc \in {"idle", "prepare", "unlink"}
    PROVE  Inv'
<1>1. /\ Types /\ proc[p] \in Process /\ Local(proc[p]) /\ proc[p].c \in Containers
      /\ proc[p].cmd \in AllCommands
  BY Working DEF Inv
<1>2. PICK c \in Containers : c = proc[p].c
  BY <1>1
<1>3. /\ proc[p].mem \in Record
      /\ proc[p].cmd = "run" => proc[p].mem = [ip |-> None]
      /\ proc[p].cmd \in {"run", "start", "stop", "create", "rm"}
  BY <1>1 DEF Local, Process, AllCommands
<1>4. /\ rootfs' = rootfs /\ leases' = leases /\ tmp' = tmp
      /\ link' = link /\ dnat' = dnat /\ orphans' = orphans
      /\ commands' = commands /\ faults' = faults /\ left' = left /\ mishaps' = mishaps
  BY DEF pool, kernel, failed, history
<1>5. FilesOk'
  BY <1>1, <1>3, <1>4 DEF Types, FilesOk
<1>6. On(p, d, c)
  BY <1>1, <1>2, <1>4 DEF On, Types, FilesOk
<1>7. Used(c)' = Used(c) /\ rec'[c] = proc[p].mem
  BY <1>1, <1>2, <1>4 DEF Used, Types, FilesOk
<1>8. \A a \in Addrs : proc[p].mem = [ip |-> a] => a \in Held(proc[p])
  <2>1. proc[p].cmd \in {"start", "stop", "run"}
    BY <1>1, <1>3 DEF Local, Releasing
  <2> QED  BY <1>3, <2>1, LinuxAssumption DEF Held
<1>9. \A a \in Addrs : a \in Recorded(c)' => a \in Held(proc[p])
  BY <1>7, <1>8 DEF Recorded
<1>10. Loose(d)' /\ Distinct(d) /\ View(d)' /\ d.pc \notin Window
  BY DEF Loose, Distinct, View, Window, Releasing, Holding, Linked
<1>11. ASSUME Tidy PROVE proc[p].mem = [ip |-> None]
  BY <1>3, <1>11, NoneAssumption DEF Tidy
<1>12. Tidy => Held(proc[p]) = {} /\ Unlinks(proc[p]) = {} /\ Clears(proc[p]) = {}
  BY <1>1, <1>11, LinuxAssumption DEF Held, Unlinks, Clears, Holding, Linked, Releasing
<1> QED  BY <1>2, <1>4, <1>5, <1>6, <1>7, <1>9, <1>10, <1>11, <1>12, StepInv, LinuxAssumption

\* stop.
LEMMA StopInv == ASSUME Inv, NEW p \in Procs, Stop(p) PROVE Inv'
<1>1. proc[p].pc = "mark" /\ Moved(p, IdleProc)
  BY DEF Stop, At, Exit, Moved
<1> QED  BY <1>1, Written, IdleFacts DEF Stop

-----------------------------------------------------------------------------
(* Steps that leave files and kernel alone *)

\* The command goes on with no more than it had, and still clears the record it
\* has to clear.
LEMMA Quiet ==
    ASSUME Inv, NEW p \in Procs, proc[p].pc # "idle",
           NEW d \in Process, Local(d), Moved(p, d), d.c \in {proc[p].c, None},
           UNCHANGED <<files, leases, tmp, kernel, left>>,
           orphans' \in SUBSET [c : Containers, ip : MaybeAddr], commands' = commands,
           faults' \in 0 .. MaxFaults, faults' = 0 => faults = 0,
           mishaps \subseteq mishaps', mishaps' \in SUBSET {"race", "stale", "behind"},
           NoMishap /\ Safe /\ NoMishap' =>
              /\ Held(d) \subseteq Held(proc[p])
              /\ Behind(p) => d.c = proc[p].c /\ d.pc \in Clearing /\ d.freed = proc[p].freed
              /\ Loose(d) /\ Distinct(d) /\ View(d)
              /\ d.pc \in Window =>
                    proc[p].pc \in Window \/ \A q \in Procs \ {p} : proc[q].pc \notin Window,
           Tidy /\ NoMishap' /\ faults' = 0 =>
              /\ Held(proc[p]) \subseteq Held(d)
              /\ \A a \in Unlinks(proc[p]) : d.c = proc[p].c /\ a \in Unlinks(d)
              /\ \A a \in Clears(proc[p]) : rec[proc[p].c] = [ip |-> a] =>
                    d.c = proc[p].c /\ a \in Clears(d)
              /\ d.mem \in {None, [ip |-> None]}
    PROVE  Inv'
<1>1. /\ Types /\ proc[p] \in Process /\ Local(proc[p]) /\ proc[p].c \in Containers
  BY Working DEF Inv
<1>2. PICK c \in Containers : c = proc[p].c
  BY <1>1
<1>3. /\ rec' = rec /\ rootfs' = rootfs /\ leases' = leases /\ tmp' = tmp
      /\ link' = link /\ dnat' = dnat /\ left' = left
  BY DEF files, kernel
<1>4. FilesOk'
  BY <1>1, <1>3 DEF Types, FilesOk
<1>5. On(p, d, c)
  BY <1>1, <1>2, <1>3 DEF On
<1>6. Used(c)' = Used(c)
  BY <1>3 DEF Used
<1>7. ASSUME NoMishap, Safe, NoMishap' PROVE \A a \in Addrs : a \in Recorded(c)' => a \in Recorded(c)
  <2>1. proc[p].pc \in Clearing /\ proc[p].freed \in Addrs /\ rec[c] = [ip |-> proc[p].freed]
           => Behind(p)
    BY <1>2, LinuxAssumption, NoneAssumption DEF Behind, Clearing, Record, MaybeAddr
  <2> QED  BY <1>1, <1>2, <1>3, <1>7, <2>1, RecordKept
<1>8. ASSUME NoMishap, Safe, NoMishap' PROVE Loose(d)' /\ View(d)'
  <2>1. View(d)'
    BY <1>3, <1>8 DEF View
  <2>2. /\ d.pc = "veth" => d.ip \in Addrs
        /\ d.pc \in Releasing => d.freed \in Addrs
        /\ d.pc \in {"veth"} \cup Releasing => d.c = c
    BY <1>1, <1>2, LinuxAssumption DEF Local, Releasing
  <2>3. Loose(d)'
    BY <1>6, <1>7, <1>8, <2>2 DEF Loose
  <2> QED  BY <2>1, <2>3
<1> QED  BY <1>2, <1>3, <1>4, <1>5, <1>6, <1>7, <1>8, StepInv

\* The command goes on at another step.
LEMMA Jumped ==
    ASSUME Types, NEW p \in Procs, proc[p].pc # "idle", NEW pc \in Pcs, Goto(p, pc),
           NEW d, d = [proc[p] EXCEPT !.pc = pc]
    PROVE  /\ d \in Process /\ Moved(p, d) /\ d.pc = pc /\ d.cmd = proc[p].cmd /\ d.c = proc[p].c
           /\ d.mem = proc[p].mem /\ d.ip = proc[p].ip /\ d.view = proc[p].view
           /\ d.freed = proc[p].freed /\ d.ret = proc[p].ret
BY Working DEF Goto, Moved, Process

\* ipam::release: the file is read, or cannot be written.
LEMMA ReleaseInv == ASSUME Inv, NEW p \in Procs, Release(p) PROVE Inv'
<1>1. proc[p].pc = "release"
  BY DEF Release, At
<1>2. Types /\ proc[p] \in Process /\ Local(proc[p]) /\ proc[p].c \in Containers
  BY <1>1, Working DEF Inv
<1>3. proc[p].freed \in Addrs /\ proc[p].ret \in {"rmdir", "fork", "clear_load"}
  BY <1>1, <1>2 DEF Local, Process, Releasing
<1>4. UNCHANGED <<files, leases, tmp, kernel, left>> /\ orphans' = orphans
  BY DEF Release, pool
<1>5. ASSUME proc' = [proc EXCEPT ![p].view = leases \ {proc[p].freed}, ![p].pc = "release_tmp"],
             Mishap("race", Race(p)), UNCHANGED <<commands, faults>>
      PROVE  Inv'
  <2>1. PICK d : d = [proc[p] EXCEPT !.view = leases \ {proc[p].freed}, !.pc = "release_tmp"]
    OBVIOUS
  <2>2. /\ d \in Process /\ d.pc = "release_tmp" /\ d.cmd = proc[p].cmd /\ d.c = proc[p].c
        /\ d.mem = proc[p].mem /\ d.ip = proc[p].ip /\ d.view = leases \ {proc[p].freed}
        /\ d.freed = proc[p].freed /\ d.ret = proc[p].ret
    BY <1>2, <2>1 DEF Process, Pcs, Types, FilesOk, Window
  <2>3. Moved(p, d)
    BY <1>5, <2>1 DEF Moved
  <2>4. Local(d)
    BY <1>1, <1>2, <2>2 DEF Local, Releasing
  <2>5. Held(d) = Held(proc[p])
    BY <1>1, <2>2 DEF Held, Holding, Linked, Releasing
  <2>6. Unlinks(proc[p]) = {} /\ Clears(d) = Clears(proc[p])
    BY <1>1, <2>2 DEF Unlinks, Clears, Linked, Releasing
  <2>7. View(d)
    BY <2>2 DEF View
  <2>8. ASSUME Safe PROVE Loose(d) /\ Distinct(d)
    <3>1. Loose(proc[p]) /\ Distinct(proc[p])
      BY <2>8 DEF Safe
    <3> QED  BY <1>1, <2>2, <3>1 DEF Loose, Distinct, Releasing, Holding, Linked
  <2>9. NoMishap' => \A q \in Procs \ {p} : proc[q].pc \notin Window
    BY <1>5 DEF Mishap, Race, InWindow, Window, NoMishap
  <2>10. ~Behind(p) /\ mishaps \subseteq mishaps' /\ mishaps' \in SUBSET {"race", "stale", "behind"}
    BY <1>1, <1>2, <1>5 DEF Behind, Mishap, Types, FilesOk
  <2>11. /\ commands' = commands /\ faults' = faults /\ faults \in 0 .. MaxFaults
         /\ orphans' \in SUBSET [c : Containers, ip : MaybeAddr]
    BY <1>2, <1>4, <1>5 DEF Types, FilesOk
  <2>12. Tidy => d.mem \in {None, [ip |-> None]}
    BY <2>2 DEF Tidy
  <2> QED
    BY <1>1, <1>4, <2>2, <2>3, <2>4, <2>5, <2>6, <2>7, <2>8, <2>9, <2>10, <2>11, <2>12, Quiet
<1>6. ASSUME Fault, Goto(p, proc[p].ret), UNCHANGED mishaps PROVE Inv'
  <2>1. PICK d : d = [proc[p] EXCEPT !.pc = proc[p].ret]
    OBVIOUS
  <2>2. proc[p].ret \in Pcs
    BY <1>3 DEF Pcs, Clearing, Holding, Linked
  <2>3. /\ d \in Process /\ Moved(p, d) /\ d.pc = proc[p].ret /\ d.cmd = proc[p].cmd
        /\ d.c = proc[p].c /\ d.mem = proc[p].mem /\ d.ip = proc[p].ip
        /\ d.freed = proc[p].freed /\ d.ret = proc[p].ret
    BY <1>1, <1>2, <1>6, <2>1, <2>2, Jumped
  <2>4. Local(d)
    BY <1>1, <1>2, <1>3, <2>3 DEF Local, Releasing
  <2>5. Held(d) \subseteq Held(proc[p])
    <3>1. proc[p].ret = "fork" => proc[p].ip = None
      BY <1>1, <1>2 DEF Local, Releasing
    <3> QED  BY <1>3, <2>3, <3>1, LinuxAssumption DEF Held, Holding, Linked, Releasing
  <2>6. Loose(d) /\ View(d) /\ d.pc \notin Window
    BY <1>3, <2>3 DEF Loose, View, Releasing, Window
  <2>7. Distinct(d)
    <3>1. proc[p].ret = "fork" => proc[p].ip = None
      BY <1>1, <1>2 DEF Local, Releasing
    <3> QED  BY <1>3, <2>3, <3>1 DEF Distinct, Releasing, Holding, Linked
  <2>8. faults' \in 0 .. MaxFaults /\ faults' # 0 /\ commands' = commands
    BY <1>2, <1>6, FaultFacts
  <2>9. /\ ~Behind(p) /\ mishaps' = mishaps /\ mishaps' \in SUBSET {"race", "stale", "behind"}
        /\ orphans' \in SUBSET [c : Containers, ip : MaybeAddr]
    BY <1>1, <1>2, <1>4, <1>6 DEF Behind, Types, FilesOk
  <2> QED  BY <1>1, <1>4, <2>3, <2>4, <2>5, <2>6, <2>7, <2>8, <2>9, Quiet
<1> QED  BY <1>5, <1>6 DEF Release

\* The command returns from run_synchronously, and nothing else happens.
LEMMA ReturnQuiet ==
    ASSUME Inv, NEW p \in Procs, Return(p),
           proc[p].pc \in {"prepare", "fork", "wait", "clear_load", "clear_save"},
           UNCHANGED <<files, leases, tmp, kernel, left>>, orphans' = orphans, commands' = commands,
           faults' \in 0 .. MaxFaults, faults' = 0 => faults = 0,
           mishaps \subseteq mishaps', mishaps' \in SUBSET {"race", "stale", "behind"},
           NoMishap' => ~Behind(p),
           faults' = 0 =>
              /\ proc[p].pc \in {"fork", "wait"} => proc[p].ip = None
              /\ proc[p].pc \in {"clear_load", "clear_save"} => rec[proc[p].c] = None
    PROVE  Inv'
<1>1. Types /\ proc[p] \in Process /\ Local(proc[p]) /\ proc[p].c \in Containers /\ proc[p].pc # "idle"
  BY Working DEF Inv
<1>2. PICK d \in Process :
         /\ Local(d) /\ Moved(p, d) /\ d.pc \in {"idle", "stopped"}
         /\ d.c \in {proc[p].c, None} /\ d.mem \in {proc[p].mem, None}
         /\ Held(d) \subseteq Held(proc[p]) /\ Distinct(d)
  BY <1>1, Returned
<1>3. Loose(d) /\ View(d) /\ d.pc \notin Window
  BY <1>2 DEF Loose, View, Releasing, Window
<1>4. ASSUME Tidy, faults' = 0
      PROVE  /\ Held(proc[p]) = {} /\ Unlinks(proc[p]) = {}
             /\ \A a \in Clears(proc[p]) : rec[proc[p].c] # [ip |-> a]
             /\ d.mem \in {None, [ip |-> None]}
  <2>1. proc[p].mem \in {None, [ip |-> None]}
    BY <1>4 DEF Tidy
  <2>2. Held(proc[p]) = {}
    BY <1>4, <2>1, LinuxAssumption, NoneAssumption
       DEF Held, Holding, Linked, Releasing, Record, MaybeAddr
  <2>3. Unlinks(proc[p]) = {}
    BY <1>4, LinuxAssumption DEF Unlinks, Linked
  <2>4. \A a \in Clears(proc[p]) : rec[proc[p].c] # [ip |-> a]
    BY <1>4, LinuxAssumption, NoneAssumption DEF Clears, Releasing, Record, MaybeAddr
  <2> QED  BY <1>2, <2>1, <2>2, <2>3, <2>4
<1>5. orphans' \in SUBSET [c : Containers, ip : MaybeAddr]
  BY <1>1 DEF Types, FilesOk
<1> QED  BY <1>1, <1>2, <1>3, <1>4, <1>5, Quiet

\* The command goes on at another step and keeps all it has.
LEMMA GotoQuiet ==
    ASSUME Inv, NEW p \in Procs, proc[p].pc # "idle", NEW pc \in Pcs, Goto(p, pc),
           UNCHANGED <<files, pool, kernel, failed, history>>,
           NEW d, d = [proc[p] EXCEPT !.pc = pc], Local(d), pc \notin Window, pc \notin Releasing,
           pc # "veth", Held(d) = Held(proc[p]), Distinct(proc[p]) => Distinct(d),
           Unlinks(d) = Unlinks(proc[p]), Clears(proc[p]) \subseteq Clears(d),
           proc[p].pc \in Clearing => pc \in Clearing
    PROVE  Inv'
<1>1. /\ Types /\ d \in Process /\ Moved(p, d) /\ d.pc = pc /\ d.c = proc[p].c
      /\ d.mem = proc[p].mem /\ d.freed = proc[p].freed
  BY Jumped DEF Inv
<1>2. Loose(d) /\ View(d)
  BY <1>1 DEF Loose, View, Window
<1>3. /\ UNCHANGED <<files, leases, tmp, kernel, left>> /\ commands' = commands
      /\ faults' = faults /\ mishaps' = mishaps /\ orphans' = orphans
  BY DEF pool, failed, history
<1>4. /\ orphans' \in SUBSET [c : Containers, ip : MaybeAddr] /\ faults' \in 0 .. MaxFaults
      /\ mishaps' \in SUBSET {"race", "stale", "behind"}
  BY <1>1, <1>3 DEF Types, FilesOk
<1>5. Tidy => d.mem \in {None, [ip |-> None]}
  BY <1>1 DEF Tidy
<1>6. Behind(p) => d.pc \in Clearing
  BY <1>1 DEF Behind, Clearing
<1>7. Safe => Distinct(d)
  BY DEF Safe
<1> QED  BY <1>1, <1>2, <1>3, <1>4, <1>5, <1>6, <1>7, Quiet

\* The run cannot start, goes on without an address or takes the first free one.
LEMMA PrepareInv == ASSUME Inv, NEW p \in Procs, Prepare(p) PROVE Inv'
<1>1. proc[p].pc = "prepare"
  BY DEF Prepare, At
<1>2. /\ Types /\ proc[p] \in Process /\ Local(proc[p]) /\ proc[p].c \in Containers
      /\ proc[p].cmd \in AllCommands
  BY <1>1, Working DEF Inv
<1>3. /\ UNCHANGED <<files, leases, tmp, kernel, left>> /\ orphans' = orphans
      /\ commands' = commands /\ faults' = faults
  BY DEF Prepare, pool, failed
<1>4. /\ faults' \in 0 .. MaxFaults /\ mishaps \in SUBSET {"race", "stale", "behind"}
      /\ orphans' \in SUBSET [c : Containers, ip : MaybeAddr] /\ leases \in SUBSET Addrs
      /\ ~Behind(p)
  BY <1>1, <1>2, <1>3 DEF Types, FilesOk, Behind
<1>5. CASE Return(p) /\ UNCHANGED mishaps
  BY <1>1, <1>3, <1>4, <1>5, ReturnQuiet
<1>6. CASE Goto(p, "fork") /\ UNCHANGED mishaps
  <2>1. PICK d : d = [proc[p] EXCEPT !.pc = "fork"]
    OBVIOUS
  <2>2. "fork" \in Pcs
    BY DEF Pcs, Holding, Linked
  <2>3. /\ d \in Process /\ d.pc = "fork" /\ d.cmd = proc[p].cmd /\ d.c = proc[p].c
        /\ d.mem = proc[p].mem /\ d.ip = proc[p].ip
    BY <1>1, <1>2, <1>6, <2>1, <2>2, Jumped
  <2>4. Local(d)
    BY <1>1, <1>2, <2>3 DEF Local, Releasing
  <2>5. d.ip = None
    BY <1>1, <1>2, <2>3 DEF Local
  <2>6. Held(d) = Held(proc[p])
    BY <1>1, <2>3, <2>5, LinuxAssumption DEF Held, Holding, Linked, Releasing
  <2>7. Unlinks(d) = Unlinks(proc[p]) /\ Clears(proc[p]) = {}
    BY <1>1, <2>3, <2>5, LinuxAssumption DEF Unlinks, Clears, Linked, Releasing
  <2>8. Distinct(d)
    BY <2>3, <2>5 DEF Distinct, Holding, Releasing, Linked
  <2>9. UNCHANGED <<files, pool, kernel, failed, history>>
    BY <1>3, <1>6 DEF pool, failed, history
  <2>10. "fork" \notin Window /\ "fork" \notin Releasing /\ proc[p].pc \notin Clearing
    BY <1>1 DEF Window, Releasing, Clearing
  <2> QED  BY <1>1, <1>6, <2>1, <2>2, <2>4, <2>6, <2>7, <2>8, <2>9, <2>10, GotoQuiet
<1>7. ASSUME Addrs \ leases # {}, NEW x, x = Lowest(Addrs \ leases),
             proc' = [proc EXCEPT ![p].ip = x, ![p].view = leases \cup {x}, ![p].pc = "alloc_tmp"],
             Mishap("race", Race(p))
      PROVE  Inv'
  <2>1. PICK d : d = [proc[p] EXCEPT !.ip = x, !.view = leases \cup {x}, !.pc = "alloc_tmp"]
    OBVIOUS
  <2>2. x \in Addrs /\ x \notin leases
    BY <1>7, LowestFree
  <2>3. /\ d \in Process /\ d.pc = "alloc_tmp" /\ d.cmd = proc[p].cmd /\ d.c = proc[p].c
        /\ d.mem = proc[p].mem /\ d.ip = x /\ d.view = leases \cup {x}
    BY <1>2, <1>4, <2>1, <2>2 DEF Process, Pcs, Window, MaybeAddr
  <2>4. Moved(p, d)
    BY <1>7, <2>1 DEF Moved
  <2>5. Local(d)
    BY <1>1, <1>2, <2>2, <2>3 DEF Local, Releasing
  <2>6. Held(d) = Held(proc[p])
    BY <1>1, <2>3 DEF Held, Holding, Linked, Releasing
  <2>7. Unlinks(proc[p]) = {} /\ Clears(proc[p]) = {}
    BY <1>1 DEF Unlinks, Clears, Linked, Releasing
  <2>8. Loose(d) /\ Distinct(d) /\ View(d)
    BY <2>2, <2>3 DEF Loose, Distinct, View, Holding, Linked, Releasing
  <2>9. NoMishap' => \A q \in Procs \ {p} : proc[q].pc \notin Window
    BY <1>7 DEF Mishap, Race, InWindow, Window, NoMishap
  <2>10. mishaps \subseteq mishaps' /\ mishaps' \in SUBSET {"race", "stale", "behind"}
    BY <1>4, <1>7 DEF Mishap
  <2>11. Tidy => d.mem \in {None, [ip |-> None]}
    BY <2>3 DEF Tidy
  <2> QED
    BY <1>1, <1>3, <1>4, <2>3, <2>4, <2>5, <2>6, <2>7, <2>8, <2>9, <2>10, <2>11, Quiet
<1> QED  BY <1>5, <1>6, <1>7 DEF Prepare

\* The program starts, or the run ends with an error.
LEMMA ForkInv == ASSUME Inv, NEW p \in Procs, Fork(p) PROVE Inv'
<1>1. proc[p].pc = "fork"
  BY DEF Fork, At
<1>2. Types /\ proc[p] \in Process /\ Local(proc[p]) /\ proc[p].c \in Containers
  BY <1>1, Working DEF Inv
<1>3. UNCHANGED <<files, leases, tmp, kernel, left>> /\ orphans' = orphans /\ mishaps' = mishaps
  BY DEF Fork, pool, history
<1>4. CASE Return(p) /\ Fault
  <2>1. faults' \in 0 .. MaxFaults /\ faults' # 0 /\ commands' = commands
    BY <1>2, <1>4, FaultFacts
  <2>2. mishaps' \in SUBSET {"race", "stale", "behind"} /\ ~Behind(p)
    BY <1>1, <1>2, <1>3 DEF Types, FilesOk, Behind
  <2> QED  BY <1>1, <1>3, <1>4, <2>1, <2>2, ReturnQuiet
<1>5. ASSUME Goto(p, IF proc[p].ip = None THEN "wait" ELSE "dnat"), UNCHANGED <<commands, faults>>
      PROVE  Inv'
  <2>1. PICK pc : pc = IF proc[p].ip = None THEN "wait" ELSE "dnat"
    OBVIOUS
  <2>2. PICK d : d = [proc[p] EXCEPT !.pc = pc]
    OBVIOUS
  <2>3. pc \in {"wait", "dnat"} /\ pc \in Pcs /\ (pc = "dnat" => proc[p].ip # None)
    BY <2>1 DEF Pcs, Holding, Linked
  <2>4. /\ d \in Process /\ d.pc = pc /\ d.cmd = proc[p].cmd /\ d.c = proc[p].c
        /\ d.mem = proc[p].mem /\ d.ip = proc[p].ip
    BY <1>1, <1>2, <1>5, <2>1, <2>2, <2>3, Jumped
  <2>5. Local(d)
    BY <1>1, <1>2, <2>3, <2>4 DEF Local, Releasing, Process, MaybeAddr
  <2>6. Held(d) = Held(proc[p])
    BY <1>1, <2>3, <2>4 DEF Held, Holding, Linked, Releasing
  <2>7. Unlinks(d) = Unlinks(proc[p]) /\ Clears(proc[p]) = {}
    BY <1>1, <2>3, <2>4 DEF Unlinks, Clears, Linked, Releasing
  <2>8. Distinct(proc[p]) => Distinct(d)
    BY <1>1, <2>3, <2>4 DEF Distinct, Holding, Releasing, Linked
  <2>9. UNCHANGED <<files, pool, kernel, failed, history>>
    BY <1>3, <1>5 DEF pool, failed, history
  <2>10. pc \notin Window /\ pc \notin Releasing /\ proc[p].pc \notin Clearing /\ pc # "veth"
    BY <1>1, <2>3 DEF Window, Releasing, Clearing
  <2> QED
    BY <1>1, <1>5, <2>1, <2>2, <2>3, <2>5, <2>6, <2>7, <2>8, <2>9, <2>10, GotoQuiet
<1> QED  BY <1>4, <1>5 DEF Fork

\* The record is read to set or clear the address.
LEMMA LoadForIpInv == ASSUME Inv, NEW p \in Procs, LoadForIp(p) PROVE Inv'
<1>1. proc[p].pc \in {"ip_load", "clear_load"}
  BY DEF LoadForIp, At
<1>2. Types /\ proc[p] \in Process /\ Local(proc[p]) /\ proc[p].c \in Containers
  BY <1>1, Working DEF Inv
<1>3. UNCHANGED <<files, pool, kernel, failed, history>>
  BY DEF LoadForIp
<1>4. ASSUME NEW pc, Goto(p, pc), \/ proc[p].pc = "ip_load" /\ pc \in {"ip_save", "wait"}
                                  \/ proc[p].pc = "clear_load" /\ pc = "clear_save"
      PROVE  Inv'
  <2>1. PICK d : d = [proc[p] EXCEPT !.pc = pc]
    OBVIOUS
  <2>2. pc \in Pcs
    BY <1>4 DEF Pcs, Holding, Linked, Clearing
  <2>3. /\ d \in Process /\ d.pc = pc /\ d.cmd = proc[p].cmd /\ d.c = proc[p].c
        /\ d.mem = proc[p].mem /\ d.ip = proc[p].ip
    BY <1>1, <1>2, <1>4, <2>1, <2>2, Jumped
  <2>4. Local(d)
    BY <1>2, <1>4, <2>3 DEF Local, Releasing
  <2>5. Held(d) = Held(proc[p])
    BY <1>4, <2>3 DEF Held, Holding, Linked, Releasing
  <2>6. Unlinks(d) = Unlinks(proc[p]) /\ Clears(proc[p]) \subseteq Clears(d)
    BY <1>4, <2>3 DEF Unlinks, Clears, Linked, Releasing
  <2>7. Distinct(proc[p]) => Distinct(d)
    BY <1>4, <2>3 DEF Distinct, Holding, Releasing, Linked
  <2>8. /\ pc \notin Window /\ pc \notin Releasing /\ pc # "veth"
        /\ proc[p].pc \in Clearing => pc \in Clearing
    BY <1>4 DEF Window, Releasing, Clearing
  <2> QED  BY <1>1, <1>3, <1>4, <2>1, <2>2, <2>4, <2>5, <2>6, <2>7, <2>8, GotoQuiet
<1>5. CASE proc[p].pc = "clear_load" /\ rec[proc[p].c] = None /\ Return(p)
  <2>1. /\ UNCHANGED <<files, leases, tmp, kernel, left>> /\ orphans' = orphans
        /\ commands' = commands /\ faults' = faults /\ mishaps' = mishaps
    BY <1>3 DEF pool, failed, history
  <2>2. faults' \in 0 .. MaxFaults /\ mishaps' \in SUBSET {"race", "stale", "behind"} /\ ~Behind(p)
    BY <1>2, <1>5, <2>1 DEF Types, FilesOk, Behind
  <2> QED  BY <1>5, <2>1, <2>2, ReturnQuiet
<1> QED  BY <1>4, <1>5 DEF LoadForIp, At

\* The command is gone, and no record waits for it.
LEMMA Ended ==
    ASSUME Inv, NEW p \in Procs, proc[p].pc # "idle", Moved(p, IdleProc), Fault,
           Mishap("behind", Behind(p)), UNCHANGED <<files, pool, kernel, left>>,
           orphans' \in SUBSET [c : Containers, ip : MaybeAddr]
    PROVE  Inv'
<1>1. Types
  BY DEF Inv
<1>2. faults' \in 0 .. MaxFaults /\ faults' # 0 /\ commands' = commands
  BY <1>1, FaultFacts
<1>3. /\ mishaps \subseteq mishaps' /\ mishaps' \in SUBSET {"race", "stale", "behind"}
      /\ NoMishap' => ~Behind(p)
  BY <1>1 DEF Mishap, NoMishap, Types, FilesOk
<1>4. Loose(IdleProc) /\ View(IdleProc) /\ IdleProc.pc \notin Window
  BY IdleFacts DEF Loose, View, Releasing, Window
<1>5. UNCHANGED <<files, leases, tmp, kernel, left>>
  BY DEF pool
<1> QED  BY <1>2, <1>3, <1>4, <1>5, IdleFacts, Quiet

\* A command is killed.
LEMMA DieInv == ASSUME Inv, NEW p \in Procs, Die(p) PROVE Inv'
<1>1. proc[p].pc # "idle" /\ Moved(p, IdleProc)
  BY DEF Die, At, Moved
<1>2. Types /\ proc[p] \in Process /\ proc[p].c \in Containers
  BY <1>1, Working DEF Inv
<1>3. orphans' \in SUBSET [c : Containers, ip : MaybeAddr]
  BY <1>2 DEF Die, Types, FilesOk, Process
<1> QED  BY <1>1, <1>3, Ended DEF Die

\* The directory is deleted, and the record with it, or stays.
LEMMA RemoveDirInv == ASSUME Inv, NEW p \in Procs, RemoveDir(p) PROVE Inv'
<1>1. proc[p].pc = "rmdir" /\ Moved(p, IdleProc)
  BY DEF RemoveDir, At, Exit, Moved
<1>2. Types /\ proc[p] \in Process /\ Local(proc[p]) /\ proc[p].c \in Containers
  BY <1>1, Working DEF Inv
<1>3. PICK c \in Containers : c = proc[p].c
  BY <1>2
<1>4. UNCHANGED <<pool, kernel, orphans, left>>
  BY DEF RemoveDir
<1>5. CASE Fault /\ Mishap("behind", Behind(p)) /\ UNCHANGED files
  <2>1. orphans' \in SUBSET [c : Containers, ip : MaybeAddr]
    BY <1>2, <1>4 DEF Types, FilesOk
  <2> QED  BY <1>1, <1>4, <1>5, <2>1, Ended
<1>6. CASE /\ rec' = [rec EXCEPT ![proc[p].c] = None]
           /\ rootfs' = [rootfs EXCEPT ![proc[p].c] = "gone"]
           /\ UNCHANGED <<commands, faults, mishaps>>
  <2>1. /\ leases' = leases /\ tmp' = tmp /\ link' = link /\ dnat' = dnat /\ orphans' = orphans
        /\ commands' = commands /\ faults' = faults /\ left' = left /\ mishaps' = mishaps
    BY <1>4, <1>6 DEF pool, kernel
  <2>2. FilesOk'
    BY <1>2, <1>6, <2>1 DEF Types, FilesOk
  <2>3. On(p, IdleProc, c)
    BY <1>2, <1>3, <1>6, <2>1, IdleFacts DEF On, Types, FilesOk
  <2>4. Used(c)' = Used(c) /\ rec'[c] = None
    BY <1>2, <1>3, <1>6, <2>1 DEF Used, Types, FilesOk
  <2>5. \A a \in Addrs : rec'[c] # [ip |-> a]
    BY <2>4, NoneAssumption DEF Record, MaybeAddr
  <2>6. \A a \in Addrs : a \notin Recorded(c)'
    BY <2>5 DEF Recorded
  <2>7. ASSUME Tidy PROVE Held(proc[p]) = {} /\ Unlinks(proc[p]) = {}
    <3>1. proc[p].mem \in {None, [ip |-> None]}
      BY <2>7 DEF Tidy
    <3> QED
      BY <1>1, <3>1, LinuxAssumption, NoneAssumption
         DEF Held, Unlinks, Holding, Linked, Releasing, Record, MaybeAddr
  <2>8. IdleProc.pc \notin Window
    BY IdleFacts DEF Window
  <2> QED  BY <1>1, <2>1, <2>2, <2>3, <2>4, <2>5, <2>6, <2>7, <2>8, IdleFacts, IdleLoose, StepInv
<1> QED  BY <1>5, <1>6 DEF RemoveDir

\* The address is set or cleared in the record.
LEMMA SaveIpInv == ASSUME Inv, NEW p \in Procs, SaveIp(p) PROVE Inv'
<1>1. proc[p].pc \in {"ip_save", "clear_save"}
  BY DEF SaveIp, At
<1>2. Types /\ proc[p] \in Process /\ Local(proc[p]) /\ proc[p].c \in Containers
  BY <1>1, Working DEF Inv
<1>3. PICK c \in Containers : c = proc[p].c
  BY <1>2
<1>4. /\ leases' = leases /\ tmp' = tmp /\ link' = link /\ dnat' = dnat /\ orphans' = orphans
      /\ left' = left /\ rootfs' = rootfs
  BY DEF SaveIp, pool, kernel
<1>5. orphans' \in SUBSET [c : Containers, ip : MaybeAddr]
  BY <1>2, <1>4 DEF Types, FilesOk
<1>6. PICK y : y = [ip |-> IF proc[p].pc = "ip_save" THEN proc[p].ip ELSE None]
  OBVIOUS
<1>7. y \in Record
  BY <1>2, <1>6 DEF Process, Record, MaybeAddr
<1>8. PICK w \in Process :
         /\ w.c = proc[p].c /\ w.mem = proc[p].mem /\ w.ip = proc[p].ip /\ w.pc = "wait"
         /\ proc[p].pc = "ip_save" =>
               /\ Goto(p, "wait") => Moved(p, w)
               /\ Local(w) /\ Held(w) = Held(proc[p]) /\ Unlinks(w) = Unlinks(proc[p])
               /\ (Distinct(proc[p]) => Distinct(w)) /\ Loose(w) /\ Loose(w)' /\ View(w) /\ View(w)'
  <2>1. PICK w : w = [proc[p] EXCEPT !.pc = "wait"]
    OBVIOUS
  <2>2. /\ w \in Process /\ w.c = proc[p].c /\ w.mem = proc[p].mem /\ w.ip = proc[p].ip
        /\ w.pc = "wait" /\ w.cmd = proc[p].cmd
    BY <1>2, <2>1 DEF Process, Pcs, Holding, Linked
  <2>3. Goto(p, "wait") => Moved(p, w)
    BY <2>1 DEF Goto, Moved
  <2>4. proc[p].pc = "ip_save" => Local(w)
    BY <1>2, <2>2 DEF Local, Releasing
  <2>5. proc[p].pc = "ip_save" => Held(w) = Held(proc[p]) /\ Unlinks(w) = Unlinks(proc[p])
    BY <2>2 DEF Held, Unlinks, Holding, Linked, Releasing
  <2>6. proc[p].pc = "ip_save" /\ Distinct(proc[p]) => Distinct(w)
    BY <2>2 DEF Distinct, Holding, Linked, Releasing
  <2>7. Loose(w) /\ Loose(w)' /\ View(w) /\ View(w)'
    BY <2>2 DEF Loose, View, Releasing
  <2> QED  BY <2>2, <2>3, <2>4, <2>5, <2>6, <2>7
<1>9. CASE Fault /\ Mishap("behind", Behind(p)) /\ UNCHANGED rec
  <2>1. faults' \in 0 .. MaxFaults /\ faults' # 0 /\ commands' = commands
    BY <1>2, <1>9, FaultFacts
  <2>2. /\ mishaps \subseteq mishaps' /\ mishaps' \in SUBSET {"race", "stale", "behind"}
        /\ NoMishap' => ~Behind(p)
    BY <1>2, <1>9 DEF Mishap, NoMishap, Types, FilesOk
  <2>3. UNCHANGED <<files, leases, tmp, kernel, left>>
    BY <1>4, <1>9 DEF files, kernel
  <2>4. CASE proc[p].pc = "clear_save" /\ Return(p)
    BY <1>4, <2>1, <2>2, <2>3, <2>4, ReturnQuiet
  <2>5. CASE proc[p].pc = "ip_save" /\ Goto(p, "wait")
    <3>1. w.pc \notin Window
      BY <1>8 DEF Window
    <3>2. Safe => Distinct(w)
      BY <1>8, <2>5 DEF Safe
    <3> QED  BY <1>5, <1>8, <2>1, <2>2, <2>3, <2>5, <3>1, <3>2, Quiet
  <2> QED  BY <2>4, <2>5 DEF SaveIp, At
<1>10. CASE rec' = [rec EXCEPT ![proc[p].c] = y] /\ UNCHANGED <<commands, faults, mishaps>>
  <2>1. FilesOk'
    BY <1>2, <1>4, <1>7, <1>10 DEF Types, FilesOk
  <2>2. Used(c)' = Used(c) /\ rec'[c] = y
    BY <1>2, <1>3, <1>4, <1>10 DEF Used, Types, FilesOk
  <2>3. \A e \in Containers \ {c} : rec'[e] = rec[e]
    BY <1>2, <1>3, <1>10 DEF Types, FilesOk
  <2>4. CASE proc[p].pc = "clear_save" /\ Return(p)
    <3>1. PICK d \in Process :
             /\ Local(d) /\ Moved(p, d) /\ d.pc \in {"idle", "stopped"}
             /\ d.c \in {proc[p].c, None} /\ d.mem \in {proc[p].mem, None}
             /\ Held(d) \subseteq Held(proc[p])
             /\ Loose(d)' /\ Distinct(d) /\ View(d)'
      BY <1>2, <2>4, Returned
    <3>2. On(p, d, c)
      BY <1>3, <1>4, <2>3, <3>1 DEF On
    <3>3. \A a \in Addrs : rec'[c] # [ip |-> a]
      BY <1>6, <2>2, <2>4, LinuxAssumption
    <3>4. \A a \in Addrs : a \notin Recorded(c)'
      BY <3>3 DEF Recorded
    <3>5. ASSUME Tidy PROVE Held(proc[p]) = {} /\ Unlinks(proc[p]) = {} /\ d.mem \in {None, [ip |-> None]}
      <4>1. proc[p].mem \in {None, [ip |-> None]}
        BY <3>5 DEF Tidy
      <4>2. Held(proc[p]) = {} /\ Unlinks(proc[p]) = {}
        BY <2>4, <4>1, LinuxAssumption, NoneAssumption
           DEF Held, Unlinks, Holding, Linked, Releasing, Record, MaybeAddr
      <4> QED  BY <3>1, <4>1, <4>2
    <3>6. d.pc \notin Window
      BY <3>1 DEF Window
    <3> QED  BY <1>4, <1>10, <2>1, <2>2, <3>1, <3>2, <3>3, <3>4, <3>5, <3>6, StepInv
  <2>5. CASE proc[p].pc = "ip_save" /\ Goto(p, "wait")
    <3>1. On(p, w, c)
      BY <1>3, <1>4, <1>8, <2>3 DEF On
    <3>2. \A a \in Addrs : rec'[c] = [ip |-> a] => a = proc[p].ip
      BY <1>6, <2>2, <2>5
    <3>3. \A a \in Addrs : rec'[c] = [ip |-> a] => a \in Held(proc[p]) /\ a \in Clears(w)
      BY <1>8, <2>5, <3>2 DEF Held, Clears, Holding, Linked
    <3>4. \A a \in Addrs : a \in Recorded(c)' => a \in Held(proc[p])
      BY <3>3 DEF Recorded
    <3>5. w.pc \notin Window
      BY <1>8 DEF Window
    <3>6. Safe => Distinct(w)
      BY <1>8, <2>5 DEF Safe
    <3>7. \A a \in Addrs : a \in Used(c)' =>
             (w.c = c /\ a \in Unlinks(w)) \/ (a \in Used(c) /\ a \notin Unlinks(proc[p]))
      BY <1>3, <1>8, <2>2, <2>5
    <3>8. Tidy => w.mem \in {None, [ip |-> None]}
      BY <1>8 DEF Tidy
    <3> QED
      BY <1>3, <1>4, <1>8, <1>10, <2>1, <2>2, <2>5, <3>1, <3>3, <3>4, <3>5, <3>6, <3>7, <3>8, StepInv
  <2> QED  BY <2>4, <2>5 DEF SaveIp, At
<1> QED  BY <1>6, <1>9, <1>10 DEF SaveIp, At

-----------------------------------------------------------------------------
(* run begins and ends *)

\* What the command has left when its run is over.
LEMMA RunOver ==
    ASSUME Types, NEW p \in Procs, proc[p].pc \in {"running", "stopped"}, AfterRun(p)
    PROVE  \E d \in Process :
              /\ Local(d) /\ Moved(p, d) /\ d.pc \in {"idle", "unlink"}
              /\ d.c \in {proc[p].c, None} /\ d.mem \in {proc[p].mem, None}
              /\ Held(d) \subseteq Held(proc[p])
<1>1. proc[p] \in Process /\ Local(proc[p]) /\ proc[p].c \in Containers
  BY Working
<1>2. CASE proc[p].cmd = "run"
  <2>1. PICK d : d = [proc[p] EXCEPT !.pc = "unlink"]
    OBVIOUS
  <2>2. Moved(p, d)
    BY <1>2, <2>1 DEF AfterRun, Goto, Moved
  <2>3. /\ d \in Process /\ d.pc = "unlink" /\ d.c = proc[p].c /\ d.mem = proc[p].mem
        /\ d.cmd = "run" /\ d.ip = proc[p].ip
    BY <1>1, <1>2, <2>1 DEF Process, Pcs
  <2>4. d.mem = [ip |-> None]
    BY <1>1, <1>2, <2>3 DEF Local
  <2>5. Local(d)
    BY <1>1, <1>2, <2>3, <2>4 DEF Local, Releasing
  <2>6. Held(d) = {}
    BY <2>3, <2>4, LinuxAssumption DEF Held, Holding, Linked, Releasing
  <2> QED  BY <2>2, <2>3, <2>5, <2>6
<1>3. CASE proc[p].cmd # "run"
  <2>1. Moved(p, IdleProc)
    BY <1>3 DEF AfterRun, Exit, Moved
  <2> QED  BY <2>1, IdleFacts
<1> QED  BY <1>2, <1>3

\* The record could not be written.
LEMMA NotWritten ==
    ASSUME Inv, NEW p \in Procs, proc[p].pc \in {"running", "stopped"}, AfterRun(p), Fault,
           rec' = rec, UNCHANGED <<rootfs, pool, kernel, orphans, history>>
    PROVE  Inv'
<1>1. Types
  BY DEF Inv
<1>2. PICK d \in Process :
         /\ Local(d) /\ Moved(p, d) /\ d.pc \in {"idle", "unlink"}
         /\ d.c \in {proc[p].c, None} /\ d.mem \in {proc[p].mem, None}
         /\ Held(d) \subseteq Held(proc[p])
  BY <1>1, RunOver
<1>3. faults' \in 0 .. MaxFaults /\ faults' # 0 /\ commands' = commands
  BY <1>1, FaultFacts
<1>4. /\ UNCHANGED <<files, leases, tmp, kernel, left>> /\ mishaps' = mishaps
      /\ orphans' \in SUBSET [c : Containers, ip : MaybeAddr]
      /\ mishaps' \in SUBSET {"race", "stale", "behind"}
  BY <1>1 DEF files, pool, history, Types, FilesOk
<1>5. Loose(d) /\ Distinct(d) /\ View(d) /\ d.pc \notin Window /\ ~Behind(p)
  BY <1>2 DEF Loose, Distinct, View, Window, Releasing, Holding, Linked, Behind
<1> QED  BY <1>2, <1>3, <1>4, <1>5, Quiet

\* run begins.
LEMMA MarkRunningInv == ASSUME Inv, NEW p \in Procs, MarkRunning(p) PROVE Inv'
<1>1. PICK d : d = [proc[p] EXCEPT !.pc = "prepare"]
  OBVIOUS
<1>2. proc[p].pc = "running" /\ UNCHANGED <<rootfs, pool, kernel, orphans, history>>
  BY DEF MarkRunning, At
<1>3. Types /\ proc[p] \in Process /\ Local(proc[p]) /\ proc[p].c \in Containers
  BY <1>2, Working DEF Inv
<1>4. /\ d \in Process /\ d.pc = "prepare" /\ d.c = proc[p].c /\ d.mem = proc[p].mem
      /\ d.cmd = proc[p].cmd /\ d.ip = proc[p].ip
  BY <1>1, <1>3 DEF Process, Pcs
<1>5. Local(d)
  BY <1>2, <1>3, <1>4 DEF Local, Releasing
<1>6. Held(d) \subseteq Held(proc[p])
  BY <1>2, <1>3, <1>4 DEF Held, Holding, Linked, Releasing
<1>7. CASE /\ rec' = [rec EXCEPT ![proc[p].c] = proc[p].mem]
           /\ Goto(p, "prepare") /\ UNCHANGED <<commands, faults>>
  <2>1. Moved(p, d)
    BY <1>1, <1>7 DEF Goto, Moved
  <2>2. UNCHANGED <<rootfs, pool, kernel, failed, history>>
    BY <1>2, <1>7 DEF failed
  <2> QED  BY <1>2, <1>4, <1>5, <1>6, <1>7, <2>1, <2>2, Written
<1>8. CASE Fault /\ AfterRun(p) /\ UNCHANGED rec
  BY <1>2, <1>8, NotWritten
<1> QED  BY <1>7, <1>8 DEF MarkRunning

\* run ends.
LEMMA MarkStoppedInv == ASSUME Inv, NEW p \in Procs, MarkStopped(p) PROVE Inv'
<1>1. /\ proc[p].pc = "stopped" /\ AfterRun(p)
      /\ UNCHANGED <<rootfs, pool, kernel, orphans, history>>
  BY DEF MarkStopped, At
<1>2. CASE rec' = [rec EXCEPT ![proc[p].c] = proc[p].mem] /\ UNCHANGED <<commands, faults>>
  <2>1. Types
    BY DEF Inv
  <2>2. PICK d \in Process :
           /\ Local(d) /\ Moved(p, d) /\ d.pc \in {"idle", "unlink"}
           /\ d.c \in {proc[p].c, None} /\ d.mem \in {proc[p].mem, None}
           /\ Held(d) \subseteq Held(proc[p])
    BY <1>1, <2>1, RunOver
  <2>3. UNCHANGED <<rootfs, pool, kernel, failed, history>>
    BY <1>1, <1>2 DEF failed
  <2> QED  BY <1>1, <1>2, <2>2, <2>3, Written
<1>3. CASE Fault /\ UNCHANGED rec
  BY <1>1, <1>3, NotWritten
<1> QED  BY <1>2, <1>3 DEF MarkStopped

-----------------------------------------------------------------------------
(* Steps on the links and the rules *)

\* The command changes the link or the rules of its container.
LEMMA KernelStep ==
    ASSUME Inv, NEW p \in Procs, proc[p].pc \notin Clearing \cup {"idle"},
           NEW d \in Process, Local(d), Moved(p, d), d.c = proc[p].c, d.mem = proc[p].mem,
           d.pc \notin Window, d.pc # "veth",
           UNCHANGED <<files, pool, failed, mishaps>>,
           link' \in [Containers -> MaybeAddr], dnat' \in [Containers -> SUBSET Addrs],
           left' \in [Containers -> SUBSET Addrs],
           NEW c \in Containers, c = proc[p].c,
           \A e \in Containers \ {c} : link'[e] = link[e] /\ dnat'[e] = dnat[e] /\ left'[e] = left[e],
           Safe =>
              /\ \A a \in Addrs : a \in Used(c)' => a \in Used(c) \/ a \in Held(proc[p])
              /\ Held(d) \subseteq Held(proc[p])
              /\ Distinct(d)
              /\ d.pc \in Releasing => d.freed \notin Used(c)'
              /\ d.pc \in Releasing /\ d.ret = "fork" => d.freed \notin Recorded(c),
           Tidy =>
              /\ Held(proc[p]) \subseteq Held(d)
              /\ \A a \in Addrs : a \in Used(c)' =>
                    a \in Unlinks(d) \/ (a \in Used(c) /\ a \notin Unlinks(proc[p]))
              /\ Clears(proc[p]) \subseteq Clears(d)
    PROVE  Inv'
<1>1. Types /\ proc[p] \in Process /\ Local(proc[p])
  BY Working DEF Inv
<1>2. /\ rec' = rec /\ rootfs' = rootfs /\ leases' = leases /\ tmp' = tmp /\ orphans' = orphans
      /\ commands' = commands /\ faults' = faults /\ mishaps' = mishaps
  BY DEF files, pool, failed
<1>3. FilesOk'
  BY <1>1, <1>2 DEF Types, FilesOk
<1>4. On(p, d, c)
  BY <1>2 DEF On
<1>5. \A a \in Addrs : a \in Recorded(c)' => a \in Recorded(c)
  BY <1>1, <1>2, RecordKept
<1>6. View(d)'
  BY DEF View, Window
<1>7. d.pc \in Releasing => d.freed \in Addrs
  BY DEF Local
<1>8. Safe => Loose(d)'
  BY <1>5, <1>7 DEF Loose
<1>9. Tidy => d.mem \in {None, [ip |-> None]}
  BY DEF Tidy
<1>10. NoMishap' = NoMishap
  BY <1>2 DEF NoMishap
<1> QED  BY <1>2, <1>3, <1>4, <1>5, <1>6, <1>8, <1>9, <1>10, StepInv

\* Deleting a container's rules and link leaves what could not be deleted, and
\* that is noted.
LEMMA CleanedUp ==
    ASSUME Types, NEW c \in Containers, Cleanup(c), Destroy(c), LeftBehind(c)
    PROVE  /\ link' \in [Containers -> MaybeAddr] /\ dnat' \in [Containers -> SUBSET Addrs]
           /\ left' \in [Containers -> SUBSET Addrs]
           /\ \A e \in Containers \ {c} :
                 link'[e] = link[e] /\ dnat'[e] = dnat[e] /\ left'[e] = left[e]
           /\ \A a : a \notin Used(c)'
<1>1. dnat' \in [Containers -> SUBSET Addrs] /\ \A e \in Containers \ {c} : dnat'[e] = dnat[e]
  BY DEF Cleanup, Types, FilesOk
<1>2. link' \in [Containers -> MaybeAddr] /\ \A e \in Containers \ {c} : link'[e] = link[e]
  BY DEF Destroy, Types, FilesOk, MaybeAddr
<1>3. dnat'[c] \cup ({link'[c]} \ {None}) \in SUBSET Addrs
  BY <1>1, <1>2 DEF MaybeAddr
<1>4. /\ left' \in [Containers -> SUBSET Addrs] /\ \A e \in Containers \ {c} : left'[e] = left[e]
      /\ left'[c] = dnat'[c] \cup ({link'[c]} \ {None})
  BY <1>3 DEF LeftBehind, Types, FilesOk
<1>5. \A a : a \notin Used(c)'
  BY <1>4 DEF Used
<1> QED  BY <1>1, <1>2, <1>4, <1>5

\* remove: the networking of the container.
LEMMA UnlinkInv == ASSUME Inv, NEW p \in Procs, Unlink(p) PROVE Inv'
<1>1. proc[p].pc = "unlink"
  BY DEF Unlink, At
<1>2. /\ Types /\ proc[p] \in Process /\ Local(proc[p]) /\ proc[p].c \in Containers
      /\ proc[p].cmd \in AllCommands
  BY <1>1, Working DEF Inv
<1>3. PICK c \in Containers : c = proc[p].c
  BY <1>2
<1>4. PICK i : i = proc[p].mem.ip
  OBVIOUS
<1>5. PICK d : d = [proc[p] EXCEPT !.freed = i, !.ret = "rmdir",
                                   !.pc = IF i = None THEN "rmdir" ELSE "release"]
  OBVIOUS
<1>6. proc[p].cmd \in {"run", "rm"} /\ proc[p].mem \in Record /\ proc[p].ip = None
  BY <1>1, <1>2 DEF Local, Process, AllCommands
<1>7. i \in MaybeAddr /\ proc[p].mem = [ip |-> i]
  BY <1>4, <1>6 DEF Record
<1>8. Moved(p, d)
  BY <1>4, <1>5 DEF Unlink, Moved
<1>9. /\ d \in Process /\ d.c = c /\ d.mem = proc[p].mem /\ d.cmd = proc[p].cmd /\ d.ip = None
      /\ d.freed = i /\ d.ret = "rmdir" /\ d.pc = (IF i = None THEN "rmdir" ELSE "release")
  BY <1>2, <1>3, <1>5, <1>6, <1>7 DEF Process, Pcs, Clearing, Releasing
<1>10. proc[p].cmd = "run" => i = None
  BY <1>2, <1>7 DEF Local
<1>11. Local(d)
  BY <1>1, <1>2, <1>6, <1>7, <1>9, <1>10, NoneAssumption DEF Local, Releasing, MaybeAddr
<1>12. /\ link' \in [Containers -> MaybeAddr] /\ dnat' \in [Containers -> SUBSET Addrs]
       /\ left' \in [Containers -> SUBSET Addrs]
       /\ \A e \in Containers \ {c} : link'[e] = link[e] /\ dnat'[e] = dnat[e] /\ left'[e] = left[e]
       /\ \A a : a \notin Used(c)'
  BY <1>2, <1>3, CleanedUp DEF Unlink
<1>13. Held(d) \subseteq Held(proc[p])
  BY <1>1, <1>6, <1>7, <1>9, LinuxAssumption DEF Held, Holding, Linked, Releasing
<1>14. Distinct(d)
  BY <1>6, <1>9 DEF Distinct
<1>15. Clears(proc[p]) = {}
  BY <1>1 DEF Clears, Releasing
<1>16. ASSUME Tidy PROVE Held(proc[p]) = {}
  <2>1. proc[p].mem = [ip |-> None]
    BY <1>6, <1>16, NoneAssumption DEF Tidy
  <2> QED  BY <1>1, <2>1, LinuxAssumption DEF Held, Holding, Linked, Releasing
<1>17. /\ d.pc \notin Window /\ d.pc # "veth" /\ d.ret # "fork"
       /\ proc[p].pc \notin Clearing \cup {"idle"}
  BY <1>1, <1>9 DEF Window, Clearing
<1>18. UNCHANGED <<files, pool, failed, mishaps>>
  BY DEF Unlink
<1> QED
  BY <1>3, <1>8, <1>9, <1>11, <1>12, <1>13, <1>14, <1>15, <1>16, <1>17, <1>18, KernelStep

\* cleanup_bridged_net: the networking goes, the lease is next.
LEMMA TeardownInv == ASSUME Inv, NEW p \in Procs, Teardown(p) PROVE Inv'
<1>1. proc[p].pc = "teardown"
  BY DEF Teardown, At
<1>2. /\ Types /\ proc[p] \in Process /\ Local(proc[p]) /\ proc[p].c \in Containers
      /\ proc[p].cmd \in AllCommands
  BY <1>1, Working DEF Inv
<1>3. PICK c \in Containers : c = proc[p].c
  BY <1>2
<1>4. PICK d : d = [proc[p] EXCEPT !.pc = "release", !.freed = proc[p].ip, !.ret = "clear_load"]
  OBVIOUS
<1>5. Moved(p, d)
  BY <1>4 DEF Teardown, Moved
<1>6. /\ d \in Process /\ d.c = c /\ d.mem = proc[p].mem /\ d.cmd = proc[p].cmd
      /\ d.ip = proc[p].ip /\ d.freed = proc[p].ip /\ d.ret = "clear_load" /\ d.pc = "release"
  BY <1>2, <1>3, <1>4 DEF Process, Pcs, Releasing
<1>7. proc[p].ip \in Addrs /\ proc[p].cmd \notin {"rm", "stop"}
  BY <1>1, <1>2 DEF Local, Releasing
<1>8. Local(d)
  BY <1>1, <1>2, <1>6, <1>7 DEF Local, Releasing
<1>9. /\ link' \in [Containers -> MaybeAddr] /\ dnat' \in [Containers -> SUBSET Addrs]
      /\ left' \in [Containers -> SUBSET Addrs]
      /\ \A e \in Containers \ {c} : link'[e] = link[e] /\ dnat'[e] = dnat[e] /\ left'[e] = left[e]
      /\ \A a : a \notin Used(c)'
  BY <1>2, <1>3, CleanedUp DEF Teardown
<1>10. Held(d) = Held(proc[p])
  BY <1>1, <1>6 DEF Held, Holding, Linked, Releasing
<1>11. ASSUME Safe PROVE Distinct(d)
  <2>1. Distinct(proc[p])
    BY <1>11 DEF Safe
  <2> QED  BY <1>1, <1>6, <1>7, <2>1, LinuxAssumption DEF Distinct, Holding, Linked, Releasing
<1>12. Clears(proc[p]) = Clears(d)
  BY <1>1, <1>6 DEF Clears, Releasing
<1>13. /\ d.pc \notin Window /\ d.pc # "veth" /\ d.ret # "fork"
       /\ proc[p].pc \notin Clearing \cup {"idle"}
  BY <1>1, <1>6 DEF Window, Clearing
<1>14. UNCHANGED <<files, pool, failed, mishaps>>
  BY DEF Teardown
<1> QED
  BY <1>3, <1>5, <1>6, <1>8, <1>9, <1>10, <1>11, <1>12, <1>13, <1>14, KernelStep

\* The pair is made, or the lease goes back.
LEMMA CreatePairInv == ASSUME Inv, NEW p \in Procs, CreatePair(p) PROVE Inv'
<1>1. proc[p].pc = "veth"
  BY DEF CreatePair, At
<1>2. /\ Types /\ proc[p] \in Process /\ Local(proc[p]) /\ proc[p].c \in Containers
      /\ proc[p].cmd \in AllCommands
  BY <1>1, Working DEF Inv
<1>3. PICK c \in Containers : c = proc[p].c
  BY <1>2
<1>4. proc[p].ip \in Addrs /\ proc[p].cmd \notin {"rm", "stop"}
  BY <1>1, <1>2 DEF Local, Releasing
<1>5. UNCHANGED <<files, pool, failed, mishaps>> /\ dnat' = dnat
  BY DEF CreatePair
<1>6. Clears(proc[p]) = {} /\ Unlinks(proc[p]) = {} /\ proc[p].pc \notin Clearing \cup {"idle"}
  BY <1>1 DEF Clears, Unlinks, Linked, Releasing, Clearing
<1>7. CASE /\ link' = [link EXCEPT ![proc[p].c] = proc[p].ip]
           /\ InUse(proc[p].c, proc[p].ip)
           /\ Goto(p, "fork")
  <2>1. PICK d : d = [proc[p] EXCEPT !.pc = "fork"]
    OBVIOUS
  <2>2. "fork" \in Pcs
    BY DEF Pcs, Holding, Linked
  <2>3. /\ d \in Process /\ Moved(p, d) /\ d.pc = "fork" /\ d.cmd = proc[p].cmd /\ d.c = c
        /\ d.mem = proc[p].mem /\ d.ip = proc[p].ip
    BY <1>1, <1>2, <1>3, <1>7, <2>1, <2>2, Jumped
  <2>4. Local(d)
    BY <1>1, <1>2, <2>3 DEF Local, Releasing
  <2>5. /\ link' \in [Containers -> MaybeAddr] /\ dnat' \in [Containers -> SUBSET Addrs]
        /\ left' \in [Containers -> SUBSET Addrs]
        /\ \A e \in Containers \ {c} : link'[e] = link[e] /\ dnat'[e] = dnat[e] /\ left'[e] = left[e]
        /\ link'[c] = proc[p].ip /\ dnat'[c] = dnat[c] /\ left'[c] = left[c] \ {proc[p].ip}
    BY <1>2, <1>3, <1>4, <1>5, <1>7 DEF InUse, Types, FilesOk, MaybeAddr
  <2>6. \A a : a \in Used(c)' => a \in Used(c) \/ a = proc[p].ip
    BY <2>5 DEF Used
  <2>7. Held(d) = Held(proc[p]) /\ proc[p].ip \in Held(proc[p]) /\ proc[p].ip \in Unlinks(d)
    BY <1>1, <1>4, <2>3 DEF Held, Unlinks, Holding, Linked, Releasing
  <2>8. Distinct(proc[p]) => Distinct(d)
    BY <1>1, <2>3 DEF Distinct, Holding, Releasing, Linked
  <2>9. d.pc \notin Window /\ d.pc # "veth" /\ d.pc \notin Releasing
    BY <2>3 DEF Window, Releasing
  <2>10. Safe => Distinct(d)
    BY <2>8 DEF Safe
  <2> QED  BY <1>3, <1>5, <1>6, <2>3, <2>4, <2>5, <2>6, <2>7, <2>9, <2>10, KernelStep
<1>8. CASE /\ Destroy(proc[p].c)
           /\ proc' = [proc EXCEPT ![p].pc = "release", ![p].freed = proc[p].ip,
                                   ![p].ret = "fork", ![p].ip = None]
           /\ UNCHANGED left
  <2>1. PICK d : d = [proc[p] EXCEPT !.pc = "release", !.freed = proc[p].ip, !.ret = "fork",
                                     !.ip = None]
    OBVIOUS
  <2>2. Moved(p, d)
    BY <1>8, <2>1 DEF Moved
  <2>3. /\ d \in Process /\ d.pc = "release" /\ d.cmd = proc[p].cmd /\ d.c = c
        /\ d.mem = proc[p].mem /\ d.ip = None /\ d.freed = proc[p].ip /\ d.ret = "fork"
    BY <1>2, <1>3, <2>1 DEF Process, Pcs, Releasing, MaybeAddr
  <2>4. Local(d)
    BY <1>1, <1>2, <1>4, <2>3 DEF Local, Releasing
  <2>5. /\ link' \in [Containers -> MaybeAddr] /\ dnat' \in [Containers -> SUBSET Addrs]
        /\ left' \in [Containers -> SUBSET Addrs]
        /\ \A e \in Containers \ {c} : link'[e] = link[e] /\ dnat'[e] = dnat[e] /\ left'[e] = left[e]
        /\ link'[c] \in {link[c], None} /\ dnat'[c] = dnat[c] /\ left'[c] = left[c]
    BY <1>2, <1>3, <1>5, <1>8 DEF Destroy, Types, FilesOk, MaybeAddr
  <2>6. \A a : a \in Used(c)' => a \in Used(c)
    BY <2>5 DEF Used
  <2>7. Held(d) = Held(proc[p])
    BY <1>1, <2>3 DEF Held, Holding, Linked, Releasing
  <2>8. ASSUME Safe PROVE Distinct(d) /\ d.freed \notin Used(c) /\ d.freed \notin Recorded(c)
    <3>1. Distinct(proc[p]) /\ Loose(proc[p])
      BY <2>8 DEF Safe
    <3>2. Distinct(d)
      BY <1>1, <1>4, <2>3, <3>1, LinuxAssumption DEF Distinct, Holding, Linked, Releasing
    <3>3. d.freed \notin Used(c) /\ d.freed \notin Recorded(c)
      BY <1>1, <1>3, <2>3, <3>1 DEF Loose
    <3> QED  BY <3>2, <3>3
  <2>9. d.pc \notin Window /\ d.pc # "veth"
    BY <2>3 DEF Window
  <2> QED  BY <1>3, <1>5, <1>6, <2>2, <2>3, <2>4, <2>5, <2>6, <2>7, <2>8, <2>9, KernelStep
<1> QED  BY <1>7, <1>8 DEF CreatePair

\* host_finalize_net: the rules are there, or not.
LEMMA InstallDnatInv == ASSUME Inv, NEW p \in Procs, InstallDnat(p) PROVE Inv'
<1>1. proc[p].pc = "dnat"
  BY DEF InstallDnat, At
<1>2. Types /\ proc[p] \in Process /\ Local(proc[p]) /\ proc[p].c \in Containers
  BY <1>1, Working DEF Inv
<1>3. PICK c \in Containers : c = proc[p].c
  BY <1>2
<1>4. proc[p].ip \in Addrs
  BY <1>1, <1>2 DEF Local
<1>5. PICK d : d = [proc[p] EXCEPT !.pc = "ip_load"]
  OBVIOUS
<1>6. "ip_load" \in Pcs
  BY DEF Pcs, Holding, Linked
<1>7. /\ d \in Process /\ Moved(p, d) /\ d.pc = "ip_load" /\ d.cmd = proc[p].cmd /\ d.c = c
      /\ d.mem = proc[p].mem /\ d.ip = proc[p].ip
  BY <1>1, <1>2, <1>3, <1>5, <1>6, Jumped DEF InstallDnat
<1>8. Local(d)
  BY <1>1, <1>2, <1>7 DEF Local, Releasing
<1>9. UNCHANGED <<files, pool, failed, mishaps>> /\ link' = link
  BY DEF InstallDnat
<1>10. /\ link' \in [Containers -> MaybeAddr] /\ dnat' \in [Containers -> SUBSET Addrs]
       /\ left' \in [Containers -> SUBSET Addrs]
       /\ \A e \in Containers \ {c} : link'[e] = link[e] /\ dnat'[e] = dnat[e] /\ left'[e] = left[e]
       /\ link'[c] = link[c]
       /\ \/ dnat'[c] = dnat[c] \cup {proc[p].ip} /\ left'[c] = left[c] \ {proc[p].ip}
          \/ dnat'[c] = dnat[c] /\ left'[c] = left[c]
  BY <1>2, <1>3, <1>4, <1>9 DEF InstallDnat, InUse, Types, FilesOk
<1>11. \A a : a \in Used(c)' => a \in Used(c) \/ a = proc[p].ip
  BY <1>10 DEF Used
<1>12. /\ Held(d) = Held(proc[p]) /\ proc[p].ip \in Held(proc[p]) /\ proc[p].ip \in Unlinks(d)
       /\ Unlinks(proc[p]) = Unlinks(d) /\ Clears(proc[p]) = {}
  BY <1>1, <1>4, <1>7 DEF Held, Unlinks, Clears, Holding, Linked, Releasing
<1>13. Distinct(proc[p]) => Distinct(d)
  BY <1>1, <1>7 DEF Distinct, Holding, Releasing, Linked
<1>14. /\ d.pc \notin Window /\ d.pc # "veth" /\ d.pc \notin Releasing
       /\ proc[p].pc \notin Clearing \cup {"idle"}
  BY <1>1, <1>7 DEF Window, Releasing, Clearing
<1>15. Safe => Distinct(d)
  BY <1>13 DEF Safe
<1> QED  BY <1>3, <1>7, <1>8, <1>9, <1>10, <1>11, <1>12, <1>14, <1>15, KernelStep

\* The link of a network namespace goes with it.
LEMMA LinkGoneFacts ==
    ASSUME Types, NEW c \in Containers, NEW ip, LinkGone(c, ip), dnat' = dnat, left' = left
    PROVE  /\ link' \in [Containers -> MaybeAddr]
           /\ \A e \in Containers \ {c} : link'[e] = link[e]
           /\ \A e \in Containers, a \in Addrs : a \in Used(e)' => a \in Used(e)
<1>1. link' \in [Containers -> MaybeAddr] /\ \A e \in Containers \ {c} : link'[e] = link[e]
  BY DEF LinkGone, Types, FilesOk, MaybeAddr
<1>2. \A e \in Containers : link'[e] \in {link[e], None}
  BY DEF LinkGone, Types, FilesOk
<1>3. \A e \in Containers, a \in Addrs : a \in Used(e)' => a \in Used(e)
  BY <1>2 DEF Used
<1> QED  BY <1>1, <1>3

\* The program ends.
LEMMA ProgramExitsInv == ASSUME Inv, NEW p \in Procs, ProgramExits(p) PROVE Inv'
<1>1. proc[p].pc = "wait"
  BY DEF ProgramExits, At
<1>2. Types /\ proc[p] \in Process /\ Local(proc[p]) /\ proc[p].c \in Containers
  BY <1>1, Working DEF Inv
<1>3. PICK c \in Containers : c = proc[p].c
  BY <1>2
<1>4. UNCHANGED <<files, pool, dnat, failed, history>>
  BY DEF ProgramExits
<1>5. CASE proc[p].ip = None
  <2>1. link' = link /\ Return(p)
    BY <1>2, <1>5 DEF ProgramExits, LinkGone, Types, FilesOk
  <2>2. /\ UNCHANGED <<files, leases, tmp, kernel, left>> /\ orphans' = orphans
        /\ commands' = commands /\ faults' = faults /\ mishaps' = mishaps
    BY <1>4, <2>1 DEF pool, failed, history, kernel
  <2>3. faults' \in 0 .. MaxFaults /\ mishaps' \in SUBSET {"race", "stale", "behind"} /\ ~Behind(p)
    BY <1>1, <1>2, <2>2 DEF Types, FilesOk, Behind
  <2> QED  BY <1>1, <1>5, <2>1, <2>2, <2>3, ReturnQuiet
<1>6. CASE proc[p].ip # None
  <2>1. PICK d : d = [proc[p] EXCEPT !.pc = "teardown"]
    OBVIOUS
  <2>2. "teardown" \in Pcs
    BY DEF Pcs, Holding, Linked
  <2>3. /\ d \in Process /\ Moved(p, d) /\ d.pc = "teardown" /\ d.cmd = proc[p].cmd /\ d.c = c
        /\ d.mem = proc[p].mem /\ d.ip = proc[p].ip
    BY <1>1, <1>2, <1>3, <1>6, <2>1, <2>2, Jumped DEF ProgramExits
  <2>4. proc[p].ip \in Addrs
    BY <1>2, <1>6 DEF Process, MaybeAddr
  <2>5. Local(d)
    BY <1>1, <1>2, <2>3, <2>4 DEF Local, Releasing
  <2>6. /\ link' \in [Containers -> MaybeAddr] /\ \A e \in Containers \ {c} : link'[e] = link[e]
        /\ \A a \in Addrs : a \in Used(c)' => a \in Used(c)
    BY <1>2, <1>3, <1>4, LinkGoneFacts DEF ProgramExits, history
  <2>7. /\ dnat' \in [Containers -> SUBSET Addrs] /\ left' \in [Containers -> SUBSET Addrs]
        /\ dnat' = dnat /\ left' = left /\ UNCHANGED <<files, pool, failed, mishaps>>
    BY <1>2, <1>4 DEF history, Types, FilesOk
  <2>8. Held(d) = Held(proc[p]) /\ Unlinks(d) = Unlinks(proc[p]) /\ Clears(d) = Clears(proc[p])
    BY <1>1, <2>3 DEF Held, Unlinks, Clears, Holding, Linked, Releasing
  <2>9. Distinct(proc[p]) => Distinct(d)
    BY <1>1, <2>3 DEF Distinct, Holding, Releasing, Linked
  <2>10. /\ d.pc \notin Window /\ d.pc # "veth" /\ d.pc \notin Releasing
         /\ proc[p].pc \notin Clearing \cup {"idle"}
    BY <1>1, <2>3 DEF Window, Releasing, Clearing
  <2>11. Safe => Distinct(d)
    BY <2>9 DEF Safe
  <2> QED  BY <1>3, <2>3, <2>5, <2>6, <2>7, <2>8, <2>10, <2>11, KernelStep
<1> QED  BY <1>5, <1>6

\* A program whose command was killed ends.
LEMMA OrphanExitsInv == ASSUME Inv, NEW o \in orphans, OrphanExits(o) PROVE Inv'
<1>1. Types /\ o.c \in Containers
  BY DEF Inv, Types, FilesOk
<1>2. /\ rec' = rec /\ rootfs' = rootfs /\ leases' = leases /\ tmp' = tmp /\ dnat' = dnat
      /\ proc' = proc /\ commands' = commands /\ faults' = faults /\ left' = left
      /\ mishaps' = mishaps /\ orphans' \subseteq orphans
  BY DEF OrphanExits, files, pool, history
<1>3. /\ link' \in [Containers -> MaybeAddr]
      /\ \A e \in Containers, a \in Addrs : a \in Used(e)' => a \in Used(e)
  BY <1>1, <1>2, LinkGoneFacts DEF OrphanExits
<1>4. FilesOk'
  BY <1>1, <1>2, <1>3 DEF Types, FilesOk
<1>5. Types'
  BY <1>1, <1>2, <1>4 DEF Types
<1>6. \A e \in Containers : Recorded(e)' = Recorded(e)
  BY <1>2 DEF Recorded
<1>7. \A e \in Containers, a \in Addrs : Belongs(e, a)' => Belongs(e, a)
  BY <1>2, <1>3, <1>6 DEF Belongs
<1>8. ASSUME Safe PROVE Safe'
  <2>1. Covered' /\ Apart'
    BY <1>2, <1>7, <1>8 DEF Safe, Covered, Apart
  <2>2. Alone' /\ OneWriter'
    BY <1>2, <1>8 DEF Safe, Alone, OneWriter
  <2>3. ASSUME NEW q \in Procs PROVE (Loose(proc[q]) /\ Distinct(proc[q]) /\ View(proc[q]))'
    <3>1. Loose(proc[q]) /\ Distinct(proc[q]) /\ View(proc[q])
      BY <1>8 DEF Safe
    <3>2. /\ proc[q].pc = "veth" => proc[q].ip \in Addrs /\ proc[q].c \in Containers
          /\ proc[q].pc \in Releasing => proc[q].freed \in Addrs /\ proc[q].c \in Containers
      BY <1>1 DEF Types, Local, Releasing
    <3>3. Loose(proc[q])'
      BY <1>2, <1>3, <1>6, <3>1, <3>2 DEF Loose
    <3>4. Distinct(proc[q])' /\ View(proc[q])'
      BY <1>2, <3>1 DEF Distinct, View
    <3> QED  BY <3>3, <3>4
  <2> QED  BY <2>1, <2>2, <2>3 DEF Safe
<1>9. ASSUME Tidy PROVE Tidy'
  BY <1>2, <1>3, <1>9 DEF Tidy
<1>10. NoMishap' = NoMishap
  BY <1>2 DEF NoMishap
<1> QED  BY <1>2, <1>5, <1>8, <1>9, <1>10 DEF Inv

-----------------------------------------------------------------------------
(* Steps on the lease file *)

\* The changed set is written to the temporary file.
LEMMA WriteTmpInv == ASSUME Inv, NEW p \in Procs, WriteTmp(p) PROVE Inv'
<1>1. proc[p].pc \in {"alloc_tmp", "release_tmp"}
  BY DEF WriteTmp
<1>2. Types /\ proc[p] \in Process /\ Local(proc[p]) /\ proc[p].c \in Containers
  BY <1>1, Working DEF Inv
<1>3. PICK c \in Containers : c = proc[p].c
  BY <1>2
<1>4. PICK pc : pc = IF proc[p].pc = "alloc_tmp" THEN "alloc_rename" ELSE "release_rename"
  OBVIOUS
<1>5. PICK d : d = [proc[p] EXCEPT !.pc = pc]
  OBVIOUS
<1>6. Goto(p, pc) /\ pc \in Pcs
  BY <1>4 DEF WriteTmp, At, Pcs, Window
<1>7. /\ d \in Process /\ Moved(p, d) /\ d.pc = pc /\ d.cmd = proc[p].cmd /\ d.c = c
      /\ d.mem = proc[p].mem /\ d.ip = proc[p].ip /\ d.view = proc[p].view
      /\ d.freed = proc[p].freed /\ d.ret = proc[p].ret
  BY <1>1, <1>2, <1>3, <1>5, <1>6, Jumped
<1>8. /\ rec' = rec /\ rootfs' = rootfs /\ leases' = leases /\ tmp' = proc[p].view
      /\ link' = link /\ dnat' = dnat /\ orphans' = orphans /\ commands' = commands
      /\ faults' = faults /\ left' = left /\ mishaps' = mishaps
  BY DEF WriteTmp, files, kernel, failed, history
<1>9. FilesOk'
  BY <1>2, <1>8 DEF Types, FilesOk, Process
<1>10. Local(d)
  BY <1>1, <1>2, <1>4, <1>7 DEF Local, Releasing
<1>11. On(p, d, c)
  BY <1>3, <1>7, <1>8 DEF On
<1>12. Used(c)' = Used(c)
  BY <1>8 DEF Used
<1>13. proc[p].pc \notin Clearing /\ proc[p].pc \in Window /\ d.pc # "veth"
  BY <1>1, <1>4, <1>7 DEF Clearing, Window
<1>14. \A a \in Addrs : a \in Recorded(c)' => a \in Recorded(c)
  BY <1>2, <1>7, <1>8, <1>10, <1>13, RecordKept
<1>15. Held(d) = Held(proc[p]) /\ Unlinks(d) = Unlinks(proc[p]) /\ Clears(d) = Clears(proc[p])
  BY <1>1, <1>4, <1>7 DEF Held, Unlinks, Clears, Holding, Linked, Releasing
<1>16. ASSUME Safe PROVE Loose(d)' /\ Distinct(d) /\ View(d)'
  <2>1. Loose(proc[p]) /\ Distinct(proc[p]) /\ View(proc[p])
    BY <1>16 DEF Safe
  <2>2. Distinct(d)
    BY <1>1, <1>4, <1>7, <2>1 DEF Distinct, Holding, Linked, Releasing
  <2>3. View(d)'
    BY <1>1, <1>4, <1>7, <1>8, <2>1 DEF View
  <2>4. d.pc \in Releasing => proc[p].pc \in Releasing /\ d.freed \in Addrs
    BY <1>1, <1>4, <1>7, <1>10 DEF Releasing, Local
  <2>5. Loose(d)'
    BY <1>3, <1>7, <1>12, <1>13, <1>14, <2>1, <2>4 DEF Loose
  <2> QED  BY <2>2, <2>3, <2>5
<1>17. Tidy => d.mem \in {None, [ip |-> None]}
  BY <1>7 DEF Tidy
<1> QED
  BY <1>7, <1>8, <1>9, <1>10, <1>11, <1>12, <1>13, <1>14, <1>15, <1>16, <1>17, StepInv

\* The record the command leaves after the replacement of the lease file.
Renamed(r) ==
    [r EXCEPT !.pc = IF r.pc = "release_rename" THEN r.ret
                     ELSE IF tmp = None THEN "fork" ELSE "veth",
              !.ip = IF r.pc = "alloc_rename" /\ tmp = None THEN None ELSE r.ip,
              !.view = {}]

\* What every replacement does, with or without the temporary file.
LEMMA RenameFacts ==
    ASSUME Types, NEW p \in Procs, Rename(p), NEW d, d = Renamed(proc[p])
    PROVE  /\ d \in Process /\ Local(d) /\ Moved(p, d) /\ d.c = proc[p].c /\ d.mem = proc[p].mem
           /\ d.cmd = proc[p].cmd /\ d.freed = proc[p].freed
           /\ proc[p].pc = "release_rename" =>
                 /\ d.pc = proc[p].ret /\ d.ip = proc[p].ip
                 /\ proc[p].ret \in {"rmdir", "fork", "clear_load"}
                 /\ proc[p].ret # "clear_load" => d.ip = None
           /\ proc[p].pc = "alloc_rename" /\ tmp # None => d.pc = "veth" /\ d.ip = proc[p].ip
           /\ d.pc \notin Window \cup Releasing
           /\ FilesOk'
           /\ On(p, d, proc[p].c)
           /\ \A e \in Containers : Used(e)' = Used(e)
<1>1. proc[p].pc \in {"alloc_rename", "release_rename"}
  BY DEF Rename
<1>2. proc[p] \in Process /\ Local(proc[p]) /\ proc[p].c \in Containers
  BY <1>1, Working
<1>3. Moved(p, d)
  BY DEF Rename, At, Moved, Renamed
<1>4. proc[p].pc = "release_rename" =>
         /\ proc[p].ret \in {"rmdir", "fork", "clear_load"} /\ proc[p].freed \in Addrs
         /\ proc[p].ret # "clear_load" => proc[p].ip = None
  BY <1>2 DEF Local, Process, Releasing
<1>5. PICK pc : pc = IF proc[p].pc = "release_rename" THEN proc[p].ret
                     ELSE IF tmp = None THEN "fork" ELSE "veth"
  OBVIOUS
<1>6. PICK i : i = IF proc[p].pc = "alloc_rename" /\ tmp = None THEN None ELSE proc[p].ip
  OBVIOUS
<1>7. pc \in {"rmdir", "fork", "clear_load", "veth"} /\ i \in MaybeAddr
  BY <1>1, <1>2, <1>4, <1>5, <1>6 DEF Process, MaybeAddr
<1>8. pc \in Pcs /\ pc \notin Window \cup Releasing
  BY <1>7 DEF Pcs, Window, Releasing, Holding, Linked, Clearing
<1>9. d = [proc[p] EXCEPT !.pc = pc, !.ip = i, !.view = {}]
  BY <1>5, <1>6 DEF Renamed
<1>10. /\ d \in Process /\ d.pc = pc /\ d.ip = i /\ d.c = proc[p].c /\ d.mem = proc[p].mem
       /\ d.cmd = proc[p].cmd /\ d.freed = proc[p].freed /\ d.ret = proc[p].ret
  BY <1>2, <1>7, <1>8, <1>9 DEF Process
<1>11. pc = "veth" => i \in Addrs
  BY <1>1, <1>2, <1>4, <1>5, <1>6 DEF Local
<1>12. (proc[p].cmd = "rm" => pc = "rmdir") /\ proc[p].cmd # "stop" /\ proc[p].cmd # "none"
  BY <1>1, <1>2, <1>5 DEF Local, Releasing
<1>13. Local(d)
  BY <1>2, <1>7, <1>8, <1>10, <1>11, <1>12 DEF Local
<1>14. /\ rec' = rec /\ rootfs' = rootfs /\ link' = link /\ dnat' = dnat /\ orphans' = orphans
       /\ commands' = commands /\ faults' = faults /\ left' = left /\ mishaps' = mishaps
       /\ leases' = (IF tmp = None THEN leases ELSE tmp) /\ tmp' = None
  BY DEF Rename, files, kernel, failed, history
<1>15. FilesOk'
  BY <1>14 DEF Types, FilesOk
<1>16. On(p, d, proc[p].c)
  BY <1>10, <1>14 DEF On
<1>17. \A e \in Containers : Used(e)' = Used(e)
  BY <1>14 DEF Used
<1>18. proc[p].pc = "release_rename" =>
          /\ d.pc = proc[p].ret /\ d.ip = proc[p].ip
          /\ proc[p].ret \in {"rmdir", "fork", "clear_load"}
          /\ proc[p].ret # "clear_load" => d.ip = None
  BY <1>4, <1>5, <1>6, <1>10
<1>19. proc[p].pc = "alloc_rename" /\ tmp # None => d.pc = "veth" /\ d.ip = proc[p].ip
  BY <1>5, <1>6, <1>10
<1> QED  BY <1>3, <1>8, <1>10, <1>13, <1>15, <1>16, <1>17, <1>18, <1>19

\* The lease file is replaced: an address nobody has is leased, or one that is used
\* nowhere is free again.
LEMMA RenameInv == ASSUME Inv, NEW p \in Procs, Rename(p) PROVE Inv'
<1>1. proc[p].pc \in {"alloc_rename", "release_rename"}
  BY DEF Rename
<1>2. Types /\ proc[p] \in Process /\ Local(proc[p]) /\ proc[p].c \in Containers
  BY <1>1, Working DEF Inv
<1>3. PICK c \in Containers : c = proc[p].c
  BY <1>2
<1>4. PICK d : d = Renamed(proc[p])
  OBVIOUS
<1>5. /\ d \in Process /\ Local(d) /\ Moved(p, d) /\ d.c = c /\ d.mem = proc[p].mem
      /\ d.cmd = proc[p].cmd /\ d.freed = proc[p].freed
      /\ proc[p].pc = "release_rename" =>
            /\ d.pc = proc[p].ret /\ d.ip = proc[p].ip
            /\ proc[p].ret \in {"rmdir", "fork", "clear_load"}
            /\ proc[p].ret # "clear_load" => d.ip = None
      /\ proc[p].pc = "alloc_rename" /\ tmp # None => d.pc = "veth" /\ d.ip = proc[p].ip
      /\ d.pc \notin Window \cup Releasing
      /\ FilesOk'
      /\ On(p, d, c)
      /\ \A e \in Containers : Used(e)' = Used(e)
  BY <1>2, <1>3, <1>4, RenameFacts
<1>6. Types'
  BY <1>2, <1>5, Assigned DEF Types
<1>7. /\ leases' = (IF tmp = None THEN leases ELSE tmp) /\ rec' = rec /\ faults' = faults
      /\ mishaps' = mishaps
  BY DEF Rename, files, failed, history
<1>8. \A a \in Addrs : a \in Recorded(c)' => a \in Recorded(c)
  <2>1. proc[p].pc \notin Clearing
    BY <1>1 DEF Clearing
  <2> QED  BY <1>2, <1>5, <1>7, <2>1, RecordKept
<1>9. NoMishap' = NoMishap
  BY <1>7 DEF NoMishap
<1>10. proc[p].pc \in Window /\ Unlinks(proc[p]) = {}
  BY <1>1 DEF Window, Unlinks, Linked
<1>11. View(d)'
  BY <1>5 DEF View, Window
<1>12. Safe => tmp = proc[p].view /\ tmp # None
  <2>1. proc[p].view \in SUBSET Addrs
    BY <1>2 DEF Process
  <2>2. Safe => tmp = proc[p].view
    BY <1>1 DEF Safe, View
  <2> QED  BY <2>1, <2>2, NoneAssumption
<1>13. ASSUME Safe, proc[p].pc = "alloc_rename" PROVE Safe' /\ (Tidy => Tidy')
  <2>1. PICK x : x = proc[p].ip
    OBVIOUS
  <2>2. x \notin leases /\ leases' = leases \cup {x} /\ x \in Addrs
    BY <1>2, <1>7, <1>12, <1>13, <2>1 DEF Safe, View, Local
  <2>3. d.pc = "veth" /\ d.ip = x
    BY <1>5, <1>12, <1>13, <2>1
  <2>4. \A a : a \in Held(d) <=> a \in Held(proc[p]) \/ a = x
    BY <1>5, <1>13, <2>2, <2>3 DEF Held, Holding, Linked, Releasing
  <2>5. \A e \in Containers, a \in Addrs : Belongs(e, a)' => Belongs(e, a) \/ (e = c /\ a = x)
    BY <1>2, <1>5, <1>8, <2>4, BelongsStep
  <2>6. \A e \in Containers, a \in Addrs : Belongs(e, a)' => a \in leases'
    BY <1>13, <2>2, <2>5 DEF Safe, Covered
  <2>7. ~Belongs(c, x)
    BY <1>13, <2>2 DEF Safe, Covered
  <2>8. x \notin Used(c) /\ x \notin Recorded(c) /\ x \notin Held(proc[p])
    BY <1>3, <2>7 DEF Belongs
  <2>9. Loose(d)'
    BY <1>5, <1>8, <2>2, <2>3, <2>8 DEF Loose
  <2>10. Distinct(d)
    BY <1>5, <2>2, <2>3, <2>8 DEF Distinct, Held, Holding, Linked, Releasing
  <2>11. d.pc \notin Window
    BY <1>5
  <2>12. Safe'
    BY <1>2, <1>5, <1>8, <1>10, <1>11, <1>13, <2>2, <2>4, <2>6, <2>9, <2>10, <2>11, SafeStep
  <2>13. ASSUME Tidy PROVE Tidy'
    <3>1. proc[p].mem \in {None, [ip |-> None]}
      BY <2>13 DEF Tidy
    <3>2. Held(proc[p]) = {} /\ Clears(proc[p]) = {}
      BY <1>13, <3>1, LinuxAssumption, NoneAssumption
         DEF Held, Clears, Holding, Linked, Releasing, Record, MaybeAddr
    <3>3. \A a \in leases' : a \in Held(d) \/ (a \in leases /\ a \notin Held(proc[p]))
      BY <2>2, <2>4, <3>2
    <3> QED  BY <1>2, <1>5, <1>7, <1>10, <2>13, <3>1, <3>2, <3>3, TidyStep
  <2> QED  BY <2>12, <2>13
<1>14. ASSUME Safe, proc[p].pc = "release_rename" PROVE Safe' /\ (Tidy => Tidy')
  <2>1. PICK f : f = proc[p].freed
    OBVIOUS
  <2>2. f \in Addrs /\ leases' = leases \ {f}
    BY <1>2, <1>7, <1>12, <1>14, <2>1 DEF Safe, View, Local, Releasing
  <2>3. /\ d.pc = proc[p].ret /\ d.ip = proc[p].ip /\ d.freed = f
        /\ proc[p].ret \in {"rmdir", "fork", "clear_load"}
        /\ proc[p].ret # "clear_load" => d.ip = None
    BY <1>5, <1>14, <2>1
  <2>4. Loose(proc[p]) /\ Distinct(proc[p])
    BY <1>14 DEF Safe
  <2>5. f \in Held(proc[p]) /\ f \notin Used(c)
    BY <1>3, <1>14, <2>1, <2>2, <2>4 DEF Held, Loose, Releasing
  <2>6. \A a \in Held(d) : a \in Held(proc[p])
    BY <1>5, <2>3, LinuxAssumption DEF Held, Holding, Linked, Releasing
  <2>7. f \notin Held(d)
    <3>1. proc[p].cmd # "stop" /\ (proc[p].cmd = "start" => proc[p].mem # [ip |-> f])
      BY <1>2, <1>14, <2>1, <2>4 DEF Local, Distinct, Releasing
    <3> QED
      BY <1>5, <2>2, <2>3, <3>1, LinuxAssumption DEF Held, Holding, Linked, Releasing
  <2>8. f \notin Recorded(c)'
    <3>1. CASE proc[p].ret = "fork"
      BY <1>3, <1>8, <1>14, <2>1, <2>2, <2>4, <3>1 DEF Loose, Releasing
    <3>2. CASE proc[p].ret # "fork"
      <4>1. proc'[p] = d /\ d.pc \in Clearing /\ d.c = c /\ d.freed = f
        BY <1>2, <1>5, <2>3, <3>2, Assigned DEF Clearing
      <4> QED  BY <4>1 DEF Recorded
    <3> QED  BY <3>1, <3>2
  <2>9. None \notin leases /\ None \notin Addrs
    BY <1>2, LinuxAssumption DEF Types, FilesOk
  <2>10. \A e \in Containers, a \in Addrs : Belongs(e, a)' => Belongs(e, a) \/ (e = c /\ a = None)
    BY <1>2, <1>5, <1>8, <2>6, BelongsStep
  <2>11. ASSUME NEW e \in Containers, Belongs(e, f)' PROVE FALSE
    <3>1. Belongs(e, f) /\ Belongs(c, f)
      BY <1>3, <2>2, <2>5, <2>9, <2>10, <2>11 DEF Belongs
    <3>2. e = c
      BY <1>14, <2>2, <3>1 DEF Safe, Apart
    <3>3. PICK q \in Procs : proc'[q].c = c /\ f \in Held(proc'[q])
      <4>1. \/ f \in Used(c)' \/ f \in Recorded(c)'
            \/ \E q \in Procs : proc'[q].c = c /\ f \in Held(proc'[q])
        BY <2>11, <3>2 DEF Belongs, Held
      <4> QED  BY <1>5, <2>5, <2>8, <4>1
    <3>4. CASE q = p
      BY <1>2, <1>5, <2>7, <3>3, <3>4, Assigned
    <3>5. CASE q # p
      BY <1>2, <1>5, <1>14, <2>5, <3>3, <3>5, Assigned DEF Safe, Alone
    <3> QED  BY <3>4, <3>5
  <2>12. \A e \in Containers, a \in Addrs : Belongs(e, a)' => a \in leases'
    BY <1>14, <2>2, <2>9, <2>10, <2>11 DEF Safe, Covered
  <2>13. Loose(d)'
    BY <1>5, <2>3 DEF Loose
  <2>14. Distinct(d)
    BY <1>5, <2>3 DEF Distinct, Holding, Linked, Releasing
  <2>15. d.pc \notin Window
    BY <1>5
  <2>16. Safe'
    BY <1>2, <1>5, <1>8, <1>10, <1>11, <1>14, <2>6, <2>9, <2>12, <2>13, <2>14, <2>15, SafeStep
  <2>17. ASSUME Tidy PROVE Tidy'
    <3>1. proc[p].mem \in {None, [ip |-> None]}
      BY <2>17 DEF Tidy
    <3>2. \A a \in Held(proc[p]) : a = f
      BY <1>14, <2>1, <3>1, LinuxAssumption, NoneAssumption
         DEF Held, Holding, Linked, Releasing, Record, MaybeAddr
    <3>3. Clears(proc[p]) \subseteq Clears(d)
      BY <2>3, LinuxAssumption DEF Clears
    <3>4. \A a \in leases' : a \in leases /\ a \notin Held(proc[p])
      BY <2>2, <3>2
    <3> QED  BY <1>2, <1>5, <1>7, <1>10, <2>17, <3>1, <3>3, <3>4, TidyStep
  <2> QED  BY <2>16, <2>17
<1> QED  BY <1>1, <1>6, <1>7, <1>9, <1>13, <1>14 DEF Inv

-----------------------------------------------------------------------------
(* The invariant holds *)

\* At the start nothing is leased, used or recorded.
LEMMA InitInv == ASSUME Init PROVE Inv
<1>1. /\ rec = [c \in Containers |-> None] /\ leases = {}
      /\ link = [c \in Containers |-> None] /\ dnat = [c \in Containers |-> {}]
      /\ proc = [p \in Procs |-> IdleProc]
  BY DEF Init
<1>2. FilesOk
  BY LinuxAssumption DEF Init, FilesOk, MaybeAddr
<1>3. Types
  BY <1>1, <1>2, IdleFacts DEF Types
<1>4. \A p \in Procs : proc[p] = IdleProc
  BY <1>1
<1>5. \A c \in Containers : Used(c) = {}
  BY <1>1 DEF Used
<1>6. \A c \in Containers, a \in Addrs : rec[c] # [ip |-> a]
  BY <1>1, NoneAssumption DEF Record, MaybeAddr
<1>7. \A c \in Containers, a \in Addrs : ~Belongs(c, a)
  BY <1>4, <1>5, <1>6, IdleFacts DEF Belongs, Recorded
<1>8. Loose(IdleProc) /\ View(IdleProc) /\ IdleProc.pc \notin Window
  BY IdleFacts DEF Loose, View, Releasing, Window
<1>9. Safe
  BY <1>4, <1>7, <1>8, IdleFacts DEF Safe, Covered, Apart, Alone, OneWriter
<1>10. Tidy
  BY <1>1, <1>4, <1>5, <1>6, IdleFacts DEF Tidy
<1> QED  BY <1>3, <1>9, <1>10 DEF Inv

\* Nothing happens.
LEMMA StutterInv == ASSUME Inv, UNCHANGED vars PROVE Inv'
<1>1. /\ rec' = rec /\ rootfs' = rootfs /\ leases' = leases /\ tmp' = tmp /\ link' = link
      /\ dnat' = dnat /\ proc' = proc /\ orphans' = orphans /\ commands' = commands
      /\ faults' = faults /\ left' = left /\ mishaps' = mishaps
  BY DEF vars
<1>2. Types' = Types
  BY <1>1 DEF Types, FilesOk
<1>3. \A c : Used(c)' = Used(c) /\ Recorded(c)' = Recorded(c)
  BY <1>1 DEF Used, Recorded
<1>4. \A c, a : Belongs(c, a)' = Belongs(c, a)
  BY <1>1, <1>3 DEF Belongs
<1>5. \A p \in Procs : (Loose(proc[p]) /\ Distinct(proc[p]) /\ View(proc[p])) =>
                       (Loose(proc[p]) /\ Distinct(proc[p]) /\ View(proc[p]))'
  BY <1>1, <1>3 DEF Loose, Distinct, View
<1>6. Safe => Safe'
  BY <1>1, <1>4, <1>5 DEF Safe, Covered, Apart, Alone, OneWriter
<1>7. Tidy => Tidy'
  BY <1>1, <1>3 DEF Tidy
<1> QED  BY <1>1, <1>2, <1>6, <1>7 DEF Inv, NoMishap

LEMMA NextInv == ASSUME Inv, [Next]_vars PROVE Inv'
<1>1. ASSUME NEW p \in Procs, Step(p) PROVE Inv'
  BY <1>1, MarkRunningInv, MarkStoppedInv, StopInv, UnlinkInv, RemoveDirInv, ReleaseInv,
     WriteTmpInv, RenameInv, PrepareInv, CreatePairInv, ForkInv, InstallDnatInv, LoadForIpInv,
     SaveIpInv, TeardownInv DEF Step
<1>2. ASSUME NEW p \in Procs, ProgramExits(p) \/ Die(p) PROVE Inv'
  BY <1>2, ProgramExitsInv, DieInv
<1>3. ASSUME NEW p \in Procs, NEW c \in Containers, NEW cmd \in Commands,
             Create(p, c, cmd) \/ Load(p, c, cmd)
      PROVE  Inv'
  BY <1>3, CreateInv, LoadInv
<1>4. ASSUME NEW o \in orphans, OrphanExits(o) PROVE Inv'
  BY <1>4, OrphanExitsInv
<1>5. CASE UNCHANGED vars
  BY <1>5, StutterInv
<1> QED  BY <1>1, <1>2, <1>3, <1>4, <1>5 DEF Next

\* The invariant holds in every state, whatever the number of commands, containers,
\* addresses and faults.
THEOREM InvHolds == Spec => []Inv
BY InitInv, NextInv, PTL DEF Spec

-----------------------------------------------------------------------------
(* The theorems *)

\* Type correctness: files, kernel objects and the commands' memory hold addresses
\* of the pool, and a command that is over has left nothing in memory.
THEOREM TypeCorrect == Spec => []TypeOK
<1>1. Inv => TypeOK
  <2> SUFFICES ASSUME Inv PROVE TypeOK
    OBVIOUS
  <2>1. Types
    BY DEF Inv
  <2>2. FilesOk
    BY <2>1 DEF Types
  <2>3. ASSUME NEW p \in Procs
        PROVE  /\ proc[p].cmd \in AllCommands \cup {"none"}
               /\ proc[p].c \in Containers \cup {None}
               /\ proc[p].mem \in Record \cup {None}
               /\ proc[p].ip \in MaybeAddr /\ proc[p].freed \in MaybeAddr
               /\ proc[p].view \subseteq Addrs
               /\ proc[p].pc = "idle" <=> proc[p] = IdleProc
    <3>1. proc[p] \in Process /\ Local(proc[p])
      BY <2>1 DEF Types
    <3>2. proc[p].pc = "idle" <=> proc[p] = IdleProc
      BY <3>1, IdleFacts DEF Local
    <3> QED  BY <3>1, <3>2 DEF Process
  <2> QED  BY <2>2, <2>3 DEF FilesOk, TypeOK
<1> QED  BY <1>1, InvHolds, PTL

\* As long as nothing went wrong between two commands, every address that a link
\* or a rule refers to is leased, but for what a clean-up could not delete: for any
\* number of commands at once, killed or failing at any step.
THEOREM LeasesCover == Spec => []LeaseCovers
<1>1. Inv => (NoMishap => \A c \in Containers : Used(c) \subseteq leases)
  <2> SUFFICES ASSUME Inv, NoMishap, NEW c \in Containers, NEW a \in Used(c) PROVE a \in leases
    OBVIOUS
  <2>1. Types /\ Safe
    BY DEF Inv
  <2>2. a \in Addrs
    BY <2>1 DEF Used, Types, FilesOk, MaybeAddr
  <2> QED  BY <2>1, <2>2 DEF Safe, Covered, Belongs
<1> QED  BY <1>1, InvHolds, TypeCorrect, PTL DEF LeaseCovers

\* As long as nothing went wrong between two commands, two links have the same
\* address only when one of them is a remnant that could not be deleted.
THEOREM AddressesOwn == Spec => []AddressesApart
<1>1. Inv => AddressesApart
  <2> SUFFICES ASSUME Inv, NoMishap, NEW c \in Containers, NEW d \in Containers,
                      c # d, link[c] # None, link[c] = link[d], link[c] \notin left[c] \cup left[d]
               PROVE  FALSE
    BY DEF AddressesApart
  <2>1. Types /\ Safe
    BY DEF Inv
  <2>2. link[c] \in Addrs /\ link[c] \in Used(c) /\ link[c] \in Used(d)
    BY <2>1 DEF Used, Types, FilesOk, MaybeAddr
  <2> QED  BY <2>1, <2>2 DEF Safe, Apart, Belongs
<1> QED  BY <1>1, InvHolds, PTL

\* Without a fault or a mishap, nothing is leased, recorded or used once no command
\* is in progress, but for what a clean-up could not delete.
THEOREM LeasesReturn == Spec => []LeasesBalanced
<1>1. Inv => LeasesBalanced
  <2> SUFFICES ASSUME Inv, NoMishap, faults = 0, \A p \in Procs : At(p, "idle")
               PROVE  /\ leases = {}
                      /\ \A c \in Containers : Used(c) = {} /\ (rec[c] # None => rec[c].ip = None)
    BY DEF LeasesBalanced
  <2>1. Types /\ Tidy /\ FilesOk
    BY DEF Inv, Types
  <2>2. \A p \in Procs : proc[p] = IdleProc
    BY <2>1 DEF Types, Local, At
  <2>3. leases = {}
    BY <2>1, <2>2, IdleFacts DEF Tidy
  <2>4. ASSUME NEW c \in Containers PROVE Used(c) = {}
    <3>1. \A a \in Used(c) : a \in Addrs
      BY <2>1 DEF Used, FilesOk, MaybeAddr
    <3> QED  BY <2>1, <2>2, <3>1, IdleFacts DEF Tidy
  <2>5. ASSUME NEW c \in Containers, rec[c] # None PROVE rec[c].ip = None
    <3>1. rec[c] \in Record /\ rec[c] = [ip |-> rec[c].ip] /\ rec[c].ip \in MaybeAddr
      BY <2>1, <2>5 DEF FilesOk, Record
    <3>2. ASSUME NEW a \in Addrs, rec[c] = [ip |-> a] PROVE FALSE
      <4>1. PICK q \in Procs : a \in Clears(proc[q])
        BY <2>1, <3>2 DEF Tidy
      <4> QED  BY <2>2, <4>1, IdleFacts
    <3> QED  BY <3>1, <3>2 DEF MaybeAddr
  <2> QED  BY <2>3, <2>4, <2>5
<1> QED  BY <1>1, InvHolds, PTL

=============================================================================
