---------------------------- MODULE LaunchProofs ----------------------------
(***************************************************************************)
(* What the ten ways to launch a program keep, for any environment, any    *)
(* configuration and any number of launches: no program runs outside its   *)
(* cage or sees a host value, and what psroot changes of its own           *)
(* environment, handles and sessions it gives back, whichever call fails.  *)
(*                                                                         *)
(* The invariant says, for every function and every step it may be at,     *)
(* what the launcher holds, what the child is and what the environment is. *)
(***************************************************************************)
EXTENDS Launch, SequenceTheorems, FiniteSetTheorems, TLAPS

-----------------------------------------------------------------------------
(* Where a function is *)

\* The next step of the steps q.  A device map launch impersonates twice.
Pc(q) ==
    IF q = <<>> THEN "end"
    ELSE IF Head(q) = "impersonate" /\ Head(Tail(q)) = "assign" THEN "impersonate again"
    ELSE Head(q)

Rest(f, k) == SubSeq(Program[f], k + 1, Len(Program[f]))

\* After a silo was refused.
Refused == {<<"revert", "no root">>, <<"no root">>, <<"revert", "no init">>, <<"no init">>}

\* The steps that remain are the end of the function's steps.
Track(f, q) ==
    \/ \E k \in 0 .. Len(Program[f]) : q = Rest(f, k)
    \/ f = "silo" /\ q \in Refused

\* The functions that run the program in an AppContainer, with a desktop of its
\* own or without.
Gui == {"gui", "gui_async", "gui_plan"}
Caged == {"interactive", "plan", "appcontainer"} \cup Gui

\* Step t follows step s in function f.
Follows(f, s, t) ==
    /\ s = "available" => f \in Caged \ {"appcontainer"} /\ t = "profile"
    /\ s = "profile" => \/ f \in Caged \ {"gui_plan", "plan"} /\ t = "grant"
                        \/ f \in {"gui_plan", "plan"} /\ t = "sid"
    /\ s = "sid" => \/ f = "gui" /\ t = "wait"
                    \/ f = "gui_async" /\ t = "detach"
                    \/ f \in {"gui_plan", "plan"} /\ t = "grant"
    /\ s = "grant" => \/ f = "interactive" /\ t = "volumes"
                      \/ f \in {"gui", "gui_async", "appcontainer"} /\ t = "caps"
                      \/ f \in {"gui_plan", "plan"} /\ t = "stage"
    /\ s = "volumes" => f = "interactive" /\ t = "caps"
    /\ s = "stage" => \/ f \in {"gui_plan", "plan"} /\ t = "caps"
                      \/ f = "silo" /\ t = "plan_env"
                      \/ f = "devicemap" /\ t = "psh"
    /\ s = "caps" => f \in Caged /\ t = "exempt"
    /\ s = "exempt" => f \in Caged /\ t = "attrs"
    /\ s = "attrs" => \/ f \in {"interactive", "appcontainer"} /\ t = "env"
                      \/ f \in Gui /\ t = "desktop"
                      \/ f = "plan" /\ t = "plan_env"
    /\ s = "desktop" => \/ f \in {"gui", "gui_async"} /\ t = "env"
                        \/ f = "gui_plan" /\ t = "plan_env"
                        \/ f = "app" /\ t = "launch"
    /\ s = "env" => f \in Caged \ {"gui_plan", "plan"} /\ t = "create"
    /\ s = "plan_env" => \/ f \in {"gui_plan", "plan"} /\ t = "create"
                         \/ f = "silo" /\ t = "job"
                         \/ f = "devicemap" /\ t = "binds"
    /\ s = "create" => \/ f \in {"interactive", "gui_plan", "plan"} /\ t = "wait"
                       \/ f \in {"gui", "gui_async"} /\ t = "sid"
                       \/ f = "appcontainer" /\ t = "assign"
    /\ s = "wait" => \/ f \in {"interactive", "gui", "gui_plan", "plan", "silo", "devicemap"}
                        /\ t = "close"
                     \/ f = "app" /\ t = "cleanup"
    /\ s = "close" => f \in {"interactive", "gui", "gui_plan", "plan", "silo", "devicemap"}
                      /\ t = "end"
    /\ s = "cleanup" => f = "app" /\ t = "end"
    /\ s = "detach" => f = "gui_async" /\ t = "end"
    /\ s = "forget" => f = "appcontainer" /\ t = "end"
    /\ s = "detect" => f = "silo" /\ t = "stage"
    /\ s = "job" => f = "silo" /\ t = "namespace"
    /\ s = "namespace" => f = "silo" /\ t = "privilege"
    /\ s = "privilege" => f = "silo" /\ t = "root"
    /\ s = "root" => f = "silo" /\ t = "init"
    /\ s = "init" => f = "silo" /\ t = "revert"
    /\ s = "revert" => \/ f \in {"silo", "devicemap"} /\ t = "spawn"
                       \/ f = "silo" /\ t \in {"no root", "no init"}
    /\ s \in {"no root", "no init"} => f = "silo"
    /\ s = "spawn" => \/ f \in {"silo", "restricted"} /\ t = "assign"
                      \/ f = "devicemap" /\ t = "impersonate again"
    /\ s = "assign" => f \in {"silo", "restricted", "devicemap", "appcontainer"} /\ t = "resume"
    /\ s = "resume" => \/ f = "silo" /\ t = "open"
                       \/ f = "devicemap" /\ t = "restore"
                       \/ f = "appcontainer" /\ t = "forget"
                       \/ f = "restricted" /\ t = "end"
    /\ s = "open" => f = "silo" /\ t = "restore"
    /\ s = "restore" => f \in {"silo", "devicemap"} /\ t = "wait"
    /\ s = "psh" => f = "devicemap" /\ t = "plan_env"
    /\ s = "binds" => f = "devicemap" /\ t = "map"
    /\ s = "map" => f = "devicemap" /\ t = "impersonate"
    /\ s = "impersonate" => f = "devicemap" /\ t = "swap"
    /\ s = "impersonate again" => f = "devicemap" /\ t = "assign"
    /\ s = "swap" => f = "devicemap" /\ t = "revert"
    /\ s = "token" => f = "restricted" /\ t = "spawn"
    /\ s = "rootfs" => f = "app" /\ t = "tree"
    /\ s = "tree" => f = "app" /\ t = "desktop"
    /\ s = "launch" => f = "app" /\ t = "wait"

-----------------------------------------------------------------------------
(* The invariant *)

States == {"none", "suspended", "running", "gone"}
Cages == {"appcontainer", "desktop", "job", "device map", "restricted"}
Child == [state : States, cage : SUBSET Cages, env : [Vars -> Values]]
Ending == [path : DOMAIN Program \cup {"idle"}, ok : BOOLEAN, at : Steps \cup {"none", "end"}]

Types ==
    /\ path \in DOMAIN Program \cup {"idle"}
    /\ todo \in Seq(Steps)
    /\ full \in BOOLEAN
    /\ env \in [Vars -> Values]
    /\ held \in SUBSET (Guards \cup Handles)
    /\ sessions \in SUBSET {"psroot.gui", "psroot.container"}
    /\ child \in Child
    /\ last \in Ending
    /\ launches \in 0 .. MaxLaunches

\* What was saved are variables with their values.
SavedOk ==
    /\ DOMAIN saved = 1 .. Len(saved) /\ Len(saved) \in Nat
    /\ \A i \in DOMAIN saved : saved[i][2] \in Values

\* Steps between the child's creation and the closing of its handles.
Handled == {"wait", "close", "detach", "assign", "resume", "impersonate again", "restore",
            "cleanup"}

\* What function f may hold, and must hold, at step s.
HeldOk(f, s, h) ==
    /\ "desk" \notin h
    /\ "attrs" \in h => f \in Caged /\ s \in {"desktop", "env", "plan_env", "create"}
    /\ "token" \in h => f = "restricted" /\ s = "spawn"
    /\ "rootfs" \in h => f = "app"
    /\ "system" \in h => f \in {"silo", "devicemap"}
                         /\ s \in {"root", "init", "revert", "swap", "assign"}
    /\ "thread" \in h => s \in Handled \/ (s = "sid" /\ f \in {"gui", "gui_async"})
    /\ "process" \in h => \/ s \in Handled \/ (s = "sid" /\ f \in {"gui", "gui_async"})
                          \/ s = "end" /\ f = "gui_async"
    /\ s \in {"available", "profile", "rootfs"} => h = {}
    /\ f \in Gui /\ s \in {"env", "plan_env", "create"} => "desktop" \in h
    /\ f = "app" /\ s = "launch" => "desktop" \in h
    /\ f = "restricted" /\ s = "spawn" => "token" \in h
    /\ f = "silo" /\ s \in {"namespace", "privilege", "root", "init", "revert", "spawn",
                            "assign", "resume", "open"} => "silo" \in h

\* The child exists at step s of function f.
Spawned(f, s) ==
    \/ s \in Handled \cup {"forget", "open", "end"}
    \/ s = "sid" /\ f \in {"gui", "gui_async"}

\* What the child is at step s of function f.
ChildOk(f, s, c) ==
    /\ ~Spawned(f, s) => c.state = "none"
    /\ s \in {"assign", "resume", "impersonate again"} <=> c.state = "suspended"
    /\ s \in {"assign", "impersonate again"} => Cage[f] \ {"job", "device map"} \subseteq c.cage
    /\ s = "resume" \/ c.state = "running" => Cage[f] \subseteq c.cage
    /\ f # "app" => \A v \in Sanitized \cup Detected : c.env[v] # "host"

\* psroot's own environment is that of the sandbox at step s of function f.
Sandboxed(f, s) ==
    \/ s = "create"
    \/ /\ f \in {"silo", "devicemap"}
       /\ s \notin {"detect", "stage", "psh", "plan_env", "wait", "close", "end"}

Kept == Vars \ (UserEnv \cup SavedTwice)
Back == \A v \in Kept : env[v] = origin.env[v]
Hidden == \A v \in Sanitized \cup Detected : env[v] # "host"

\* What restore_env makes of variable v when the list is q and the environment e.
Restored(q, e, v) ==
    LET entries == {i \in DOMAIN q : q[i][1] = v}
    IN IF entries # {} THEN q[CHOOSE i \in entries : \A j \in entries : j <= i][2]
       ELSE IF v \in SandboxVars THEN "unset" ELSE e[v]
Restores == \A v \in Kept : Restored(saved, env, v) = origin.env[v]

EnvOk(f, s) == IF Sandboxed(f, s) THEN Restores /\ Hidden ELSE Back

\* The session is over at the end of the functions that wait.
SessionOk(f, s) ==
    full /\ s = "end" /\ f \in {"interactive", "gui", "gui_plan", "plan"}
        => SessionName(f) \notin sessions

Busy(f, s) == HeldOk(f, s, held) /\ ChildOk(f, s, child) /\ EnvOk(f, s) /\ SessionOk(f, s)

\* The functions that end their session after the program have ended it.
SessionEnded ==
    /\ path = "idle" /\ full /\ last.path \in {"interactive", "gui", "gui_plan", "plan"}
    /\ last.ok \/ last.at = "create"
    => SessionName(last.path) \notin sessions

\* Between launches.
Idle ==
    /\ todo = <<>>
    /\ child.state = "running" => last.path # "idle" /\ Cage[last.path] \subseteq child.cage
    /\ child.state # "none" /\ last.path # "app"
          => \A v \in Sanitized \cup Detected : child.env[v] # "host"
    /\ last.ok \/ last.path # "silo" => Back
    /\ NothingElseLost
    /\ SessionEnded

Inv ==
    /\ Types /\ SavedOk
    /\ path # "idle" => Track(path, todo) /\ Busy(path, Pc(todo))
    /\ path = "idle" => Idle

-----------------------------------------------------------------------------
(* The functions' steps *)

\* The words the functions are made of.
Words ==
    {"available", "profile", "grant", "volumes", "caps", "exempt", "attrs", "env", "create",
     "wait", "close", "desktop", "sid", "detach", "stage", "plan_env", "job", "namespace",
     "privilege", "root", "init", "revert", "detect", "spawn", "assign", "resume", "open",
     "restore", "psh", "binds", "map", "impersonate", "swap", "forget", "token", "rootfs",
     "tree", "launch", "cleanup"}

\* The end of a sequence, its first step and what follows.
LEMMA Ends ==
    ASSUME NEW S, NEW P \in Seq(S), NEW k \in 0 .. Len(P)
    PROVE  LET q == SubSeq(P, k + 1, Len(P)) IN
           /\ k = Len(P) => q = <<>>
           /\ k < Len(P) => /\ q # <<>>
                            /\ Head(q) = P[k + 1]
                            /\ Tail(q) = SubSeq(P, (k + 1) + 1, Len(P))
<1> DEFINE q == SubSeq(P, k + 1, Len(P))
<1>0. Len(P) \in Nat
  OBVIOUS
<1>1. k = Len(P) => q = <<>>
  BY <1>0, SubSeqEmpty
<1>2. ASSUME k < Len(P)
      PROVE  q # <<>> /\ Head(q) = P[k + 1] /\ Tail(q) = SubSeq(P, (k + 1) + 1, Len(P))
  <2>1. k + 1 \in 1 .. Len(P) /\ Len(P) \in k + 1 .. Len(P)
    BY <1>0, <1>2
  <2>2. Head(q) = P[k + 1] /\ Tail(q) = SubSeq(P, (k + 1) + 1, Len(P))
    BY <2>1, HeadTailOfSubSeq, Zenon
  <2>3. \A i \in k + 1 .. Len(P) : P[i] \in S
    BY <1>0
  <2>4. k + 1 \in Int /\ Len(P) \in Int /\ k + 1 <= Len(P)
    BY <1>0, <1>2
  <2>5. Len(q) = Len(P) - (k + 1) + 1
    BY <2>3, <2>4, SubSeqProperties
  <2>6. Len(q) # 0
    <3> HIDE DEF q
    <3> QED  BY <2>5, <1>0, <1>2
  <2>7. q # <<>>
    <3> HIDE DEF q
    <3> QED  BY <2>6
  <2> QED  BY <2>2, <2>7
<1> QED  BY <1>1, <1>2

\* Program by function.
LEMMA Programs ==
    /\ DOMAIN Program = {"interactive", "gui", "gui_async", "gui_plan", "plan", "silo",
                         "devicemap", "appcontainer", "restricted", "app"}
    /\ Program["interactive"] = spawn_interactive
    /\ Program["gui"] = spawn_gui_isolated
    /\ Program["gui_async"] = spawn_gui_isolated_async
    /\ Program["gui_plan"] = gui_plan_prepare \o gui_plan_start
    /\ Program["plan"] = spawn_interactive_plan
    /\ Program["silo"] = silo_prepare \o silo_create \o silo_start
    /\ Program["devicemap"] = devicemap_prepare \o devicemap_start
    /\ Program["appcontainer"] = spawn_with_appcontainer
    /\ Program["restricted"] = spawn_with_restricted_token
    /\ Program["app"] = cmd_gui
BY DEF Program

\* What follows what in the steps P of function f.
Chain(f, P, n) ==
    /\ P \in Seq(Words)
    /\ Len(P) = n
    /\ n > 0
    /\ P[n] # "impersonate"
    /\ \A k \in 1 .. n - 1 :
          LET s == IF P[k] = "impersonate" /\ P[k + 1] = "assign"
                   THEN "impersonate again" ELSE P[k]
              t == IF P[k + 1] = "impersonate" /\ P[k + 2] = "assign"
                   THEN "impersonate again" ELSE P[k + 1]
          IN Follows(f, s, t)
    /\ Follows(f, P[n], "end")

\* 11 steps of the function interactive.
LEMMA ChainInteractive == Chain("interactive", Program["interactive"], 11)
<1> DEFINE P == Program["interactive"]
<1>1. P = spawn_interactive
  BY Programs
<1>2. P \in Seq(Words) /\ Len(P) = 11
  BY <1>1 DEF spawn_interactive, Words
<1>6. ASSUME NEW k \in 1 .. 10
      PROVE  Follows("interactive", P[k], P[k + 1]) /\ P[k] # "impersonate"
               /\ P[k + 1] # "impersonate"
  <2>1. \/ P[k] = "available" /\ P[k + 1] = "profile"
        \/ P[k] = "profile" /\ P[k + 1] = "grant"
        \/ P[k] = "grant" /\ P[k + 1] = "volumes"
        \/ P[k] = "volumes" /\ P[k + 1] = "caps"
        \/ P[k] = "caps" /\ P[k + 1] = "exempt"
        \/ P[k] = "exempt" /\ P[k + 1] = "attrs"
        \/ P[k] = "attrs" /\ P[k + 1] = "env"
        \/ P[k] = "env" /\ P[k + 1] = "create"
        \/ P[k] = "create" /\ P[k + 1] = "wait"
        \/ P[k] = "wait" /\ P[k + 1] = "close"
    BY <1>1 DEF spawn_interactive
  <2> HIDE DEF P
  <2> QED  BY <2>1 DEF Follows, Gui, Caged
<1>7. Follows("interactive", P[11], "end") /\ P[11] # "impersonate"
  BY <1>1 DEF spawn_interactive, Follows, Gui, Caged
<1> HIDE DEF P
<1>8. Chain("interactive", P, 11)
  BY <1>2, <1>6, <1>7 DEF Chain
<1> QED  BY <1>8 DEF P

\* 12 steps of the function gui.
LEMMA ChainGui == Chain("gui", Program["gui"], 12)
<1> DEFINE P == Program["gui"]
<1>1. P = spawn_gui_isolated
  BY Programs
<1>2. P \in Seq(Words) /\ Len(P) = 12
  BY <1>1 DEF spawn_gui_isolated, Words
<1>6. ASSUME NEW k \in 1 .. 11
      PROVE  Follows("gui", P[k], P[k + 1]) /\ P[k] # "impersonate"
               /\ P[k + 1] # "impersonate"
  <2>1. \/ P[k] = "available" /\ P[k + 1] = "profile"
        \/ P[k] = "profile" /\ P[k + 1] = "grant"
        \/ P[k] = "grant" /\ P[k + 1] = "caps"
        \/ P[k] = "caps" /\ P[k + 1] = "exempt"
        \/ P[k] = "exempt" /\ P[k + 1] = "attrs"
        \/ P[k] = "attrs" /\ P[k + 1] = "desktop"
        \/ P[k] = "desktop" /\ P[k + 1] = "env"
        \/ P[k] = "env" /\ P[k + 1] = "create"
        \/ P[k] = "create" /\ P[k + 1] = "sid"
        \/ P[k] = "sid" /\ P[k + 1] = "wait"
        \/ P[k] = "wait" /\ P[k + 1] = "close"
    BY <1>1 DEF spawn_gui_isolated
  <2> HIDE DEF P
  <2> QED  BY <2>1 DEF Follows, Gui, Caged
<1>7. Follows("gui", P[12], "end") /\ P[12] # "impersonate"
  BY <1>1 DEF spawn_gui_isolated, Follows, Gui, Caged
<1> HIDE DEF P
<1>8. Chain("gui", P, 12)
  BY <1>2, <1>6, <1>7 DEF Chain
<1> QED  BY <1>8 DEF P

\* 11 steps of the function gui_async.
LEMMA ChainGuiAsync == Chain("gui_async", Program["gui_async"], 11)
<1> DEFINE P == Program["gui_async"]
<1>1. P = spawn_gui_isolated_async
  BY Programs
<1>2. P \in Seq(Words) /\ Len(P) = 11
  BY <1>1 DEF spawn_gui_isolated_async, Words
<1>6. ASSUME NEW k \in 1 .. 10
      PROVE  Follows("gui_async", P[k], P[k + 1]) /\ P[k] # "impersonate"
               /\ P[k + 1] # "impersonate"
  <2>1. \/ P[k] = "available" /\ P[k + 1] = "profile"
        \/ P[k] = "profile" /\ P[k + 1] = "grant"
        \/ P[k] = "grant" /\ P[k + 1] = "caps"
        \/ P[k] = "caps" /\ P[k + 1] = "exempt"
        \/ P[k] = "exempt" /\ P[k + 1] = "attrs"
        \/ P[k] = "attrs" /\ P[k + 1] = "desktop"
        \/ P[k] = "desktop" /\ P[k + 1] = "env"
        \/ P[k] = "env" /\ P[k + 1] = "create"
        \/ P[k] = "create" /\ P[k + 1] = "sid"
        \/ P[k] = "sid" /\ P[k + 1] = "detach"
    BY <1>1 DEF spawn_gui_isolated_async
  <2> HIDE DEF P
  <2> QED  BY <2>1 DEF Follows, Gui, Caged
<1>7. Follows("gui_async", P[11], "end") /\ P[11] # "impersonate"
  BY <1>1 DEF spawn_gui_isolated_async, Follows, Gui, Caged
<1> HIDE DEF P
<1>8. Chain("gui_async", P, 11)
  BY <1>2, <1>6, <1>7 DEF Chain
<1> QED  BY <1>8 DEF P

\* 13 steps of the function gui_plan.
LEMMA ChainGuiPlan == Chain("gui_plan", Program["gui_plan"], 13)
<1> DEFINE P == Program["gui_plan"]
<1>1. gui_plan_prepare \in Seq(Words) /\ gui_plan_start \in Seq(Words)
  BY DEF gui_plan_prepare, gui_plan_start, Words
<1>2. Len(gui_plan_prepare) = 8 /\ Len(gui_plan_start) = 5
  BY DEF gui_plan_prepare, gui_plan_start
<1>3. P = gui_plan_prepare \o gui_plan_start
  BY Programs
<1>4. /\ P \in Seq(Words) /\ Len(P) = 13
      /\ \A k \in 1 .. 8 : P[k] = gui_plan_prepare[k]
      /\ \A k \in 8 + 1 .. 13 : P[k] = gui_plan_start[k - 8]
  <2> HIDE DEF P
  <2>1. /\ P \in Seq(Words) /\ Len(P) = Len(gui_plan_prepare) + Len(gui_plan_start)
        /\ \A i \in 1 .. Len(gui_plan_prepare) + Len(gui_plan_start) :
              P[i] = IF i <= Len(gui_plan_prepare) THEN gui_plan_prepare[i]
                ELSE gui_plan_start[i - Len(gui_plan_prepare)]
    BY <1>1, <1>3, ConcatProperties, Zenon
  <2> QED  BY <2>1, <1>2
<1>5. /\ P[1] = "available" /\ P[2] = "profile" /\ P[3] = "sid" /\ P[4] = "grant"
           /\ P[5] = "stage" /\ P[6] = "caps" /\ P[7] = "exempt" /\ P[8] = "attrs"
      /\ P[9] = "desktop" /\ P[10] = "plan_env" /\ P[11] = "create" /\ P[12] = "wait"
           /\ P[13] = "close"
  <2> HIDE DEF P
  <2> QED  BY <1>4 DEF gui_plan_prepare, gui_plan_start
<1>6. ASSUME NEW k \in 1 .. 12
      PROVE  Follows("gui_plan", P[k], P[k + 1]) /\ P[k] # "impersonate"
               /\ P[k + 1] # "impersonate"
  <2>1. \/ P[k] = "available" /\ P[k + 1] = "profile"
        \/ P[k] = "profile" /\ P[k + 1] = "sid"
        \/ P[k] = "sid" /\ P[k + 1] = "grant"
        \/ P[k] = "grant" /\ P[k + 1] = "stage"
        \/ P[k] = "stage" /\ P[k + 1] = "caps"
        \/ P[k] = "caps" /\ P[k + 1] = "exempt"
        \/ P[k] = "exempt" /\ P[k + 1] = "attrs"
        \/ P[k] = "attrs" /\ P[k + 1] = "desktop"
        \/ P[k] = "desktop" /\ P[k + 1] = "plan_env"
        \/ P[k] = "plan_env" /\ P[k + 1] = "create"
        \/ P[k] = "create" /\ P[k + 1] = "wait"
        \/ P[k] = "wait" /\ P[k + 1] = "close"
    <3>1. k = 1 \/ k = 2 \/ k = 3 \/ k = 4 \/ k = 5 \/ k = 6 \/ k = 7 \/ k = 8 \/ k = 9
            \/ k = 10 \/ k = 11 \/ k = 12
      OBVIOUS
    <3> HIDE DEF P
    <3> QED  BY <3>1, <1>5
  <2> HIDE DEF P
  <2> QED  BY <2>1 DEF Follows, Gui, Caged
<1>7. Follows("gui_plan", P[13], "end") /\ P[13] # "impersonate"
  <2> HIDE DEF P
  <2> QED  BY <1>5 DEF Follows, Gui, Caged
<1> HIDE DEF P
<1>8. Chain("gui_plan", P, 13)
  BY <1>4, <1>6, <1>7 DEF Chain
<1> QED  BY <1>8 DEF P

\* 12 steps of the function plan.
LEMMA ChainPlan == Chain("plan", Program["plan"], 12)
<1> DEFINE P == Program["plan"]
<1>1. P = spawn_interactive_plan
  BY Programs
<1>2. P \in Seq(Words) /\ Len(P) = 12
  BY <1>1 DEF spawn_interactive_plan, Words
<1>6. ASSUME NEW k \in 1 .. 11
      PROVE  Follows("plan", P[k], P[k + 1]) /\ P[k] # "impersonate"
               /\ P[k + 1] # "impersonate"
  <2>1. \/ P[k] = "available" /\ P[k + 1] = "profile"
        \/ P[k] = "profile" /\ P[k + 1] = "sid"
        \/ P[k] = "sid" /\ P[k + 1] = "grant"
        \/ P[k] = "grant" /\ P[k + 1] = "stage"
        \/ P[k] = "stage" /\ P[k + 1] = "caps"
        \/ P[k] = "caps" /\ P[k + 1] = "exempt"
        \/ P[k] = "exempt" /\ P[k + 1] = "attrs"
        \/ P[k] = "attrs" /\ P[k + 1] = "plan_env"
        \/ P[k] = "plan_env" /\ P[k + 1] = "create"
        \/ P[k] = "create" /\ P[k + 1] = "wait"
        \/ P[k] = "wait" /\ P[k + 1] = "close"
    BY <1>1 DEF spawn_interactive_plan
  <2> HIDE DEF P
  <2> QED  BY <2>1 DEF Follows, Gui, Caged
<1>7. Follows("plan", P[12], "end") /\ P[12] # "impersonate"
  BY <1>1 DEF spawn_interactive_plan, Follows, Gui, Caged
<1> HIDE DEF P
<1>8. Chain("plan", P, 12)
  BY <1>2, <1>6, <1>7 DEF Chain
<1> QED  BY <1>8 DEF P

\* 16 steps of the function silo.
LEMMA ChainSilo == Chain("silo", Program["silo"], 16) /\ Program["silo"][9] = "revert"
<1> DEFINE P == Program["silo"]
           Q == silo_prepare \o silo_create
<1>1. silo_prepare \in Seq(Words) /\ silo_create \in Seq(Words) /\ silo_start \in Seq(Words)
  BY DEF silo_prepare, silo_create, silo_start, Words
<1>2. Len(silo_prepare) = 3 /\ Len(silo_create) = 6 /\ Len(silo_start) = 7
  BY DEF silo_prepare, silo_create, silo_start
<1>3. P = Q \o silo_start
  BY Programs
<1>b. /\ Q \in Seq(Words) /\ Len(Q) = 9
      /\ \A k \in 1 .. 3 : Q[k] = silo_prepare[k]
      /\ \A k \in 3 + 1 .. 9 : Q[k] = silo_create[k - 3]
  <2>1. /\ Q \in Seq(Words) /\ Len(Q) = Len(silo_prepare) + Len(silo_create)
        /\ \A i \in 1 .. Len(silo_prepare) + Len(silo_create) :
              Q[i] = IF i <= Len(silo_prepare) THEN silo_prepare[i]
                ELSE silo_create[i - Len(silo_prepare)]
    BY <1>1, ConcatProperties, Zenon
  <2> HIDE DEF Q
  <2> QED  BY <2>1, <1>2
<1>c. /\ P \in Seq(Words) /\ Len(P) = 16
      /\ \A k \in 1 .. 9 : P[k] = Q[k]
      /\ \A k \in 9 + 1 .. 16 : P[k] = silo_start[k - 9]
  <2> HIDE DEF P, Q
  <2>1. /\ P \in Seq(Words) /\ Len(P) = Len(Q) + Len(silo_start)
        /\ \A i \in 1 .. Len(Q) + Len(silo_start) :
              P[i] = IF i <= Len(Q) THEN Q[i] ELSE silo_start[i - Len(Q)]
    BY <1>1, <1>3, <1>b, ConcatProperties, Zenon
  <2> QED  BY <2>1, <1>2, <1>b
<1>4. /\ P \in Seq(Words) /\ Len(P) = 16
      /\ \A k \in 1 .. 3 : P[k] = silo_prepare[k]
      /\ \A k \in 4 .. 9 : P[k] = silo_create[k - 3]
      /\ \A k \in 10 .. 16 : P[k] = silo_start[k - 9]
  <2> HIDE DEF P, Q
  <2> QED  BY <1>b, <1>c
<1>5. /\ P[1] = "detect" /\ P[2] = "stage" /\ P[3] = "plan_env"
      /\ P[4] = "job" /\ P[5] = "namespace" /\ P[6] = "privilege" /\ P[7] = "root"
           /\ P[8] = "init" /\ P[9] = "revert"
      /\ P[10] = "spawn" /\ P[11] = "assign" /\ P[12] = "resume" /\ P[13] = "open"
           /\ P[14] = "restore" /\ P[15] = "wait" /\ P[16] = "close"
  <2> HIDE DEF P
  <2> QED  BY <1>4 DEF silo_prepare, silo_create, silo_start
<1>6. ASSUME NEW k \in 1 .. 15
      PROVE  Follows("silo", P[k], P[k + 1]) /\ P[k] # "impersonate"
               /\ P[k + 1] # "impersonate"
  <2>1. \/ P[k] = "detect" /\ P[k + 1] = "stage"
        \/ P[k] = "stage" /\ P[k + 1] = "plan_env"
        \/ P[k] = "plan_env" /\ P[k + 1] = "job"
        \/ P[k] = "job" /\ P[k + 1] = "namespace"
        \/ P[k] = "namespace" /\ P[k + 1] = "privilege"
        \/ P[k] = "privilege" /\ P[k + 1] = "root"
        \/ P[k] = "root" /\ P[k + 1] = "init"
        \/ P[k] = "init" /\ P[k + 1] = "revert"
        \/ P[k] = "revert" /\ P[k + 1] = "spawn"
        \/ P[k] = "spawn" /\ P[k + 1] = "assign"
        \/ P[k] = "assign" /\ P[k + 1] = "resume"
        \/ P[k] = "resume" /\ P[k + 1] = "open"
        \/ P[k] = "open" /\ P[k + 1] = "restore"
        \/ P[k] = "restore" /\ P[k + 1] = "wait"
        \/ P[k] = "wait" /\ P[k + 1] = "close"
    <3>1. k = 1 \/ k = 2 \/ k = 3 \/ k = 4 \/ k = 5 \/ k = 6 \/ k = 7 \/ k = 8 \/ k = 9
            \/ k = 10 \/ k = 11 \/ k = 12 \/ k = 13 \/ k = 14 \/ k = 15
      OBVIOUS
    <3> HIDE DEF P
    <3> QED  BY <3>1, <1>5
  <2> HIDE DEF P
  <2> QED  BY <2>1 DEF Follows, Gui, Caged
<1>7. Follows("silo", P[16], "end") /\ P[16] # "impersonate"
  <2> HIDE DEF P
  <2> QED  BY <1>5 DEF Follows, Gui, Caged
<1> HIDE DEF P
<1>8. Chain("silo", P, 16)
  BY <1>4, <1>6, <1>7 DEF Chain
<1> QED  BY <1>5, <1>8 DEF P

\* 15 steps of the function devicemap.
LEMMA ChainDeviceMap == Chain("devicemap", Program["devicemap"], 15)
<1> DEFINE P == Program["devicemap"]
<1>1. devicemap_prepare \in Seq(Words) /\ devicemap_start \in Seq(Words)
  BY DEF devicemap_prepare, devicemap_start, Words
<1>2. Len(devicemap_prepare) = 8 /\ Len(devicemap_start) = 7
  BY DEF devicemap_prepare, devicemap_start
<1>3. P = devicemap_prepare \o devicemap_start
  BY Programs
<1>4. /\ P \in Seq(Words) /\ Len(P) = 15
      /\ \A k \in 1 .. 8 : P[k] = devicemap_prepare[k]
      /\ \A k \in 8 + 1 .. 15 : P[k] = devicemap_start[k - 8]
  <2> HIDE DEF P
  <2>1. /\ P \in Seq(Words) /\ Len(P) = Len(devicemap_prepare) + Len(devicemap_start)
        /\ \A i \in 1 .. Len(devicemap_prepare) + Len(devicemap_start) :
              P[i] = IF i <= Len(devicemap_prepare) THEN devicemap_prepare[i]
                ELSE devicemap_start[i - Len(devicemap_prepare)]
    BY <1>1, <1>3, ConcatProperties, Zenon
  <2> QED  BY <2>1, <1>2
<1>5. /\ P[1] = "stage" /\ P[2] = "psh" /\ P[3] = "plan_env" /\ P[4] = "binds"
           /\ P[5] = "map" /\ P[6] = "impersonate" /\ P[7] = "swap" /\ P[8] = "revert"
      /\ P[9] = "spawn" /\ P[10] = "impersonate" /\ P[11] = "assign" /\ P[12] = "resume"
           /\ P[13] = "restore" /\ P[14] = "wait" /\ P[15] = "close"
  <2> HIDE DEF P
  <2> QED  BY <1>4 DEF devicemap_prepare, devicemap_start
<1>6. ASSUME NEW k \in 1 .. 14
      PROVE  LET s == IF P[k] = "impersonate" /\ P[k + 1] = "assign"
                   THEN "impersonate again" ELSE P[k]
                 t == IF P[k + 1] = "impersonate" /\ P[k + 2] = "assign"
                      THEN "impersonate again" ELSE P[k + 1]
             IN Follows("devicemap", s, t)
  <2>1. \/ P[k] = "stage" /\ P[k + 1] = "psh"
        \/ P[k] = "psh" /\ P[k + 1] = "plan_env"
        \/ P[k] = "plan_env" /\ P[k + 1] = "binds"
        \/ P[k] = "binds" /\ P[k + 1] = "map"
        \/ P[k] = "map" /\ P[k + 1] = "impersonate" /\ P[k + 2] = "swap"
        \/ P[k] = "impersonate" /\ P[k + 1] = "swap"
        \/ P[k] = "swap" /\ P[k + 1] = "revert"
        \/ P[k] = "revert" /\ P[k + 1] = "spawn"
        \/ P[k] = "spawn" /\ P[k + 1] = "impersonate" /\ P[k + 2] = "assign"
        \/ P[k] = "impersonate" /\ P[k + 1] = "assign"
        \/ P[k] = "assign" /\ P[k + 1] = "resume"
        \/ P[k] = "resume" /\ P[k + 1] = "restore"
        \/ P[k] = "restore" /\ P[k + 1] = "wait"
        \/ P[k] = "wait" /\ P[k + 1] = "close"
    <3>1. k = 1 \/ k = 2 \/ k = 3 \/ k = 4 \/ k = 5 \/ k = 6 \/ k = 7 \/ k = 8 \/ k = 9
            \/ k = 10 \/ k = 11 \/ k = 12 \/ k = 13 \/ k = 14
      OBVIOUS
    <3> HIDE DEF P
    <3> QED  BY <3>1, <1>5
  <2> HIDE DEF P
  <2> QED  BY <2>1 DEF Follows, Gui, Caged
<1>7. Follows("devicemap", P[15], "end") /\ P[15] # "impersonate"
  <2> HIDE DEF P
  <2> QED  BY <1>5 DEF Follows, Gui, Caged
<1> HIDE DEF P
<1>8. Chain("devicemap", P, 15)
  <2>1. 15 - 1 = 14 /\ 15 > 0
    OBVIOUS
  <2> QED  BY <1>4, <1>6, <1>7, <2>1, Zenon DEF Chain
<1> QED  BY <1>8 DEF P

\* 10 steps of the function appcontainer.
LEMMA ChainAppContainer == Chain("appcontainer", Program["appcontainer"], 10)
<1> DEFINE P == Program["appcontainer"]
<1>1. P = spawn_with_appcontainer
  BY Programs
<1>2. P \in Seq(Words) /\ Len(P) = 10
  BY <1>1 DEF spawn_with_appcontainer, Words
<1>6. ASSUME NEW k \in 1 .. 9
      PROVE  Follows("appcontainer", P[k], P[k + 1]) /\ P[k] # "impersonate"
               /\ P[k + 1] # "impersonate"
  <2>1. \/ P[k] = "profile" /\ P[k + 1] = "grant"
        \/ P[k] = "grant" /\ P[k + 1] = "caps"
        \/ P[k] = "caps" /\ P[k + 1] = "exempt"
        \/ P[k] = "exempt" /\ P[k + 1] = "attrs"
        \/ P[k] = "attrs" /\ P[k + 1] = "env"
        \/ P[k] = "env" /\ P[k + 1] = "create"
        \/ P[k] = "create" /\ P[k + 1] = "assign"
        \/ P[k] = "assign" /\ P[k + 1] = "resume"
        \/ P[k] = "resume" /\ P[k + 1] = "forget"
    BY <1>1 DEF spawn_with_appcontainer
  <2> HIDE DEF P
  <2> QED  BY <2>1 DEF Follows, Gui, Caged
<1>7. Follows("appcontainer", P[10], "end") /\ P[10] # "impersonate"
  BY <1>1 DEF spawn_with_appcontainer, Follows, Gui, Caged
<1> HIDE DEF P
<1>8. Chain("appcontainer", P, 10)
  BY <1>2, <1>6, <1>7 DEF Chain
<1> QED  BY <1>8 DEF P

\* 4 steps of the function restricted.
LEMMA ChainRestricted == Chain("restricted", Program["restricted"], 4)
<1> DEFINE P == Program["restricted"]
<1>1. P = spawn_with_restricted_token
  BY Programs
<1>2. P \in Seq(Words) /\ Len(P) = 4
  BY <1>1 DEF spawn_with_restricted_token, Words
<1>6. ASSUME NEW k \in 1 .. 3
      PROVE  Follows("restricted", P[k], P[k + 1]) /\ P[k] # "impersonate"
               /\ P[k + 1] # "impersonate"
  <2>1. \/ P[k] = "token" /\ P[k + 1] = "spawn"
        \/ P[k] = "spawn" /\ P[k + 1] = "assign"
        \/ P[k] = "assign" /\ P[k + 1] = "resume"
    BY <1>1 DEF spawn_with_restricted_token
  <2> HIDE DEF P
  <2> QED  BY <2>1 DEF Follows, Gui, Caged
<1>7. Follows("restricted", P[4], "end") /\ P[4] # "impersonate"
  BY <1>1 DEF spawn_with_restricted_token, Follows, Gui, Caged
<1> HIDE DEF P
<1>8. Chain("restricted", P, 4)
  BY <1>2, <1>6, <1>7 DEF Chain
<1> QED  BY <1>8 DEF P

\* 6 steps of the function app.
LEMMA ChainApp == Chain("app", Program["app"], 6)
<1> DEFINE P == Program["app"]
           B == <<"wait", "cleanup">>
<1>1. stage_and_spawn_gui \in Seq(Words) /\ B \in Seq(Words)
  BY DEF stage_and_spawn_gui, Words
<1>2. Len(stage_and_spawn_gui) = 4 /\ Len(B) = 2
  BY DEF stage_and_spawn_gui
<1>3. P = stage_and_spawn_gui \o B
  BY Programs DEF cmd_gui
<1>4. /\ P \in Seq(Words) /\ Len(P) = 6
      /\ \A k \in 1 .. 4 : P[k] = stage_and_spawn_gui[k]
      /\ \A k \in 4 + 1 .. 6 : P[k] = B[k - 4]
  <2> HIDE DEF P, B
  <2>1. /\ P \in Seq(Words) /\ Len(P) = Len(stage_and_spawn_gui) + Len(B)
        /\ \A i \in 1 .. Len(stage_and_spawn_gui) + Len(B) :
              P[i] = IF i <= Len(stage_and_spawn_gui) THEN stage_and_spawn_gui[i]
                ELSE B[i - Len(stage_and_spawn_gui)]
    BY <1>1, <1>3, ConcatProperties, Zenon
  <2> QED  BY <2>1, <1>2
<1>5. /\ P[1] = "rootfs" /\ P[2] = "tree" /\ P[3] = "desktop" /\ P[4] = "launch"
      /\ P[5] = "wait" /\ P[6] = "cleanup"
  <2> HIDE DEF P
  <2> QED  BY <1>4 DEF stage_and_spawn_gui
<1>6. ASSUME NEW k \in 1 .. 5
      PROVE  Follows("app", P[k], P[k + 1]) /\ P[k] # "impersonate"
               /\ P[k + 1] # "impersonate"
  <2>1. \/ P[k] = "rootfs" /\ P[k + 1] = "tree"
        \/ P[k] = "tree" /\ P[k + 1] = "desktop"
        \/ P[k] = "desktop" /\ P[k + 1] = "launch"
        \/ P[k] = "launch" /\ P[k + 1] = "wait"
        \/ P[k] = "wait" /\ P[k + 1] = "cleanup"
    <3>1. k = 1 \/ k = 2 \/ k = 3 \/ k = 4 \/ k = 5
      OBVIOUS
    <3> HIDE DEF P
    <3> QED  BY <3>1, <1>5
  <2> HIDE DEF P
  <2> QED  BY <2>1 DEF Follows, Gui, Caged
<1>7. Follows("app", P[6], "end") /\ P[6] # "impersonate"
  <2> HIDE DEF P
  <2> QED  BY <1>5 DEF Follows, Gui, Caged
<1> HIDE DEF P
<1>8. Chain("app", P, 6)
  BY <1>4, <1>6, <1>7 DEF Chain
<1> QED  BY <1>8 DEF P

\* The steps that remain of a sequence of which Chain holds.
LEMMA Runs ==
    ASSUME NEW f, NEW P, NEW n \in Nat, Chain(f, P, n), NEW k \in 0 .. n - 1
    PROVE  LET q == SubSeq(P, k + 1, Len(P)) IN
           /\ q # <<>> /\ Head(q) = P[k + 1]
           /\ Tail(q) = SubSeq(P, (k + 1) + 1, Len(P))
           /\ Follows(f, Pc(q), Pc(Tail(q)))
<1> DEFINE q == SubSeq(P, k + 1, Len(P))
           r == SubSeq(P, (k + 1) + 1, Len(P))
<1>1. P \in Seq(Words) /\ Len(P) = n
  BY DEF Chain
<1>2. q # <<>> /\ Head(q) = P[k + 1] /\ Tail(q) = r
  <2>1. k \in 0 .. Len(P) /\ k < Len(P)
    BY <1>1
  <2> QED  BY <1>1, <2>1, Ends
<1>3. k + 1 \in 0 .. Len(P) /\ (k + 1) + 1 \in Nat
  BY <1>1
<1>4. ASSUME k + 1 = n
      PROVE  Follows(f, Pc(q), Pc(r))
  <2>1. r = <<>>
    BY <1>1, <1>3, <1>4, Ends
  <2>2. Head(q) # "impersonate" /\ Head(q) = P[n]
    BY <1>2, <1>4 DEF Chain
  <2>3. Pc(q) = P[n] /\ Pc(r) = "end"
    BY <1>2, <2>1, <2>2 DEF Pc
  <2> QED  BY <2>3 DEF Chain
<1>5. ASSUME k + 1 < n
      PROVE  Follows(f, Pc(q), Pc(r))
  <2>1. r # <<>> /\ Head(r) = P[k + 2] /\ Tail(r) = SubSeq(P, k + 3, Len(P))
    <3>1. r # <<>> /\ Head(r) = P[(k + 1) + 1]
            /\ Tail(r) = SubSeq(P, ((k + 1) + 1) + 1, Len(P))
      BY <1>1, <1>3, <1>5, Ends
    <3>2. (k + 1) + 1 = k + 2 /\ ((k + 1) + 1) + 1 = k + 3
      OBVIOUS
    <3> QED  BY <3>1, <3>2
  <2>2. Pc(q) = IF P[k + 1] = "impersonate" /\ P[k + 2] = "assign"
                THEN "impersonate again" ELSE P[k + 1]
    <3> HIDE DEF q, r
    <3> QED  BY <1>2, <2>1 DEF Pc
  <2>3. Pc(r) = IF P[k + 2] = "impersonate" /\ P[k + 3] = "assign"
                THEN "impersonate again" ELSE P[k + 2]
    <3>1. CASE k + 2 < n
      <4>1. k + 2 \in 0 .. Len(P) /\ k + 2 < Len(P)
        BY <1>1, <3>1
      <4>2. Head(SubSeq(P, (k + 2) + 1, Len(P))) = P[(k + 2) + 1]
        BY <1>1, <4>1, Ends
      <4>3. (k + 2) + 1 = k + 3
        OBVIOUS
      <4>4. Head(Tail(r)) = P[k + 3]
        BY <2>1, <4>2, <4>3
      <4> HIDE DEF r
      <4> QED  BY <2>1, <4>4 DEF Pc
    <3>2. CASE k + 2 = n
      <4>1. P[k + 2] # "impersonate"
        BY <3>2 DEF Chain
      <4> HIDE DEF r
      <4> QED  BY <2>1, <4>1 DEF Pc
    <3>3. k + 2 < n \/ k + 2 = n
      BY <1>5
    <3> QED  BY <3>1, <3>2, <3>3, Zenon
  <2>4. k + 1 \in 1 .. n - 1 /\ (k + 1) + 1 = k + 2 /\ (k + 1) + 2 = k + 3
    BY <1>5
  <2>5. LET s == IF P[k + 1] = "impersonate" /\ P[(k + 1) + 1] = "assign"
                 THEN "impersonate again" ELSE P[k + 1]
            t == IF P[(k + 1) + 1] = "impersonate" /\ P[(k + 1) + 2] = "assign"
                 THEN "impersonate again" ELSE P[(k + 1) + 1]
        IN Follows(f, s, t)
    <3>1. \A i \in 1 .. n - 1 :
             LET s == IF P[i] = "impersonate" /\ P[i + 1] = "assign"
                      THEN "impersonate again" ELSE P[i]
                 t == IF P[i + 1] = "impersonate" /\ P[i + 2] = "assign"
                      THEN "impersonate again" ELSE P[i + 1]
             IN Follows(f, s, t)
      BY DEF Chain
    <3> QED  BY <2>4, <3>1, Zenon
  <2> QED  BY <2>2, <2>3, <2>4, <2>5, Zenon
<1>6. k + 1 = n \/ k + 1 < n
  OBVIOUS
<1> QED  BY <1>2, <1>4, <1>5, <1>6, Zenon

\* The functions are chains of steps.
LEMMA Chained ==
    ASSUME NEW f \in DOMAIN Program
    PROVE  \E n \in Nat : Chain(f, Program[f], n)
<1>1. f \in {"interactive", "gui", "gui_async", "gui_plan", "plan", "silo",
             "devicemap", "appcontainer", "restricted", "app"}
  BY Programs
<1>2. 11 \in Nat /\ 12 \in Nat /\ 13 \in Nat /\ 16 \in Nat /\ 15 \in Nat /\ 10 \in Nat
      /\ 4 \in Nat /\ 6 \in Nat
  OBVIOUS
<1> QED  BY <1>1, <1>2, ChainInteractive, ChainGui, ChainGuiAsync, ChainGuiPlan, ChainPlan,
            ChainSilo, ChainDeviceMap, ChainAppContainer, ChainRestricted, ChainApp, Zenon

\* The steps of a function are steps.
LEMMA ProgramSteps ==
    ASSUME NEW f \in DOMAIN Program
    PROVE  /\ Program[f] \in Seq(Steps) /\ Len(Program[f]) \in Nat /\ Len(Program[f]) > 0
           /\ Program[f] # <<>>
<1>1. PICK n \in Nat : Chain(f, Program[f], n)
  BY Chained
<1>2. Program[f] \in Seq(Words) /\ Len(Program[f]) = n /\ n > 0
  BY <1>1 DEF Chain
<1> DEFINE P == Program[f]
<1>3. ToSet(P) \subseteq Steps
  BY DEF Steps
<1>4. \A i \in 1 .. Len(P) : P[i] \in Steps
  <2>1. DOMAIN P = 1 .. Len(P)
    BY <1>2
  <2> QED  BY <1>3, <2>1 DEF ToSet
<1>5. P \in Seq(Steps)
  <2> HIDE DEF P
  <2> QED  BY <1>2, <1>4 DEF P
<1>6. P # <<>>
  BY <1>2
<1> QED  BY <1>2, <1>5, <1>6

\* A function is done when no step remains.
LEMMA EndTracks ==
    ASSUME NEW f \in DOMAIN Program
    PROVE  Track(f, <<>>)
<1>1. PICK n \in Nat : Chain(f, Program[f], n)
  BY Chained
<1>2. Program[f] \in Seq(Words) /\ Len(Program[f]) = n
  BY <1>1 DEF Chain
<1>3. n \in 0 .. Len(Program[f]) /\ Rest(f, n) = <<>>
  BY <1>2, Ends DEF Rest
<1> QED  BY <1>3 DEF Track

\* A function begins at its first step.
LEMMA BeginTracks ==
    ASSUME NEW f \in DOMAIN Program
    PROVE  Track(f, Program[f])
<1>1. 0 \in 0 .. Len(Program[f]) /\ Program[f] = Rest(f, 0)
  BY ProgramSteps, SubSeqFull DEF Rest
<1> QED  BY <1>1 DEF Track

\* The first steps.
LEMMA FirstSteps ==
    ASSUME NEW f \in DOMAIN Program
    PROVE  \/ f \in Caged \ {"appcontainer"} /\ Pc(Program[f]) = "available"
           \/ f = "appcontainer" /\ Pc(Program[f]) = "profile"
           \/ f = "restricted" /\ Pc(Program[f]) = "token"
           \/ f = "silo" /\ Pc(Program[f]) = "detect"
           \/ f = "devicemap" /\ Pc(Program[f]) = "stage"
           \/ f = "app" /\ Pc(Program[f]) = "rootfs"
<1>1. PICK n \in Nat : Chain(f, Program[f], n)
  BY Chained
<1>2. Program[f] \in Seq(Words) /\ Len(Program[f]) = n /\ n > 0
  BY <1>1 DEF Chain
<1>3. Head(Program[f]) = Program[f][1] /\ Program[f] # <<>>
  BY <1>2
<1>4. \/ f \in Caged \ {"appcontainer"} /\ Program[f][1] = "available"
      \/ f = "appcontainer" /\ Program[f][1] = "profile"
      \/ f = "restricted" /\ Program[f][1] = "token"
      \/ f = "silo" /\ Program[f][1] = "detect"
      \/ f = "devicemap" /\ Program[f][1] = "stage"
      \/ f = "app" /\ Program[f][1] = "rootfs"
  <2>1. CASE f \in {"interactive", "gui", "gui_async", "plan", "appcontainer", "restricted"}
    BY <2>1, Programs DEF spawn_interactive, spawn_gui_isolated, spawn_gui_isolated_async,
       spawn_interactive_plan, spawn_with_appcontainer, spawn_with_restricted_token, Caged, Gui
  <2>2. CASE f = "gui_plan"
    <3>1. gui_plan_prepare \in Seq(Words) /\ gui_plan_start \in Seq(Words)
            /\ Len(gui_plan_prepare) = 8
          /\ gui_plan_prepare[1] = "available" /\ Len(gui_plan_start) = 5
      BY DEF gui_plan_prepare, gui_plan_start, Words
    <3>2. (gui_plan_prepare \o gui_plan_start)[1] = gui_plan_prepare[1]
      BY <3>1, ConcatProperties
    <3> QED  BY <2>2, <3>1, <3>2, Programs DEF Caged, Gui
  <2>3. CASE f = "silo"
    <3>1. silo_prepare \in Seq(Words) /\ silo_create \in Seq(Words)
            /\ silo_start \in Seq(Words)
          /\ Len(silo_prepare) = 3 /\ silo_prepare[1] = "detect" /\ Len(silo_create) = 6
          /\ Len(silo_start) = 7
      BY DEF silo_prepare, silo_create, silo_start, Words
    <3>2. /\ silo_prepare \o silo_create \in Seq(Words)
          /\ Len(silo_prepare \o silo_create) = Len(silo_prepare) + Len(silo_create)
          /\ (silo_prepare \o silo_create)[1] = silo_prepare[1]
      <4>1. /\ silo_prepare \o silo_create \in Seq(Words)
            /\ Len(silo_prepare \o silo_create) = Len(silo_prepare) + Len(silo_create)
            /\ \A i \in 1 .. Len(silo_prepare) + Len(silo_create) :
                 (silo_prepare \o silo_create)[i] =
                  IF i <= Len(silo_prepare) THEN silo_prepare[i]
                                            ELSE silo_create[i - Len(silo_prepare)]
        BY <3>1, ConcatProperties, Zenon
      <4>2. 1 \in 1 .. Len(silo_prepare) + Len(silo_create) /\ 1 <= Len(silo_prepare)
        BY <3>1
      <4> QED  BY <4>1, <4>2, Zenon
    <3>3. (silo_prepare \o silo_create \o silo_start)[1] = (silo_prepare \o silo_create)[1]
      BY <3>1, <3>2, ConcatProperties
    <3> QED  BY <2>3, <3>1, <3>2, <3>3, Programs
  <2>4. CASE f = "devicemap"
    <3>1. devicemap_prepare \in Seq(Words) /\ devicemap_start \in Seq(Words)
            /\ Len(devicemap_prepare) = 8
          /\ devicemap_prepare[1] = "stage" /\ Len(devicemap_start) = 7
      BY DEF devicemap_prepare, devicemap_start, Words
    <3>2. (devicemap_prepare \o devicemap_start)[1] = devicemap_prepare[1]
      BY <3>1, ConcatProperties
    <3> QED  BY <2>4, <3>1, <3>2, Programs
  <2>5. CASE f = "app"
    <3> DEFINE B == <<"wait", "cleanup">>
    <3>1. stage_and_spawn_gui \in Seq(Words) /\ B \in Seq(Words)
            /\ Len(stage_and_spawn_gui) = 4
          /\ stage_and_spawn_gui[1] = "rootfs" /\ Len(B) = 2
      BY DEF stage_and_spawn_gui, Words
    <3>2. (stage_and_spawn_gui \o B)[1] = stage_and_spawn_gui[1]
      <4> HIDE DEF B
      <4> QED  BY <3>1, ConcatProperties
    <3>3. Program[f] = stage_and_spawn_gui \o B
      BY <2>5, Programs DEF cmd_gui
    <3> QED  BY <2>5, <3>1, <3>2, <3>3
  <2> QED  BY <2>1, <2>2, <2>3, <2>4, <2>5, Programs
<1>5. Program[f][1] # "impersonate"
  BY <1>4
<1> QED  BY <1>3, <1>4, <1>5 DEF Pc

\* What remains of two steps, and of one.
LEMMA Tails ==
    ASSUME NEW a, NEW b
    PROVE  /\ Tail(<<a, b>>) = <<b>> /\ Head(<<a, b>>) = a
           /\ Tail(<<a>>) = <<>> /\ Head(<<a>>) = a /\ <<a>> # <<>>
<1>1. <<a, b>> \in Seq({a, b}) /\ <<a, b>> # <<>> /\ Len(<<a, b>>) = 2 /\ <<a, b>>[2] = b
  OBVIOUS
<1>2. /\ Tail(<<a, b>>) \in Seq({a, b})
      /\ Len(Tail(<<a, b>>)) = Len(<<a, b>>) - 1
      /\ \A i \in 1 .. Len(Tail(<<a, b>>)) : Tail(<<a, b>>)[i] = <<a, b>>[i + 1]
  BY <1>1, HeadTailProperties, Zenon
<1>3. Tail(<<a, b>>) = <<b>>
  <2>1. <<b>> \in Seq({a, b}) /\ Len(<<b>>) = 1 /\ <<b>>[1] = b
    OBVIOUS
  <2> DEFINE t == Tail(<<a, b>>)
             u == <<b>>
  <2>2. Len(t) = 1 /\ t[1] = b
    BY <1>1, <1>2
  <2>3. t \in Seq({a, b}) /\ u \in Seq({a, b}) /\ Len(t) = Len(u) /\ \A i \in 1 .. Len(t) :
          t[i] = u[i]
    <3> HIDE DEF t
    <3> QED  BY <1>2, <2>1, <2>2 DEF t
  <2>4. t = u
    <3> HIDE DEF t, u
    <3> QED  BY <2>3, SeqEqual
  <2> QED  BY <2>4
<1>4. Tail(<<a>>) = <<>>
  <2>1. <<a>> \in Seq({a}) /\ <<a>> # <<>> /\ Len(<<a>>) = 1
    OBVIOUS
  <2>2. Tail(<<a>>) \in Seq({a}) /\ Len(Tail(<<a>>)) = Len(<<a>>) - 1
    BY <2>1, HeadTailProperties, Zenon
  <2>3. Len(Tail(<<a>>)) = 0
    BY <2>1, <2>2
  <2> QED  BY <2>2, <2>3, EmptySeq
<1>5. Head(<<a, b>>) = a /\ Head(<<a>>) = a /\ <<a>> # <<>>
  OBVIOUS
<1> QED  BY <1>3, <1>4, <1>5

\* At every step of a function the next one follows.
LEMMA Moves ==
    ASSUME NEW f \in DOMAIN Program, NEW q \in Seq(Steps), Track(f, q), q # <<>>
    PROVE  /\ Track(f, Tail(q))
           /\ Tail(q) \in Seq(Steps)
           /\ Head(q) \in Steps
           /\ Follows(f, Pc(q), Pc(Tail(q)))
<1>0. Tail(q) \in Seq(Steps) /\ Head(q) \in Steps
  BY HeadTailProperties
<1>1. CASE f = "silo" /\ q \in Refused
  <2>1. CASE q = <<"revert", "no root">>
    <3>1. Tail(q) = <<"no root">> /\ Head(q) = "revert"
      BY <2>1, Tails, Zenon
    <3>2. Pc(q) = "revert" /\ Pc(Tail(q)) = "no root"
      <4>1. Head(Tail(q)) = "no root" /\ Tail(q) # <<>>
        BY <3>1, Tails, Zenon
      <4> QED  BY <3>1, <4>1 DEF Pc
    <3>3. Follows(f, Pc(q), Pc(Tail(q)))
      BY <3>2, <1>1 DEF Follows
    <3> QED  BY <1>0, <1>1, <3>1, <3>3 DEF Track, Refused
  <2>2. CASE q = <<"no root">>
    <3>1. Tail(q) = <<>> /\ Head(q) = "no root"
      BY <2>2, Tails, Zenon
    <3>2. Pc(q) = "no root" /\ Pc(Tail(q)) = "end"
      BY <3>1, <2>2 DEF Pc
    <3>3. Follows(f, Pc(q), Pc(Tail(q)))
      BY <3>2, <1>1 DEF Follows
    <3> QED  BY <1>0, <1>1, <3>1, <3>3, EndTracks
  <2>3. CASE q = <<"revert", "no init">>
    <3>1. Tail(q) = <<"no init">> /\ Head(q) = "revert"
      BY <2>3, Tails, Zenon
    <3>2. Pc(q) = "revert" /\ Pc(Tail(q)) = "no init"
      <4>1. Head(Tail(q)) = "no init" /\ Tail(q) # <<>>
        BY <3>1, Tails, Zenon
      <4> QED  BY <3>1, <4>1 DEF Pc
    <3>3. Follows(f, Pc(q), Pc(Tail(q)))
      BY <3>2, <1>1 DEF Follows
    <3> QED  BY <1>0, <1>1, <3>1, <3>3 DEF Track, Refused
  <2>4. CASE q = <<"no init">>
    <3>1. Tail(q) = <<>> /\ Head(q) = "no init"
      BY <2>4, Tails, Zenon
    <3>2. Pc(q) = "no init" /\ Pc(Tail(q)) = "end"
      BY <3>1, <2>4 DEF Pc
    <3>3. Follows(f, Pc(q), Pc(Tail(q)))
      BY <3>2, <1>1 DEF Follows
    <3> QED  BY <1>0, <1>1, <3>1, <3>3, EndTracks
  <2> QED  BY <1>1, <2>1, <2>2, <2>3, <2>4 DEF Refused
<1>2. ASSUME NEW k \in 0 .. Len(Program[f]), q = Rest(f, k)
      PROVE  /\ Track(f, Tail(q))
             /\ Follows(f, Pc(q), Pc(Tail(q)))
  <2>1. PICK n \in Nat : Chain(f, Program[f], n)
    BY Chained
  <2>2. Program[f] \in Seq(Words) /\ Len(Program[f]) = n
    BY <2>1 DEF Chain
  <2>3. k # n
    <3>1. k = Len(Program[f]) => q = <<>>
      BY <2>2, <1>2, Ends DEF Rest
    <3> QED  BY <2>2, <3>1
  <2>4. k \in 0 .. n - 1
    BY <1>2, <2>2, <2>3
  <2>5. Follows(f, Pc(q), Pc(Tail(q)))
          /\ Tail(q) = SubSeq(Program[f], (k + 1) + 1, Len(Program[f]))
    BY <1>2, <2>1, <2>4, Runs DEF Rest
  <2>6. k + 1 \in 0 .. Len(Program[f]) /\ Tail(q) = Rest(f, k + 1)
    BY <2>5, <2>4, <2>2 DEF Rest
  <2> QED  BY <2>5, <2>6 DEF Track
<1> QED  BY <1>0, <1>1, <1>2 DEF Track

-----------------------------------------------------------------------------
(* The environment *)

\* Every non-empty set of positions has a last one: of the intervals from its
\* elements to the end one contains no other.
LEMMA Greatest ==
    ASSUME NEW n \in Nat, NEW S, S \subseteq 1 .. n, S # {}
    PROVE  \E m \in S : \A j \in S : j <= m
<1> DEFINE T == {i .. n : i \in S}
<1>1. T \subseteq FiniteSubsetsOf(Nat)
  <2> SUFFICES ASSUME NEW i \in S PROVE i .. n \in FiniteSubsetsOf(Nat)
    OBVIOUS
  <2>1. i \in Int /\ n \in Int /\ i .. n \subseteq Nat
    OBVIOUS
  <2>2. IsFiniteSet(i .. n)
    BY <2>1, FS_Interval
  <2> QED  BY <2>1, <2>2 DEF FiniteSubsetsOf
<1>2. T # {}
  OBVIOUS
<1>3. IsWellFoundedOn(StrictSubsetOrdering(Nat), FiniteSubsetsOf(Nat))
  BY FS_StrictSubsetOrderingWellFounded
<1>4. PICK x \in T : \A y \in T : ~ (<<y, x>> \in StrictSubsetOrdering(Nat))
  <2> HIDE DEF T
  <2> QED  BY <1>1, <1>2, <1>3, WFMin
<1>5. PICK m \in S : x = m .. n
  OBVIOUS
<1>6. \A j \in S : j <= m
  <2> SUFFICES ASSUME NEW j \in S, m < j PROVE FALSE
    OBVIOUS
  <2>1. j .. n \in T
    OBVIOUS
  <2>2. j .. n \subseteq m .. n /\ m \notin j .. n /\ m \in m .. n /\ m .. n \subseteq Nat
    OBVIOUS
  <2>3. <<j .. n, x>> \in StrictSubsetOrdering(Nat)
    BY <2>2, <1>5 DEF StrictSubsetOrdering
  <2> QED  BY <2>1, <2>3, <1>4
<1> QED  BY <1>6

\* SetToSeq lists every element of a finite set.
LEMMA Listed ==
    ASSUME NEW S, IsFiniteSet(S)
    PROVE  /\ Cardinality(S) \in Nat
           /\ SetToSeq(S) \in [1 .. Cardinality(S) -> S]
           /\ \A x \in S : \E i \in 1 .. Cardinality(S) : SetToSeq(S)[i] = x
<1> DEFINE n == Cardinality(S)
<1>1. n \in Nat /\ ExistsBijection(1 .. n, S)
  BY FS_CardinalityType
<1>2. PICK g : g \in Bijection(1 .. n, S)
  BY <1>1 DEF ExistsBijection
<1>3. g \in [1 .. n -> S] /\ IsInjective(g)
  BY <1>2 DEF Bijection, Injection
<1>4. SetToSeq(S) \in [1 .. n -> S] /\ IsInjective(SetToSeq(S))
  BY <1>3 DEF SetToSeq
<1> DEFINE h == SetToSeq(S)
<1>5. IsFiniteSet(1 .. n) /\ Cardinality(1 .. n) = n
  BY <1>1, FS_Interval
<1>6. h \in Surjection(1 .. n, S)
  <2>1. h \in Injection(1 .. n, S)
    BY <1>4 DEF Injection
  <2> HIDE DEF h
  <2> QED  BY <1>5, <2>1, FS_Injection
<1>7. \A x \in S : \E i \in 1 .. n : h[i] = x
  BY <1>6 DEF Surjection
<1> QED  BY <1>1, <1>4, <1>7

\* The entries of variable v in the list q have one value, x; or it has none, and
\* has that value in the environment e.
OneValue(q, e, v, x) ==
    /\ Len(q) \in Nat /\ DOMAIN q = 1 .. Len(q)
    /\ \A i \in DOMAIN q : q[i][1] = v => q[i][2] = x
    /\ (\E i \in DOMAIN q : q[i][1] = v) \/ (v \notin SandboxVars /\ e[v] = x)

\* That is the value it gets.
LEMMA RestoredValue ==
    ASSUME NEW q, NEW e, NEW v, NEW x, OneValue(q, e, v, x)
    PROVE  Restored(q, e, v) = x
<1> DEFINE entries == {i \in DOMAIN q : q[i][1] = v}
           m == CHOOSE i \in entries : \A j \in entries : j <= i
<1>0. /\ Len(q) \in Nat /\ DOMAIN q = 1 .. Len(q)
      /\ \A i \in DOMAIN q : q[i][1] = v => q[i][2] = x
      /\ (\E i \in DOMAIN q : q[i][1] = v) \/ (v \notin SandboxVars /\ e[v] = x)
  BY DEF OneValue
<1>1. CASE entries # {}
  <2>1. entries \subseteq 1 .. Len(q)
    BY <1>0
  <2>2. \E i \in entries : \A j \in entries : j <= i
    <3> HIDE DEF entries
    <3> QED  BY <1>0, <1>1, <2>1, Greatest
  <2>3. m \in entries
    <3> HIDE DEF entries
    <3> QED  BY <2>2
  <2>4. q[m][2] = x
    <3> HIDE DEF m
    <3> QED  BY <1>0, <2>3
  <2> QED  BY <1>1, <2>4 DEF Restored
<1>2. CASE entries = {}
  BY <1>0, <1>2 DEF Restored
<1> QED  BY <1>1, <1>2

\* What restore_env writes are values.
LEMMA RestoredTypes ==
    ASSUME NEW q, NEW n \in Nat, DOMAIN q = 1 .. n, \A i \in DOMAIN q : q[i][2] \in Values,
           NEW e \in [Vars -> Values], NEW v \in Vars
    PROVE  Restored(q, e, v) \in Values
<1> DEFINE entries == {i \in DOMAIN q : q[i][1] = v}
           m == CHOOSE i \in entries : \A j \in entries : j <= i
<1>1. CASE entries # {}
  <2>1. entries \subseteq 1 .. n
    OBVIOUS
  <2>2. \E i \in entries : \A j \in entries : j <= i
    <3> HIDE DEF entries
    <3> QED  BY <1>1, <2>1, Greatest
  <2>3. m \in entries
    <3> HIDE DEF entries
    <3> QED  BY <2>2
  <2>4. q[m][2] \in Values
    <3> HIDE DEF m
    <3> QED  BY <2>3
  <2> QED  BY <1>1, <2>4 DEF Restored
<1>2. CASE entries = {}
  BY <1>2 DEF Restored, Values
<1> QED  BY <1>1, <1>2

\* The step that restores.
LEMMA Restoring ==
    ASSUME SavedOk, env \in [Vars -> Values], Restore
    PROVE  /\ env' \in [Vars -> Values]
           /\ SavedOk'
           /\ Restores /\ UNCHANGED origin => Back'
<1>1. env' = [v \in Vars |-> Restored(saved, env, v)]
  BY DEF Restore, restore_env, Restored
<1>2. \A v \in Vars : Restored(saved, env, v) \in Values
  BY RestoredTypes DEF SavedOk
<1>3. env' \in [Vars -> Values]
  BY <1>1, <1>2
<1>4. SavedOk'
  BY DEF Restore, SavedOk
<1>5. ASSUME Restores, UNCHANGED origin PROVE Back'
  <2> SUFFICES ASSUME NEW v \in Kept PROVE env'[v] = origin'.env[v]
    BY DEF Back, Kept
  <2>1. v \in Vars
    BY DEF Kept
  <2> QED  BY <1>1, <1>5, <2>1 DEF Restores
<1> QED  BY <1>3, <1>4, <1>5

\* Entries of the saved list.
Entry == Vars \X Values

\* A function on 1 .. n is a sequence.
LEMMA FunctionSeq ==
    ASSUME NEW S, NEW n \in Nat, NEW f \in [1 .. n -> S]
    PROVE  f \in Seq(S) /\ Len(f) = n
OBVIOUS

\* The listed variables.
LEMMA SanitizedVars ==
    /\ Sanitized = {"PATH", "TEMP", "PSMODULEPATH"}
    /\ DOMAIN SANITIZED_VARS = 1 .. 4
    /\ SANITIZED_VARS[1] = "PATH" /\ SANITIZED_VARS[2] = "TEMP"
    /\ SANITIZED_VARS[3] = "PSMODULEPATH" /\ SANITIZED_VARS[4] = "PSMODULEPATH"
<1>1. /\ DOMAIN SANITIZED_VARS = 1 .. 4
      /\ SANITIZED_VARS[1] = "PATH" /\ SANITIZED_VARS[2] = "TEMP"
      /\ SANITIZED_VARS[3] = "PSMODULEPATH" /\ SANITIZED_VARS[4] = "PSMODULEPATH"
  BY DEF SANITIZED_VARS
<1>2. Sanitized = {"PATH", "TEMP", "PSMODULEPATH"}
  <2>1. \A i \in 1 .. 4 : i = 1 \/ i = 2 \/ i = 3 \/ i = 4
    OBVIOUS
  <2>2. 1 \in 1 .. 4 /\ 2 \in 1 .. 4 /\ 3 \in 1 .. 4
    OBVIOUS
  <2> QED  BY <1>1, <2>1, <2>2 DEF Sanitized, ToSet
<1> QED  BY <1>1, <1>2

\* The detected variables.
LEMMA DetectedVars == Detected \subseteq Vars \ Sanitized
BY LaunchAssumption DEF Detected

\* What is remembered of them.
LEMMA BaseList ==
    ASSUME env \in [Vars -> Values]
    PROVE  /\ SavedBase \in Seq(Entry) /\ Len(SavedBase) = 4
           /\ \A i \in 1 .. 4 :
                 /\ SavedBase[i][1] \in Sanitized
                 /\ SavedBase[i][1] # "PSMODULEPATH"
                      => SavedBase[i][2] = env[SavedBase[i][1]]
           /\ \A v \in Sanitized : \E i \in 1 .. 4 : SavedBase[i][1] = v
<1> DEFINE x(i) == IF \E j \in 1..(i - 1) : SANITIZED_VARS[j] = SANITIZED_VARS[i]
                   THEN "unset" ELSE env[SANITIZED_VARS[i]]
<1>1. SavedBase = [i \in 1 .. 4 |-> <<SANITIZED_VARS[i], x(i)>>]
  BY SanitizedVars, Zenon DEF SavedBase
<1>2. \A i \in 1 .. 4 : SANITIZED_VARS[i] \in Sanitized /\ SANITIZED_VARS[i] \in Vars
  BY SanitizedVars, LaunchAssumption
<1>3. \A i \in 1 .. 4 : x(i) \in Values
  BY <1>2 DEF Values
<1>4. \A i \in 1 .. 4 : SANITIZED_VARS[i] # "PSMODULEPATH" => x(i) = env[SANITIZED_VARS[i]]
  <2> SUFFICES ASSUME NEW i \in 1 .. 4, SANITIZED_VARS[i] # "PSMODULEPATH"
               PROVE  ~ \E j \in 1..(i - 1) : SANITIZED_VARS[j] = SANITIZED_VARS[i]
    OBVIOUS
  <2>1. i = 1 \/ i = 2
    BY SanitizedVars
  <2> QED  BY <2>1, SanitizedVars
<1>5. \A i \in 1 .. 4 : /\ SavedBase[i] = <<SANITIZED_VARS[i], x(i)>>
                        /\ SavedBase[i][1] = SANITIZED_VARS[i] /\ SavedBase[i][2] = x(i)
  <2> HIDE DEF x
  <2> QED  BY <1>1
<1>6. SavedBase \in [1 .. 4 -> Entry]
  <2> HIDE DEF x
  <2> QED  BY <1>1, <1>2, <1>3 DEF Entry
<1>7. SavedBase \in Seq(Entry) /\ Len(SavedBase) = 4
  <2>1. 4 \in Nat
    OBVIOUS
  <2> QED  BY <1>6, <2>1, FunctionSeq, ZenonT(60)
<1>8. \A v \in Sanitized : \E i \in 1 .. 4 : SANITIZED_VARS[i] = v
  BY SanitizedVars
<1> HIDE DEF x
<1> QED  BY <1>2, <1>4, <1>5, <1>7, <1>8

\* What apply_sandbox_env does to a variable.
LEMMA Applied ==
    ASSUME env \in [Vars -> Values]
    PROVE  /\ apply_sandbox_env \in [Vars -> Values]
           /\ \A v \in Sanitized \cup Detected : apply_sandbox_env[v] # "host"
           /\ \A v \in Vars \ (UserEnv \cup Sanitized \cup LeakingVars) :
                apply_sandbox_env[v] = env[v]
<1> DEFINE new(v) == CASE v \in UserEnv -> "user"
                       [] v \in SandboxVars \ UserEnv -> "sandbox"
                       [] v \in (Sanitized \cup LeakingVars) \ (SandboxVars \cup UserEnv) -> "unset"
                       [] OTHER -> env[v]
<1>0. apply_sandbox_env = [v \in Vars |-> new(v)]
  BY DEF apply_sandbox_env
<1>1. \A v : /\ v \in UserEnv => new(v) = "user"
             /\ v \in SandboxVars \ UserEnv => new(v) = "sandbox"
             /\ v \in (Sanitized \cup LeakingVars) \ (SandboxVars \cup UserEnv)
                  => new(v) = "unset"
             /\ v \notin Sanitized \cup LeakingVars \cup SandboxVars \cup UserEnv
                  => new(v) = env[v]
  OBVIOUS
<1>2. \A v \in Vars : new(v) \in Values
  <2> HIDE DEF new
  <2> QED  BY <1>1 DEF Values
<1>3. \A v \in Vars : apply_sandbox_env[v] = new(v)
  BY <1>0
<1>4. apply_sandbox_env \in [Vars -> Values]
  BY <1>0, <1>2
<1>5. \A v \in Sanitized \cup Detected : v \in Vars /\ new(v) # "host"
  <2> HIDE DEF new
  <2> QED  BY <1>1, DetectedVars, LaunchAssumption DEF LeakingVars
<1>6. \A v \in Vars \ (UserEnv \cup Sanitized \cup LeakingVars) : new(v) = env[v]
  <2> HIDE DEF new
  <2> QED  BY <1>1, LaunchAssumption
<1> HIDE DEF new
<1> QED  BY <1>3, <1>4, <1>5, <1>6

\* What is remembered then.
LEMMA SavedList ==
    ASSUME env \in [Vars -> Values]
    PROVE  /\ saved_env \in Seq(Entry)
           /\ \A i \in DOMAIN saved_env :
                 /\ saved_env[i][1] \in Sanitized \cup LeakingVars
                 /\ saved_env[i][1] # "PSMODULEPATH"
                      => saved_env[i][2] = env[saved_env[i][1]]
           /\ \A v \in Sanitized \cup LeakingVars : \E i \in DOMAIN saved_env :
                saved_env[i][1] = v
<1> DEFINE n == Cardinality(LeakingVars)
           r == [i \in 1 .. n |-> <<SetToSeq(LeakingVars)[i], "host">>]
           q == saved_env
<1>1. IsFiniteSet(LeakingVars) /\ LeakingVars \subseteq Vars
  <2>1. LeakingVars \subseteq Vars
    BY DetectedVars, LaunchAssumption DEF LeakingVars
  <2> QED  BY <2>1, LaunchAssumption, FS_Subset
<1>2. /\ n \in Nat /\ SetToSeq(LeakingVars) \in [1 .. n -> LeakingVars]
      /\ \A x \in LeakingVars : \E i \in 1 .. n : SetToSeq(LeakingVars)[i] = x
  BY <1>1, Listed
<1>3. /\ \A i \in 1 .. n : r[i][1] \in LeakingVars /\ r[i][2] = "host" /\ r[i] \in Entry
      /\ \A x \in LeakingVars : \E i \in 1 .. n : r[i][1] = x
  <2> HIDE DEF n
  <2> QED  BY <1>1, <1>2 DEF Entry, Values
<1>4. r \in Seq(Entry) /\ Len(r) = n
  <2>1. r \in [1 .. n -> Entry]
    BY <1>3
  <2> HIDE DEF n, r
  <2> QED  BY <1>2, <2>1
<1>5. q = SavedBase \o r
  BY DEF saved_env
<1>6. SavedBase \in Seq(Entry) /\ Len(SavedBase) = 4
  BY BaseList
<1>7. /\ q \in Seq(Entry) /\ Len(q) = Len(SavedBase) + Len(r)
      /\ \A i \in 1 .. Len(SavedBase) + Len(r) :
            q[i] = IF i <= Len(SavedBase) THEN SavedBase[i] ELSE r[i - Len(SavedBase)]
  <2> HIDE DEF q, r
  <2> QED  BY <1>4, <1>5, <1>6, ConcatProperties, Zenon
<1>8. /\ q \in Seq(Entry) /\ DOMAIN q = 1 .. 4 + n
      /\ \A i \in 1 .. 4 : q[i] = SavedBase[i] /\ i \in 1 .. 4 + n
      /\ \A i \in 1 .. n : q[4 + i] = r[i] /\ 4 + i \in 1 .. 4 + n
      /\ \A i \in 1 .. 4 + n : i \in 1 .. 4 \/ \E j \in 1 .. n : i = 4 + j
  <2> HIDE DEF q, r, n
  <2>1. \A i \in 1 .. 4 + n : i \in 1 .. 4 \/ (i - 4 \in 1 .. n /\ i = 4 + (i - 4))
    BY <1>2
  <2>2. DOMAIN q = 1 .. 4 + n
    BY <1>4, <1>6, <1>7
  <2>3. \A i \in 1 .. 4 : q[i] = SavedBase[i] /\ i \in 1 .. 4 + n
    BY <1>2, <1>4, <1>6, <1>7
  <2>4. ASSUME NEW i \in 1 .. n PROVE q[4 + i] = r[i] /\ 4 + i \in 1 .. 4 + n
    <3>1. 4 + i \in 1 .. 4 + n /\ ~(4 + i <= 4) /\ (4 + i) - 4 = i
      BY <1>2
    <3> QED  BY <1>4, <1>6, <1>7, <3>1
  <2> QED  BY <1>7, <2>1, <2>2, <2>3, <2>4
<1>9. ASSUME NEW i \in DOMAIN q
      PROVE  /\ q[i][1] \in Sanitized \cup LeakingVars
             /\ q[i][1] # "PSMODULEPATH" => q[i][2] = env[q[i][1]]
  <2> HIDE DEF q, r, n
  <2>1. CASE i \in 1 .. 4
    BY <1>8, <2>1, BaseList
  <2>2. ASSUME NEW j \in 1 .. n, i = 4 + j
        PROVE  q[i][1] \in LeakingVars /\ q[i][2] = env[q[i][1]]
    BY <1>3, <1>8, <2>2 DEF LeakingVars
  <2> QED  BY <1>8, <2>1, <2>2
<1>10. \A v \in Sanitized \cup LeakingVars : \E i \in DOMAIN q : q[i][1] = v
  <2> HIDE DEF q, r, n
  <2>1. ASSUME NEW v \in Sanitized PROVE \E i \in DOMAIN q : q[i][1] = v
    <3>1. PICK i \in 1 .. 4 : SavedBase[i][1] = v
      BY BaseList
    <3> QED  BY <1>8, <3>1
  <2>2. ASSUME NEW v \in LeakingVars PROVE \E i \in DOMAIN q : q[i][1] = v
    <3>1. PICK i \in 1 .. n : r[i][1] = v
      BY <1>3
    <3> QED  BY <1>8, <3>1
  <2> QED  BY <2>1, <2>2
<1> QED  BY <1>8, <1>9, <1>10

\* What is remembered when a plan sets variables too.
LEMMA PlanList ==
    ASSUME env \in [Vars -> Values]
    PROVE  /\ saved_env_with_plan \in Seq(Entry)
           /\ \A i \in DOMAIN saved_env_with_plan :
                 LET x == saved_env_with_plan[i] IN
                 \/ x[1] \in Sanitized \cup LeakingVars /\ (x[1] # "PSMODULEPATH"
                      => x[2] = env[x[1]])
                 \/ x[1] \in PlanEnv /\ x[2] = apply_sandbox_env[x[1]]
           /\ \A v \in Sanitized \cup LeakingVars \cup PlanEnv :
                 \E i \in DOMAIN saved_env_with_plan : saved_env_with_plan[i][1] = v
<1> DEFINE n == Cardinality(PlanEnv)
           m == Len(saved_env)
           r == [i \in 1 .. n |-> <<SetToSeq(PlanEnv)[i], apply_sandbox_env[SetToSeq(PlanEnv)[i]]>>]
           q == saved_env_with_plan
           p == saved_env
<1>1. IsFiniteSet(PlanEnv) /\ PlanEnv \subseteq Vars
  <2>1. PlanEnv \subseteq Vars
    BY LaunchAssumption
  <2> QED  BY <2>1, LaunchAssumption, FS_Subset
<1>2. /\ n \in Nat /\ SetToSeq(PlanEnv) \in [1 .. n -> PlanEnv]
      /\ \A x \in PlanEnv : \E i \in 1 .. n : SetToSeq(PlanEnv)[i] = x
  BY <1>1, Listed
<1>3. /\ \A i \in 1 .. n : /\ r[i][1] \in PlanEnv /\ r[i][2] = apply_sandbox_env[r[i][1]]
                           /\ r[i] \in Entry
      /\ \A x \in PlanEnv : \E i \in 1 .. n : r[i][1] = x
  <2>1. apply_sandbox_env \in [Vars -> Values]
    BY Applied
  <2> HIDE DEF n
  <2> QED  BY <1>1, <1>2, <2>1 DEF Entry
<1>4. r \in Seq(Entry) /\ Len(r) = n
  <2>1. r \in [1 .. n -> Entry]
    BY <1>3
  <2> HIDE DEF n, r
  <2> QED  BY <1>2, <2>1, FunctionSeq
<1>5. q = p \o r
  BY DEF saved_env_with_plan
<1>6. p \in Seq(Entry) /\ DOMAIN p = 1 .. m /\ m \in Nat
  <2>1. p \in Seq(Entry)
    BY SavedList
  <2> HIDE DEF p
  <2> QED  BY <2>1 DEF p
<1>7. /\ q \in Seq(Entry) /\ Len(q) = Len(p) + Len(r)
      /\ \A i \in 1 .. Len(p) + Len(r) : q[i] = IF i <= Len(p) THEN p[i] ELSE r[i - Len(p)]
  <2> HIDE DEF q, r, p
  <2> QED  BY <1>4, <1>5, <1>6, ConcatProperties, Zenon
<1>8. /\ q \in Seq(Entry) /\ DOMAIN q = 1 .. m + n
      /\ \A i \in 1 .. m : q[i] = p[i] /\ i \in 1 .. m + n
      /\ \A i \in 1 .. n : q[m + i] = r[i] /\ m + i \in 1 .. m + n
      /\ \A i \in 1 .. m + n : i \in 1 .. m \/ \E j \in 1 .. n : i = m + j
  <2>0. Len(p) = m
    OBVIOUS
  <2> HIDE DEF q, r, n, m, p
  <2>1. \A i \in 1 .. m + n : i \in 1 .. m \/ (i - m \in 1 .. n /\ i = m + (i - m))
    BY <1>2, <1>6
  <2>2. DOMAIN q = 1 .. m + n
    BY <1>4, <1>7, <2>0
  <2>3. \A i \in 1 .. m : q[i] = p[i] /\ i \in 1 .. m + n
    BY <1>2, <1>4, <1>6, <1>7, <2>0
  <2>4. ASSUME NEW i \in 1 .. n PROVE q[m + i] = r[i] /\ m + i \in 1 .. m + n
    <3>1. m + i \in 1 .. m + n /\ ~(m + i <= m) /\ (m + i) - m = i
      BY <1>2, <1>6
    <3> QED  BY <1>4, <1>6, <1>7, <2>0, <3>1
  <2> QED  BY <1>7, <2>1, <2>2, <2>3, <2>4
<1>9. ASSUME NEW i \in DOMAIN q
      PROVE  \/ /\ q[i][1] \in Sanitized \cup LeakingVars
                /\ q[i][1] # "PSMODULEPATH" => q[i][2] = env[q[i][1]]
             \/ q[i][1] \in PlanEnv /\ q[i][2] = apply_sandbox_env[q[i][1]]
  <2>1. CASE i \in 1 .. m
    <3>1. /\ p[i][1] \in Sanitized \cup LeakingVars
          /\ p[i][1] # "PSMODULEPATH" => p[i][2] = env[p[i][1]]
      BY <1>6, <2>1, SavedList
    <3> HIDE DEF q, r, n, m, p
    <3> QED  BY <1>8, <2>1, <3>1
  <2>2. ASSUME NEW j \in 1 .. n, i = m + j
        PROVE  q[i][1] \in PlanEnv /\ q[i][2] = apply_sandbox_env[q[i][1]]
    <3> HIDE DEF q, r, n, m, p
    <3> QED  BY <1>3, <1>8, <2>2
  <2> HIDE DEF q, r, n, m, p
  <2> QED  BY <1>8, <2>1, <2>2
<1>10. \A v \in Sanitized \cup LeakingVars \cup PlanEnv : \E i \in DOMAIN q : q[i][1] = v
  <2>1. ASSUME NEW v \in Sanitized \cup LeakingVars PROVE \E i \in DOMAIN q : q[i][1] = v
    <3>1. PICK i \in 1 .. m : p[i][1] = v
      BY <1>6, SavedList
    <3> HIDE DEF q, r, n, m, p
    <3> QED  BY <1>8, <3>1
  <2>2. ASSUME NEW v \in PlanEnv PROVE \E i \in DOMAIN q : q[i][1] = v
    <3>1. PICK i \in 1 .. n : r[i][1] = v
      BY <1>3
    <3> HIDE DEF q, r, n, m, p
    <3> QED  BY <1>8, <3>1
  <2> QED  BY <2>1, <2>2
<1> QED  BY <1>8, <1>9, <1>10

\* Changing the environment: it hides the host's values, and can be restored.
LEMMA Applying ==
    ASSUME env \in [Vars -> Values], Back, UNCHANGED origin,
           \/ env' = apply_sandbox_env /\ saved' = saved_env
           \/ env' = apply_sandbox_env_with_plan /\ saved' = saved_env_with_plan
    PROVE  /\ env' \in [Vars -> Values]
           /\ SavedOk'
           /\ Hidden' /\ Restores'
<1>1. CASE env' = apply_sandbox_env /\ saved' = saved_env
  <2>1. env' \in [Vars -> Values] /\ Hidden'
    BY <1>1, Applied DEF Hidden
  <2>2. saved' \in Seq(Entry)
    BY <1>1, SavedList
  <2>3. SavedOk'
    BY <2>2 DEF SavedOk, Entry
  <2>4. ASSUME NEW v \in Kept PROVE Restored(saved', env', v) = origin.env[v]
    <3>1. env[v] = origin.env[v] /\ v \in Vars /\ v \notin UserEnv /\ v # "PSMODULEPATH"
      BY DEF Back, Kept, SavedTwice
    <3>2. \A i \in DOMAIN saved' : saved'[i][1] = v => saved'[i][2] = origin.env[v]
      BY <1>1, <3>1, SavedList
    <3>3. (\E i \in DOMAIN saved' : saved'[i][1] = v) \/ (v \notin SandboxVars
            /\ env'[v] = origin.env[v])
      <4>1. CASE v \in Sanitized \cup LeakingVars
        BY <1>1, <4>1, SavedList
      <4>2. CASE v \notin Sanitized \cup LeakingVars
        BY <1>1, <3>1, <4>2, Applied, LaunchAssumption
      <4> QED  BY <4>1, <4>2
    <3>4. Len(saved') \in Nat /\ DOMAIN saved' = 1 .. Len(saved')
      BY <2>2
    <3>8. OneValue(saved', env', v, origin.env[v])
      BY <3>2, <3>3, <3>4 DEF OneValue
    <3> QED  BY <3>8, RestoredValue
  <2> QED  BY <2>1, <2>3, <2>4 DEF Restores, Kept
<1>2. CASE env' = apply_sandbox_env_with_plan /\ saved' = saved_env_with_plan
  <2>0. apply_sandbox_env_with_plan
          = [v \in Vars |-> IF v \in PlanEnv THEN "plan" ELSE apply_sandbox_env[v]]
    BY DEF apply_sandbox_env_with_plan
  <2>1. env' \in [Vars -> Values]
    BY <1>2, <2>0, Applied DEF Values
  <2>a. Hidden'
    BY <1>2, <2>0, Applied, DetectedVars, LaunchAssumption DEF Hidden
  <2>2. saved' \in Seq(Entry)
    BY <1>2, PlanList
  <2>3. SavedOk'
    BY <2>2 DEF SavedOk, Entry
  <2>4. ASSUME NEW v \in Kept PROVE Restored(saved', env', v) = origin.env[v]
    <3>1. /\ env[v] = origin.env[v] /\ v \in Vars /\ v \notin UserEnv /\ v # "PSMODULEPATH"
          /\ v \in PlanEnv => v \notin Sanitized \cup Detected
      BY DEF Back, Kept, SavedTwice
    <3>2. v \notin Sanitized \cup LeakingVars => apply_sandbox_env[v] = origin.env[v]
      BY <3>1, Applied
    <3>3. LeakingVars \subseteq Detected
      BY DEF LeakingVars
    <3>4. \A i \in DOMAIN saved' : saved'[i][1] = v => saved'[i][2] = origin.env[v]
      BY <1>2, <3>1, <3>2, <3>3, PlanList
    <3>5. (\E i \in DOMAIN saved' : saved'[i][1] = v) \/ (v \notin SandboxVars
            /\ env'[v] = origin.env[v])
      <4>1. CASE v \in Sanitized \cup LeakingVars \cup PlanEnv
        BY <1>2, <4>1, PlanList
      <4>2. CASE v \notin Sanitized \cup LeakingVars \cup PlanEnv
        BY <1>2, <2>0, <3>1, <3>2, <4>2, LaunchAssumption
      <4> QED  BY <4>1, <4>2
    <3>6. Len(saved') \in Nat /\ DOMAIN saved' = 1 .. Len(saved')
      BY <2>2
    <3>8. OneValue(saved', env', v, origin.env[v])
      BY <3>4, <3>5, <3>6 DEF OneValue
    <3> QED  BY <3>8, RestoredValue
  <2> QED  BY <2>1, <2>a, <2>3, <2>4 DEF Restores, Kept
<1> QED  BY <1>1, <1>2

-----------------------------------------------------------------------------
(* Taking a step, and returning *)

AllHeld == Guards \cup Handles
Names == {"psroot.gui", "psroot.container"}

\* The functions that end their session after the program.
Waiting == {"interactive", "gui", "gui_plan", "plan"}

\* Where the launcher is when its next step is s.
LEMMA Stepping ==
    ASSUME Inv, NEW s, At(s)
    PROVE  /\ path \in DOMAIN Program /\ path # "idle"
           /\ s \in Steps /\ Tail(todo) \in Seq(Steps) /\ Track(path, Tail(todo))
           /\ Follows(path, Pc(todo), Pc(Tail(todo)))
           /\ HeldOk(path, Pc(todo), held) /\ ChildOk(path, Pc(todo), child)
           /\ EnvOk(path, Pc(todo))
           /\ s # "impersonate" => Pc(todo) = s
           /\ s = "impersonate" => Pc(todo) \in {"impersonate", "impersonate again"}
<1>1. todo # <<>> /\ Head(todo) = s /\ todo \in Seq(Steps)
  BY DEF At, Inv, Types
<1>2. path # "idle" /\ path \in DOMAIN Program
  BY <1>1 DEF Inv, Idle, Types
<1>3. Track(path, todo) /\ Busy(path, Pc(todo))
  BY <1>2 DEF Inv
<1>4. /\ Track(path, Tail(todo)) /\ Tail(todo) \in Seq(Steps) /\ Head(todo) \in Steps
      /\ Follows(path, Pc(todo), Pc(Tail(todo)))
  BY <1>1, <1>2, <1>3, Moves
<1>5. /\ s # "impersonate" => Pc(todo) = s
      /\ s = "impersonate" => Pc(todo) \in {"impersonate", "impersonate again"}
  BY <1>1 DEF Pc
<1> QED  BY <1>1, <1>2, <1>3, <1>4, <1>5 DEF Busy

\* The function goes on to step t.
LEMMA Advance ==
    ASSUME Inv, NEW s, At(s), Pop, SavedOk',
           env' \in [Vars -> Values], held' \in SUBSET AllHeld, sessions' \in SUBSET Names,
           child' \in Child,
           NEW t, t = Pc(Tail(todo)), HeldOk(path, t, held'), ChildOk(path, t, child'),
           IF Sandboxed(path, t) THEN Restores' /\ Hidden' ELSE Back',
           full /\ t = "end" /\ path \in Waiting => SessionName(path) \notin sessions'
    PROVE  Inv'
<1>1. /\ path' = path /\ full' = full /\ todo' = Tail(todo) /\ last' = last
      /\ launches' = launches /\ origin' = origin
  BY DEF Pop
<1>2. /\ path \in DOMAIN Program /\ path # "idle" /\ Tail(todo) \in Seq(Steps)
      /\ Track(path, Tail(todo))
  BY Stepping
<1>3. Types'
  BY <1>1, <1>2 DEF Inv, Types, AllHeld, Names
<1>4. Track(path, todo)'
  BY <1>1, <1>2 DEF Track, Rest
<1>5. Pc(todo)' = t
  BY <1>1 DEF Pc
<1>6. HeldOk(path, Pc(todo), held)' /\ ChildOk(path, Pc(todo), child)'
  <2>1. HeldOk(path', Pc(todo)', held') /\ ChildOk(path', Pc(todo)', child')
    BY <1>1, <1>5
  <2> QED  BY <2>1 DEF HeldOk, ChildOk, Spawned
<1>7. EnvOk(path, Pc(todo))'
  <2>1. Sandboxed(path, Pc(todo))' <=> Sandboxed(path, t)
    BY <1>1, <1>5 DEF Sandboxed
  <2> QED  BY <2>1 DEF EnvOk
<1>8. SessionOk(path, Pc(todo))'
  BY <1>1, <1>5 DEF SessionOk, SessionName, Waiting
<1> QED  BY <1>1, <1>2, <1>3, <1>4, <1>6, <1>7, <1>8 DEF Inv, Busy

\* The function returns an error of step s.
LEMMA GivesUp ==
    ASSUME Inv, NEW s, At(s), Leave(FALSE, s), SavedOk',
           env' \in [Vars -> Values], held' \in SUBSET AllHeld, sessions' \in SUBSET Names,
           child' \in Child,
           child'.state = "running" => Cage[path] \subseteq child'.cage,
           child'.state # "none" /\ path # "app" =>
               \A v \in Sanitized \cup Detected : child'.env[v] # "host",
           path # "silo" => Back',
           held' \subseteq Lost([path |-> path, ok |-> FALSE, at |-> s]),
           ~(s = "sid" /\ path \in {"gui", "gui_async"})
             => child'.state \in {"none", "gone"},
           s = "create" /\ full /\ path \in Waiting => SessionName(path) \notin sessions'
    PROVE  Inv'
<1>1. /\ path' = "idle" /\ todo' = <<>> /\ full' = full /\ launches' = launches
      /\ last' = [path |-> path, ok |-> FALSE, at |-> s]
  BY DEF Leave
<1>2. path \in DOMAIN Program /\ path # "idle" /\ s \in Steps
  BY Stepping
<1>3. Types'
  BY <1>1, <1>2 DEF Inv, Types, AllHeld, Names, Ending
<1>4. last'.path = path /\ last'.ok = FALSE /\ last'.at = s
  BY <1>1
<1>5. NothingElseLost'
  BY <1>1, <1>4 DEF NothingElseLost, Lost
<1>6. SessionEnded'
  BY <1>1, <1>4 DEF SessionEnded, SessionName, Waiting
<1>7. Idle'
  BY <1>1, <1>2, <1>4, <1>5, <1>6 DEF Idle
<1> QED  BY <1>1, <1>3, <1>7 DEF Inv

\* The environment stays as it is.
LEMMA EnvStays ==
    ASSUME Inv, NEW s, At(s), UNCHANGED <<environ, origin>>,
           NEW t, Sandboxed(path, Pc(todo)) <=> Sandboxed(path, t)
    PROVE  /\ SavedOk' /\ env' \in [Vars -> Values]
           /\ IF Sandboxed(path, t) THEN Restores' /\ Hidden' ELSE Back'
<1>1. env' = env /\ saved' = saved /\ origin' = origin
  BY DEF environ
<1>2. EnvOk(path, Pc(todo))
  BY Stepping
<1>3. (Restores <=> Restores') /\ (Hidden <=> Hidden') /\ (Back <=> Back')
  BY <1>1 DEF Restores, Restored, Hidden, Back
<1>4. SavedOk' /\ env' \in [Vars -> Values]
  BY <1>1 DEF Inv, SavedOk, Types
<1> QED  BY <1>2, <1>3, <1>4 DEF EnvOk

\* Steps that may fail and have nothing to undo then but the guards.
Failing == {"available", "grant", "sid", "caps", "stage", "psh", "namespace", "tree", "attrs",
            "desktop", "token", "job", "privilege", "no init", "open", "launch"}

\* Nothing is lost and no program left at those.
LEMMA FailFacts ==
    ASSUME NEW f \in DOMAIN Program, NEW s \in Failing, NEW h \in SUBSET AllHeld, NEW c,
           HeldOk(f, s, h), ChildOk(f, s, c), NEW t, Follows(f, s, t)
    PROVE  /\ h \ Guards \subseteq Lost([path |-> f, ok |-> FALSE, at |-> s])
           /\ ~(s = "sid" /\ f \in {"gui", "gui_async"}) =>
                 c.state = "none" \/ ("silo" \in h /\ s = "open")
           /\ Sandboxed(f, s) => f = "silo"
<1>1. h \ Guards \subseteq Lost([path |-> f, ok |-> FALSE, at |-> s])
  <2> SUFFICES ASSUME NEW x \in h \ Guards
               PROVE  x \in Lost([path |-> f, ok |-> FALSE, at |-> s])
    OBVIOUS
  <2>1. x \in Handles
    BY DEF AllHeld
  <2>2. s \notin Handled /\ s # "end" /\ s # "spawn"
        /\ s \notin {"env", "plan_env", "create", "root", "init", "revert", "swap", "assign"}
    BY DEF Failing, Handled
  <2>3. \/ x = "attrs" /\ s = "desktop" /\ f \in Caged
        \/ x = "rootfs" /\ f = "app"
        \/ x \in {"thread", "process"} /\ s = "sid" /\ f \in {"gui", "gui_async"}
    BY <2>1, <2>2 DEF Handles, HeldOk
  <2>4. f \in Caged => f # "app"
    BY DEF Caged, Gui
  <2> QED  BY <2>1, <2>3, <2>4 DEF Lost
<1>2. ~(s = "sid" /\ f \in {"gui", "gui_async"}) => c.state = "none" \/ ("silo" \in h
        /\ s = "open")
  <2>1. CASE s = "open"
    BY <2>1 DEF HeldOk, Follows
  <2>2. CASE s # "open"
    BY <2>2 DEF ChildOk, Spawned, Failing, Handled
  <2> QED  BY <2>1, <2>2
<1>3. Sandboxed(f, s) => f = "silo"
  BY DEF Sandboxed, Failing, Follows, Caged, Gui
<1> QED  BY <1>1, <1>2, <1>3

\* They return with psroot as it was.
LEMMA FailsOnly ==
    ASSUME Inv, NEW s \in Failing, At(s), FailOnly
    PROVE  Inv'
<1>0. s # "impersonate" /\ s # "create"
  BY DEF Failing
<1>1. /\ path \in DOMAIN Program /\ Follows(path, s, Pc(Tail(todo)))
      /\ HeldOk(path, s, held) /\ ChildOk(path, s, child) /\ EnvOk(path, s) /\ Pc(todo) = s
  BY <1>0, Stepping
<1>2. held \in SUBSET AllHeld /\ child \in Child /\ sessions \in SUBSET Names
  BY DEF Inv, Types, AllHeld, Names
<1>3. /\ held \ Guards \subseteq Lost([path |-> path, ok |-> FALSE, at |-> s])
      /\ ~(s = "sid" /\ path \in {"gui", "gui_async"}) =>
            child.state = "none" \/ ("silo" \in held /\ s = "open")
      /\ Sandboxed(path, s) => path = "silo"
  BY <1>1, <1>2, FailFacts
<1>4. /\ Leave(FALSE, s) /\ held' = held \ Guards /\ UNCHANGED <<environ, sessions, origin>>
      /\ child' = IF "silo" \in held THEN Gone(child) ELSE child
  BY DEF FailOnly, Fail, Leave, At
<1>5. /\ SavedOk' /\ env' \in [Vars -> Values]
      /\ IF Sandboxed(path, s) THEN Restores' /\ Hidden' ELSE Back'
  BY <1>1, <1>4, EnvStays
<1>6. held' \in SUBSET AllHeld /\ sessions' \in SUBSET Names
  BY <1>2, <1>4
<1>7. /\ child' \in Child /\ child'.cage = child.cage /\ child'.env = child.env
      /\ child'.state = child.state \/ (child'.state = "gone" /\ child.state # "none")
      /\ "silo" \in held => child'.state \in {"none", "gone"}
  BY <1>2, <1>4 DEF Gone, Child, States
<1>8. /\ child'.state = "running" => Cage[path] \subseteq child'.cage
      /\ child'.state # "none" /\ path # "app" =>
            \A v \in Sanitized \cup Detected : child'.env[v] # "host"
  BY <1>1, <1>7 DEF ChildOk
<1>9. ~(s = "sid" /\ path \in {"gui", "gui_async"}) => child'.state \in {"none", "gone"}
  BY <1>3, <1>7
<1>10. path # "silo" => Back'
  BY <1>3, <1>5
<1>11. held' \subseteq Lost([path |-> path, ok |-> FALSE, at |-> s])
  BY <1>3, <1>4
<1> QED  BY <1>0, <1>4, <1>5, <1>6, <1>7, <1>8, <1>9, <1>10, <1>11, GivesUp

\* Steps that change nothing the model keeps.
Quiet == {"available", "grant", "sid", "caps", "stage", "psh", "namespace", "tree", "volumes",
          "binds"}

\* The invariant before such a step is that after it.
LEMMA QuietFacts ==
    ASSUME NEW f \in DOMAIN Program, NEW s \in Quiet, NEW h \in SUBSET AllHeld,
       NEW c \in Child,
           HeldOk(f, s, h), ChildOk(f, s, c), NEW t, Follows(f, s, t)
    PROVE  /\ HeldOk(f, t, h) /\ ChildOk(f, t, c)
           /\ Sandboxed(f, s) <=> Sandboxed(f, t)
           /\ t # "end"
<1>1. \/ f \in Caged \ {"appcontainer"} /\ s = "available" /\ t = "profile"
      \/ f \in Caged /\ s = "grant" /\ t \in {"volumes", "caps", "stage"}
      \/ f \in {"gui_plan", "plan"} /\ s = "sid" /\ t = "grant"
      \/ f = "gui" /\ s = "sid" /\ t = "wait"
      \/ f = "gui_async" /\ s = "sid" /\ t = "detach"
      \/ f \in Caged /\ s = "caps" /\ t = "exempt"
      \/ f \in {"gui_plan", "plan"} /\ s = "stage" /\ t = "caps"
      \/ f = "interactive" /\ s = "volumes" /\ t = "caps"
      \/ f = "silo" /\ s = "stage" /\ t = "plan_env"
      \/ f = "silo" /\ s = "namespace" /\ t = "privilege"
      \/ f = "devicemap" /\ s = "stage" /\ t = "psh"
      \/ f = "devicemap" /\ s = "psh" /\ t = "plan_env"
      \/ f = "devicemap" /\ s = "binds" /\ t = "map"
      \/ f = "app" /\ s = "tree" /\ t = "desktop"
  <2>1. CASE s = "available"
    BY <2>1 DEF Follows, Caged, Gui
  <2>2. CASE s = "grant"
    BY <2>2 DEF Follows, Caged, Gui
  <2>3. CASE s = "sid"
    BY <2>3 DEF Follows, Caged, Gui
  <2>4. CASE s = "caps"
    BY <2>4 DEF Follows, Caged, Gui
  <2>5. CASE s = "stage"
    BY <2>5 DEF Follows, Caged, Gui
  <2>6. CASE s = "psh"
    BY <2>6 DEF Follows, Caged, Gui
  <2>7. CASE s = "namespace"
    BY <2>7 DEF Follows, Caged, Gui
  <2>8. CASE s = "tree"
    BY <2>8 DEF Follows, Caged, Gui
  <2>9. CASE s = "volumes"
    BY <2>9 DEF Follows, Caged, Gui
  <2>10. CASE s = "binds"
    BY <2>10 DEF Follows, Caged, Gui
  <2> QED  BY <2>1, <2>2, <2>3, <2>4, <2>5, <2>6, <2>7, <2>8, <2>9, <2>10 DEF Quiet
<1>2. HeldOk(f, t, h)
  BY <1>1 DEF HeldOk, Quiet, Handled, Caged, Gui
<1>3. ChildOk(f, t, c)
  BY <1>1 DEF ChildOk, Spawned, Quiet, Handled, Caged, Gui
<1>4. Sandboxed(f, s) <=> Sandboxed(f, t)
  BY <1>1 DEF Sandboxed, Quiet, Caged, Gui
<1> QED  BY <1>1, <1>2, <1>3, <1>4

\* They keep the invariant.
LEMMA Passes ==
    ASSUME Inv, NEW s \in Quiet, At(s), Pop, UNCHANGED <<environ, held, os, child>>
    PROVE  Inv'
<1>0. s # "impersonate"
  BY DEF Quiet
<1> DEFINE t == Pc(Tail(todo))
<1>1. /\ path \in DOMAIN Program /\ Follows(path, s, t)
      /\ HeldOk(path, s, held) /\ ChildOk(path, s, child) /\ Pc(todo) = s
  BY <1>0, Stepping
<1>2. held \in SUBSET AllHeld /\ child \in Child /\ sessions \in SUBSET Names
  BY DEF Inv, Types, AllHeld, Names
<1>3. HeldOk(path, t, held) /\ ChildOk(path, t, child)
        /\ (Sandboxed(path, s) <=> Sandboxed(path, t))
      /\ t # "end"
  <2> HIDE DEF t
  <2> QED  BY <1>1, <1>2, QuietFacts
<1>4. held' = held /\ child' = child /\ sessions' = sessions
        /\ UNCHANGED <<environ, origin>>
  BY DEF os, Pop
<1>5. /\ SavedOk' /\ env' \in [Vars -> Values]
      /\ IF Sandboxed(path, t) THEN Restores' /\ Hidden' ELSE Back'
  <2> HIDE DEF t
  <2> QED  BY <1>1, <1>3, <1>4, EnvStays
<1>6. HeldOk(path, t, held') /\ ChildOk(path, t, child')
  BY <1>3, <1>4
<1>7. held' \in SUBSET AllHeld /\ child' \in Child /\ sessions' \in SUBSET Names
  BY <1>2, <1>4
<1> HIDE DEF t
<1>8. t = Pc(Tail(todo))
  BY DEF t
<1> QED  BY <1>3, <1>5, <1>6, <1>7, <1>8, Advance

\* And so do all the steps that only try something.
LEMMA Attempts ==
    ASSUME Inv, NEW s \in Quiet \ {"volumes", "binds"}, Attempt(s)
    PROVE  Inv'
<1>1. At(s) /\ s \in Quiet /\ s \in Failing
  BY DEF Attempt, Quiet, Failing
<1>2. CASE Pop /\ UNCHANGED <<environ, held, os, child>>
  BY <1>1, <1>2, Passes
<1>3. CASE FailOnly
  BY <1>1, <1>3, FailsOnly
<1> QED  BY <1>2, <1>3 DEF Attempt

\* The function goes on and leaves the environment alone.
LEMMA Proceeds ==
    ASSUME Inv, NEW s, s # "impersonate", At(s), Pop, UNCHANGED environ,
           held' \in SUBSET AllHeld, sessions' \in SUBSET Names, child' \in Child,
           NEW t, t = Pc(Tail(todo)), HeldOk(path, t, held'), ChildOk(path, t, child'),
           Sandboxed(path, s) <=> Sandboxed(path, t),
           full /\ t = "end" /\ path \in Waiting => SessionName(path) \notin sessions'
    PROVE  Inv'
<1>1. Pc(todo) = s
  BY Stepping
<1>2. UNCHANGED <<environ, origin>>
  BY DEF Pop
<1>3. /\ SavedOk' /\ env' \in [Vars -> Values]
      /\ IF Sandboxed(path, t) THEN Restores' /\ Hidden' ELSE Back'
  BY <1>1, <1>2, EnvStays
<1> QED  BY <1>3, Advance

\* The cages of the functions that start a suspended child, and of the others.
LEMMA CageOf ==
    /\ Cage["silo"] = {"job"} /\ Cage["devicemap"] = {"device map"}
    /\ Cage["restricted"] = {"restricted", "job"}
         /\ Cage["appcontainer"] = {"appcontainer", "job"}
    /\ Cage["interactive"] = {"appcontainer"} /\ Cage["plan"] = {"appcontainer"}
    /\ Cage["gui"] = {"appcontainer", "desktop"}
         /\ Cage["gui_async"] = {"appcontainer", "desktop"}
    /\ Cage["gui_plan"] = {"appcontainer", "desktop"} /\ Cage["app"] = {"desktop"}
BY Programs DEF Cage, OutsideJob, OutsideContainer, OnDesktop

\* The profile is there.
LEMMA ProfilePops ==
    ASSUME Inv, At("profile"), Pop, UNCHANGED environ, 
           held' = held \cup {"profile"}, UNCHANGED <<sessions, child>>
    PROVE  Inv'
<1> DEFINE t == Pc(Tail(todo))
<1>0. "profile" # "impersonate"
  OBVIOUS
<1>1. /\ path \in DOMAIN Program /\ Follows(path, "profile", t)
      /\ HeldOk(path, "profile", held) /\ ChildOk(path, "profile", child)
      /\ EnvOk(path, "profile")
  <2>1. /\ path \in DOMAIN Program /\ Follows(path, Pc(todo), t) /\ EnvOk(path, Pc(todo))
        /\ HeldOk(path, Pc(todo), held) /\ ChildOk(path, Pc(todo), child)
             /\ Pc(todo) = "profile"
    BY <1>0, Stepping, Zenon
  <2> QED  BY <2>1, Zenon
<1>2. held \in SUBSET AllHeld /\ child \in Child /\ sessions \in SUBSET Names
  BY DEF Inv, Types, AllHeld, Names
<1>3. t = Pc(Tail(todo))
  OBVIOUS
<1> HIDE DEF t
<1>4. t \in {"grant", "sid"} /\ path \in Caged /\ (t = "sid"
        => path \in {"gui_plan", "plan"})
  BY <1>1 DEF Follows, Caged, Gui
<1>5. held' \in SUBSET AllHeld /\ sessions' \in SUBSET Names
  BY <1>2 DEF AllHeld, Guards, Handles, Names, os, SessionName
<1>6. child' \in Child
  BY <1>1, <1>2 DEF Child, States, Cages
<1>7. HeldOk(path, t, held')
  BY <1>1, <1>2, <1>4 DEF HeldOk, Handled, Caged, Gui
<1>8. ChildOk(path, t, child')
  BY <1>1, <1>2, <1>4 DEF ChildOk, Spawned, Handled, Child
<1>9. Sandboxed(path, "profile") <=> Sandboxed(path, t)
  BY <1>1, <1>4 DEF Sandboxed, Caged, Gui
<1>10. full /\ t = "end" /\ path \in Waiting => SessionName(path) \notin sessions'
  BY <1>4 DEF Waiting, Names
<1> QED  BY <1>0, <1>3, <1>5, <1>6, <1>7, <1>8, <1>9, <1>10, Proceeds

\* The session is there or not.
LEMMA ExemptPops ==
    ASSUME Inv, At("exempt"), Pop, UNCHANGED environ, UNCHANGED <<held, child>>,
           sessions' \in {sessions, sessions \cup {SessionName(path)}}
    PROVE  Inv'
<1> DEFINE t == Pc(Tail(todo))
<1>0. "exempt" # "impersonate"
  OBVIOUS
<1>1. /\ path \in DOMAIN Program /\ Follows(path, "exempt", t)
      /\ HeldOk(path, "exempt", held) /\ ChildOk(path, "exempt", child)
      /\ EnvOk(path, "exempt")
  <2>1. /\ path \in DOMAIN Program /\ Follows(path, Pc(todo), t) /\ EnvOk(path, Pc(todo))
        /\ HeldOk(path, Pc(todo), held) /\ ChildOk(path, Pc(todo), child)
             /\ Pc(todo) = "exempt"
    BY <1>0, Stepping, Zenon
  <2> QED  BY <2>1, Zenon
<1>2. held \in SUBSET AllHeld /\ child \in Child /\ sessions \in SUBSET Names
  BY DEF Inv, Types, AllHeld, Names
<1>3. t = Pc(Tail(todo))
  OBVIOUS
<1> HIDE DEF t
<1>4. t = "attrs" /\ path \in Caged
  BY <1>1 DEF Follows, Caged, Gui
<1>5. held' \in SUBSET AllHeld /\ sessions' \in SUBSET Names
  BY <1>2 DEF AllHeld, Guards, Handles, Names, os, SessionName
<1>6. child' \in Child
  BY <1>1, <1>2 DEF Child, States, Cages
<1>7. HeldOk(path, t, held')
  BY <1>1, <1>2, <1>4 DEF HeldOk, Handled, Caged, Gui
<1>8. ChildOk(path, t, child')
  BY <1>1, <1>2, <1>4 DEF ChildOk, Spawned, Handled, Child
<1>9. Sandboxed(path, "exempt") <=> Sandboxed(path, t)
  BY <1>1, <1>4 DEF Sandboxed, Caged, Gui
<1>10. full /\ t = "end" /\ path \in Waiting => SessionName(path) \notin sessions'
  BY <1>4 DEF Waiting, Names
<1> QED  BY <1>0, <1>3, <1>5, <1>6, <1>7, <1>8, <1>9, <1>10, Proceeds

\* The attribute list is there.
LEMMA AttrsPops ==
    ASSUME Inv, At("attrs"), Pop, UNCHANGED environ, 
           held' = held \cup {"attrs"}, UNCHANGED <<os, child>>
    PROVE  Inv'
<1> DEFINE t == Pc(Tail(todo))
<1>0. "attrs" # "impersonate"
  OBVIOUS
<1>1. /\ path \in DOMAIN Program /\ Follows(path, "attrs", t)
      /\ HeldOk(path, "attrs", held) /\ ChildOk(path, "attrs", child)
      /\ EnvOk(path, "attrs")
  <2>1. /\ path \in DOMAIN Program /\ Follows(path, Pc(todo), t) /\ EnvOk(path, Pc(todo))
        /\ HeldOk(path, Pc(todo), held) /\ ChildOk(path, Pc(todo), child)
             /\ Pc(todo) = "attrs"
    BY <1>0, Stepping, Zenon
  <2> QED  BY <2>1, Zenon
<1>2. held \in SUBSET AllHeld /\ child \in Child /\ sessions \in SUBSET Names
  BY DEF Inv, Types, AllHeld, Names
<1>3. t = Pc(Tail(todo))
  OBVIOUS
<1> HIDE DEF t
<1>4. t \in {"env", "desktop", "plan_env"} /\ path \in Caged /\ (path \in Gui
        => t = "desktop")
  BY <1>1 DEF Follows, Caged, Gui
<1>5. held' \in SUBSET AllHeld /\ sessions' \in SUBSET Names
  BY <1>2 DEF AllHeld, Guards, Handles, Names, os, SessionName
<1>6. child' \in Child
  BY <1>1, <1>2 DEF Child, States, Cages
<1>7. HeldOk(path, t, held')
  BY <1>1, <1>2, <1>4 DEF HeldOk, Handled, Caged, Gui
<1>8. ChildOk(path, t, child')
  BY <1>1, <1>2, <1>4 DEF ChildOk, Spawned, Handled, Child
<1>9. Sandboxed(path, "attrs") <=> Sandboxed(path, t)
  BY <1>1, <1>4 DEF Sandboxed, Caged, Gui
<1>10. full /\ t = "end" /\ path \in Waiting => SessionName(path) \notin sessions'
  BY <1>4 DEF Waiting, Names
<1> QED  BY <1>0, <1>3, <1>5, <1>6, <1>7, <1>8, <1>9, <1>10, Proceeds

\* The desktop is there.
LEMMA DesktopPops ==
    ASSUME Inv, At("desktop"), Pop, UNCHANGED environ, 
           held' = held \cup {"desktop"}, UNCHANGED <<os, child>>
    PROVE  Inv'
<1> DEFINE t == Pc(Tail(todo))
<1>0. "desktop" # "impersonate"
  OBVIOUS
<1>1. /\ path \in DOMAIN Program /\ Follows(path, "desktop", t)
      /\ HeldOk(path, "desktop", held) /\ ChildOk(path, "desktop", child)
      /\ EnvOk(path, "desktop")
  <2>1. /\ path \in DOMAIN Program /\ Follows(path, Pc(todo), t) /\ EnvOk(path, Pc(todo))
        /\ HeldOk(path, Pc(todo), held) /\ ChildOk(path, Pc(todo), child)
             /\ Pc(todo) = "desktop"
    BY <1>0, Stepping, Zenon
  <2> QED  BY <2>1, Zenon
<1>2. held \in SUBSET AllHeld /\ child \in Child /\ sessions \in SUBSET Names
  BY DEF Inv, Types, AllHeld, Names
<1>3. t = Pc(Tail(todo))
  OBVIOUS
<1> HIDE DEF t
<1>4. \/ t \in {"env", "plan_env"} /\ path \in Gui
      \/ t = "launch" /\ path = "app"
  BY <1>1 DEF Follows, Caged, Gui
<1>5. held' \in SUBSET AllHeld /\ sessions' \in SUBSET Names
  BY <1>2 DEF AllHeld, Guards, Handles, Names, os, SessionName
<1>6. child' \in Child
  BY <1>1, <1>2 DEF Child, States, Cages
<1>7. HeldOk(path, t, held')
  BY <1>1, <1>2, <1>4 DEF HeldOk, Handled, Caged, Gui
<1>8. ChildOk(path, t, child')
  BY <1>1, <1>2, <1>4 DEF ChildOk, Spawned, Handled, Child
<1>9. Sandboxed(path, "desktop") <=> Sandboxed(path, t)
  BY <1>1, <1>4 DEF Sandboxed, Caged, Gui
<1>10. full /\ t = "end" /\ path \in Waiting => SessionName(path) \notin sessions'
  BY <1>4 DEF Waiting, Names
<1> QED  BY <1>0, <1>3, <1>5, <1>6, <1>7, <1>8, <1>9, <1>10, Proceeds

\* The restricted token is there.
LEMMA TokenPops ==
    ASSUME Inv, At("token"), Pop, UNCHANGED environ, 
           held' = held \cup {"token"}, UNCHANGED <<os, child>>
    PROVE  Inv'
<1> DEFINE t == Pc(Tail(todo))
<1>0. "token" # "impersonate"
  OBVIOUS
<1>1. /\ path \in DOMAIN Program /\ Follows(path, "token", t)
      /\ HeldOk(path, "token", held) /\ ChildOk(path, "token", child)
      /\ EnvOk(path, "token")
  <2>1. /\ path \in DOMAIN Program /\ Follows(path, Pc(todo), t) /\ EnvOk(path, Pc(todo))
        /\ HeldOk(path, Pc(todo), held) /\ ChildOk(path, Pc(todo), child)
             /\ Pc(todo) = "token"
    BY <1>0, Stepping, Zenon
  <2> QED  BY <2>1, Zenon
<1>2. held \in SUBSET AllHeld /\ child \in Child /\ sessions \in SUBSET Names
  BY DEF Inv, Types, AllHeld, Names
<1>3. t = Pc(Tail(todo))
  OBVIOUS
<1> HIDE DEF t
<1>4. t = "spawn" /\ path = "restricted"
  BY <1>1 DEF Follows, Caged, Gui
<1>5. held' \in SUBSET AllHeld /\ sessions' \in SUBSET Names
  BY <1>2 DEF AllHeld, Guards, Handles, Names, os, SessionName
<1>6. child' \in Child
  BY <1>1, <1>2 DEF Child, States, Cages
<1>7. HeldOk(path, t, held')
  BY <1>1, <1>2, <1>4 DEF HeldOk, Handled, Caged, Gui
<1>8. ChildOk(path, t, child')
  BY <1>1, <1>2, <1>4 DEF ChildOk, Spawned, Handled, Child
<1>9. Sandboxed(path, "token") <=> Sandboxed(path, t)
  BY <1>1, <1>4 DEF Sandboxed, Caged, Gui
<1>10. full /\ t = "end" /\ path \in Waiting => SessionName(path) \notin sessions'
  BY <1>4 DEF Waiting, Names
<1> QED  BY <1>0, <1>3, <1>5, <1>6, <1>7, <1>8, <1>9, <1>10, Proceeds

\* The silo's job is there.
LEMMA JobPops ==
    ASSUME Inv, At("job"), Pop, UNCHANGED environ, 
           held' = held \cup {"silo"}, UNCHANGED <<os, child>>
    PROVE  Inv'
<1> DEFINE t == Pc(Tail(todo))
<1>0. "job" # "impersonate"
  OBVIOUS
<1>1. /\ path \in DOMAIN Program /\ Follows(path, "job", t)
      /\ HeldOk(path, "job", held) /\ ChildOk(path, "job", child)
      /\ EnvOk(path, "job")
  <2>1. /\ path \in DOMAIN Program /\ Follows(path, Pc(todo), t) /\ EnvOk(path, Pc(todo))
        /\ HeldOk(path, Pc(todo), held) /\ ChildOk(path, Pc(todo), child)
             /\ Pc(todo) = "job"
    BY <1>0, Stepping, Zenon
  <2> QED  BY <2>1, Zenon
<1>2. held \in SUBSET AllHeld /\ child \in Child /\ sessions \in SUBSET Names
  BY DEF Inv, Types, AllHeld, Names
<1>3. t = Pc(Tail(todo))
  OBVIOUS
<1> HIDE DEF t
<1>4. t = "namespace" /\ path = "silo"
  BY <1>1 DEF Follows, Caged, Gui
<1>5. held' \in SUBSET AllHeld /\ sessions' \in SUBSET Names
  BY <1>2 DEF AllHeld, Guards, Handles, Names, os, SessionName
<1>6. child' \in Child
  BY <1>1, <1>2 DEF Child, States, Cages
<1>7. HeldOk(path, t, held')
  BY <1>1, <1>2, <1>4 DEF HeldOk, Handled, Caged, Gui
<1>8. ChildOk(path, t, child')
  BY <1>1, <1>2, <1>4 DEF ChildOk, Spawned, Handled, Child
<1>9. Sandboxed(path, "job") <=> Sandboxed(path, t)
  BY <1>1, <1>4 DEF Sandboxed, Caged, Gui
<1>10. full /\ t = "end" /\ path \in Waiting => SessionName(path) \notin sessions'
  BY <1>4 DEF Waiting, Names
<1> QED  BY <1>0, <1>3, <1>5, <1>6, <1>7, <1>8, <1>9, <1>10, Proceeds

\* The thread has the privilege, or impersonates SYSTEM.
LEMMA PrivilegePops ==
    ASSUME Inv, At("privilege"), Pop, UNCHANGED environ, 
           held' \in {held, held \cup {"system"}}, UNCHANGED <<os, child>>
    PROVE  Inv'
<1> DEFINE t == Pc(Tail(todo))
<1>0. "privilege" # "impersonate"
  OBVIOUS
<1>1. /\ path \in DOMAIN Program /\ Follows(path, "privilege", t)
      /\ HeldOk(path, "privilege", held) /\ ChildOk(path, "privilege", child)
      /\ EnvOk(path, "privilege")
  <2>1. /\ path \in DOMAIN Program /\ Follows(path, Pc(todo), t) /\ EnvOk(path, Pc(todo))
        /\ HeldOk(path, Pc(todo), held) /\ ChildOk(path, Pc(todo), child)
             /\ Pc(todo) = "privilege"
    BY <1>0, Stepping, Zenon
  <2> QED  BY <2>1, Zenon
<1>2. held \in SUBSET AllHeld /\ child \in Child /\ sessions \in SUBSET Names
  BY DEF Inv, Types, AllHeld, Names
<1>3. t = Pc(Tail(todo))
  OBVIOUS
<1> HIDE DEF t
<1>4. t = "root" /\ path = "silo"
  BY <1>1 DEF Follows, Caged, Gui
<1>5. held' \in SUBSET AllHeld /\ sessions' \in SUBSET Names
  BY <1>2 DEF AllHeld, Guards, Handles, Names, os, SessionName
<1>6. child' \in Child
  BY <1>1, <1>2 DEF Child, States, Cages
<1>7. HeldOk(path, t, held')
  BY <1>1, <1>2, <1>4 DEF HeldOk, Handled, Caged, Gui
<1>8. ChildOk(path, t, child')
  BY <1>1, <1>2, <1>4 DEF ChildOk, Spawned, Handled, Child
<1>9. Sandboxed(path, "privilege") <=> Sandboxed(path, t)
  BY <1>1, <1>4 DEF Sandboxed, Caged, Gui
<1>10. full /\ t = "end" /\ path \in Waiting => SessionName(path) \notin sessions'
  BY <1>4 DEF Waiting, Names
<1> QED  BY <1>0, <1>3, <1>5, <1>6, <1>7, <1>8, <1>9, <1>10, Proceeds

\* The child of the silo is opened.
LEMMA OpenPops ==
    ASSUME Inv, At("open"), Pop, UNCHANGED environ, 
           held' = held \cup {"process"}, UNCHANGED <<os, child>>
    PROVE  Inv'
<1> DEFINE t == Pc(Tail(todo))
<1>0. "open" # "impersonate"
  OBVIOUS
<1>1. /\ path \in DOMAIN Program /\ Follows(path, "open", t)
      /\ HeldOk(path, "open", held) /\ ChildOk(path, "open", child)
      /\ EnvOk(path, "open")
  <2>1. /\ path \in DOMAIN Program /\ Follows(path, Pc(todo), t) /\ EnvOk(path, Pc(todo))
        /\ HeldOk(path, Pc(todo), held) /\ ChildOk(path, Pc(todo), child)
             /\ Pc(todo) = "open"
    BY <1>0, Stepping, Zenon
  <2> QED  BY <2>1, Zenon
<1>2. held \in SUBSET AllHeld /\ child \in Child /\ sessions \in SUBSET Names
  BY DEF Inv, Types, AllHeld, Names
<1>3. t = Pc(Tail(todo))
  OBVIOUS
<1> HIDE DEF t
<1>4. t = "restore" /\ path = "silo"
  BY <1>1 DEF Follows, Caged, Gui
<1>5. held' \in SUBSET AllHeld /\ sessions' \in SUBSET Names
  BY <1>2 DEF AllHeld, Guards, Handles, Names, os, SessionName
<1>6. child' \in Child
  BY <1>1, <1>2 DEF Child, States, Cages
<1>7. HeldOk(path, t, held')
  BY <1>1, <1>2, <1>4 DEF HeldOk, Handled, Caged, Gui
<1>8. ChildOk(path, t, child')
  BY <1>1, <1>2, <1>4 DEF ChildOk, Spawned, Handled, Child
<1>9. Sandboxed(path, "open") <=> Sandboxed(path, t)
  BY <1>1, <1>4 DEF Sandboxed, Caged, Gui
<1>10. full /\ t = "end" /\ path \in Waiting => SessionName(path) \notin sessions'
  BY <1>4 DEF Waiting, Names
<1> QED  BY <1>0, <1>3, <1>5, <1>6, <1>7, <1>8, <1>9, <1>10, Proceeds

\* The thread is itself again.
LEMMA RevertPops ==
    ASSUME Inv, At("revert"), Pop, UNCHANGED environ, 
           held' = held \ {"system"}, UNCHANGED <<os, child>>
    PROVE  Inv'
<1> DEFINE t == Pc(Tail(todo))
<1>0. "revert" # "impersonate"
  OBVIOUS
<1>1. /\ path \in DOMAIN Program /\ Follows(path, "revert", t)
      /\ HeldOk(path, "revert", held) /\ ChildOk(path, "revert", child)
      /\ EnvOk(path, "revert")
  <2>1. /\ path \in DOMAIN Program /\ Follows(path, Pc(todo), t) /\ EnvOk(path, Pc(todo))
        /\ HeldOk(path, Pc(todo), held) /\ ChildOk(path, Pc(todo), child)
             /\ Pc(todo) = "revert"
    BY <1>0, Stepping, Zenon
  <2> QED  BY <2>1, Zenon
<1>2. held \in SUBSET AllHeld /\ child \in Child /\ sessions \in SUBSET Names
  BY DEF Inv, Types, AllHeld, Names
<1>3. t = Pc(Tail(todo))
  OBVIOUS
<1> HIDE DEF t
<1>4. \/ t = "spawn" /\ path \in {"silo", "devicemap"}
      \/ t \in {"no root", "no init"} /\ path = "silo"
  BY <1>1 DEF Follows, Caged, Gui
<1>5. held' \in SUBSET AllHeld /\ sessions' \in SUBSET Names
  BY <1>2 DEF AllHeld, Guards, Handles, Names, os, SessionName
<1>6. child' \in Child
  BY <1>1, <1>2 DEF Child, States, Cages
<1>7. HeldOk(path, t, held')
  BY <1>1, <1>2, <1>4 DEF HeldOk, Handled, Caged, Gui
<1>8. ChildOk(path, t, child')
  BY <1>1, <1>2, <1>4 DEF ChildOk, Spawned, Handled, Child
<1>9. Sandboxed(path, "revert") <=> Sandboxed(path, t)
  BY <1>1, <1>4 DEF Sandboxed, Caged, Gui
<1>10. full /\ t = "end" /\ path \in Waiting => SessionName(path) \notin sessions'
  BY <1>4 DEF Waiting, Names
<1> QED  BY <1>0, <1>3, <1>5, <1>6, <1>7, <1>8, <1>9, <1>10, Proceeds

\* The device map is there.
LEMMA MapPops ==
    ASSUME Inv, At("map"), Pop, UNCHANGED environ, 
           held' = held \cup {"map"}, UNCHANGED <<os, child>>
    PROVE  Inv'
<1> DEFINE t == Pc(Tail(todo))
<1>0. "map" # "impersonate"
  OBVIOUS
<1>1. /\ path \in DOMAIN Program /\ Follows(path, "map", t)
      /\ HeldOk(path, "map", held) /\ ChildOk(path, "map", child)
      /\ EnvOk(path, "map")
  <2>1. /\ path \in DOMAIN Program /\ Follows(path, Pc(todo), t) /\ EnvOk(path, Pc(todo))
        /\ HeldOk(path, Pc(todo), held) /\ ChildOk(path, Pc(todo), child)
             /\ Pc(todo) = "map"
    BY <1>0, Stepping, Zenon
  <2> QED  BY <2>1, Zenon
<1>2. held \in SUBSET AllHeld /\ child \in Child /\ sessions \in SUBSET Names
  BY DEF Inv, Types, AllHeld, Names
<1>3. t = Pc(Tail(todo))
  OBVIOUS
<1> HIDE DEF t
<1>4. t = "impersonate" /\ path = "devicemap"
  BY <1>1 DEF Follows, Caged, Gui
<1>5. held' \in SUBSET AllHeld /\ sessions' \in SUBSET Names
  BY <1>2 DEF AllHeld, Guards, Handles, Names, os, SessionName
<1>6. child' \in Child
  BY <1>1, <1>2 DEF Child, States, Cages
<1>7. HeldOk(path, t, held')
  BY <1>1, <1>2, <1>4 DEF HeldOk, Handled, Caged, Gui
<1>8. ChildOk(path, t, child')
  BY <1>1, <1>2, <1>4 DEF ChildOk, Spawned, Handled, Child
<1>9. Sandboxed(path, "map") <=> Sandboxed(path, t)
  BY <1>1, <1>4 DEF Sandboxed, Caged, Gui
<1>10. full /\ t = "end" /\ path \in Waiting => SessionName(path) \notin sessions'
  BY <1>4 DEF Waiting, Names
<1> QED  BY <1>0, <1>3, <1>5, <1>6, <1>7, <1>8, <1>9, <1>10, Proceeds

\* The device map is psroot's own.
LEMMA SwapPops ==
    ASSUME Inv, At("swap"), Pop, UNCHANGED environ, UNCHANGED <<held, sessions, child>>
    PROVE  Inv'
<1> DEFINE t == Pc(Tail(todo))
<1>0. "swap" # "impersonate"
  OBVIOUS
<1>1. /\ path \in DOMAIN Program /\ Follows(path, "swap", t)
      /\ HeldOk(path, "swap", held) /\ ChildOk(path, "swap", child)
      /\ EnvOk(path, "swap")
  <2>1. /\ path \in DOMAIN Program /\ Follows(path, Pc(todo), t) /\ EnvOk(path, Pc(todo))
        /\ HeldOk(path, Pc(todo), held) /\ ChildOk(path, Pc(todo), child)
             /\ Pc(todo) = "swap"
    BY <1>0, Stepping, Zenon
  <2> QED  BY <2>1, Zenon
<1>2. held \in SUBSET AllHeld /\ child \in Child /\ sessions \in SUBSET Names
  BY DEF Inv, Types, AllHeld, Names
<1>3. t = Pc(Tail(todo))
  OBVIOUS
<1> HIDE DEF t
<1>4. t = "revert" /\ path = "devicemap"
  BY <1>1 DEF Follows, Caged, Gui
<1>5. held' \in SUBSET AllHeld /\ sessions' \in SUBSET Names
  BY <1>2 DEF AllHeld, Guards, Handles, Names, os, SessionName
<1>6. child' \in Child
  BY <1>1, <1>2 DEF Child, States, Cages
<1>7. HeldOk(path, t, held')
  BY <1>1, <1>2, <1>4 DEF HeldOk, Handled, Caged, Gui
<1>8. ChildOk(path, t, child')
  BY <1>1, <1>2, <1>4 DEF ChildOk, Spawned, Handled, Child
<1>9. Sandboxed(path, "swap") <=> Sandboxed(path, t)
  BY <1>1, <1>4 DEF Sandboxed, Caged, Gui
<1>10. full /\ t = "end" /\ path \in Waiting => SessionName(path) \notin sessions'
  BY <1>4 DEF Waiting, Names
<1> QED  BY <1>0, <1>3, <1>5, <1>6, <1>7, <1>8, <1>9, <1>10, Proceeds

\* The app's directory is there.
LEMMA RootfsPops ==
    ASSUME Inv, At("rootfs"), Pop, UNCHANGED environ, 
           held' = held \cup {"rootfs"}, UNCHANGED <<os, child>>
    PROVE  Inv'
<1> DEFINE t == Pc(Tail(todo))
<1>0. "rootfs" # "impersonate"
  OBVIOUS
<1>1. /\ path \in DOMAIN Program /\ Follows(path, "rootfs", t)
      /\ HeldOk(path, "rootfs", held) /\ ChildOk(path, "rootfs", child)
      /\ EnvOk(path, "rootfs")
  <2>1. /\ path \in DOMAIN Program /\ Follows(path, Pc(todo), t) /\ EnvOk(path, Pc(todo))
        /\ HeldOk(path, Pc(todo), held) /\ ChildOk(path, Pc(todo), child)
             /\ Pc(todo) = "rootfs"
    BY <1>0, Stepping, Zenon
  <2> QED  BY <2>1, Zenon
<1>2. held \in SUBSET AllHeld /\ child \in Child /\ sessions \in SUBSET Names
  BY DEF Inv, Types, AllHeld, Names
<1>3. t = Pc(Tail(todo))
  OBVIOUS
<1> HIDE DEF t
<1>4. t = "tree" /\ path = "app"
  BY <1>1 DEF Follows, Caged, Gui
<1>5. held' \in SUBSET AllHeld /\ sessions' \in SUBSET Names
  BY <1>2 DEF AllHeld, Guards, Handles, Names, os, SessionName
<1>6. child' \in Child
  BY <1>1, <1>2 DEF Child, States, Cages
<1>7. HeldOk(path, t, held')
  BY <1>1, <1>2, <1>4 DEF HeldOk, Handled, Caged, Gui
<1>8. ChildOk(path, t, child')
  BY <1>1, <1>2, <1>4 DEF ChildOk, Spawned, Handled, Child
<1>9. Sandboxed(path, "rootfs") <=> Sandboxed(path, t)
  BY <1>1, <1>4 DEF Sandboxed, Caged, Gui
<1>10. full /\ t = "end" /\ path \in Waiting => SessionName(path) \notin sessions'
  BY <1>4 DEF Waiting, Names
<1> QED  BY <1>0, <1>3, <1>5, <1>6, <1>7, <1>8, <1>9, <1>10, Proceeds

\* The app runs, on its desktop.
LEMMA LaunchPops ==
    ASSUME Inv, At("launch"), Pop, UNCHANGED environ, 
           held' = held \cup {"process", "thread"}, UNCHANGED os,
           child' = [state |-> "running", cage |-> held \cap {"desktop"}, env |-> env]
    PROVE  Inv'
<1> DEFINE t == Pc(Tail(todo))
<1>0. "launch" # "impersonate"
  OBVIOUS
<1>1. /\ path \in DOMAIN Program /\ Follows(path, "launch", t)
      /\ HeldOk(path, "launch", held) /\ ChildOk(path, "launch", child)
      /\ EnvOk(path, "launch")
  <2>1. /\ path \in DOMAIN Program /\ Follows(path, Pc(todo), t) /\ EnvOk(path, Pc(todo))
        /\ HeldOk(path, Pc(todo), held) /\ ChildOk(path, Pc(todo), child)
             /\ Pc(todo) = "launch"
    BY <1>0, Stepping, Zenon
  <2> QED  BY <2>1, Zenon
<1>2. held \in SUBSET AllHeld /\ child \in Child /\ sessions \in SUBSET Names
  BY DEF Inv, Types, AllHeld, Names
<1>3. t = Pc(Tail(todo))
  OBVIOUS
<1> HIDE DEF t
<1>4. t = "wait" /\ path = "app"
  BY <1>1 DEF Follows, Caged, Gui
<1>5. held' \in SUBSET AllHeld /\ sessions' \in SUBSET Names
  BY <1>2 DEF AllHeld, Guards, Handles, Names, os, SessionName
<1>6. child' \in Child
  BY <1>1, <1>2 DEF Child, States, Cages, Inv, Types
<1>7. HeldOk(path, t, held')
  BY <1>1, <1>2, <1>4 DEF HeldOk, Handled, Caged, Gui
<1>8. ChildOk(path, t, child')
  BY <1>1, <1>2, <1>4, CageOf DEF ChildOk, Spawned, Handled, Child, HeldOk
<1>9. Sandboxed(path, "launch") <=> Sandboxed(path, t)
  BY <1>1, <1>4 DEF Sandboxed, Caged, Gui
<1>10. full /\ t = "end" /\ path \in Waiting => SessionName(path) \notin sessions'
  BY <1>4 DEF Waiting, Names
<1> QED  BY <1>0, <1>3, <1>5, <1>6, <1>7, <1>8, <1>9, <1>10, Proceeds

\* The child is there, suspended.
LEMMA SpawnPops ==
    ASSUME Inv, At("spawn"), Pop, UNCHANGED environ, UNCHANGED os,
           held' = (held \ {"token"}) \cup {"process", "thread"},
           child' = [state |-> "suspended",
                     cage |-> IF "token" \in held THEN {"restricted"} ELSE {},
                     env |-> IF path = "restricted" THEN build_env_block ELSE env]
    PROVE  Inv'
<1> DEFINE t == Pc(Tail(todo))
<1>0. "spawn" # "impersonate"
  OBVIOUS
<1>1. /\ path \in DOMAIN Program /\ Follows(path, "spawn", t)
      /\ HeldOk(path, "spawn", held) /\ ChildOk(path, "spawn", child)
      /\ EnvOk(path, "spawn")
  <2>1. /\ path \in DOMAIN Program /\ Follows(path, Pc(todo), t) /\ EnvOk(path, Pc(todo))
        /\ HeldOk(path, Pc(todo), held) /\ ChildOk(path, Pc(todo), child)
             /\ Pc(todo) = "spawn"
    BY <1>0, Stepping, Zenon
  <2> QED  BY <2>1, Zenon
<1>2. held \in SUBSET AllHeld /\ child \in Child /\ sessions \in SUBSET Names
  BY DEF Inv, Types, AllHeld, Names
<1>3. t = Pc(Tail(todo))
  OBVIOUS
<1> HIDE DEF t
<1>4. \/ t = "assign" /\ path \in {"silo", "restricted"}
      \/ t = "impersonate again" /\ path = "devicemap"
  BY <1>1 DEF Follows, Caged, Gui
<1>5. held' \in SUBSET AllHeld /\ sessions' \in SUBSET Names
  BY <1>2 DEF AllHeld, Guards, Handles, Names, os, SessionName
<1>6. child' \in Child
  BY <1>1, <1>2 DEF Child, States, Cages, Inv, Types, build_env_block, Values
<1>7. HeldOk(path, t, held')
  BY <1>1, <1>2, <1>4 DEF HeldOk, Handled, Caged, Gui
<1>8. ChildOk(path, t, child')
  <2>1. /\ child'.state = "suspended" /\ (path = "restricted"
             => "restricted" \in child'.cage)
        /\ child'.env = IF path = "restricted" THEN build_env_block ELSE env
    BY <1>1, <1>4 DEF HeldOk
  <2>a. path # "restricted" => Hidden
    BY <1>1, <1>4 DEF EnvOk, Sandboxed
  <2>b. \A v \in Sanitized \cup Detected : v \in Vars /\ build_env_block[v] # "host"
    BY DetectedVars, LaunchAssumption DEF build_env_block
  <2>c. \A v \in Sanitized \cup Detected : child'.env[v] # "host"
    BY <2>1, <2>a, <2>b DEF Hidden
  <2>2. ~Spawned(path, t) => FALSE
    BY <1>4 DEF Spawned, Handled
  <2>3. Cage[path] \ {"job", "device map"} \subseteq (IF path = "restricted"
          THEN {"restricted"} ELSE {})
    BY <1>4, CageOf
  <2> QED  BY <1>1, <1>4, <2>1, <2>2, <2>3, <2>c DEF ChildOk
<1>9. Sandboxed(path, "spawn") <=> Sandboxed(path, t)
  BY <1>1, <1>4 DEF Sandboxed, Caged, Gui
<1>10. full /\ t = "end" /\ path \in Waiting => SessionName(path) \notin sessions'
  BY <1>4 DEF Waiting, Names
<1> QED  BY <1>0, <1>3, <1>5, <1>6, <1>7, <1>8, <1>9, <1>10, Proceeds

\* The child is in its cage.
LEMMA AssignPops ==
    ASSUME Inv, At("assign"), Pop, UNCHANGED environ, UNCHANGED os,
           child' = [child EXCEPT !.cage =
                        @ \cup {IF path = "devicemap" THEN "device map" ELSE "job"}],
           held' = held \ {"system"}
    PROVE  Inv'
<1> DEFINE t == Pc(Tail(todo))
<1>0. "assign" # "impersonate"
  OBVIOUS
<1>1. /\ path \in DOMAIN Program /\ Follows(path, "assign", t)
      /\ HeldOk(path, "assign", held) /\ ChildOk(path, "assign", child)
      /\ EnvOk(path, "assign")
  <2>1. /\ path \in DOMAIN Program /\ Follows(path, Pc(todo), t) /\ EnvOk(path, Pc(todo))
        /\ HeldOk(path, Pc(todo), held) /\ ChildOk(path, Pc(todo), child)
             /\ Pc(todo) = "assign"
    BY <1>0, Stepping, Zenon
  <2> QED  BY <2>1, Zenon
<1>2. held \in SUBSET AllHeld /\ child \in Child /\ sessions \in SUBSET Names
  BY DEF Inv, Types, AllHeld, Names
<1>3. t = Pc(Tail(todo))
  OBVIOUS
<1> HIDE DEF t
<1>4. t = "resume" /\ path \in {"silo", "restricted", "devicemap", "appcontainer"}
  BY <1>1 DEF Follows, Caged, Gui
<1>5. held' \in SUBSET AllHeld /\ sessions' \in SUBSET Names
  BY <1>2 DEF AllHeld, Guards, Handles, Names, os, SessionName
<1>6. child' \in Child
  BY <1>1, <1>2 DEF Child, States, Cages
<1>7. HeldOk(path, t, held')
  BY <1>1, <1>2, <1>4 DEF HeldOk, Handled, Caged, Gui
<1>8. ChildOk(path, t, child')
  <2>1. /\ child'.state = "suspended" /\ child'.env = child.env
        /\ Cage[path] \ {"job", "device map"} \subseteq child'.cage
        /\ IF path = "devicemap" THEN "device map" \in child'.cage
             ELSE "job" \in child'.cage
    BY <1>1, <1>2, <1>4 DEF Child, HeldOk, ChildOk
  <2>2. ~Spawned(path, t) => FALSE
    BY <1>4 DEF Spawned, Handled
  <2>3. Cage[path] \subseteq (Cage[path] \ {"job", "device map"})
                              \cup {IF path = "devicemap" THEN "device map" ELSE "job"}
    BY <1>4, CageOf
  <2> QED  BY <1>1, <1>4, <2>1, <2>2, <2>3 DEF ChildOk
<1>9. Sandboxed(path, "assign") <=> Sandboxed(path, t)
  BY <1>1, <1>4 DEF Sandboxed, Caged, Gui
<1>10. full /\ t = "end" /\ path \in Waiting => SessionName(path) \notin sessions'
  BY <1>4 DEF Waiting, Names
<1> QED  BY <1>0, <1>3, <1>5, <1>6, <1>7, <1>8, <1>9, <1>10, Proceeds

\* The child runs.
LEMMA ResumePops ==
    ASSUME Inv, At("resume"), Pop, UNCHANGED environ, UNCHANGED os,
           child' = [child EXCEPT !.state = "running"],
           held' = IF path = "devicemap" THEN held ELSE held \ {"process", "thread"}
    PROVE  Inv'
<1> DEFINE t == Pc(Tail(todo))
<1>0. "resume" # "impersonate"
  OBVIOUS
<1>1. /\ path \in DOMAIN Program /\ Follows(path, "resume", t)
      /\ HeldOk(path, "resume", held) /\ ChildOk(path, "resume", child)
      /\ EnvOk(path, "resume")
  <2>1. /\ path \in DOMAIN Program /\ Follows(path, Pc(todo), t) /\ EnvOk(path, Pc(todo))
        /\ HeldOk(path, Pc(todo), held) /\ ChildOk(path, Pc(todo), child)
             /\ Pc(todo) = "resume"
    BY <1>0, Stepping, Zenon
  <2> QED  BY <2>1, Zenon
<1>2. held \in SUBSET AllHeld /\ child \in Child /\ sessions \in SUBSET Names
  BY DEF Inv, Types, AllHeld, Names
<1>3. t = Pc(Tail(todo))
  OBVIOUS
<1> HIDE DEF t
<1>4. \/ t = "open" /\ path = "silo"
      \/ t = "restore" /\ path = "devicemap"
      \/ t = "forget" /\ path = "appcontainer"
      \/ t = "end" /\ path = "restricted"
  BY <1>1 DEF Follows, Caged, Gui
<1>5. held' \in SUBSET AllHeld /\ sessions' \in SUBSET Names
  BY <1>2 DEF AllHeld, Guards, Handles, Names, os, SessionName
<1>6. child' \in Child
  BY <1>1, <1>2 DEF Child, States, Cages
<1>7. HeldOk(path, t, held')
  BY <1>1, <1>2, <1>4 DEF HeldOk, Handled, Caged, Gui
<1>8. ChildOk(path, t, child')
  BY <1>1, <1>2, <1>4 DEF ChildOk, Spawned, Handled, Child
<1>9. Sandboxed(path, "resume") <=> Sandboxed(path, t)
  BY <1>1, <1>4 DEF Sandboxed, Caged, Gui
<1>10. full /\ t = "end" /\ path \in Waiting => SessionName(path) \notin sessions'
  BY <1>4 DEF Waiting, Names
<1> QED  BY <1>0, <1>3, <1>5, <1>6, <1>7, <1>8, <1>9, <1>10, Proceeds

\* The child is gone.
LEMMA WaitPops ==
    ASSUME Inv, At("wait"), Pop, UNCHANGED environ, UNCHANGED <<held, os>>,
           child' = [child EXCEPT !.state = "gone"]
    PROVE  Inv'
<1> DEFINE t == Pc(Tail(todo))
<1>0. "wait" # "impersonate"
  OBVIOUS
<1>1. /\ path \in DOMAIN Program /\ Follows(path, "wait", t)
      /\ HeldOk(path, "wait", held) /\ ChildOk(path, "wait", child)
      /\ EnvOk(path, "wait")
  <2>1. /\ path \in DOMAIN Program /\ Follows(path, Pc(todo), t) /\ EnvOk(path, Pc(todo))
        /\ HeldOk(path, Pc(todo), held) /\ ChildOk(path, Pc(todo), child)
             /\ Pc(todo) = "wait"
    BY <1>0, Stepping, Zenon
  <2> QED  BY <2>1, Zenon
<1>2. held \in SUBSET AllHeld /\ child \in Child /\ sessions \in SUBSET Names
  BY DEF Inv, Types, AllHeld, Names
<1>3. t = Pc(Tail(todo))
  OBVIOUS
<1> HIDE DEF t
<1>4. \/ t = "close"
           /\ path \in {"interactive", "gui", "gui_plan", "plan", "silo", "devicemap"}
      \/ t = "cleanup" /\ path = "app"
  BY <1>1 DEF Follows, Caged, Gui
<1>5. held' \in SUBSET AllHeld /\ sessions' \in SUBSET Names
  BY <1>2 DEF AllHeld, Guards, Handles, Names, os, SessionName
<1>6. child' \in Child
  BY <1>1, <1>2 DEF Child, States, Cages
<1>7. HeldOk(path, t, held')
  BY <1>1, <1>2, <1>4 DEF HeldOk, Handled, Caged, Gui
<1>8. ChildOk(path, t, child')
  <2>1. child'.state = "gone" /\ child'.env = child.env
    BY <1>1, <1>2, <1>4 DEF Child, HeldOk, ChildOk
  <2>2. ~Spawned(path, t) => FALSE
    BY <1>4 DEF Spawned, Handled
  <2> QED  BY <1>1, <1>4, <2>1, <2>2 DEF ChildOk
<1>9. Sandboxed(path, "wait") <=> Sandboxed(path, t)
  BY <1>1, <1>4 DEF Sandboxed, Caged, Gui
<1>10. full /\ t = "end" /\ path \in Waiting => SessionName(path) \notin sessions'
  BY <1>4 DEF Waiting, Names
<1> QED  BY <1>0, <1>3, <1>5, <1>6, <1>7, <1>8, <1>9, <1>10, Proceeds

\* The handles are closed and the session is over.
LEMMA ClosePops ==
    ASSUME Inv, At("close"), Pop, UNCHANGED environ, UNCHANGED child,
           held' = held \ {"process", "thread"},
           IF path \in {"silo", "devicemap"} THEN UNCHANGED sessions
             ELSE remove_loopback_exemption
    PROVE  Inv'
<1> DEFINE t == Pc(Tail(todo))
<1>0. "close" # "impersonate"
  OBVIOUS
<1>1. /\ path \in DOMAIN Program /\ Follows(path, "close", t)
      /\ HeldOk(path, "close", held) /\ ChildOk(path, "close", child)
      /\ EnvOk(path, "close")
  <2>1. /\ path \in DOMAIN Program /\ Follows(path, Pc(todo), t) /\ EnvOk(path, Pc(todo))
        /\ HeldOk(path, Pc(todo), held) /\ ChildOk(path, Pc(todo), child)
             /\ Pc(todo) = "close"
    BY <1>0, Stepping, Zenon
  <2> QED  BY <2>1, Zenon
<1>2. held \in SUBSET AllHeld /\ child \in Child /\ sessions \in SUBSET Names
  BY DEF Inv, Types, AllHeld, Names
<1>3. t = Pc(Tail(todo))
  OBVIOUS
<1> HIDE DEF t
<1>4. t = "end" /\ path \in {"interactive", "gui", "gui_plan", "plan", "silo", "devicemap"}
  BY <1>1 DEF Follows, Caged, Gui
<1>5. held' \in SUBSET AllHeld /\ sessions' \in SUBSET Names
  BY <1>2 DEF AllHeld, Guards, Handles, Names, os, SessionName, remove_loopback_exemption
<1>6. child' \in Child
  BY <1>1, <1>2 DEF Child, States, Cages
<1>7. HeldOk(path, t, held')
  BY <1>1, <1>2, <1>4 DEF HeldOk, Handled, Caged, Gui
<1>8. ChildOk(path, t, child')
  BY <1>1, <1>2, <1>4 DEF ChildOk, Spawned, Handled, Child
<1>9. Sandboxed(path, "close") <=> Sandboxed(path, t)
  BY <1>1, <1>4 DEF Sandboxed, Caged, Gui
<1>10. full /\ t = "end" /\ path \in Waiting => SessionName(path) \notin sessions'
  BY <1>4 DEF Waiting, Names, remove_loopback_exemption
<1> QED  BY <1>0, <1>3, <1>5, <1>6, <1>7, <1>8, <1>9, <1>10, Proceeds

\* The desktop is the caller's, the profile is forgotten.
LEMMA DetachPops ==
    ASSUME Inv, At("detach"), Pop, UNCHANGED environ, UNCHANGED <<os, child>>,
           held' = held \ {"thread", "profile", "desktop"}
    PROVE  Inv'
<1> DEFINE t == Pc(Tail(todo))
<1>0. "detach" # "impersonate"
  OBVIOUS
<1>1. /\ path \in DOMAIN Program /\ Follows(path, "detach", t)
      /\ HeldOk(path, "detach", held) /\ ChildOk(path, "detach", child)
      /\ EnvOk(path, "detach")
  <2>1. /\ path \in DOMAIN Program /\ Follows(path, Pc(todo), t) /\ EnvOk(path, Pc(todo))
        /\ HeldOk(path, Pc(todo), held) /\ ChildOk(path, Pc(todo), child)
             /\ Pc(todo) = "detach"
    BY <1>0, Stepping, Zenon
  <2> QED  BY <2>1, Zenon
<1>2. held \in SUBSET AllHeld /\ child \in Child /\ sessions \in SUBSET Names
  BY DEF Inv, Types, AllHeld, Names
<1>3. t = Pc(Tail(todo))
  OBVIOUS
<1> HIDE DEF t
<1>4. t = "end" /\ path = "gui_async"
  BY <1>1 DEF Follows, Caged, Gui
<1>5. held' \in SUBSET AllHeld /\ sessions' \in SUBSET Names
  BY <1>2 DEF AllHeld, Guards, Handles, Names, os, SessionName
<1>6. child' \in Child
  BY <1>1, <1>2 DEF Child, States, Cages
<1>7. HeldOk(path, t, held')
  BY <1>1, <1>2, <1>4 DEF HeldOk, Handled, Caged, Gui
<1>8. ChildOk(path, t, child')
  BY <1>1, <1>2, <1>4 DEF ChildOk, Spawned, Handled, Child
<1>9. Sandboxed(path, "detach") <=> Sandboxed(path, t)
  BY <1>1, <1>4 DEF Sandboxed, Caged, Gui
<1>10. full /\ t = "end" /\ path \in Waiting => SessionName(path) \notin sessions'
  BY <1>4 DEF Waiting, Names
<1> QED  BY <1>0, <1>3, <1>5, <1>6, <1>7, <1>8, <1>9, <1>10, Proceeds

\* The profile is forgotten.
LEMMA ForgetPops ==
    ASSUME Inv, At("forget"), Pop, UNCHANGED environ, UNCHANGED <<os, child>>,
           held' = held \ {"thread", "profile", "desktop"}
    PROVE  Inv'
<1> DEFINE t == Pc(Tail(todo))
<1>0. "forget" # "impersonate"
  OBVIOUS
<1>1. /\ path \in DOMAIN Program /\ Follows(path, "forget", t)
      /\ HeldOk(path, "forget", held) /\ ChildOk(path, "forget", child)
      /\ EnvOk(path, "forget")
  <2>1. /\ path \in DOMAIN Program /\ Follows(path, Pc(todo), t) /\ EnvOk(path, Pc(todo))
        /\ HeldOk(path, Pc(todo), held) /\ ChildOk(path, Pc(todo), child)
             /\ Pc(todo) = "forget"
    BY <1>0, Stepping, Zenon
  <2> QED  BY <2>1, Zenon
<1>2. held \in SUBSET AllHeld /\ child \in Child /\ sessions \in SUBSET Names
  BY DEF Inv, Types, AllHeld, Names
<1>3. t = Pc(Tail(todo))
  OBVIOUS
<1> HIDE DEF t
<1>4. t = "end" /\ path = "appcontainer"
  BY <1>1 DEF Follows, Caged, Gui
<1>5. held' \in SUBSET AllHeld /\ sessions' \in SUBSET Names
  BY <1>2 DEF AllHeld, Guards, Handles, Names, os, SessionName
<1>6. child' \in Child
  BY <1>1, <1>2 DEF Child, States, Cages
<1>7. HeldOk(path, t, held')
  BY <1>1, <1>2, <1>4 DEF HeldOk, Handled, Caged, Gui
<1>8. ChildOk(path, t, child')
  BY <1>1, <1>2, <1>4 DEF ChildOk, Spawned, Handled, Child
<1>9. Sandboxed(path, "forget") <=> Sandboxed(path, t)
  BY <1>1, <1>4 DEF Sandboxed, Caged, Gui
<1>10. full /\ t = "end" /\ path \in Waiting => SessionName(path) \notin sessions'
  BY <1>4 DEF Waiting, Names
<1> QED  BY <1>0, <1>3, <1>5, <1>6, <1>7, <1>8, <1>9, <1>10, Proceeds

\* The app's directory is gone if that is possible.
LEMMA CleanupPops ==
    ASSUME Inv, At("cleanup"), Pop, UNCHANGED environ, UNCHANGED <<os, child>>,
       NEW left \in {{}, {"rootfs"}},
           held' = (held \ {"desktop", "process", "thread", "rootfs"}) \cup left
    PROVE  Inv'
<1> DEFINE t == Pc(Tail(todo))
<1>0. "cleanup" # "impersonate"
  OBVIOUS
<1>1. /\ path \in DOMAIN Program /\ Follows(path, "cleanup", t)
      /\ HeldOk(path, "cleanup", held) /\ ChildOk(path, "cleanup", child)
      /\ EnvOk(path, "cleanup")
  <2>1. /\ path \in DOMAIN Program /\ Follows(path, Pc(todo), t) /\ EnvOk(path, Pc(todo))
        /\ HeldOk(path, Pc(todo), held) /\ ChildOk(path, Pc(todo), child)
             /\ Pc(todo) = "cleanup"
    BY <1>0, Stepping, Zenon
  <2> QED  BY <2>1, Zenon
<1>2. held \in SUBSET AllHeld /\ child \in Child /\ sessions \in SUBSET Names
  BY DEF Inv, Types, AllHeld, Names
<1>3. t = Pc(Tail(todo))
  OBVIOUS
<1> HIDE DEF t
<1>4. t = "end" /\ path = "app"
  BY <1>1 DEF Follows, Caged, Gui
<1>5. held' \in SUBSET AllHeld /\ sessions' \in SUBSET Names
  BY <1>2 DEF AllHeld, Guards, Handles, Names, os, SessionName
<1>6. child' \in Child
  BY <1>1, <1>2 DEF Child, States, Cages
<1>7. HeldOk(path, t, held')
  BY <1>1, <1>2, <1>4 DEF HeldOk, Handled, Caged, Gui
<1>8. ChildOk(path, t, child')
  BY <1>1, <1>2, <1>4 DEF ChildOk, Spawned, Handled, Child
<1>9. Sandboxed(path, "cleanup") <=> Sandboxed(path, t)
  BY <1>1, <1>4 DEF Sandboxed, Caged, Gui
<1>10. full /\ t = "end" /\ path \in Waiting => SessionName(path) \notin sessions'
  BY <1>4 DEF Waiting, Names
<1> QED  BY <1>0, <1>3, <1>5, <1>6, <1>7, <1>8, <1>9, <1>10, Proceeds

-----------------------------------------------------------------------------
(* The steps that are more than that *)

\* Function g is entered, or another way through it taken, at step t.
LEMMA Enters ==
    ASSUME Inv, NEW g \in DOMAIN Program, g # "idle", path' = g,
           NEW q \in Seq(Steps), todo' = q, Track(g, q),
           full' = full, last' = last, launches' \in 0 .. MaxLaunches, SavedOk',
           env' \in [Vars -> Values], held' \in SUBSET AllHeld, sessions' \in SUBSET Names,
           child' \in Child,
           NEW t, t = Pc(q), HeldOk(g, t, held'), ChildOk(g, t, child'), t # "end",
           IF Sandboxed(g, t) THEN Restores' /\ Hidden' ELSE Back'
    PROVE  Inv'
<1>3. Types'
  BY DEF Inv, Types, AllHeld, Names
<1>4. Track(path, todo)'
  BY DEF Track, Rest
<1>5. Pc(todo)' = t
  BY DEF Pc
<1>6. HeldOk(path, Pc(todo), held)' /\ ChildOk(path, Pc(todo), child)'
  <2>1. HeldOk(path', Pc(todo)', held') /\ ChildOk(path', Pc(todo)', child')
    BY <1>5
  <2> QED  BY <2>1 DEF HeldOk, ChildOk, Spawned
<1>7. EnvOk(path, Pc(todo))'
  <2>1. Sandboxed(path, Pc(todo))' <=> Sandboxed(g, t)
    BY <1>5 DEF Sandboxed
  <2> QED  BY <2>1 DEF EnvOk
<1>8. SessionOk(path, Pc(todo))'
  BY <1>5 DEF SessionOk
<1> QED  BY <1>3, <1>4, <1>6, <1>7, <1>8 DEF Inv, Busy

\* Where the launcher is at step s, spelt out.
LEMMA Here ==
    ASSUME Inv, NEW s, s # "impersonate", At(s)
    PROVE  /\ path \in DOMAIN Program /\ path # "idle" /\ s \in Steps
           /\ Tail(todo) \in Seq(Steps) /\ Track(path, Tail(todo)) /\ Pc(todo) = s
           /\ Follows(path, s, Pc(Tail(todo)))
           /\ HeldOk(path, s, held) /\ ChildOk(path, s, child) /\ EnvOk(path, s)
           /\ held \in SUBSET AllHeld /\ child \in Child /\ sessions \in SUBSET Names
           /\ env \in [Vars -> Values] /\ SavedOk /\ launches \in 0 .. MaxLaunches
<1>1. /\ held \in SUBSET AllHeld /\ child \in Child /\ sessions \in SUBSET Names
      /\ env \in [Vars -> Values] /\ SavedOk /\ launches \in 0 .. MaxLaunches
  BY DEF Inv, Types, AllHeld, Names
<1>2. /\ path \in DOMAIN Program /\ path # "idle" /\ s \in Steps
      /\ Tail(todo) \in Seq(Steps) /\ Track(path, Tail(todo))
      /\ Follows(path, Pc(todo), Pc(Tail(todo)))
      /\ HeldOk(path, Pc(todo), held) /\ ChildOk(path, Pc(todo), child)
           /\ EnvOk(path, Pc(todo))
  BY Stepping
<1>3. Pc(todo) = s
  BY Stepping
<1> QED  BY <1>1, <1>2, <1>3, Zenon

\* impersonate_system_token, at either of its places.
LEMMA ImpersonateKeeps ==
    ASSUME Inv, impersonate_system_token
    PROVE  Inv'
<1> DEFINE t == Pc(Tail(todo))
<1>0. /\ At("impersonate") /\ Pop /\ held' \in {held, held \cup {"system"}}
      /\ UNCHANGED <<environ, os, child>>
  BY DEF impersonate_system_token
<1> DEFINE s == Pc(todo)
<1>1. /\ path \in DOMAIN Program /\ Follows(path, s, t)
      /\ HeldOk(path, s, held) /\ ChildOk(path, s, child)
      /\ s \in {"impersonate", "impersonate again"}
  BY <1>0, Stepping, Zenon
<1>2. held \in SUBSET AllHeld /\ child \in Child /\ sessions \in SUBSET Names
  BY DEF Inv, Types, AllHeld, Names
<1>3. t = Pc(Tail(todo)) /\ s = Pc(todo)
  OBVIOUS
<1> HIDE DEF t, s
<1>4. /\ path = "devicemap"
      /\ \/ s = "impersonate" /\ t = "swap"
         \/ s = "impersonate again" /\ t = "assign"
  <2>1. CASE s = "impersonate"
    <3>1. Follows(path, "impersonate", t)
      BY <1>1, <2>1, Zenon
    <3>2. path = "devicemap" /\ t = "swap"
      BY <3>1 DEF Follows
    <3> QED  BY <2>1, <3>2
  <2>2. CASE s = "impersonate again"
    BY <1>1, <2>2 DEF Follows
  <2> QED  BY <1>1, <2>1, <2>2
<1>5. held' \in SUBSET AllHeld /\ sessions' \in SUBSET Names /\ child' \in Child
  BY <1>0, <1>2 DEF AllHeld, Handles, os
<1>6. HeldOk(path, t, held')
  BY <1>0, <1>1, <1>4 DEF HeldOk, Handled, Caged, Gui
<1>7. ChildOk(path, t, child')
  BY <1>0, <1>1, <1>4 DEF ChildOk, Spawned, Handled
<1>8. Sandboxed(path, s) <=> Sandboxed(path, t)
  BY <1>4 DEF Sandboxed
<1>9. UNCHANGED <<environ, origin>>
  BY <1>0 DEF Pop
<1>10. /\ SavedOk' /\ env' \in [Vars -> Values]
       /\ IF Sandboxed(path, t) THEN Restores' /\ Hidden' ELSE Back'
  BY <1>0, <1>3, <1>8, <1>9, EnvStays
<1>11. t # "end"
  BY <1>4
<1> QED  BY <1>0, <1>3, <1>5, <1>6, <1>7, <1>10, <1>11, Advance

\* apply_sandbox_env, with a plan or without.
LEMMA ApplyEnvKeeps ==
    ASSUME Inv, ApplyEnv
    PROVE  Inv'
<1> DEFINE t == Pc(Tail(todo))
<1>0. PICK s \in {"env", "plan_env"} :
         /\ At(s)
         /\ \/ env' = apply_sandbox_env /\ saved' = saved_env
            \/ env' = apply_sandbox_env_with_plan /\ saved' = saved_env_with_plan
  BY DEF ApplyEnv
<1>a. Pop /\ UNCHANGED <<held, os, child>>
  BY DEF ApplyEnv
<1>b. s # "impersonate"
  OBVIOUS
<1>1. /\ path \in DOMAIN Program /\ Follows(path, s, t) /\ EnvOk(path, s)
      /\ HeldOk(path, s, held) /\ ChildOk(path, s, child) /\ env \in [Vars -> Values]
      /\ held \in SUBSET AllHeld /\ child \in Child /\ sessions \in SUBSET Names
  BY <1>0, <1>b, Here, Zenon
<1>2. t = Pc(Tail(todo))
  OBVIOUS
<1> HIDE DEF t
<1>3. \/ t = "create" /\ path \in Caged
      \/ t = "job" /\ path = "silo" /\ s = "plan_env"
      \/ t = "binds" /\ path = "devicemap" /\ s = "plan_env"
  BY <1>1 DEF Follows, Caged, Gui
<1>4. Back /\ Sandboxed(path, t)
  BY <1>1, <1>3 DEF EnvOk, Sandboxed, Caged, Gui
<1>5. env' \in [Vars -> Values] /\ SavedOk' /\ Hidden' /\ Restores'
  <2>1. UNCHANGED origin
    BY <1>a DEF Pop
  <2> QED  BY <1>0, <1>1, <1>4, <2>1, Applying
<1>6. HeldOk(path, t, held')
  BY <1>a, <1>1, <1>3 DEF HeldOk, Handled, Caged, Gui
<1>7. ChildOk(path, t, child')
  BY <1>a, <1>1, <1>3 DEF ChildOk, Spawned, Handled
<1>8. held' \in SUBSET AllHeld /\ sessions' \in SUBSET Names /\ child' \in Child
  BY <1>a, <1>1 DEF os
<1>9. t # "end"
  BY <1>3
<1> QED  BY <1>0, <1>a, <1>2, <1>4, <1>5, <1>6, <1>7, <1>8, <1>9, Advance

\* The environment is restored before the wait.
LEMMA RestoreKeeps ==
    ASSUME Inv, RestoreStep
    PROVE  Inv'
<1> DEFINE t == Pc(Tail(todo))
<1>0. At("restore") /\ Pop /\ Restore /\ UNCHANGED <<held, os, child>>
        /\ "restore" # "impersonate"
  BY DEF RestoreStep
<1>1. /\ path \in DOMAIN Program /\ Follows(path, "restore", t) /\ EnvOk(path, "restore")
      /\ HeldOk(path, "restore", held) /\ ChildOk(path, "restore", child)
      /\ env \in [Vars -> Values] /\ SavedOk
      /\ held \in SUBSET AllHeld /\ child \in Child /\ sessions \in SUBSET Names
  BY <1>0, Here, Zenon
<1>2. t = Pc(Tail(todo))
  OBVIOUS
<1> HIDE DEF t
<1>3. t = "wait" /\ path \in {"silo", "devicemap"}
  BY <1>1 DEF Follows
<1>4. Restores /\ ~Sandboxed(path, t)
  BY <1>1, <1>3 DEF EnvOk, Sandboxed
<1>5. env' \in [Vars -> Values] /\ SavedOk' /\ Back'
  <2>1. UNCHANGED origin
    BY <1>0 DEF Pop
  <2> QED  BY <1>0, <1>1, <1>4, <2>1, Restoring
<1>6. HeldOk(path, t, held')
  BY <1>0, <1>1, <1>3 DEF HeldOk, Handled, Caged, Gui
<1>7. ChildOk(path, t, child')
  BY <1>0, <1>1, <1>3 DEF ChildOk, Spawned, Handled
<1>8. held' \in SUBSET AllHeld /\ sessions' \in SUBSET Names /\ child' \in Child
  BY <1>0, <1>1 DEF os
<1>9. t # "end"
  BY <1>3
<1> QED  BY <1>0, <1>2, <1>4, <1>5, <1>6, <1>7, <1>8, <1>9, Advance

\* An early return with a child that was never started, or is gone.
LEMMA FailsWith ==
    ASSUME Inv, NEW s, s # "impersonate", At(s), Leave(FALSE, s), SavedOk',
           env' \in [Vars -> Values], path # "silo" => Back',
           held' \in SUBSET AllHeld, sessions' \in SUBSET Names,
           held' \subseteq Lost([path |-> path, ok |-> FALSE, at |-> s]),
           (child' = child /\ child.state = "none") \/ child' = Gone(child),
           s = "create" /\ full /\ path \in Waiting => SessionName(path) \notin sessions'
    PROVE  Inv'
<1>1. child \in Child /\ ChildOk(path, s, child)
  BY Here
<1>2. child' \in Child /\ child'.env = child.env /\ child'.state \in {"none", "gone"}
  BY <1>1 DEF Gone, Child, States
<1>3. child'.state # "none" /\ path # "app" =>
         \A v \in Sanitized \cup Detected : child'.env[v] # "host"
  BY <1>1, <1>2 DEF ChildOk
<1>4. child'.state # "running"
  BY <1>2
<1> QED  BY <1>2, <1>3, <1>4, GivesUp

\* The environment is restored, or was not changed.
LEMMA EnvBack ==
    ASSUME Inv, NEW s, s # "impersonate", At(s), UNCHANGED origin,
           \/ Restore /\ Sandboxed(path, s)
           \/ UNCHANGED environ /\ (Sandboxed(path, s) => path = "silo")
    PROVE  SavedOk' /\ env' \in [Vars -> Values] /\ (path # "silo" => Back')
<1>1. EnvOk(path, s) /\ SavedOk /\ env \in [Vars -> Values] /\ Pc(todo) = s
  BY Here
<1>2. CASE Restore /\ Sandboxed(path, s)
  BY <1>1, <1>2, Restoring DEF EnvOk
<1>3. CASE UNCHANGED environ /\ (Sandboxed(path, s) => path = "silo")
  <2>1. UNCHANGED <<environ, origin>>
    BY <1>3
  <2>2. /\ SavedOk' /\ env' \in [Vars -> Values]
        /\ IF Sandboxed(path, s) THEN Restores' /\ Hidden' ELSE Back'
    BY <1>1, <2>1, EnvStays
  <2> QED  BY <1>3, <2>2
<1> QED  BY <1>2, <1>3

\* No profile.
LEMMA ProfileFails ==
    ASSUME Inv, At("profile"), Leave(FALSE, "profile"), UNCHANGED <<environ, held, sessions,
       child>>
    PROVE  Inv'
<1>0. "profile" # "impersonate"
  OBVIOUS
<1>1. /\ path \in DOMAIN Program /\ Follows(path, "profile", Pc(Tail(todo)))
      /\ HeldOk(path, "profile", held) /\ ChildOk(path, "profile", child)
      /\ held \in SUBSET AllHeld /\ sessions \in SUBSET Names
  BY <1>0, Here, Zenon
<1>2. path \in Caged
  BY <1>1 DEF Follows, Caged, Gui
<1>3. held' \in SUBSET AllHeld /\ sessions' \in SUBSET Names
  BY <1>1 DEF AllHeld, Handles, remove_loopback_exemption, os
<1>4. held' \subseteq Lost([path |-> path, ok |-> FALSE, at |-> "profile"])
  <2> SUFFICES ASSUME NEW x \in held'
               PROVE  x \in Lost([path |-> path, ok |-> FALSE, at |-> "profile"])
    OBVIOUS
  <2> QED  BY <1>1, <1>2 DEF Lost, AllHeld, Handles, HeldOk, Handled, Caged, Gui, Waiting
<1>5. (child' = child /\ child.state = "none") \/ child' = Gone(child)
  BY <1>1, <1>2 DEF ChildOk, Spawned, Handled
<1>6. SavedOk' /\ env' \in [Vars -> Values] /\ (path # "silo" => Back')
  <2>1. \/ Restore /\ Sandboxed(path, "profile")
        \/ UNCHANGED environ /\ (Sandboxed(path, "profile") => path = "silo")
    BY <1>2 DEF Sandboxed, Caged, Gui
  <2>2. UNCHANGED origin
    BY DEF Leave
  <2> QED  BY <1>0, <2>1, <2>2, EnvBack
<1>7. "profile" = "create" /\ full /\ path \in Waiting => SessionName(path) \notin sessions'
  BY DEF Waiting, remove_loopback_exemption
<1> QED  BY <1>0, <1>3, <1>4, <1>5, <1>6, <1>7, FailsWith

\* A desktop without access to its window station.
LEMMA DesktopFails ==
    ASSUME Inv, At("desktop"), Leave(FALSE, "desktop"), path # "app",
           held' = (held \ Guards) \cup {"desk"}, UNCHANGED <<environ, sessions, child>>
    PROVE  Inv'
<1>0. "desktop" # "impersonate"
  OBVIOUS
<1>1. /\ path \in DOMAIN Program /\ Follows(path, "desktop", Pc(Tail(todo)))
      /\ HeldOk(path, "desktop", held) /\ ChildOk(path, "desktop", child)
      /\ held \in SUBSET AllHeld /\ sessions \in SUBSET Names
  BY <1>0, Here, Zenon
<1>2. path \in Gui
  BY <1>1 DEF Follows, Caged, Gui
<1>3. held' \in SUBSET AllHeld /\ sessions' \in SUBSET Names
  BY <1>1 DEF AllHeld, Handles, remove_loopback_exemption, os
<1>4. held' \subseteq Lost([path |-> path, ok |-> FALSE, at |-> "desktop"])
  <2> SUFFICES ASSUME NEW x \in held'
               PROVE  x \in Lost([path |-> path, ok |-> FALSE, at |-> "desktop"])
    OBVIOUS
  <2> QED  BY <1>1, <1>2 DEF Lost, AllHeld, Handles, HeldOk, Handled, Caged, Gui, Waiting
<1>5. (child' = child /\ child.state = "none") \/ child' = Gone(child)
  BY <1>1, <1>2 DEF ChildOk, Spawned, Handled
<1>6. SavedOk' /\ env' \in [Vars -> Values] /\ (path # "silo" => Back')
  <2>1. \/ Restore /\ Sandboxed(path, "desktop")
        \/ UNCHANGED environ /\ (Sandboxed(path, "desktop") => path = "silo")
    BY <1>2 DEF Sandboxed, Caged, Gui
  <2>2. UNCHANGED origin
    BY DEF Leave
  <2> QED  BY <1>0, <2>1, <2>2, EnvBack
<1>7. "desktop" = "create" /\ full /\ path \in Waiting => SessionName(path) \notin sessions'
  BY DEF Waiting, remove_loopback_exemption
<1> QED  BY <1>0, <1>3, <1>4, <1>5, <1>6, <1>7, FailsWith

\* CreateProcessW fails.
LEMMA CreateFails ==
    ASSUME Inv, At("create"), Leave(FALSE, "create"), Restore, UNCHANGED child,
           held' = held \ (Guards \cup {"attrs"}),
           remove_loopback_exemption \/ (path = "appcontainer" /\ UNCHANGED sessions)
    PROVE  Inv'
<1>0. "create" # "impersonate"
  OBVIOUS
<1>1. /\ path \in DOMAIN Program /\ Follows(path, "create", Pc(Tail(todo)))
      /\ HeldOk(path, "create", held) /\ ChildOk(path, "create", child)
      /\ held \in SUBSET AllHeld /\ sessions \in SUBSET Names
  BY <1>0, Here, Zenon
<1>2. path \in Caged
  BY <1>1 DEF Follows, Caged, Gui
<1>3. held' \in SUBSET AllHeld /\ sessions' \in SUBSET Names
  BY <1>1 DEF AllHeld, Handles, remove_loopback_exemption, os
<1>4. held' \subseteq Lost([path |-> path, ok |-> FALSE, at |-> "create"])
  <2> SUFFICES ASSUME NEW x \in held'
               PROVE  x \in Lost([path |-> path, ok |-> FALSE, at |-> "create"])
    OBVIOUS
  <2> QED  BY <1>1, <1>2 DEF Lost, AllHeld, Handles, HeldOk, Handled, Caged, Gui, Waiting
<1>5. (child' = child /\ child.state = "none") \/ child' = Gone(child)
  BY <1>1, <1>2 DEF ChildOk, Spawned, Handled
<1>6. SavedOk' /\ env' \in [Vars -> Values] /\ (path # "silo" => Back')
  <2>1. \/ Restore /\ Sandboxed(path, "create")
        \/ UNCHANGED environ /\ (Sandboxed(path, "create") => path = "silo")
    BY <1>2 DEF Sandboxed, Caged, Gui
  <2>2. UNCHANGED origin
    BY DEF Leave
  <2> QED  BY <1>0, <2>1, <2>2, EnvBack
<1>7. "create" = "create" /\ full /\ path \in Waiting => SessionName(path) \notin sessions'
  BY DEF Waiting, remove_loopback_exemption
<1> QED  BY <1>0, <1>3, <1>4, <1>5, <1>6, <1>7, FailsWith

\* No child.
LEMMA SpawnFails ==
    ASSUME Inv, At("spawn"), Leave(FALSE, "spawn"), UNCHANGED <<sessions, child>>,
           held' = held \ (Guards \cup {"token"}),
           IF path = "devicemap" THEN Restore ELSE UNCHANGED environ
    PROVE  Inv'
<1>0. "spawn" # "impersonate"
  OBVIOUS
<1>1. /\ path \in DOMAIN Program /\ Follows(path, "spawn", Pc(Tail(todo)))
      /\ HeldOk(path, "spawn", held) /\ ChildOk(path, "spawn", child)
      /\ held \in SUBSET AllHeld /\ sessions \in SUBSET Names
  BY <1>0, Here, Zenon
<1>2. path \in {"silo", "restricted", "devicemap"}
  BY <1>1 DEF Follows, Caged, Gui
<1>3. held' \in SUBSET AllHeld /\ sessions' \in SUBSET Names
  BY <1>1 DEF AllHeld, Handles, remove_loopback_exemption, os
<1>4. held' \subseteq Lost([path |-> path, ok |-> FALSE, at |-> "spawn"])
  <2> SUFFICES ASSUME NEW x \in held'
               PROVE  x \in Lost([path |-> path, ok |-> FALSE, at |-> "spawn"])
    OBVIOUS
  <2> QED  BY <1>1, <1>2 DEF Lost, AllHeld, Handles, HeldOk, Handled, Caged, Gui, Waiting
<1>5. (child' = child /\ child.state = "none") \/ child' = Gone(child)
  BY <1>1, <1>2 DEF ChildOk, Spawned, Handled
<1>6. SavedOk' /\ env' \in [Vars -> Values] /\ (path # "silo" => Back')
  <2>1. \/ Restore /\ Sandboxed(path, "spawn")
        \/ UNCHANGED environ /\ (Sandboxed(path, "spawn") => path = "silo")
    BY <1>2 DEF Sandboxed, Caged, Gui
  <2>2. UNCHANGED origin
    BY DEF Leave
  <2> QED  BY <1>0, <2>1, <2>2, EnvBack
<1>7. "spawn" = "create" /\ full /\ path \in Waiting => SessionName(path) \notin sessions'
  BY DEF Waiting, remove_loopback_exemption
<1> QED  BY <1>0, <1>3, <1>4, <1>5, <1>6, <1>7, FailsWith

\* No job or no device map for the child.
LEMMA AssignFails ==
    ASSUME Inv, At("assign"), Leave(FALSE, "assign"), child' = Gone(child),
           held' = held \ (Guards \cup {"process", "thread", "system"}),
           IF path = "devicemap" THEN Restore ELSE UNCHANGED environ,
           IF path = "appcontainer" THEN remove_loopback_exemption ELSE UNCHANGED sessions
    PROVE  Inv'
<1>0. "assign" # "impersonate"
  OBVIOUS
<1>1. /\ path \in DOMAIN Program /\ Follows(path, "assign", Pc(Tail(todo)))
      /\ HeldOk(path, "assign", held) /\ ChildOk(path, "assign", child)
      /\ held \in SUBSET AllHeld /\ sessions \in SUBSET Names
  BY <1>0, Here, Zenon
<1>2. path \in {"silo", "restricted", "devicemap", "appcontainer"}
  BY <1>1 DEF Follows, Caged, Gui
<1>3. held' \in SUBSET AllHeld /\ sessions' \in SUBSET Names
  BY <1>1 DEF AllHeld, Handles, remove_loopback_exemption, os
<1>4. held' \subseteq Lost([path |-> path, ok |-> FALSE, at |-> "assign"])
  <2> SUFFICES ASSUME NEW x \in held'
               PROVE  x \in Lost([path |-> path, ok |-> FALSE, at |-> "assign"])
    OBVIOUS
  <2> QED  BY <1>1, <1>2 DEF Lost, AllHeld, Handles, HeldOk, Handled, Caged, Gui, Waiting
<1>5. (child' = child /\ child.state = "none") \/ child' = Gone(child)
  BY <1>1, <1>2 DEF ChildOk, Spawned, Handled
<1>6. SavedOk' /\ env' \in [Vars -> Values] /\ (path # "silo" => Back')
  <2>1. \/ Restore /\ Sandboxed(path, "assign")
        \/ UNCHANGED environ /\ (Sandboxed(path, "assign") => path = "silo")
    BY <1>2 DEF Sandboxed, Caged, Gui
  <2>2. UNCHANGED origin
    BY DEF Leave
  <2> QED  BY <1>0, <2>1, <2>2, EnvBack
<1>7. "assign" = "create" /\ full /\ path \in Waiting => SessionName(path) \notin sessions'
  BY DEF Waiting, remove_loopback_exemption
<1> QED  BY <1>0, <1>3, <1>4, <1>5, <1>6, <1>7, FailsWith

\* No device map.
LEMMA MapFails ==
    ASSUME Inv, At("map"), Leave(FALSE, "map"), Restore, UNCHANGED <<sessions, child>>,
           held' = held \ (Guards \cup {})
    PROVE  Inv'
<1>0. "map" # "impersonate"
  OBVIOUS
<1>1. /\ path \in DOMAIN Program /\ Follows(path, "map", Pc(Tail(todo)))
      /\ HeldOk(path, "map", held) /\ ChildOk(path, "map", child)
      /\ held \in SUBSET AllHeld /\ sessions \in SUBSET Names
  BY <1>0, Here, Zenon
<1>2. path = "devicemap"
  BY <1>1 DEF Follows, Caged, Gui
<1>3. held' \in SUBSET AllHeld /\ sessions' \in SUBSET Names
  BY <1>1 DEF AllHeld, Handles, remove_loopback_exemption, os
<1>4. held' \subseteq Lost([path |-> path, ok |-> FALSE, at |-> "map"])
  <2> SUFFICES ASSUME NEW x \in held'
               PROVE  x \in Lost([path |-> path, ok |-> FALSE, at |-> "map"])
    OBVIOUS
  <2> QED  BY <1>1, <1>2 DEF Lost, AllHeld, Handles, HeldOk, Handled, Caged, Gui, Waiting
<1>5. (child' = child /\ child.state = "none") \/ child' = Gone(child)
  BY <1>1, <1>2 DEF ChildOk, Spawned, Handled
<1>6. SavedOk' /\ env' \in [Vars -> Values] /\ (path # "silo" => Back')
  <2>1. \/ Restore /\ Sandboxed(path, "map")
        \/ UNCHANGED environ /\ (Sandboxed(path, "map") => path = "silo")
    BY <1>2 DEF Sandboxed, Caged, Gui
  <2>2. UNCHANGED origin
    BY DEF Leave
  <2> QED  BY <1>0, <2>1, <2>2, EnvBack
<1>7. "map" = "create" /\ full /\ path \in Waiting => SessionName(path) \notin sessions'
  BY DEF Waiting, remove_loopback_exemption
<1> QED  BY <1>0, <1>3, <1>4, <1>5, <1>6, <1>7, FailsWith

\* The device map cannot be psroot's own.
LEMMA SwapFails ==
    ASSUME Inv, At("swap"), Leave(FALSE, "swap"), Restore, UNCHANGED <<sessions, child>>,
           held' = held \ (Guards \cup {"system"})
    PROVE  Inv'
<1>0. "swap" # "impersonate"
  OBVIOUS
<1>1. /\ path \in DOMAIN Program /\ Follows(path, "swap", Pc(Tail(todo)))
      /\ HeldOk(path, "swap", held) /\ ChildOk(path, "swap", child)
      /\ held \in SUBSET AllHeld /\ sessions \in SUBSET Names
  BY <1>0, Here, Zenon
<1>2. path = "devicemap"
  BY <1>1 DEF Follows, Caged, Gui
<1>3. held' \in SUBSET AllHeld /\ sessions' \in SUBSET Names
  BY <1>1 DEF AllHeld, Handles, remove_loopback_exemption, os
<1>4. held' \subseteq Lost([path |-> path, ok |-> FALSE, at |-> "swap"])
  <2> SUFFICES ASSUME NEW x \in held'
               PROVE  x \in Lost([path |-> path, ok |-> FALSE, at |-> "swap"])
    OBVIOUS
  <2> QED  BY <1>1, <1>2 DEF Lost, AllHeld, Handles, HeldOk, Handled, Caged, Gui, Waiting
<1>5. (child' = child /\ child.state = "none") \/ child' = Gone(child)
  BY <1>1, <1>2 DEF ChildOk, Spawned, Handled
<1>6. SavedOk' /\ env' \in [Vars -> Values] /\ (path # "silo" => Back')
  <2>1. \/ Restore /\ Sandboxed(path, "swap")
        \/ UNCHANGED environ /\ (Sandboxed(path, "swap") => path = "silo")
    BY <1>2 DEF Sandboxed, Caged, Gui
  <2>2. UNCHANGED origin
    BY DEF Leave
  <2> QED  BY <1>0, <2>1, <2>2, EnvBack
<1>7. "swap" = "create" /\ full /\ path \in Waiting => SessionName(path) \notin sessions'
  BY DEF Waiting, remove_loopback_exemption
<1> QED  BY <1>0, <1>3, <1>4, <1>5, <1>6, <1>7, FailsWith

\* No directory for the app.
LEMMA RootfsFails ==
    ASSUME Inv, At("rootfs"), Leave(FALSE, "rootfs"), UNCHANGED <<environ, sessions,
       child>>,
           held' \in {held, held \cup {"rootfs"}}
    PROVE  Inv'
<1>0. "rootfs" # "impersonate"
  OBVIOUS
<1>1. /\ path \in DOMAIN Program /\ Follows(path, "rootfs", Pc(Tail(todo)))
      /\ HeldOk(path, "rootfs", held) /\ ChildOk(path, "rootfs", child)
      /\ held \in SUBSET AllHeld /\ sessions \in SUBSET Names
  BY <1>0, Here, Zenon
<1>2. path = "app"
  BY <1>1 DEF Follows, Caged, Gui
<1>3. held' \in SUBSET AllHeld /\ sessions' \in SUBSET Names
  BY <1>1 DEF AllHeld, Handles, remove_loopback_exemption, os
<1>4. held' \subseteq Lost([path |-> path, ok |-> FALSE, at |-> "rootfs"])
  <2> SUFFICES ASSUME NEW x \in held'
               PROVE  x \in Lost([path |-> path, ok |-> FALSE, at |-> "rootfs"])
    OBVIOUS
  <2> QED  BY <1>1, <1>2 DEF Lost, AllHeld, Handles, HeldOk, Handled, Caged, Gui, Waiting
<1>5. (child' = child /\ child.state = "none") \/ child' = Gone(child)
  BY <1>1, <1>2 DEF ChildOk, Spawned, Handled
<1>6. SavedOk' /\ env' \in [Vars -> Values] /\ (path # "silo" => Back')
  <2>1. \/ Restore /\ Sandboxed(path, "rootfs")
        \/ UNCHANGED environ /\ (Sandboxed(path, "rootfs") => path = "silo")
    BY <1>2 DEF Sandboxed, Caged, Gui
  <2>2. UNCHANGED origin
    BY DEF Leave
  <2> QED  BY <1>0, <2>1, <2>2, EnvBack
<1>7. "rootfs" = "create" /\ full /\ path \in Waiting => SessionName(path) \notin sessions'
  BY DEF Waiting, remove_loopback_exemption
<1> QED  BY <1>0, <1>3, <1>4, <1>5, <1>6, <1>7, FailsWith

\* The program is there: it runs, or waits for its job.
LEMMA CreatePops ==
    ASSUME Inv, At("create"), Restore, Pop, UNCHANGED os,
           held' = (held \ {"attrs"}) \cup {"process", "thread"},
           child' = [state |-> IF path = "appcontainer" THEN "suspended" ELSE "running",
                     cage |-> {"appcontainer"} \cup (held \cap {"desktop"}),
                     env |-> env]
    PROVE  Inv'
<1> DEFINE t == Pc(Tail(todo))
<1>0. "create" # "impersonate"
  OBVIOUS
<1>1. /\ path \in DOMAIN Program /\ Follows(path, "create", t) /\ EnvOk(path, "create")
      /\ HeldOk(path, "create", held) /\ ChildOk(path, "create", child)
      /\ env \in [Vars -> Values] /\ SavedOk
      /\ held \in SUBSET AllHeld /\ sessions \in SUBSET Names
  BY <1>0, Here, Zenon
<1>2. t = Pc(Tail(todo))
  OBVIOUS
<1> HIDE DEF t
<1>3. \/ path \in {"interactive", "gui_plan", "plan"} /\ t = "wait"
      \/ path \in {"gui", "gui_async"} /\ t = "sid"
      \/ path = "appcontainer" /\ t = "assign"
  BY <1>1 DEF Follows
<1>4. Restores /\ Hidden /\ ~Sandboxed(path, t)
  BY <1>1, <1>3 DEF EnvOk, Sandboxed
<1>5. env' \in [Vars -> Values] /\ SavedOk' /\ Back'
  <2>1. UNCHANGED origin
    BY DEF Pop
  <2> QED  BY <1>1, <1>4, <2>1, Restoring
<1>6. HeldOk(path, t, held')
  BY <1>1, <1>3 DEF HeldOk, Handled, Caged, Gui
<1>7. ChildOk(path, t, child')
  <2>1. /\ child'.state = IF path = "appcontainer" THEN "suspended" ELSE "running"
        /\ child'.env = env /\ "appcontainer" \in child'.cage
        /\ "desktop" \in held => "desktop" \in child'.cage
    OBVIOUS
  <2>2. path \in Gui => "desktop" \in held
    BY <1>1 DEF HeldOk
  <2> DEFINE K == child'.cage
  <2>3. "appcontainer" \in K /\ (path \in Gui => "desktop" \in K)
    BY <2>1, <2>2
  <2> HIDE DEF K
  <2>4. \/ path = "appcontainer" /\ Cage[path] = {"appcontainer", "job"}
        \/ path \in {"interactive", "plan"} /\ Cage[path] = {"appcontainer"}
        \/ path \in Gui /\ Cage[path] = {"appcontainer", "desktop"}
    BY <1>3, CageOf DEF Gui
  <2>5. Cage[path] \ {"job", "device map"} \subseteq K
    BY <2>3, <2>4
  <2>6. path # "appcontainer" => Cage[path] \subseteq K
    BY <2>3, <2>4
  <2> USE DEF K
  <2>7. \A v \in Sanitized \cup Detected : child'.env[v] # "host"
    BY <1>4, <2>1 DEF Hidden
  <2>8. Spawned(path, t)
    BY <1>3 DEF Spawned, Handled
  <2> QED  BY <1>3, <2>1, <2>5, <2>6, <2>7, <2>8 DEF ChildOk
<1>8. held' \in SUBSET AllHeld /\ sessions' \in SUBSET Names
  BY <1>1 DEF os, AllHeld, Handles
<1>9. child' \in Child
  BY <1>1 DEF Child, States, Cages
<1>10. t # "end"
  BY <1>3
<1> QED  BY <1>2, <1>4, <1>5, <1>6, <1>7, <1>8, <1>9, <1>10, Advance

\* Without the AppContainer the restricted token is used.
LEMMA CreateFallsBack ==
    ASSUME Inv, At("create"), Restore, path = "appcontainer", path' = "restricted",
           todo' = Program["restricted"], held' = held \ {"attrs", "profile"},
           remove_loopback_exemption, UNCHANGED <<full, origin, last, launches, child>>
    PROVE  Inv'
<1> DEFINE g == "restricted"
           q == Program[g]
           t == Pc(q)
<1>0. "create" # "impersonate"
  OBVIOUS
<1>1. /\ EnvOk(path, "create")
      /\ HeldOk(path, "create", held) /\ ChildOk(path, "create", child)
      /\ env \in [Vars -> Values] /\ SavedOk /\ launches \in 0 .. MaxLaunches
      /\ held \in SUBSET AllHeld /\ sessions \in SUBSET Names /\ child \in Child
  BY <1>0, Here, Zenon
<1>2. g \in DOMAIN Program /\ g # "idle"
  BY Programs
<1>3. q \in Seq(Steps) /\ Track(g, q) /\ t = "token" /\ t # "end"
  BY <1>2, ProgramSteps, BeginTracks, FirstSteps DEF Caged, Gui
<1>4. Restores /\ ~Sandboxed(g, t)
  BY <1>1, <1>3 DEF EnvOk, Sandboxed
<1>5. env' \in [Vars -> Values] /\ SavedOk' /\ Back'
  BY <1>1, <1>4, Restoring
<1>6. HeldOk(g, t, held')
  BY <1>1, <1>3 DEF HeldOk, Handled, Caged, Gui
<1>7. ChildOk(g, t, child')
  BY <1>1, <1>3 DEF ChildOk, Spawned, Handled
<1>8. held' \in SUBSET AllHeld /\ sessions' \in SUBSET Names
  BY <1>1 DEF remove_loopback_exemption
<1>9. child' \in Child /\ launches' \in 0 .. MaxLaunches
  BY <1>1
<1>10. path' = g /\ todo' = q /\ t = Pc(q) /\ full' = full /\ last' = last
  OBVIOUS
<1> HIDE DEF g, q, t
<1> QED  BY <1>2, <1>3, <1>4, <1>5, <1>6, <1>7, <1>8, <1>9, <1>10, Enters

\* Without silos the device map is used.
LEMMA DetectFallsBack ==
    ASSUME Inv, At("detect"), path' = "devicemap", todo' = Program["devicemap"],
           UNCHANGED <<full, origin, last, launches, environ, held, os, child>>
    PROVE  Inv'
<1> DEFINE g == "devicemap"
           q == Program[g]
           t == Pc(q)
<1>0. "detect" # "impersonate"
  OBVIOUS
<1>1. /\ EnvOk(path, "detect") /\ Follows(path, "detect", Pc(Tail(todo)))
           /\ Pc(todo) = "detect"
      /\ HeldOk(path, "detect", held) /\ ChildOk(path, "detect", child)
      /\ env \in [Vars -> Values] /\ SavedOk /\ launches \in 0 .. MaxLaunches
      /\ held \in SUBSET AllHeld /\ sessions \in SUBSET Names /\ child \in Child
  BY <1>0, Here, Zenon
<1>a. path = "silo"
  BY <1>1 DEF Follows
<1>2. g \in DOMAIN Program /\ g # "idle"
  BY Programs
<1>3. q \in Seq(Steps) /\ Track(g, q) /\ t = "stage" /\ t # "end"
  BY <1>2, ProgramSteps, BeginTracks, FirstSteps DEF Caged, Gui
<1>4. Back /\ ~Sandboxed(g, t) /\ (Sandboxed(path, Pc(todo)) <=> Sandboxed(path, "detect"))
  BY <1>1, <1>a, <1>3 DEF EnvOk, Sandboxed
<1>5. env' \in [Vars -> Values] /\ SavedOk' /\ Back'
  BY <1>1, <1>4 DEF environ, SavedOk, Back
<1>6. HeldOk(g, t, held')
  BY <1>1, <1>a, <1>3 DEF HeldOk, Handled, Caged, Gui
<1>7. ChildOk(g, t, child')
  BY <1>1, <1>a, <1>3 DEF ChildOk, Spawned, Handled
<1>8. held' \in SUBSET AllHeld /\ sessions' \in SUBSET Names
  BY <1>1 DEF os
<1>9. child' \in Child /\ launches' \in 0 .. MaxLaunches
  BY <1>1
<1>10. path' = g /\ todo' = q /\ t = Pc(q) /\ full' = full /\ last' = last
  OBVIOUS
<1> HIDE DEF g, q, t
<1> QED  BY <1>2, <1>3, <1>4, <1>5, <1>6, <1>7, <1>8, <1>9, <1>10, Enters

\* Without a root directory of the silo, too.
LEMMA NoRootFallsBack ==
    ASSUME Inv, At("no root"), Restore, path' = "devicemap", todo' = Program["devicemap"],
           held' = held \ {"silo"}, UNCHANGED <<full, origin, last, launches, os, child>>
    PROVE  Inv'
<1> DEFINE g == "devicemap"
           q == Program[g]
           t == Pc(q)
<1>0. "no root" # "impersonate"
  OBVIOUS
<1>1. /\ EnvOk(path, "no root") /\ Follows(path, "no root", Pc(Tail(todo)))
      /\ HeldOk(path, "no root", held) /\ ChildOk(path, "no root", child)
      /\ env \in [Vars -> Values] /\ SavedOk /\ launches \in 0 .. MaxLaunches
      /\ held \in SUBSET AllHeld /\ sessions \in SUBSET Names /\ child \in Child
  BY <1>0, Here, Zenon
<1>a. path = "silo"
  BY <1>1 DEF Follows
<1>2. g \in DOMAIN Program /\ g # "idle"
  BY Programs
<1>3. q \in Seq(Steps) /\ Track(g, q) /\ t = "stage" /\ t # "end"
  BY <1>2, ProgramSteps, BeginTracks, FirstSteps DEF Caged, Gui
<1>4. Restores /\ ~Sandboxed(g, t)
  BY <1>1, <1>a, <1>3 DEF EnvOk, Sandboxed
<1>5. env' \in [Vars -> Values] /\ SavedOk' /\ Back'
  BY <1>1, <1>4, Restoring
<1>6. HeldOk(g, t, held')
  BY <1>1, <1>a, <1>3 DEF HeldOk, Handled, Caged, Gui
<1>7. ChildOk(g, t, child')
  BY <1>1, <1>a, <1>3 DEF ChildOk, Spawned, Handled
<1>8. held' \in SUBSET AllHeld /\ sessions' \in SUBSET Names
  BY <1>1 DEF os
<1>9. child' \in Child /\ launches' \in 0 .. MaxLaunches
  BY <1>1
<1>10. path' = g /\ todo' = q /\ t = Pc(q) /\ full' = full /\ last' = last
  OBVIOUS
<1> HIDE DEF g, q, t
<1> QED  BY <1>2, <1>3, <1>4, <1>5, <1>6, <1>7, <1>8, <1>9, <1>10, Enters

\* Two steps are a sequence.
LEMMA Pairs ==
    ASSUME NEW S, NEW a \in S, NEW b \in S
    PROVE  <<a, b>> \in Seq(S) /\ Head(<<a, b>>) = a /\ <<a, b>> # <<>>
OBVIOUS

\* The step after a refusal, by whatever name it has at its place.
LEMMA RevertStep == "revert" \in Steps /\ "no root" \in Steps /\ "no init" \in Steps
<1>1. Program["silo"] \in Seq(Steps)
  BY Programs, ProgramSteps
<1>2. Len(Program["silo"]) = 16 /\ Program["silo"][9] = "revert"
  BY ChainSilo DEF Chain
<1>3. 9 \in 1 .. Len(Program["silo"])
  BY <1>2
<1>4. "revert" \in Steps
  BY <1>1, <1>2, <1>3, ElementOfSeq, Zenon
<1> DEFINE U == UNION {ToSet(Program[f]) : f \in DOMAIN Program}
<1>5. Steps = U \cup {"no root", "no init"}
  BY DEF Steps
<1>6. "no root" \in Steps /\ "no init" \in Steps
  <2> HIDE DEF U
  <2> QED  BY <1>5
<1> QED  BY <1>4, <1>6

\* A sequence that begins with that step.
LEMMA RevertPc ==
    ASSUME NEW q, q # <<>>, Head(q) = "revert"
    PROVE  Pc(q) = "revert"
BY DEF Pc

\* What remains when a silo is refused.
LEMMA RefusedSteps ==
    ASSUME NEW x \in {"no root", "no init"}
    PROVE  /\ <<"revert", x>> \in Seq(Steps) /\ Track("silo", <<"revert", x>>)
           /\ Pc(<<"revert", x>>) = "revert"
<1>1. "revert" \in Steps /\ x \in Steps
  BY RevertStep, Zenon
<1>2. /\ <<"revert", x>> \in Seq(Steps) /\ Head(<<"revert", x>>) = "revert"
      /\ <<"revert", x>> # <<>>
  BY <1>1, Pairs, Zenon
<1>3. Track("silo", <<"revert", x>>)
  BY DEF Track, Refused
<1>4. Pc(<<"revert", x>>) = "revert"
  BY <1>2, RevertPc, Zenon
<1> QED  BY <1>2, <1>3, <1>4

\* A refused silo is left over the reverting of the thread.
LEMMA Refuses ==
    ASSUME Inv, NEW s \in {"root", "init"}, At(s), NEW x \in {"no root", "no init"},
           todo' = <<"revert", x>>,
           UNCHANGED <<path, full, environ, origin, held, os, child, last, launches>>
    PROVE  Inv'
<1> DEFINE g == "silo"
           q == <<"revert", x>>
           t == Pc(q)
<1>0. s # "impersonate"
  OBVIOUS
<1>1. /\ EnvOk(path, s) /\ Follows(path, s, Pc(Tail(todo))) /\ Pc(todo) = s
      /\ HeldOk(path, s, held) /\ ChildOk(path, s, child)
      /\ launches \in 0 .. MaxLaunches
      /\ held \in SUBSET AllHeld /\ sessions \in SUBSET Names /\ child \in Child
  BY <1>0, Here, Zenon
<1>a. path = g
  BY <1>1 DEF Follows
<1>2. g \in DOMAIN Program /\ g # "idle"
  BY Programs
<1>3. q \in Seq(Steps) /\ Track(g, q) /\ t = "revert"
  BY RefusedSteps, Zenon
<1>4. Sandboxed(path, Pc(todo)) /\ Sandboxed(path, "revert")
  BY <1>1, <1>a DEF Sandboxed
<1>5. env' \in [Vars -> Values] /\ SavedOk' /\ Restores' /\ Hidden'
  <2>1. UNCHANGED <<environ, origin>>
    OBVIOUS
  <2>2. /\ SavedOk' /\ env' \in [Vars -> Values]
        /\ IF Sandboxed(path, "revert") THEN Restores' /\ Hidden' ELSE Back'
    BY <1>4, <2>1, EnvStays
  <2> QED  BY <1>4, <2>2
<1>6. HeldOk(g, t, held')
  BY <1>1, <1>a, <1>3 DEF HeldOk, Handled, Caged, Gui
<1>7. ChildOk(g, t, child')
  BY <1>1, <1>a, <1>3 DEF ChildOk, Spawned, Handled
<1>8. held' \in SUBSET AllHeld /\ sessions' \in SUBSET Names
  BY <1>1 DEF os
<1>9. child' \in Child /\ launches' \in 0 .. MaxLaunches
  BY <1>1
<1>10. path' = g /\ todo' = q /\ t = Pc(q) /\ full' = full /\ last' = last
  BY <1>a
<1>11. Sandboxed(g, t) /\ t # "end"
  BY <1>3, <1>4, <1>a
<1> HIDE DEF g, q, t
<1> QED  BY <1>2, <1>3, <1>5, <1>6, <1>7, <1>8, <1>9, <1>10, <1>11, Enters

-----------------------------------------------------------------------------
(* Beginning and end *)

\* Initially.
LEMMA InitInv == Init => Inv
<1> SUFFICES ASSUME Init PROVE Inv
  OBVIOUS
<1>1. PICK set \in SUBSET Vars : env = [v \in Vars |-> IF v \in set THEN "host"
             ELSE "unset"]
  BY DEF Init
<1>2. env \in [Vars -> Values]
  BY <1>1 DEF Values
<1>3. child \in Child /\ child.state = "none"
  BY DEF Init, NoChild, Child, States, Cages, Values
<1>4. last \in Ending /\ last.path = "idle" /\ last.ok = TRUE
  BY DEF Init, Ending
<1>5. Types
  <2>1. <<>> \in Seq(Steps)
    OBVIOUS
  <2> QED  BY <1>2, <1>3, <1>4, <2>1, LaunchAssumption DEF Init, Types
<1>6. SavedOk
  BY DEF Init, SavedOk
<1>7. Back
  BY DEF Init, Back
<1>8. NothingElseLost /\ SessionEnded
  BY <1>4 DEF Init, NothingElseLost, SessionEnded
<1>9. Idle
  BY <1>3, <1>7, <1>8 DEF Idle, Init
<1> QED  BY <1>5, <1>6, <1>9 DEF Inv, Init

\* A launch begins.
LEMMA StartKeeps ==
    ASSUME Inv, NEW f \in DOMAIN Program, Start(f)
    PROVE  Inv'
<1>1. PICK g \in DOMAIN Program : path' = g /\ todo' = Program[g]
  <2>1. PICK x \in IF f = "appcontainer" THEN {f, "restricted"} ELSE {f} :
           path' = x /\ todo' = Program[x]
    BY DEF Start
  <2>2. "restricted" \in DOMAIN Program
    BY Programs
  <2> QED  BY <2>1, <2>2
<1> DEFINE q == Program[g]
           t == Pc(q)
<1>2. /\ origin' = [env |-> env, sessions |-> sessions] /\ held' = {} /\ child' = NoChild /\ launches' = launches + 1
      /\ launches < MaxLaunches /\ full' = full /\ last' = last
      /\ env' = env /\ saved' = saved /\ sessions' = sessions
  BY DEF Start, environ, os
<1>3. g # "idle" /\ q \in Seq(Steps) /\ Track(g, q)
  BY Programs, ProgramSteps, BeginTracks
<1>4. \/ g \in Caged \ {"appcontainer"} /\ t = "available"
      \/ g = "appcontainer" /\ t = "profile"
      \/ g = "restricted" /\ t = "token"
      \/ g = "silo" /\ t = "detect"
      \/ g = "devicemap" /\ t = "stage"
      \/ g = "app" /\ t = "rootfs"
  BY FirstSteps
<1>5. t = Pc(q) /\ path' = g /\ todo' = q
  BY <1>1
<1> HIDE DEF q, t
<1>6. /\ SavedOk' /\ env' \in [Vars -> Values] /\ held' \in SUBSET AllHeld
      /\ sessions' \in SUBSET Names
  BY <1>2 DEF Inv, SavedOk, Types, Names
<1>7. launches' \in 0 .. MaxLaunches
  BY <1>2, LaunchAssumption DEF Inv, Types
<1>8. /\ child' \in Child /\ child'.state = "none"
      /\ \A v \in Vars : child'.env[v] = "unset"
  BY <1>2 DEF NoChild, Child, States, Values
<1>9. HeldOk(g, t, held')
  BY <1>2, <1>4 DEF HeldOk, Caged, Gui
<1>10. ChildOk(g, t, child')
  <2>1. \A v \in Sanitized \cup Detected : v \in Vars
    BY DetectedVars, LaunchAssumption
  <2> QED  BY <1>4, <1>8, <2>1 DEF ChildOk
<1>11. Back' /\ ~Sandboxed(g, t) /\ t # "end"
  BY <1>2, <1>4 DEF Back, Sandboxed, Caged, Gui
<1> QED  BY <1>2, <1>3, <1>5, <1>6, <1>7, <1>8, <1>9, <1>10, <1>11, Enters

\* The function returns.
LEMMA ReturnKeeps ==
    ASSUME Inv, Return
    PROVE  Inv'
<1>1. /\ path # "idle" /\ todo = <<>> /\ path' = "idle" /\ todo' = <<>> /\ full' = full
      /\ last' = [path |-> path, ok |-> TRUE, at |-> "end"] /\ launches' = launches
      /\ origin' = origin /\ held' = held \ Guards /\ env' = env /\ saved' = saved
      /\ sessions' = sessions
      /\ child' = IF "silo" \in held THEN Gone(child) ELSE child
  BY DEF Return, Leave, DropGuards, environ
<1>2. Pc(todo) = "end" /\ path \in DOMAIN Program
  BY <1>1 DEF Pc, Inv, Types
<1>3. /\ HeldOk(path, "end", held) /\ ChildOk(path, "end", child) /\ EnvOk(path, "end")
      /\ SessionOk(path, "end")
  BY <1>1, <1>2 DEF Inv, Busy
<1>4. child \in Child /\ held \in SUBSET AllHeld
  BY DEF Inv, Types, AllHeld
<1>5. /\ child' \in Child /\ child'.env = child.env /\ child'.cage = child.cage
      /\ child'.state = child.state \/ child'.state = "gone"
  BY <1>1, <1>4 DEF Gone, Child, States
<1>6. last'.path = path /\ last'.ok = TRUE /\ last'.at = "end" /\ last' \in Ending
  BY <1>1, <1>2 DEF Ending
<1>7. Types'
  BY <1>1, <1>5, <1>6 DEF Inv, Types
<1>8. SavedOk' /\ Back'
  BY <1>1, <1>3 DEF Inv, SavedOk, EnvOk, Sandboxed, Back
<1>9. held' \subseteq Lost([path |-> path, ok |-> TRUE, at |-> "end"])
  <2> SUFFICES ASSUME NEW x \in held'
               PROVE  x \in Lost([path |-> path, ok |-> TRUE, at |-> "end"])
    OBVIOUS
  <2>1. x \in held /\ x \in Handles
    BY <1>1, <1>4 DEF AllHeld
  <2>2. (x = "rootfs" /\ path = "app") \/ (x = "process" /\ path = "gui_async")
    BY <1>3, <2>1 DEF Handles, HeldOk, Handled
  <2> QED  BY <2>1, <2>2 DEF Lost
<1>10. NothingElseLost'
  BY <1>1, <1>6, <1>9 DEF NothingElseLost, Lost
<1>11. SessionEnded'
  BY <1>1, <1>3, <1>6 DEF SessionEnded, SessionOk, SessionName
<1>12. /\ child'.state = "running" => last'.path # "idle"
            /\ Cage[last'.path] \subseteq child'.cage
       /\ child'.state # "none" /\ last'.path # "app"
             => \A v \in Sanitized \cup Detected : child'.env[v] # "host"
  BY <1>1, <1>3, <1>5, <1>6 DEF ChildOk
<1>13. Idle'
  BY <1>1, <1>8, <1>10, <1>11, <1>12 DEF Idle
<1> QED  BY <1>1, <1>7, <1>8, <1>13 DEF Inv

\* A step that changes nothing.
LEMMA StutterKeeps ==
    ASSUME Inv, UNCHANGED vars
    PROVE  Inv'
<1>1. /\ path' = path /\ todo' = todo /\ full' = full /\ env' = env /\ saved' = saved
      /\ origin' = origin /\ held' = held /\ sessions' = sessions /\ child' = child
      /\ last' = last /\ launches' = launches
  BY DEF vars
<1>2. Types' /\ SavedOk'
  BY <1>1 DEF Inv, Types, SavedOk
<1>3. ASSUME path # "idle" PROVE Track(path, todo)' /\ Busy(path, Pc(todo))'
  <2>1. Track(path, todo)' <=> Track(path, todo)
    BY <1>1 DEF Track, Rest
  <2>2. Pc(todo)' = Pc(todo)
    BY <1>1 DEF Pc
  <2>3. HeldOk(path, Pc(todo), held)' <=> HeldOk(path, Pc(todo), held)
    BY <1>1, <2>2 DEF HeldOk
  <2>4. ChildOk(path, Pc(todo), child)' <=> ChildOk(path, Pc(todo), child)
    BY <1>1, <2>2 DEF ChildOk, Spawned
  <2>5. EnvOk(path, Pc(todo))' <=> EnvOk(path, Pc(todo))
    BY <1>1, <2>2 DEF EnvOk, Sandboxed, Restores, Restored, Hidden, Back
  <2>6. SessionOk(path, Pc(todo))' <=> SessionOk(path, Pc(todo))
    BY <1>1, <2>2 DEF SessionOk, SessionName
  <2> QED  BY <1>3, <2>1, <2>3, <2>4, <2>5, <2>6 DEF Inv, Busy
<1>4. ASSUME path = "idle" PROVE Idle'
  <2>1. NothingElseLost' <=> NothingElseLost
    BY <1>1 DEF NothingElseLost, Lost
  <2>2. SessionEnded' <=> SessionEnded
    BY <1>1 DEF SessionEnded, SessionName
  <2>3. Back' <=> Back
    BY <1>1 DEF Back
  <2> QED  BY <1>1, <1>4, <2>1, <2>2, <2>3 DEF Inv, Idle
<1> QED  BY <1>1, <1>2, <1>3, <1>4 DEF Inv

\* Silos exist.
LEMMA DetectPops ==
    ASSUME Inv, At("detect"), Pop, UNCHANGED environ, UNCHANGED <<held, os, child>>
    PROVE  Inv'
<1> DEFINE t == Pc(Tail(todo))
<1>0. "detect" # "impersonate"
  OBVIOUS
<1>1. /\ path \in DOMAIN Program /\ Follows(path, "detect", t)
      /\ HeldOk(path, "detect", held) /\ ChildOk(path, "detect", child)
      /\ EnvOk(path, "detect")
  <2>1. /\ path \in DOMAIN Program /\ Follows(path, Pc(todo), t) /\ EnvOk(path, Pc(todo))
        /\ HeldOk(path, Pc(todo), held) /\ ChildOk(path, Pc(todo), child)
             /\ Pc(todo) = "detect"
    BY <1>0, Stepping, Zenon
  <2> QED  BY <2>1, Zenon
<1>2. held \in SUBSET AllHeld /\ child \in Child /\ sessions \in SUBSET Names
  BY DEF Inv, Types, AllHeld, Names
<1>3. t = Pc(Tail(todo))
  OBVIOUS
<1> HIDE DEF t
<1>4. t = "stage" /\ path = "silo"
  BY <1>1 DEF Follows, Caged, Gui
<1>5. held' \in SUBSET AllHeld /\ sessions' \in SUBSET Names
  BY <1>2 DEF AllHeld, Guards, Handles, Names, os, SessionName
<1>6. child' \in Child
  BY <1>1, <1>2 DEF Child, States, Cages
<1>7. HeldOk(path, t, held')
  BY <1>1, <1>2, <1>4 DEF HeldOk, Handled, Caged, Gui
<1>8. ChildOk(path, t, child')
  BY <1>1, <1>2, <1>4 DEF ChildOk, Spawned, Handled, Child
<1>9. Sandboxed(path, "detect") <=> Sandboxed(path, t)
  BY <1>1, <1>4 DEF Sandboxed, Caged, Gui
<1>10. full /\ t = "end" /\ path \in Waiting => SessionName(path) \notin sessions'
  BY <1>4 DEF Waiting, Names
<1> QED  BY <1>0, <1>3, <1>5, <1>6, <1>7, <1>8, <1>9, <1>10, Proceeds

\* The silo has a root directory.
LEMMA RootPops ==
    ASSUME Inv, At("root"), Pop, UNCHANGED environ, UNCHANGED <<held, os, child>>
    PROVE  Inv'
<1> DEFINE t == Pc(Tail(todo))
<1>0. "root" # "impersonate"
  OBVIOUS
<1>1. /\ path \in DOMAIN Program /\ Follows(path, "root", t)
      /\ HeldOk(path, "root", held) /\ ChildOk(path, "root", child)
      /\ EnvOk(path, "root")
  <2>1. /\ path \in DOMAIN Program /\ Follows(path, Pc(todo), t) /\ EnvOk(path, Pc(todo))
        /\ HeldOk(path, Pc(todo), held) /\ ChildOk(path, Pc(todo), child)
             /\ Pc(todo) = "root"
    BY <1>0, Stepping, Zenon
  <2> QED  BY <2>1, Zenon
<1>2. held \in SUBSET AllHeld /\ child \in Child /\ sessions \in SUBSET Names
  BY DEF Inv, Types, AllHeld, Names
<1>3. t = Pc(Tail(todo))
  OBVIOUS
<1> HIDE DEF t
<1>4. t = "init" /\ path = "silo"
  BY <1>1 DEF Follows, Caged, Gui
<1>5. held' \in SUBSET AllHeld /\ sessions' \in SUBSET Names
  BY <1>2 DEF AllHeld, Guards, Handles, Names, os, SessionName
<1>6. child' \in Child
  BY <1>1, <1>2 DEF Child, States, Cages
<1>7. HeldOk(path, t, held')
  BY <1>1, <1>2, <1>4 DEF HeldOk, Handled, Caged, Gui
<1>8. ChildOk(path, t, child')
  BY <1>1, <1>2, <1>4 DEF ChildOk, Spawned, Handled, Child
<1>9. Sandboxed(path, "root") <=> Sandboxed(path, t)
  BY <1>1, <1>4 DEF Sandboxed, Caged, Gui
<1>10. full /\ t = "end" /\ path \in Waiting => SessionName(path) \notin sessions'
  BY <1>4 DEF Waiting, Names
<1> QED  BY <1>0, <1>3, <1>5, <1>6, <1>7, <1>8, <1>9, <1>10, Proceeds

\* The silo is initialised.
LEMMA InitPops ==
    ASSUME Inv, At("init"), Pop, UNCHANGED environ, UNCHANGED <<held, os, child>>
    PROVE  Inv'
<1> DEFINE t == Pc(Tail(todo))
<1>0. "init" # "impersonate"
  OBVIOUS
<1>1. /\ path \in DOMAIN Program /\ Follows(path, "init", t)
      /\ HeldOk(path, "init", held) /\ ChildOk(path, "init", child)
      /\ EnvOk(path, "init")
  <2>1. /\ path \in DOMAIN Program /\ Follows(path, Pc(todo), t) /\ EnvOk(path, Pc(todo))
        /\ HeldOk(path, Pc(todo), held) /\ ChildOk(path, Pc(todo), child)
             /\ Pc(todo) = "init"
    BY <1>0, Stepping, Zenon
  <2> QED  BY <2>1, Zenon
<1>2. held \in SUBSET AllHeld /\ child \in Child /\ sessions \in SUBSET Names
  BY DEF Inv, Types, AllHeld, Names
<1>3. t = Pc(Tail(todo))
  OBVIOUS
<1> HIDE DEF t
<1>4. t = "revert" /\ path = "silo"
  BY <1>1 DEF Follows, Caged, Gui
<1>5. held' \in SUBSET AllHeld /\ sessions' \in SUBSET Names
  BY <1>2 DEF AllHeld, Guards, Handles, Names, os, SessionName
<1>6. child' \in Child
  BY <1>1, <1>2 DEF Child, States, Cages
<1>7. HeldOk(path, t, held')
  BY <1>1, <1>2, <1>4 DEF HeldOk, Handled, Caged, Gui
<1>8. ChildOk(path, t, child')
  BY <1>1, <1>2, <1>4 DEF ChildOk, Spawned, Handled, Child
<1>9. Sandboxed(path, "init") <=> Sandboxed(path, t)
  BY <1>1, <1>4 DEF Sandboxed, Caged, Gui
<1>10. full /\ t = "end" /\ path \in Waiting => SessionName(path) \notin sessions'
  BY <1>4 DEF Waiting, Names
<1> QED  BY <1>0, <1>3, <1>5, <1>6, <1>7, <1>8, <1>9, <1>10, Proceeds

-----------------------------------------------------------------------------
(* Every action *)

\* The steps that only try something.
LEMMA QuietKeeps ==
    ASSUME Inv, appcontainer_available \/ grant_appcontainer_access \/ sid_to_string
           \/ build_network_capabilities \/ apply_plan \/ materialize_psh_via_hardlinks
           \/ SiloNamespace \/ stage_app \/ GrantVolumes \/ create_volume_guid_junction
    PROVE  Inv'
<1>1. CASE GrantVolumes \/ create_volume_guid_junction
  BY <1>1, Passes DEF GrantVolumes, create_volume_guid_junction, Quiet
<1>2. CASE \E s \in Quiet \ {"volumes", "binds"} : Attempt(s)
  BY <1>2, Attempts
<1> QED  BY <1>1, <1>2 DEF appcontainer_available, grant_appcontainer_access, sid_to_string,
            build_network_capabilities, apply_plan, materialize_psh_via_hardlinks, SiloNamespace,
            stage_app, Quiet

\* The step AttributeList.
LEMMA AttributeListKeeps ==
    ASSUME Inv, AttributeList
    PROVE  Inv'
<1>1. CASE At("attrs") /\ Pop /\ held' = held \cup {"attrs"}
             /\ UNCHANGED <<environ, os, child>>
  BY <1>1, AttrsPops
<1>2. CASE At("attrs") /\ FailOnly
  BY <1>2, FailsOnly DEF Failing
<1> QED  BY <1>1, <1>2 DEF AttributeList, Acquire

\* The step create_restricted_token.
LEMMA create_restricted_tokenKeeps ==
    ASSUME Inv, create_restricted_token
    PROVE  Inv'
<1>1. CASE At("token") /\ Pop /\ held' = held \cup {"token"}
             /\ UNCHANGED <<environ, os, child>>
  BY <1>1, TokenPops
<1>2. CASE At("token") /\ FailOnly
  BY <1>2, FailsOnly DEF Failing
<1> QED  BY <1>1, <1>2 DEF create_restricted_token, Acquire

\* The step SiloJob.
LEMMA SiloJobKeeps ==
    ASSUME Inv, SiloJob
    PROVE  Inv'
<1>1. CASE At("job") /\ Pop /\ held' = held \cup {"silo"}
             /\ UNCHANGED <<environ, os, child>>
  BY <1>1, JobPops
<1>2. CASE At("job") /\ FailOnly
  BY <1>2, FailsOnly DEF Failing
<1> QED  BY <1>1, <1>2 DEF SiloJob, Acquire

\* The step open_init_process.
LEMMA open_init_processKeeps ==
    ASSUME Inv, open_init_process
    PROVE  Inv'
<1>1. CASE At("open") /\ Pop /\ held' = held \cup {"process"}
             /\ UNCHANGED <<environ, os, child>>
  BY <1>1, OpenPops
<1>2. CASE At("open") /\ FailOnly
  BY <1>2, FailsOnly DEF Failing
<1> QED  BY <1>1, <1>2 DEF open_init_process, Acquire

\* The profile, or none.
LEMMA CreateProfileKeeps ==
    ASSUME Inv, CreateProfile
    PROVE  Inv'
<1>1. CASE At("profile") /\ Pop /\ held' = held \cup {"profile"}
             /\ UNCHANGED <<environ, sessions, child>>
  BY <1>1, ProfilePops
<1>2. CASE At("profile") /\ Leave(FALSE, "profile")
             /\ UNCHANGED <<environ, held, sessions, child>>
  BY <1>2, ProfileFails
<1> QED  BY <1>1, <1>2 DEF CreateProfile

\* The loopback session.
LEMMA add_loopback_exemptionKeeps ==
    ASSUME Inv, add_loopback_exemption
    PROVE  Inv'
<1>1. CASE /\ At("exempt") /\ Pop /\ UNCHANGED <<environ, held, child>>
           /\ sessions' \in {sessions, sessions \cup {SessionName(path)}}
  BY <1>1, ExemptPops
<1> QED  BY <1>1 DEF add_loopback_exemption

\* The desktop, or none.
LEMMA CreateDesktopKeeps ==
    ASSUME Inv, CreateDesktop
    PROVE  Inv'
<1>1. CASE At("desktop") /\ Pop /\ held' = held \cup {"desktop"}
             /\ UNCHANGED <<environ, os, child>>
  BY <1>1, DesktopPops
<1>2. CASE At("desktop") /\ FailOnly
  BY <1>2, FailsOnly DEF Failing
<1>3. CASE /\ At("desktop") /\ path # "app" /\ Leave(FALSE, "desktop")
           /\ held' = (held \ Guards) \cup {"desk"}
                /\ UNCHANGED <<environ, sessions, child>>
  BY <1>3, DesktopFails
<1> QED  BY <1>1, <1>2, <1>3 DEF CreateDesktop

\* The program, an error, or the restricted token.
LEMMA CreateProcessKeeps ==
    ASSUME Inv, CreateProcess
    PROVE  Inv'
<1>1. CASE /\ At("create") /\ Restore /\ Pop /\ UNCHANGED os
           /\ held' = (held \ {"attrs"}) \cup {"process", "thread"}
           /\ child' = [state |-> IF path = "appcontainer" THEN "suspended" ELSE "running",
                        cage |-> {"appcontainer"} \cup (held \cap {"desktop"}),
                        env |-> env]
  BY <1>1, CreatePops
<1>2. CASE /\ At("create") /\ Restore /\ Fail({"attrs"}) /\ UNCHANGED child
           /\ remove_loopback_exemption \/ (path = "appcontainer" /\ UNCHANGED sessions)
  BY <1>2, CreateFails DEF Fail, At
<1>3. CASE /\ At("create") /\ Restore /\ path = "appcontainer" /\ path' = "restricted"
           /\ todo' = Program["restricted"] /\ held' = held \ {"attrs", "profile"}
           /\ remove_loopback_exemption /\ UNCHANGED <<full, origin, last, launches, child>>
  BY <1>3, CreateFallsBack
<1> QED  BY <1>1, <1>2, <1>3 DEF CreateProcess

\* The suspended child, or an error.
LEMMA SpawnSuspendedKeeps ==
    ASSUME Inv, SpawnSuspended
    PROVE  Inv'
<1>1. CASE /\ At("spawn") /\ Pop /\ UNCHANGED <<environ, os>>
           /\ held' = (held \ {"token"}) \cup {"process", "thread"}
           /\ child' = [state |-> "suspended",
                        cage |-> IF "token" \in held THEN {"restricted"} ELSE {},
                        env |-> IF path = "restricted" THEN build_env_block ELSE env]
  BY <1>1, SpawnPops
<1>2. CASE /\ At("spawn") /\ Fail({"token"}) /\ UNCHANGED <<sessions, child>>
           /\ IF path = "devicemap" THEN Restore ELSE UNCHANGED environ
  BY <1>2, SpawnFails DEF Fail, At
<1> QED  BY <1>1, <1>2 DEF SpawnSuspended

\* The cage of the child, or an error.
LEMMA AssignKeeps ==
    ASSUME Inv, Assign
    PROVE  Inv'
<1>1. CASE /\ At("assign") /\ Pop /\ UNCHANGED <<environ, os>>
           /\ child' = [child EXCEPT !.cage =
                           @ \cup {IF path = "devicemap" THEN "device map" ELSE "job"}]
           /\ held' = held \ {"system"}
  BY <1>1, AssignPops
<1>2. CASE /\ At("assign") /\ Fail({"process", "thread", "system"}) /\ child' = Gone(child)
           /\ IF path = "devicemap" THEN Restore ELSE UNCHANGED environ
           /\ IF path = "appcontainer" THEN remove_loopback_exemption
                ELSE UNCHANGED sessions
  BY <1>2, AssignFails DEF Fail, At
<1> QED  BY <1>1, <1>2 DEF Assign

\* The child runs.
LEMMA ResumeKeeps ==
    ASSUME Inv, Resume
    PROVE  Inv'
BY ResumePops DEF Resume

\* The child ends.
LEMMA WaitForChildKeeps ==
    ASSUME Inv, WaitForChild
    PROVE  Inv'
BY WaitPops DEF WaitForChild

\* Handles and session.
LEMMA CloseKeeps ==
    ASSUME Inv, Close
    PROVE  Inv'
BY ClosePops DEF Close

\* The asynchronous launch, and the one that forgets the profile.
LEMMA DetachKeeps ==
    ASSUME Inv, Detach
    PROVE  Inv'
BY DetachPops, ForgetPops DEF Detach

\* Silos exist, or not.
LEMMA DetectKeeps ==
    ASSUME Inv, Detect
    PROVE  Inv'
<1>1. CASE At("detect") /\ Pop /\ UNCHANGED <<environ, held, os, child>>
  BY <1>1, DetectPops
<1>2. CASE /\ At("detect") /\ path' = "devicemap" /\ todo' = Program["devicemap"]
           /\ UNCHANGED <<full, origin, last, launches, environ, held, os, child>>
  BY <1>2, DetectFallsBack
<1> QED  BY <1>1, <1>2 DEF Detect

\* The privilege, or none.
LEMMA enable_privilegeKeeps ==
    ASSUME Inv, enable_privilege
    PROVE  Inv'
<1>1. CASE /\ At("privilege") /\ Pop /\ held' \in {held, held \cup {"system"}}
           /\ UNCHANGED <<environ, os, child>>
  BY <1>1, PrivilegePops
<1>2. CASE At("privilege") /\ FailOnly
  BY <1>2, FailsOnly DEF Failing
<1> QED  BY <1>1, <1>2 DEF enable_privilege

\* The silo accepts this, or is refused.
LEMMA SetSiloRootKeeps ==
    ASSUME Inv, SetSiloRoot
    PROVE  Inv'
<1>1. /\ At("root") /\ todo' \in {Tail(todo), <<"revert", "no root">>}
      /\ UNCHANGED <<path, full, environ, origin, held, os, child, last, launches>>
  BY Zenon DEF SetSiloRoot
<1>2. CASE todo' = Tail(todo)
  <2>1. Pop /\ UNCHANGED environ /\ UNCHANGED <<held, os, child>>
    BY <1>1, <1>2, Zenon DEF Pop
  <2> QED  BY <1>1, <2>1, RootPops
<1>3. CASE todo' = <<"revert", "no root">>
  <2>1. "root" \in {"root", "init"} /\ "no root" \in {"no root", "no init"}
    BY Zenon
  <2> QED  BY <1>1, <1>3, <2>1, Refuses, Zenon
<1> QED  BY <1>1, <1>2, <1>3, Zenon

\* The silo accepts this, or is refused.
LEMMA try_server_silo_initKeeps ==
    ASSUME Inv, try_server_silo_init
    PROVE  Inv'
<1>1. /\ At("init") /\ todo' \in {Tail(todo), <<"revert", "no init">>}
      /\ UNCHANGED <<path, full, environ, origin, held, os, child, last, launches>>
  BY Zenon DEF try_server_silo_init
<1>2. CASE todo' = Tail(todo)
  <2>1. Pop /\ UNCHANGED environ /\ UNCHANGED <<held, os, child>>
    BY <1>1, <1>2, Zenon DEF Pop
  <2> QED  BY <1>1, <2>1, InitPops
<1>3. CASE todo' = <<"revert", "no init">>
  <2>1. "init" \in {"root", "init"} /\ "no init" \in {"no root", "no init"}
    BY Zenon
  <2> QED  BY <1>1, <1>3, <2>1, Refuses, Zenon
<1> QED  BY <1>1, <1>2, <1>3, Zenon

\* The thread is itself again.
LEMMA revert_to_selfKeeps ==
    ASSUME Inv, revert_to_self
    PROVE  Inv'
BY RevertPops DEF revert_to_self

\* The device map instead, or the error.
LEMMA SiloRefusedKeeps ==
    ASSUME Inv, SiloRefused
    PROVE  Inv'
<1>1. CASE /\ At("no root") /\ Restore /\ path' = "devicemap"
                /\ todo' = Program["devicemap"]
           /\ held' = held \ {"silo"}
                /\ UNCHANGED <<full, origin, last, launches, os, child>>
  BY <1>1, NoRootFallsBack
<1>2. CASE At("no init") /\ FailOnly
  BY <1>2, FailsOnly DEF Failing
<1> QED  BY <1>1, <1>2 DEF SiloRefused

\* The device map, or an error.
LEMMA BuildDeviceMapKeeps ==
    ASSUME Inv, BuildDeviceMap
    PROVE  Inv'
<1>1. CASE At("map") /\ Pop /\ held' = held \cup {"map"} /\ UNCHANGED <<environ, os, child>>
  BY <1>1, MapPops
<1>2. CASE At("map") /\ Fail({}) /\ Restore /\ UNCHANGED <<sessions, child>>
  BY <1>2, MapFails DEF Fail, At
<1> QED  BY <1>1, <1>2 DEF BuildDeviceMap

\* The device map is psroot's own, or an error.
LEMMA SwapOwnMapKeeps ==
    ASSUME Inv, SwapOwnMap
    PROVE  Inv'
<1>1. CASE At("swap") /\ Pop /\ UNCHANGED <<environ, held, sessions, child>>
  BY <1>1, SwapPops
<1>2. CASE At("swap") /\ Fail({"system"}) /\ Restore /\ UNCHANGED <<sessions, child>>
  BY <1>2, SwapFails DEF Fail, At
<1> QED  BY <1>1, <1>2 DEF SwapOwnMap

\* The app's directory, or an error.
LEMMA prepare_rootfsKeeps ==
    ASSUME Inv, prepare_rootfs
    PROVE  Inv'
<1>1. CASE At("rootfs") /\ Pop /\ held' = held \cup {"rootfs"}
             /\ UNCHANGED <<environ, os, child>>
  BY <1>1, RootfsPops
<1>2. CASE /\ At("rootfs") /\ Leave(FALSE, "rootfs")
                /\ held' \in {held, held \cup {"rootfs"}}
           /\ UNCHANGED <<environ, os, child>>
  BY <1>2, RootfsFails DEF os
<1> QED  BY <1>1, <1>2 DEF prepare_rootfs

\* The app, or an error.
LEMMA spawn_processKeeps ==
    ASSUME Inv, spawn_process
    PROVE  Inv'
<1>1. CASE /\ At("launch") /\ Pop /\ UNCHANGED <<environ, os>>
           /\ held' = held \cup {"process", "thread"}
           /\ child' = [state |-> "running", cage |-> held \cap {"desktop"}, env |-> env]
  BY <1>1, LaunchPops
<1>2. CASE At("launch") /\ FailOnly
  BY <1>2, FailsOnly DEF Failing
<1> QED  BY <1>1, <1>2 DEF spawn_process

\* The app's directory.
LEMMA CleanupKeeps ==
    ASSUME Inv, Cleanup
    PROVE  Inv'
BY CleanupPops DEF Cleanup

\* Every step keeps the invariant.
LEMMA NextInv == Inv /\ [Next]_vars => Inv'
<1> SUFFICES ASSUME Inv, [Next]_vars PROVE Inv'
  OBVIOUS
<1> QED  BY QuietKeeps, CreateProfileKeeps, add_loopback_exemptionKeeps, AttributeListKeeps,
            CreateDesktopKeeps, ApplyEnvKeeps, CreateProcessKeeps,
            SpawnSuspendedKeeps, AssignKeeps, ResumeKeeps, RestoreKeeps,
            WaitForChildKeeps, CloseKeeps, DetachKeeps, create_restricted_tokenKeeps,
            DetectKeeps, SiloJobKeeps, enable_privilegeKeeps, SetSiloRootKeeps,
            try_server_silo_initKeeps, revert_to_selfKeeps, SiloRefusedKeeps,
            open_init_processKeeps, BuildDeviceMapKeeps, ImpersonateKeeps,
            SwapOwnMapKeeps, prepare_rootfsKeeps, spawn_processKeeps, CleanupKeeps,
            ReturnKeeps, StartKeeps, StutterKeeps, Zenon DEF Next

-----------------------------------------------------------------------------
(* What follows *)

\* The inductive invariant holds, for any environment, configuration and number of
\* launches.
THEOREM InvHolds == Spec => []Inv
BY InitInv, NextInv, PTL DEF Spec

\* The type invariant.
LEMMA InvTypes == Inv => TypeOK
BY DEF Inv, Types, TypeOK, Child, States, AllHeld

\* No program executes an instruction before its AppContainer or restricted token,
\* its desktop, its job and its device map are all there, whichever of the ten launch
\* functions of sandbox.rs and app_stage.rs started it and after whatever fallback;
\* OutsideJob and OutsideContainer name the functions without one of these layers.
THEOREM ProgramsCaged == Spec => []CagedBeforeRunning
<1>1. Inv => CagedBeforeRunning
  <2> SUFFICES ASSUME Inv PROVE CagedBeforeRunning
    OBVIOUS
  <2>1. TypeOK
    BY InvTypes
  <2>2. CASE path = "idle"
    BY <2>1, <2>2 DEF Inv, Idle, CagedBeforeRunning, Current
  <2>3. CASE path # "idle"
    BY <2>1, <2>3 DEF Inv, Busy, ChildOk, CagedBeforeRunning, Current
  <2> QED  BY <2>2, <2>3
<1> QED  BY <1>1, InvHolds, PTL

\* No child sees a host value of a sanitized variable or of one that the substring
\* tests of apply_sandbox_env detect, whichever values contain what they look for;
\* the app of psroot gui excepted.
THEOREM HostValuesHidden == Spec => []NoHostValueInChild
<1>1. Inv => NoHostValueInChild
  <2> SUFFICES ASSUME Inv PROVE NoHostValueInChild
    OBVIOUS
  <2>2. CASE path = "idle"
    BY <2>2 DEF Inv, Idle, NoHostValueInChild, Current
  <2>3. CASE path # "idle"
    BY <2>3 DEF Inv, Busy, ChildOk, NoHostValueInChild, Current
  <2> QED  BY <2>2, <2>3
<1> QED  BY <1>1, InvHolds, PTL

\* Every return but an error of the silo function leaves psroot's environment as it
\* was before the launch, for every variable that restore_env gets once.
THEOREM EnvironmentRestored == Spec => []EnvironmentBack
<1>1. Inv => EnvironmentBack
  BY DEF Inv, Idle, Back, Kept, EnvironmentBack
<1> QED  BY <1>1, InvHolds, PTL

\* Whichever call fails, a function that returns has given back every handle but
\* the ones Lost names, and an error leaves no process behind but a GUI program
\* whose SID cannot be printed.
THEOREM HandlesGivenBack == Spec => []NothingElseLost
<1>1. Inv => NothingElseLost
  BY DEF Inv, Idle, NothingElseLost
<1> QED  BY <1>1, InvHolds, PTL

-----------------------------------------------------------------------------
(* Sessions.  On top of the invariant: which of them a launch in progress may *)
(* have opened, and which one it leaves open.                               *)

\* The session of function f may be open at step s.
Live(f, s) ==
    /\ f \in Caged
    /\ \/ s \in {"attrs", "desktop", "env", "plan_env", "create", "wait", "close", "assign",
                 "resume", "forget", "detach"}
       \/ s = "sid" /\ f \in {"gui", "gui_async"}
       \/ s = "end" /\ f \in {"gui_async", "appcontainer"}

LiveName(f, s) == IF Live(f, s) THEN {SessionName(f)} ELSE {}

SessionsKnown ==
    /\ ~full => sessions = {}
    /\ path # "idle" => sessions \subseteq origin.sessions \cup LiveName(path, Pc(todo))
    /\ path = "idle" => sessions \subseteq origin.sessions \cup LeftOpen(last)

\* A session that is open stays open until "close".
LEMMA LiveMoves ==
    ASSUME NEW f \in DOMAIN Program, NEW s, NEW t, Follows(f, s, t),
           s # "end", s # "close" \/ f \in {"silo", "devicemap"}, Live(f, s)
    PROVE  Live(f, t)
<1>1. f \in {"interactive", "plan", "appcontainer", "gui", "gui_async", "gui_plan"}
  BY DEF Live, Caged, Gui
<1>2. CASE s \in {"attrs", "desktop", "env", "plan_env", "create"}
  BY <1>1, <1>2 DEF Follows, Live, Caged, Gui
<1>3. CASE s \in {"wait", "close", "assign", "resume", "forget", "detach"}
  BY <1>1, <1>3 DEF Follows, Live, Caged, Gui
<1>4. CASE s = "sid" /\ f \in {"gui", "gui_async"}
  BY <1>1, <1>4 DEF Follows, Live, Caged, Gui
<1> QED  BY <1>2, <1>3, <1>4 DEF Live

\* Where the launcher is at a step that no function takes twice.
LEMMA Where ==
    ASSUME Inv, NEW s, At(s), s # "impersonate"
    PROVE  /\ path \in DOMAIN Program /\ path # "idle" /\ Pc(todo) = s
           /\ Follows(path, s, Pc(Tail(todo)))
<1>1. path \in DOMAIN Program /\ path # "idle"
  BY Stepping
<1>2. Follows(path, Pc(todo), Pc(Tail(todo)))
  BY Stepping
<1>3. Pc(todo) = s
  BY Stepping
<1> QED  BY <1>1, <1>2, <1>3, Zenon

\* The function goes on with the sessions as they are.
LEMMA SessionsPass ==
    ASSUME Inv, SessionsKnown, NEW s, At(s), Pop, UNCHANGED sessions, s # "end",
           s # "close" \/ path \in {"silo", "devicemap"}
    PROVE  SessionsKnown'
<1>1. /\ path' = path /\ full' = full /\ todo' = Tail(todo) /\ origin' = origin
      /\ sessions' = sessions
  BY DEF Pop
<1>2. /\ path \in DOMAIN Program /\ path # "idle" /\ Follows(path, Pc(todo), Pc(Tail(todo)))
      /\ Pc(todo) # "close" \/ path \in {"silo", "devicemap"}
      /\ Pc(todo) # "end"
  BY Stepping
<1>3. Live(path, Pc(todo)) => Live(path, Pc(Tail(todo)))
  BY <1>2, LiveMoves
<1>4. LiveName(path, Pc(todo)) \subseteq LiveName(path, Pc(Tail(todo)))
  BY <1>3 DEF LiveName
<1>5. LiveName(path, Pc(todo))' = LiveName(path, Pc(Tail(todo)))
  BY <1>1 DEF LiveName, Live, SessionName, Pc
<1> QED  BY <1>1, <1>2, <1>4, <1>5 DEF SessionsKnown

\* The function returns an error and leaves the sessions as they are.
LEMMA SessionsLeft ==
    ASSUME Inv, SessionsKnown, NEW s, At(s), Leave(FALSE, s), UNCHANGED sessions,
           \/ s \in {"attrs", "desktop", "sid"}
           \/ s = "create" /\ path = "appcontainer"
           \/ s \notin {"impersonate", "env", "plan_env", "create", "wait", "close", "assign",
                        "resume", "forget", "detach", "end"}
           \/ s = "assign" /\ path # "appcontainer"
    PROVE  SessionsKnown'
<1>1. /\ path' = "idle" /\ full' = full /\ origin' = origin /\ sessions' = sessions
      /\ last' = [path |-> path, ok |-> FALSE, at |-> s]
  BY DEF Leave
<1>2. path \in DOMAIN Program /\ path # "idle" /\ Pc(todo) = s
      /\ Follows(path, s, Pc(Tail(todo)))
  BY Stepping
<1>3. last'.path = path /\ last'.ok = FALSE /\ last'.at = s
  BY <1>1
<1>4. Live(path, s) => \/ s \in {"attrs", "desktop"} /\ path # "app"
                       \/ s = "sid" /\ path \in {"gui", "gui_async"}
                       \/ s = "create" /\ path = "appcontainer"
  <2>1. CASE s = "assign" /\ path # "appcontainer"
    BY <1>2, <2>1 DEF Live, Follows, Caged, Gui
  <2>2. CASE ~(s = "assign" /\ path # "appcontainer")
    BY <2>2 DEF Live, Caged, Gui
  <2> QED  BY <2>1, <2>2
<1>5. LiveName(path, Pc(todo)) \subseteq LeftOpen(last)'
  BY <1>2, <1>3, <1>4 DEF LiveName, LeftOpen, SessionName
<1> QED  BY <1>1, <1>2, <1>5 DEF SessionsKnown

\* The session is ended: only the ones of before are left.
LEMMA SessionsRemoved ==
    ASSUME Inv, SessionsKnown, NEW s, At(s), remove_loopback_exemption
    PROVE  sessions' \subseteq origin.sessions /\ (~full => sessions' = {})
<1>1. path # "idle"
  BY Stepping
<1>2. full \in BOOLEAN /\ sessions' = IF full THEN sessions \ {SessionName(path)} ELSE sessions
  BY DEF remove_loopback_exemption, Inv, Types
<1>3. sessions \subseteq origin.sessions \cup {SessionName(path)}
  BY <1>1 DEF SessionsKnown, LiveName
<1> QED  BY <1>2, <1>3 DEF SessionsKnown

\* It is ended and the function goes on, returns or falls back.
LEMMA SessionsGone ==
    ASSUME Inv, SessionsKnown, NEW s, At(s), remove_loopback_exemption,
           full' = full, origin' = origin
    PROVE  SessionsKnown'
<1>1. sessions' \subseteq origin.sessions /\ (~full => sessions' = {})
  BY SessionsRemoved
<1> QED  BY <1>1 DEF SessionsKnown

\* A fallback of the silo.
LEMMA SessionsFallBack ==
    ASSUME Inv, SessionsKnown, NEW s, At(s), path = "silo", full' = full, origin' = origin,
           path' # "idle", sessions' = sessions
    PROVE  SessionsKnown'
<1>1. path # "idle" /\ LiveName(path, Pc(todo)) = {}
  BY DEF LiveName, Live, Caged, Gui
<1> QED  BY <1>1 DEF SessionsKnown

\* A step that fails with nothing to undo.
LEMMA SessionsFailOnly ==
    ASSUME Inv, SessionsKnown, NEW s \in Failing, At(s), FailOnly
    PROVE  SessionsKnown'
<1>1. Leave(FALSE, s) /\ UNCHANGED sessions
  BY DEF FailOnly, Fail, At
<1>2. \/ s \in {"attrs", "desktop", "sid"}
      \/ s \notin {"impersonate", "env", "plan_env", "create", "wait", "close", "assign",
                   "resume", "forget", "detach", "end"}
  BY DEF Failing
<1> QED  BY <1>1, <1>2, SessionsLeft

\* Steps that try something.
LEMMA SessionsAttempt ==
    ASSUME Inv, SessionsKnown, NEW s \in Failing,
           Attempt(s) \/ (\E what : Acquire(s, what))
    PROVE  SessionsKnown'
<1>1. At(s) /\ (FailOnly \/ (Pop /\ UNCHANGED sessions))
  BY DEF Attempt, Acquire, os
<1>2. CASE FailOnly
  BY <1>1, <1>2, SessionsFailOnly
<1>3. CASE Pop /\ UNCHANGED sessions
  <2>1. s # "close" /\ s # "end"
    BY DEF Failing
  <2> QED  BY <1>1, <1>3, <2>1, SessionsPass
<1> QED  BY <1>1, <1>2, <1>3

\* Every step keeps it.
LEMMA SessionsNext == Inv /\ SessionsKnown /\ [Next]_vars => SessionsKnown'
<1> SUFFICES ASSUME Inv, SessionsKnown, [Next]_vars PROVE SessionsKnown'
  OBVIOUS
<1>1. ASSUME NEW f \in DOMAIN Program, Start(f) PROVE SessionsKnown'
  <2>1. /\ sessions' = sessions /\ origin' = [env |-> env, sessions |-> sessions]
        /\ full' = full
    BY <1>1 DEF Start, os
  <2>2. path' # "idle"
    BY <1>1, Programs DEF Start
  <2>3. origin'.sessions = sessions
    BY <2>1
  <2> QED  BY <2>1, <2>2, <2>3 DEF SessionsKnown
<1>2. CASE \/ appcontainer_available \/ grant_appcontainer_access \/ sid_to_string
           \/ build_network_capabilities \/ apply_plan \/ materialize_psh_via_hardlinks
           \/ SiloNamespace \/ stage_app
  <2>1. PICK s \in Failing : Attempt(s)
    BY <1>2, Zenon DEF appcontainer_available, grant_appcontainer_access, sid_to_string,
       build_network_capabilities, apply_plan, materialize_psh_via_hardlinks, SiloNamespace,
       stage_app, Failing
  <2> QED  BY <2>1, SessionsAttempt
<1>3. CASE AttributeList \/ create_restricted_token \/ SiloJob \/ open_init_process
  <2>1. PICK s \in Failing : \E what : Acquire(s, what)
    BY <1>3, Zenon DEF AttributeList, create_restricted_token, SiloJob, open_init_process, Failing
  <2> QED  BY <2>1, SessionsAttempt
<1>4. CASE GrantVolumes \/ create_volume_guid_junction \/ ApplyEnv \/ Resume \/ RestoreStep
           \/ WaitForChild \/ Detach \/ revert_to_self \/ impersonate_system_token \/ Cleanup
  <2>1. PICK s : At(s) /\ s # "close" /\ s # "end"
    BY <1>4 DEF GrantVolumes, create_volume_guid_junction, ApplyEnv, Resume, RestoreStep,
       WaitForChild, Detach, revert_to_self, impersonate_system_token, Cleanup
  <2>2. Pop /\ UNCHANGED sessions
    BY <1>4 DEF GrantVolumes, create_volume_guid_junction, ApplyEnv, Resume, RestoreStep,
       WaitForChild, Detach, revert_to_self, impersonate_system_token, Cleanup, os
  <2> QED  BY <2>1, <2>2, SessionsPass
<1>5. CASE CreateProfile
  <2>1. At("profile") /\ UNCHANGED sessions /\ (Pop \/ Leave(FALSE, "profile"))
    BY <1>5 DEF CreateProfile
  <2> QED  BY <2>1, SessionsPass, SessionsLeft
<1>6. CASE add_loopback_exemption
  <2>1. At("exempt") /\ Pop /\ full \in BOOLEAN
    BY <1>6 DEF add_loopback_exemption, Inv, Types
  <2>2. /\ path' = path /\ full' = full /\ todo' = Tail(todo) /\ origin' = origin
    BY <2>1 DEF Pop
  <2>3. path # "idle" /\ Follows(path, "exempt", Pc(Tail(todo))) /\ Pc(todo) = "exempt"
    <3>1. "exempt" # "impersonate"
      OBVIOUS
    <3> QED  BY <2>1, <3>1, Where, Zenon
  <2>4. Pc(Tail(todo)) = "attrs" /\ path \in Caged
    BY <2>3 DEF Follows
  <2>5. LiveName(path, Pc(todo))' = {SessionName(path)}
    BY <2>2, <2>4 DEF LiveName, Live, SessionName, Pc
  <2>6. sessions \subseteq origin.sessions \cup {SessionName(path)}
    BY <2>3 DEF SessionsKnown, LiveName
  <2>7. /\ sessions' \subseteq sessions \cup {SessionName(path)}
        /\ ~full => sessions' = sessions
    BY <1>6, <2>1 DEF add_loopback_exemption
  <2> QED  BY <2>2, <2>3, <2>5, <2>6, <2>7 DEF SessionsKnown
<1>7. CASE CreateDesktop
  <2>1. At("desktop") /\ UNCHANGED sessions /\ (Pop \/ Leave(FALSE, "desktop"))
    BY <1>7 DEF CreateDesktop, FailOnly, Fail, At, os
  <2> QED  BY <2>1, SessionsPass, SessionsLeft
<1>8. CASE CreateProcess
  <2>1. At("create") /\ \/ Pop /\ UNCHANGED sessions
                        \/ remove_loopback_exemption /\ full' = full /\ origin' = origin
                        \/ path = "appcontainer" /\ Leave(FALSE, "create") /\ UNCHANGED sessions
    BY <1>8 DEF CreateProcess, Fail, Leave, At, os
  <2> QED  BY <2>1, SessionsPass, SessionsLeft, SessionsGone
<1>9. CASE SpawnSuspended
  <2>1. At("spawn") /\ UNCHANGED sessions /\ (Pop \/ Leave(FALSE, "spawn"))
    BY <1>9 DEF SpawnSuspended, Fail, At, os
  <2> QED  BY <2>1, SessionsPass, SessionsLeft
<1>10. CASE Assign
  <2>1. At("assign") /\ \/ Pop /\ UNCHANGED sessions
                        \/ remove_loopback_exemption /\ full' = full /\ origin' = origin
                        \/ path # "appcontainer" /\ Leave(FALSE, "assign") /\ UNCHANGED sessions
    BY <1>10 DEF Assign, Fail, Leave, At, os
  <2> QED  BY <2>1, SessionsPass, SessionsLeft, SessionsGone
<1>11. CASE Close
  <2>1. At("close") /\ Pop
        /\ \/ path \in {"silo", "devicemap"} /\ UNCHANGED sessions
           \/ remove_loopback_exemption
    BY <1>11 DEF Close
  <2>2. full' = full /\ origin' = origin
    BY <2>1 DEF Pop
  <2> QED  BY <2>1, <2>2, SessionsPass, SessionsGone
<1>12. CASE Detect
  <2>1. At("detect") /\ sessions' = sessions
        /\ \/ Pop
           \/ full' = full /\ origin' = origin /\ path' # "idle"
    BY <1>12 DEF Detect, os
  <2>2. path = "silo"
    <3>1. "detect" # "impersonate"
      OBVIOUS
    <3>2. Follows(path, "detect", Pc(Tail(todo)))
      BY <2>1, <3>1, Where, Zenon
    <3> QED  BY <3>2 DEF Follows
  <2> QED  BY <2>1, <2>2, SessionsPass, SessionsFallBack
<1>13. CASE enable_privilege
  <2>1. At("privilege") /\ (FailOnly \/ (Pop /\ UNCHANGED sessions))
    BY <1>13 DEF enable_privilege, os
  <2> QED  BY <2>1, SessionsPass, SessionsFailOnly DEF Failing
<1>14. CASE SetSiloRoot \/ try_server_silo_init
  <2>1. /\ At("root") \/ At("init")
        /\ sessions' = sessions /\ full' = full /\ origin' = origin /\ path' = path
    BY <1>14 DEF SetSiloRoot, try_server_silo_init, os
  <2>2. path = "silo"
    <3>1. "root" # "impersonate" /\ "init" # "impersonate"
      OBVIOUS
    <3>2. \/ Follows(path, "root", Pc(Tail(todo)))
          \/ Follows(path, "init", Pc(Tail(todo)))
      BY <2>1, <3>1, Where, Zenon
    <3> QED  BY <3>2 DEF Follows
  <2> QED  BY <2>1, <2>2, SessionsFallBack
<1>15. CASE SiloRefused
  <2>1. \/ At("no init") /\ FailOnly
        \/ /\ At("no root") /\ sessions' = sessions /\ full' = full /\ origin' = origin
           /\ path' # "idle"
    BY <1>15 DEF SiloRefused, os
  <2>2. At("no root") => path = "silo"
    <3>1. "no root" # "impersonate"
      OBVIOUS
    <3>2. At("no root") => Follows(path, "no root", Pc(Tail(todo)))
      BY <3>1, Where, Zenon
    <3> QED  BY <3>2 DEF Follows
  <2> QED  BY <2>1, <2>2, SessionsFallBack, SessionsFailOnly DEF Failing
<1>16. CASE BuildDeviceMap
  <2>1. At("map") /\ UNCHANGED sessions /\ (Pop \/ Leave(FALSE, "map"))
    BY <1>16 DEF BuildDeviceMap, Fail, At, os
  <2> QED  BY <2>1, SessionsPass, SessionsLeft
<1>17. CASE SwapOwnMap
  <2>1. At("swap") /\ UNCHANGED sessions /\ (Pop \/ Leave(FALSE, "swap"))
    BY <1>17 DEF SwapOwnMap, Fail, At
  <2> QED  BY <2>1, SessionsPass, SessionsLeft
<1>18. CASE prepare_rootfs
  <2>1. At("rootfs") /\ UNCHANGED sessions /\ (Pop \/ Leave(FALSE, "rootfs"))
    BY <1>18 DEF prepare_rootfs, os
  <2> QED  BY <2>1, SessionsPass, SessionsLeft
<1>19. CASE spawn_process
  <2>1. At("launch") /\ (FailOnly \/ (Pop /\ UNCHANGED sessions))
    BY <1>19 DEF spawn_process, os
  <2> QED  BY <2>1, SessionsPass, SessionsFailOnly DEF Failing
<1>20. CASE Return
  <2>1. /\ path # "idle" /\ todo = <<>> /\ path' = "idle" /\ full' = full
        /\ origin' = origin /\ sessions' = sessions
        /\ last' = [path |-> path, ok |-> TRUE, at |-> "end"]
    BY <1>20 DEF Return, Leave
  <2>2. Pc(todo) = "end" /\ last'.path = path /\ last'.ok = TRUE
    BY <2>1 DEF Pc
  <2>3. LiveName(path, "end") \subseteq LeftOpen(last)'
    BY <2>2 DEF LiveName, Live, LeftOpen, SessionName
  <2> QED  BY <2>1, <2>2, <2>3 DEF SessionsKnown
<1>21. CASE UNCHANGED vars
  <2>1. /\ path' = path /\ todo' = todo /\ full' = full /\ origin' = origin
        /\ sessions' = sessions /\ last' = last
    BY <1>21 DEF vars
  <2>2. LiveName(path, Pc(todo))' = LiveName(path, Pc(todo)) /\ LeftOpen(last)' = LeftOpen(last)
    BY <2>1 DEF LiveName, Live, SessionName, Pc, LeftOpen
  <2> QED  BY <2>1, <2>2 DEF SessionsKnown
<1> QED  BY <1>1, <1>2, <1>3, <1>4, <1>5, <1>6, <1>7, <1>8, <1>9, <1>10, <1>11, <1>12,
            <1>13, <1>14, <1>15, <1>16, <1>17, <1>18, <1>19, <1>20, <1>21, Zenon DEF Next

\* A function that has returned, whichever call failed, leaves no loopback session
\* open that was not open before, but in the endings LeftOpen names; one that waited
\* for its program, or could not create it, also ends the session of its name that
\* an earlier launch left (add_ and remove_loopback_exemption).
THEOREM SessionsEnd == Spec => []SessionOver
<1>1. Init => SessionsKnown
  <2> SUFFICES ASSUME Init PROVE SessionsKnown
    OBVIOUS
  <2> QED  BY DEF Init, SessionsKnown
<1>2. Inv /\ SessionsKnown => SessionOver
  BY DEF Inv, Idle, SessionEnded, SessionsKnown, SessionOver
<1> QED  BY <1>1, <1>2, InvHolds, SessionsNext, PTL DEF Spec
=============================================================================
