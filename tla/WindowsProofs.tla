--------------------------- MODULE WindowsProofs ---------------------------
(***************************************************************************)
(* What Windows containers keep, for any number of psroot processes,       *)
(* containers, commands and faults: a program never outlives its cage, a   *)
(* bind link outlives only a killed process, a running program's volume is *)
(* mounted, a container removed in peace leaves no grant, and one at rest  *)
(* can be loaded and does not say that it runs.                            *)
(*                                                                         *)
(* Most of the invariant is local to a process: what its object holds is   *)
(* determined by the step it is at.                                        *)
(***************************************************************************)
EXTENDS WindowsContainer, SequenceTheorems, TLAPS

-----------------------------------------------------------------------------
(* The sequences of steps and calls that occur *)

Closing == {<<"kill", "unlink", "unpublish", "unnet", "truncate", "write">>,
            <<"unlink", "unpublish", "unnet", "truncate", "write">>,
            <<"unpublish", "unnet", "truncate", "write">>,
            <<"unnet", "truncate", "write">>,
            <<"kill", "unlink", "unpublish", "unnet", "truncate", "write", "drop">>,
            <<"unlink", "unpublish", "unnet", "truncate", "write", "drop">>,
            <<"unpublish", "unnet", "truncate", "write", "drop">>,
            <<"unnet", "truncate", "write", "drop">>,
            <<"truncate", "write", "drop">>, <<"write", "drop">>}

Starting == {<<"publish", "cage", "links", "netstack", "spawn", "inject", "keep", "truncate", "write">>,
             <<"cage", "links", "netstack", "spawn", "inject", "keep", "truncate", "write">>,
             <<"links", "netstack", "spawn", "inject", "keep", "truncate", "write">>,
             <<"netstack", "spawn", "inject", "keep", "truncate", "write">>,
             <<"spawn", "inject", "keep", "truncate", "write">>,
             <<"inject", "keep", "truncate", "write">>,
             <<"keep", "truncate", "write">>}

Others == {<<>>, <<"mkdir", "rootfs", "truncate", "write">>, <<"rootfs", "truncate", "write">>,
           <<"truncate", "write">>, <<"write">>,
           <<"revoke", "delete">>, <<"delete">>,
           <<"stage", "wait", "record", "write">>,
           <<"wait", "record", "write">>, <<"record", "write">>,
           <<"wait">>, <<"load">>, <<"exec">>, <<"ports">>, <<"teardown">>, <<"resolve">>,
           <<"exit">>, <<"drop">>}

\* The end of a process that had a container to stop.
DropSeqs == {<<"truncate", "write", "drop">>, <<"write", "drop">>, <<"drop">>}

\* The course of a shell.
ShellSeqs == {<<"stage", "wait", "record", "write">>, <<"wait", "record", "write">>,
              <<"record", "write">>}

StepSeqs == Closing \cup Starting \cup Others

CallSeqs ==
    {<<>>, <<"exit">>, <<"create", "exit">>, <<"load", "start", "exit">>, <<"start", "exit">>,
     <<"create", "start", "exit">>, <<"load", "exec", "exit">>, <<"exec", "exit">>,
     <<"load", "stop", "exit">>, <<"stop", "exit">>, <<"load", "remove", "exit">>,
     <<"remove", "exit">>, <<"create", "ports", "shell", "teardown", "remove", "exit">>,
     <<"ports", "shell", "teardown", "remove", "exit">>,
     <<"shell", "teardown", "remove", "exit">>, <<"teardown", "remove", "exit">>,
     <<"create", "resolve", "shell_with_plan", "remove", "exit">>,
     <<"resolve", "shell_with_plan", "remove", "exit">>,
     <<"shell_with_plan", "remove", "exit">>,
     <<"create", "start", "start", "exec", "stop", "remove", "exit">>,
     <<"start", "start", "exec", "stop", "remove", "exit">>,
     <<"start", "exec", "stop", "remove", "exit">>, <<"exec", "stop", "remove", "exit">>,
     <<"stop", "remove", "exit">>}

Process == [calls : CallSeqs, steps : StepSeqs, lib : BOOLEAN, filter : BOOLEAN,
            c : Containers \cup {None}, mem : Status \cup {None}, rt : SUBSET Runtime,
            loc : SUBSET Runtime, sid : Sids \cup {None}, out : State \cup {None}]

\* The step, and the call, a process comes to next.
First(s) == IF s = <<>> THEN "none" ELSE Head(s)
Pc(r) == First(r.steps)

-----------------------------------------------------------------------------
(* The invariant *)

Caging == {"links", "netstack", "spawn", "inject", "keep"}
Linked == {"netstack", "spawn", "inject", "keep"}
StartPcs == {"publish", "cage"} \cup Caging
StopPcs == {"unlink", "unpublish", "unnet"}
Opening == {"create", "load"}

\* Where a process is and what its object and its call hold.
CageOk(r) ==
    /\ r.loc \subseteq {"cage", "netstack"}
    /\ r.loc # {} => Pc(r) \in Caging
    /\ Pc(r) \in Caging => "cage" \in r.loc
    /\ r.filter /\ Pc(r) \in Linked => "links" \in r.rt
    /\ Pc(r) \in StartPcs => r.mem = "created"
    /\ Pc(r) = "exec" => r.mem = "running"
    /\ Pc(r) \in StopPcs => "cage" \notin r.rt
    /\ r.mem = "running" => "cage" \in r.rt \/ Pc(r) \in StopPcs
    /\ "cage" \in r.rt => r.mem = "running" /\ (r.filter => "links" \in r.rt)

\* An object exists once create or load has returned it.
ObjectOk(r) ==
    /\ r.c = None => r = Unused
    /\ Pc(r) \in {"mkdir", "rootfs", "load"} => r.mem = None
    /\ First(r.calls) \in Opening => r.mem = None /\ r.steps = <<>>
    /\ r.mem = None =>
          /\ r.rt = {} /\ r.loc = {}
          /\ Pc(r) \in {"mkdir", "rootfs", "load", "exit"}
                \/ (Pc(r) = "none" /\ First(r.calls) \in Opening \cup {"exit", "none"})

\* remove is the last call, and a container with a shell is never running.
ShellOk(r) ==
    /\ Pc(r) \in {"revoke", "delete"} => r.calls = <<"exit">>
    /\ r.steps \in ShellSeqs => r.calls = <<"remove", "exit">> /\ r.mem # "running"
    /\ Pc(r) \in StartPcs => First(r.calls) \notin {"resolve", "shell_with_plan"}
    /\ First(r.calls) \in {"resolve", "shell_with_plan"} => r.mem # "running"

\* What it writes to state.json says that the container runs only if it does, or
\* if the process is about to remove it.  Drop has stopped it.
WriteOk(r) ==
    /\ Pc(r) = "write" =>
          /\ r.out \in State
          /\ r.out.status = "running" =>
                r.mem = "running" \/ (r.steps = <<"write">> /\ r.calls = <<"remove", "exit">>)
    /\ r.steps \in DropSeqs => r.mem # "running"

Local(r) == r \in Process /\ CageOk(r) /\ ObjectOk(r) /\ ShellOk(r) /\ WriteOk(r)

\* A process past the check of start, or with anything of what start makes.
Started(r) == Pc(r) \in StartPcs \/ r.rt \cap {"links", "cage"} # {} \/ r.mem = "running"

RunningOk ==
    \A c \in Containers : \A p \in running[c] :
        /\ proc[p].c = c
        /\ "cage" \in proc[p].rt \/ Pc(proc[p]) \in {"inject", "keep"}

StartsOk ==
    \A c \in Containers :
        /\ starts[c] = 0 => \A p \in Procs : proc[p].c = c => ~Started(proc[p])
        /\ starts[c] = 1 =>
              /\ \A p, q \in Procs : proc[p].c = c /\ proc[q].c = c
                                     /\ Started(proc[p]) /\ Started(proc[q]) => p = q
              /\ \A p \in Procs : proc[p].c = c =>
                    /\ Pc(proc[p]) \in {"publish", "cage", "links"} => "links" \notin proc[p].rt
                    /\ "links" \in proc[p].rt => linked[c]

\* A bind link that no killed process left is held by the object of a living one.
LinkOk ==
    \A c \in Containers :
        linked[c] /\ c \notin killed => \E p \in Procs : proc[p].c = c /\ "links" \in proc[p].rt

\* The process will write state.json again, or remove the container.
Settles(r) ==
    \/ r.mem = "running"
    \/ Pc(r) = "truncate"
    \/ /\ r.mem \in {"created", "stopped"}
       /\ (r.steps = <<>> /\ r.calls = <<"remove", "exit">>) \/ Pc(r) \in {"revoke", "delete"}

Up(f) == f \in State /\ f.status = "running"

FileOk ==
    \A c \in Containers :
        /\ file[c] # None => dir[c] = "there"
        /\ faults = 0 /\ file[c] = Torn =>
              \E p \in Procs : proc[p].c = c /\ Pc(proc[p]) = "write"
        /\ faults = 0 /\ file[c] = None /\ dir[c] = "there" =>
              \E p \in Procs : proc[p].c = c /\ Pc(proc[p]) \in {"rootfs", "truncate"}
        /\ faults = 0 /\ Up(file[c]) => \E p \in Procs : proc[p].c = c /\ Settles(proc[p])

\* The process will revoke the grant of the container's own SID: it has still to
\* record it, or the file f has it and remove comes next.
Owes(r, f) ==
    /\ r.mem \in {"created", "stopped"}
    /\ \/ /\ r.calls = <<"remove", "exit">>
          /\ \/ /\ r.sid = "container"
                /\ r.steps \in {<<"wait", "record", "write">>, <<"record", "write">>}
             \/ r.out \in State /\ "container" \in r.out.aces /\ r.steps = <<"write">>
             \/ f \in State /\ "container" \in f.aces /\ r.steps = <<>>
       \/ /\ r.calls = <<"exit">> /\ r.steps = <<"revoke", "delete">>
          /\ f \in State /\ "container" \in f.aces

\* As long as a container has known one command only, which met no error.
CalmOk ==
    \A c \in Containers : calm[c] =>
        /\ \A p, q \in Procs : proc[p].c = c /\ proc[q].c = c => p = q
        /\ \A p \in Procs : proc[p].c = c =>
              /\ Pc(proc[p]) = "rootfs" => dir[c] = "there"
              /\ proc[p].mem # None /\ First(proc[p].calls) \notin {"none", "exit"} =>
                    /\ dir[c] = "there"
                    /\ Pc(proc[p]) \in {"truncate", "write"} \/ file[c] \in State
        /\ "container" \in grants[c] =>
              /\ dir[c] = "there"
              /\ \E p \in Procs : proc[p].c = c /\ Owes(proc[p], file[c])

TypesOk ==
    /\ proc \in [Procs -> Process]
    /\ dir \in [Containers -> {"new", "there", "gone"}]
    /\ file \in [Containers -> State \cup {None, Torn}]
    /\ port \in [Containers -> SUBSET Procs]
    /\ linked \in [Containers -> BOOLEAN]
    /\ running \in [Containers -> SUBSET Procs]
    /\ grants \in [Containers -> SUBSET Sids]
    /\ starts \in [Containers -> Nat]
    /\ calm \in [Containers -> BOOLEAN]
    /\ commands \in Nat
    /\ faults \in 0 .. MaxFaults

Inv ==
    /\ TypesOk
    /\ \A p \in Procs : Local(proc[p])
    /\ RunningOk /\ LinkOk /\ StartsOk /\ FileOk /\ CalmOk

-----------------------------------------------------------------------------
(* Facts about the sequences *)

\* The step after a step.
Follows(a, b) ==
    /\ a = "mkdir" => b = "rootfs"
    /\ a = "rootfs" => b = "truncate"
    /\ a = "truncate" => b = "write"
    /\ a = "write" => b \in {"none", "drop"}
    /\ a = "publish" => b = "cage"
    /\ a = "cage" => b = "links"
    /\ a = "links" => b = "netstack"
    /\ a = "netstack" => b = "spawn"
    /\ a = "spawn" => b = "inject"
    /\ a = "inject" => b = "keep"
    /\ a = "keep" => b = "truncate"
    /\ a = "kill" => b = "unlink"
    /\ a = "unlink" => b = "unpublish"
    /\ a = "unpublish" => b = "unnet"
    /\ a = "unnet" => b = "truncate"
    /\ a = "revoke" => b = "delete"
    /\ a = "stage" => b = "wait"
    /\ a = "wait" => b \in {"none", "record"}
    /\ a = "record" => b = "write"
    /\ a \in {"delete", "load", "exec", "ports", "teardown", "resolve", "exit", "drop"} =>
          b = "none"

\* What the first step says of a sequence.
Shape(s) ==
    /\ First(s) = "truncate" => s \in {<<"truncate", "write">>, <<"truncate", "write", "drop">>}
    /\ First(s) = "stage" => s = <<"stage", "wait", "record", "write">>
    /\ First(s) = "wait" => s \in {<<"wait">>, <<"wait", "record", "write">>}
    /\ First(s) = "record" => s = <<"record", "write">>
    /\ First(s) = "drop" => s = <<"drop">>
    /\ Tail(s) \in DropSeqs => First(s) = "unnet" \/ s \in DropSeqs

\* A sequence of steps goes on with a sequence of steps.
LEMMA StepFacts ==
    ASSUME NEW s \in StepSeqs, s # <<>>
    PROVE  /\ Tail(s) \in StepSeqs
           /\ First(s) = Head(s)
           /\ Follows(First(s), First(Tail(s)))
           /\ Shape(s)
  <1>1. CASE s = <<"kill", "unlink", "unpublish", "unnet", "truncate", "write">>
    BY <1>1 DEF StepSeqs, Closing, Others, Follows, First, Shape, DropSeqs
  <1>2. CASE s = <<"unlink", "unpublish", "unnet", "truncate", "write">>
    BY <1>2 DEF StepSeqs, Closing, Others, Follows, First, Shape, DropSeqs
  <1>3. CASE s = <<"unpublish", "unnet", "truncate", "write">>
    BY <1>3 DEF StepSeqs, Closing, Others, Follows, First, Shape, DropSeqs
  <1>4. CASE s = <<"unnet", "truncate", "write">>
    BY <1>4 DEF StepSeqs, Closing, Others, Follows, First, Shape, DropSeqs
  <1>5. CASE s = <<"kill", "unlink", "unpublish", "unnet", "truncate", "write", "drop">>
    BY <1>5 DEF StepSeqs, Closing, Others, Follows, First, Shape, DropSeqs
  <1>6. CASE s = <<"unlink", "unpublish", "unnet", "truncate", "write", "drop">>
    BY <1>6 DEF StepSeqs, Closing, Others, Follows, First, Shape, DropSeqs
  <1>7. CASE s = <<"unpublish", "unnet", "truncate", "write", "drop">>
    BY <1>7 DEF StepSeqs, Closing, Others, Follows, First, Shape, DropSeqs
  <1>8. CASE s = <<"unnet", "truncate", "write", "drop">>
    BY <1>8 DEF StepSeqs, Closing, Others, Follows, First, Shape, DropSeqs
  <1>9. CASE s = <<"truncate", "write", "drop">>
    BY <1>9 DEF StepSeqs, Closing, Others, Follows, First, Shape, DropSeqs
  <1>10. CASE s = <<"write", "drop">>
    BY <1>10 DEF StepSeqs, Closing, Others, Follows, First, Shape, DropSeqs
  <1>11. CASE s = <<"publish", "cage", "links", "netstack", "spawn", "inject", "keep", "truncate", "write">>
    BY <1>11 DEF StepSeqs, Starting, Others, Follows, First, Shape, DropSeqs
  <1>12. CASE s = <<"cage", "links", "netstack", "spawn", "inject", "keep", "truncate", "write">>
    BY <1>12 DEF StepSeqs, Starting, Others, Follows, First, Shape, DropSeqs
  <1>13. CASE s = <<"links", "netstack", "spawn", "inject", "keep", "truncate", "write">>
    BY <1>13 DEF StepSeqs, Starting, Others, Follows, First, Shape, DropSeqs
  <1>14. CASE s = <<"netstack", "spawn", "inject", "keep", "truncate", "write">>
    BY <1>14 DEF StepSeqs, Starting, Others, Follows, First, Shape, DropSeqs
  <1>15. CASE s = <<"spawn", "inject", "keep", "truncate", "write">>
    BY <1>15 DEF StepSeqs, Starting, Others, Follows, First, Shape, DropSeqs
  <1>16. CASE s = <<"inject", "keep", "truncate", "write">>
    BY <1>16 DEF StepSeqs, Starting, Others, Follows, First, Shape, DropSeqs
  <1>17. CASE s = <<"keep", "truncate", "write">>
    BY <1>17 DEF StepSeqs, Starting, Others, Follows, First, Shape, DropSeqs
  <1>18. CASE s = <<"mkdir", "rootfs", "truncate", "write">>
    BY <1>18 DEF StepSeqs, Others, Follows, First, Shape, DropSeqs
  <1>19. CASE s = <<"rootfs", "truncate", "write">>
    BY <1>19 DEF StepSeqs, Others, Follows, First, Shape, DropSeqs
  <1>20. CASE s = <<"truncate", "write">>
    BY <1>20 DEF StepSeqs, Others, Follows, First, Shape, DropSeqs
  <1>21. CASE s = <<"write">>
    BY <1>21 DEF StepSeqs, Others, Follows, First, Shape, DropSeqs
  <1>22. CASE s = <<"revoke", "delete">>
    BY <1>22 DEF StepSeqs, Others, Follows, First, Shape, DropSeqs
  <1>23. CASE s = <<"delete">>
    BY <1>23 DEF StepSeqs, Others, Follows, First, Shape, DropSeqs
  <1>24. CASE s = <<"stage", "wait", "record", "write">>
    BY <1>24 DEF StepSeqs, Others, Follows, First, Shape, DropSeqs
  <1>25. CASE s = <<"wait", "record", "write">>
    BY <1>25 DEF StepSeqs, Others, Follows, First, Shape, DropSeqs
  <1>26. CASE s = <<"record", "write">>
    BY <1>26 DEF StepSeqs, Others, Follows, First, Shape, DropSeqs
  <1>27. CASE s = <<"wait">>
    BY <1>27 DEF StepSeqs, Others, Follows, First, Shape, DropSeqs
  <1>28. CASE s = <<"load">>
    BY <1>28 DEF StepSeqs, Others, Follows, First, Shape, DropSeqs
  <1>29. CASE s = <<"exec">>
    BY <1>29 DEF StepSeqs, Others, Follows, First, Shape, DropSeqs
  <1>30. CASE s = <<"ports">>
    BY <1>30 DEF StepSeqs, Others, Follows, First, Shape, DropSeqs
  <1>31. CASE s = <<"teardown">>
    BY <1>31 DEF StepSeqs, Others, Follows, First, Shape, DropSeqs
  <1>32. CASE s = <<"resolve">>
    BY <1>32 DEF StepSeqs, Others, Follows, First, Shape, DropSeqs
  <1>33. CASE s = <<"exit">>
    BY <1>33 DEF StepSeqs, Others, Follows, First, Shape, DropSeqs
  <1>34. CASE s = <<"drop">>
    BY <1>34 DEF StepSeqs, Others, Follows, First, Shape, DropSeqs
  <1> QED
    BY <1>1, <1>2, <1>3, <1>4, <1>5, <1>6, <1>7, <1>8, <1>9, <1>10, <1>11,
       <1>12, <1>13, <1>14, <1>15, <1>16, <1>17, <1>18, <1>19, <1>20, <1>21,
       <1>22, <1>23, <1>24, <1>25, <1>26, <1>27, <1>28, <1>29, <1>30, <1>31,
       <1>32, <1>33, <1>34 DEF StepSeqs, Closing, Starting, Others

\* A sequence of calls goes on with a sequence of calls, remove comes last.
LEMMA CallFacts ==
    ASSUME NEW s \in CallSeqs, s # <<>>
    PROVE  /\ Tail(s) \in CallSeqs
           /\ First(s) = Head(s)
           /\ First(Tail(s)) \notin Opening
           /\ Head(s) = "remove" => Tail(s) = <<"exit">>
           /\ Head(s) = "exit" => Tail(s) = <<>>
           /\ First(Tail(s)) = "resolve" => Head(s) = "create"
           /\ First(Tail(s)) = "shell_with_plan" => Head(s) = "resolve"
           /\ Head(s) = "shell_with_plan" => Tail(s) = <<"remove", "exit">>
           /\ Head(s) = "start" => First(Tail(s)) \notin {"resolve", "shell_with_plan"}
           /\ Head(s) \in {"create", "load", "start", "exec", "stop", "remove", "ports", "shell",
                           "teardown", "resolve", "shell_with_plan", "exit"}
  <1>1. CASE s = <<"exit">>
    BY <1>1 DEF CallSeqs, First, Opening
  <1>2. CASE s = <<"create", "exit">>
    BY <1>2 DEF CallSeqs, First, Opening
  <1>3. CASE s = <<"load", "start", "exit">>
    BY <1>3 DEF CallSeqs, First, Opening
  <1>4. CASE s = <<"start", "exit">>
    BY <1>4 DEF CallSeqs, First, Opening
  <1>5. CASE s = <<"create", "start", "exit">>
    BY <1>5 DEF CallSeqs, First, Opening
  <1>6. CASE s = <<"load", "exec", "exit">>
    BY <1>6 DEF CallSeqs, First, Opening
  <1>7. CASE s = <<"exec", "exit">>
    BY <1>7 DEF CallSeqs, First, Opening
  <1>8. CASE s = <<"load", "stop", "exit">>
    BY <1>8 DEF CallSeqs, First, Opening
  <1>9. CASE s = <<"stop", "exit">>
    BY <1>9 DEF CallSeqs, First, Opening
  <1>10. CASE s = <<"load", "remove", "exit">>
    BY <1>10 DEF CallSeqs, First, Opening
  <1>11. CASE s = <<"remove", "exit">>
    BY <1>11 DEF CallSeqs, First, Opening
  <1>12. CASE s = <<"create", "ports", "shell", "teardown", "remove", "exit">>
    BY <1>12 DEF CallSeqs, First, Opening
  <1>13. CASE s = <<"ports", "shell", "teardown", "remove", "exit">>
    BY <1>13 DEF CallSeqs, First, Opening
  <1>14. CASE s = <<"shell", "teardown", "remove", "exit">>
    BY <1>14 DEF CallSeqs, First, Opening
  <1>15. CASE s = <<"teardown", "remove", "exit">>
    BY <1>15 DEF CallSeqs, First, Opening
  <1>16. CASE s = <<"create", "resolve", "shell_with_plan", "remove", "exit">>
    BY <1>16 DEF CallSeqs, First, Opening
  <1>17. CASE s = <<"resolve", "shell_with_plan", "remove", "exit">>
    BY <1>17 DEF CallSeqs, First, Opening
  <1>18. CASE s = <<"shell_with_plan", "remove", "exit">>
    BY <1>18 DEF CallSeqs, First, Opening
  <1>19. CASE s = <<"create", "start", "start", "exec", "stop", "remove", "exit">>
    BY <1>19 DEF CallSeqs, First, Opening
  <1>20. CASE s = <<"start", "start", "exec", "stop", "remove", "exit">>
    BY <1>20 DEF CallSeqs, First, Opening
  <1>21. CASE s = <<"start", "exec", "stop", "remove", "exit">>
    BY <1>21 DEF CallSeqs, First, Opening
  <1>22. CASE s = <<"exec", "stop", "remove", "exit">>
    BY <1>22 DEF CallSeqs, First, Opening
  <1>23. CASE s = <<"stop", "remove", "exit">>
    BY <1>23 DEF CallSeqs, First, Opening
  <1> QED
    BY <1>1, <1>2, <1>3, <1>4, <1>5, <1>6, <1>7, <1>8, <1>9, <1>10, <1>11, <1>12, <1>13, <1>14, <1>15, <1>16, <1>17, <1>18, <1>19, <1>20, <1>21, <1>22, <1>23 DEF CallSeqs

\* Two sequences make a third.
LEMMA Joined ==
    ASSUME NEW S, NEW s \in Seq(S), NEW t \in Seq(S), NEW u \in Seq(S),
           Len(u) = Len(s) + Len(t),
           \A i \in 1 .. Len(s) : u[i] = s[i],
           \A i \in 1 .. Len(t) : u[Len(s) + i] = t[i]
    PROVE  s \o t = u
  <1>1. s \o t \in Seq(S) /\ Len(s \o t) = Len(s) + Len(t) /\ Len(s) \in Nat /\ Len(t) \in Nat
    OBVIOUS
  <1>2. \A i \in 1 .. Len(u) : u[i] = (s \o t)[i]
    <2> TAKE i \in 1 .. Len(u)
    <2>1. CASE i <= Len(s)
      BY <1>1, <2>1
    <2>2. CASE i > Len(s)
      <3>1. i - Len(s) \in 1 .. Len(t) /\ Len(s) + (i - Len(s)) = i
        BY <1>1, <2>2
      <3>2. (s \o t)[i] = t[i - Len(s)]
        BY <1>1, <2>2, <3>1
      <3> QED
        BY <3>1, <3>2
    <2> QED
      BY <1>1, <2>1, <2>2
  <1> QED
    BY <1>1, <1>2, SeqEqual

StepNames == {"mkdir", "rootfs", "truncate", "write", "publish", "cage", "links", "netstack",
              "spawn", "inject", "keep", "kill", "unlink", "unpublish", "unnet", "stage",
              "wait", "record", "drop"}

\* What the calls come to.
LEMMA StepsFacts ==
    /\ Steps("create") = <<"mkdir", "rootfs", "truncate", "write">>
    /\ Steps("start") = <<"publish", "cage", "links", "netstack", "spawn", "inject", "keep", "truncate", "write">>
    /\ Steps("stop") = <<"kill", "unlink", "unpublish", "unnet", "truncate", "write">>
    /\ stop_steps \o <<"drop">> = <<"kill", "unlink", "unpublish", "unnet", "truncate", "write", "drop">>
    /\ Steps("remove") = <<"revoke", "delete">>
    /\ Steps("shell_with_plan") = <<"stage", "wait", "record", "write">>
    /\ Steps("shell") = <<"wait">>
    /\ \A x \in {"load", "exec", "ports", "teardown", "resolve", "exit"} : Steps(x) = <<x>>
  <1>1. <<"mkdir", "rootfs">> \o <<"truncate", "write">>
           = <<"mkdir", "rootfs", "truncate", "write">>
    <2> DEFINE s == <<"mkdir", "rootfs">>
               t == <<"truncate", "write">>
               u == <<"mkdir", "rootfs", "truncate", "write">>
    <2>1. s \in Seq(StepNames) /\ t \in Seq(StepNames) /\ u \in Seq(StepNames)
      BY DEF StepNames
    <2>2. Len(u) = Len(s) + Len(t)
      OBVIOUS
    <2>3. (\A i \in 1 .. Len(s) : u[i] = s[i]) /\ \A i \in 1 .. Len(t) : u[Len(s) + i] = t[i]
      OBVIOUS
    <2> HIDE DEF s, t, u
    <2>4. s \o t = u
      BY <2>1, <2>2, <2>3, Joined, Zenon
    <2> QED
      BY <2>4 DEF s, t, u
  <1>2. <<"publish", "cage", "links", "netstack", "spawn", "inject", "keep">> \o <<"truncate", "write">>
           = <<"publish", "cage", "links", "netstack", "spawn", "inject", "keep", "truncate", "write">>
    <2> DEFINE s == <<"publish", "cage", "links", "netstack", "spawn", "inject", "keep">>
               t == <<"truncate", "write">>
               u == <<"publish", "cage", "links", "netstack", "spawn", "inject", "keep", "truncate", "write">>
    <2>1. s \in Seq(StepNames) /\ t \in Seq(StepNames) /\ u \in Seq(StepNames)
      BY DEF StepNames
    <2>2. Len(u) = Len(s) + Len(t)
      OBVIOUS
    <2>3. (\A i \in 1 .. Len(s) : u[i] = s[i]) /\ \A i \in 1 .. Len(t) : u[Len(s) + i] = t[i]
      OBVIOUS
    <2> HIDE DEF s, t, u
    <2>4. s \o t = u
      BY <2>1, <2>2, <2>3, Joined, Zenon
    <2> QED
      BY <2>4 DEF s, t, u
  <1>3. <<"kill", "unlink", "unpublish", "unnet">> \o <<"truncate", "write">>
           = <<"kill", "unlink", "unpublish", "unnet", "truncate", "write">>
    <2> DEFINE s == <<"kill", "unlink", "unpublish", "unnet">>
               t == <<"truncate", "write">>
               u == <<"kill", "unlink", "unpublish", "unnet", "truncate", "write">>
    <2>1. s \in Seq(StepNames) /\ t \in Seq(StepNames) /\ u \in Seq(StepNames)
      BY DEF StepNames
    <2>2. Len(u) = Len(s) + Len(t)
      OBVIOUS
    <2>3. (\A i \in 1 .. Len(s) : u[i] = s[i]) /\ \A i \in 1 .. Len(t) : u[Len(s) + i] = t[i]
      OBVIOUS
    <2> HIDE DEF s, t, u
    <2>4. s \o t = u
      BY <2>1, <2>2, <2>3, Joined, Zenon
    <2> QED
      BY <2>4 DEF s, t, u
  <1>4. <<"kill", "unlink", "unpublish", "unnet", "truncate", "write">> \o <<"drop">>
           = <<"kill", "unlink", "unpublish", "unnet", "truncate", "write", "drop">>
    <2> DEFINE s == <<"kill", "unlink", "unpublish", "unnet", "truncate", "write">>
               t == <<"drop">>
               u == <<"kill", "unlink", "unpublish", "unnet", "truncate", "write", "drop">>
    <2>1. s \in Seq(StepNames) /\ t \in Seq(StepNames) /\ u \in Seq(StepNames)
      BY DEF StepNames
    <2>2. Len(u) = Len(s) + Len(t)
      OBVIOUS
    <2>3. (\A i \in 1 .. Len(s) : u[i] = s[i]) /\ \A i \in 1 .. Len(t) : u[Len(s) + i] = t[i]
      OBVIOUS
    <2> HIDE DEF s, t, u
    <2>4. s \o t = u
      BY <2>1, <2>2, <2>3, Joined, Zenon
    <2> QED
      BY <2>4 DEF s, t, u
  <1> QED
    BY <1>1, <1>2, <1>3, <1>4 DEF Steps, write_state, start_steps, stop_steps, remove_steps

-----------------------------------------------------------------------------
(* Processes *)

\* Process p becomes d, the others stay as they are.
Moved(p, d) ==
    /\ proc' \in [Procs -> Process] /\ proc'[p] = d
    /\ \A q \in Procs : q # p => proc'[q] = proc[q]

\* d differs from r in the steps that remain, and in no field not listed.
Kept(d, r) == d.lib = r.lib /\ d.filter = r.filter /\ d.c = r.c
Ahead(d, r) ==
    d.steps = Tail(r.steps) /\ Pc(d) = First(Tail(r.steps)) /\ Follows(Pc(r), Pc(d))
    /\ Shape(r.steps)

\* An update of one process.
LEMMA MoveFacts ==
    ASSUME TypesOk, NEW p \in Procs, NEW d \in Process, proc' = [proc EXCEPT ![p] = d]
    PROVE  Moved(p, d)
  BY DEF TypesOk, Moved

\* The process goes on with its next step.
LEMMA GotoFacts ==
    ASSUME TypesOk, NEW p \in Procs, NEW e \in Process, e.steps # <<>>, Goto(p, e)
    PROVE  \E d \in Process :
              /\ Moved(p, d) /\ Kept(d, e) /\ Ahead(d, e)
              /\ d.calls = e.calls /\ d.mem = e.mem /\ d.rt = e.rt /\ d.loc = e.loc
              /\ d.sid = e.sid /\ d.out = e.out
  <1>1. PICK t : t = Tail(e.steps)
    OBVIOUS
  <1>2. PICK d : d = [e EXCEPT !.steps = t]
    OBVIOUS
  <1>3. /\ e.steps \in StepSeqs /\ t \in StepSeqs /\ Follows(Pc(e), First(t)) /\ Shape(e.steps)
    BY <1>1, StepFacts DEF Process, Pc
  <1>4. /\ d \in Process /\ d.steps = t /\ d.calls = e.calls /\ d.mem = e.mem /\ d.rt = e.rt
        /\ d.loc = e.loc /\ d.sid = e.sid /\ d.out = e.out /\ d.lib = e.lib /\ d.c = e.c
        /\ d.filter = e.filter
    BY <1>2, <1>3 DEF Process
  <1>5. proc' = [proc EXCEPT ![p] = d]
    BY <1>1, <1>2 DEF Goto
  <1>6. Moved(p, d)
    BY <1>4, <1>5, MoveFacts
  <1> QED
    BY <1>1, <1>3, <1>4, <1>6 DEF Kept, Ahead, Pc

\* What is known of the process that takes a step.
LEMMA ProcFacts ==
    ASSUME Inv, NEW p \in Procs, NEW r, r = proc[p]
    PROVE  /\ TypesOk /\ r \in Process /\ Local(r) /\ CageOk(r) /\ ObjectOk(r) /\ ShellOk(r)
           /\ WriteOk(r)
           /\ r.steps \in StepSeqs /\ r.calls \in CallSeqs /\ r.c \in Containers \cup {None}
           /\ r.rt \subseteq Runtime /\ r.loc \subseteq Runtime
           /\ r.mem \in Status \cup {None} /\ r.lib \in BOOLEAN
           /\ r.sid \in Sids \cup {None} /\ r.out \in State \cup {None}
           /\ r.filter \in BOOLEAN
  BY DEF Inv, TypesOk, Local, Process

\* A process at a step has a container.
LEMMA AtFacts ==
    ASSUME Inv, NEW p \in Procs, NEW s, At(p, s)
    PROVE  /\ proc[p].steps # <<>> /\ Pc(proc[p]) = s
           /\ proc[p].c \in Containers
  <1>1. proc[p].steps # <<>> /\ Pc(proc[p]) = s
    BY DEF At, Pc, First
  <1>2. proc[p].c # None
    BY <1>1, ProcFacts DEF ObjectOk, Unused
  <1> QED
    BY <1>1, <1>2, ProcFacts

-----------------------------------------------------------------------------
(* What a step of process p, which becomes d, must do to keep each part of *)
(* the invariant.                                                          *)

\* Programs: a step may only add the process itself, with its cage.
LEMMA RunningStep ==
    ASSUME Inv, NEW p \in Procs, NEW d, Moved(p, d),
           NEW c \in Containers, proc[p].c = c,
           running' \in [Containers -> SUBSET Procs],
           \A e \in Containers : e # c => running'[e] = running[e],
           \A q \in running'[c] : q # p => q \in running[c],
           p \in running'[c] =>
              d.c = c /\ ("cage" \in d.rt \/ Pc(d) \in {"inject", "keep"})
    PROVE  RunningOk'
  <1> SUFFICES ASSUME NEW e \in Containers, NEW q \in running'[e]
               PROVE  /\ proc'[q].c = e
                      /\ "cage" \in proc'[q].rt \/ Pc(proc'[q]) \in {"inject", "keep"}
    BY DEF RunningOk, Pc
  <1>1. q \in Procs
    OBVIOUS
  <1>2. CASE q # p
    <2>1. q \in running[e] /\ proc'[q] = proc[q]
      BY <1>1, <1>2 DEF Moved
    <2> QED
      BY <2>1 DEF Inv, RunningOk
  <1>3. CASE q = p
    <2>1. e = c
      BY <1>3 DEF Inv, RunningOk
    <2> QED
      BY <1>3, <2>1 DEF Moved
  <1> QED
    BY <1>2, <1>3

\* Links: a link is there only if the object of the process, or another one, has it.
LEMMA LinkStep ==
    ASSUME Inv, NEW p \in Procs, NEW d, Moved(p, d),
           NEW c \in Containers, proc[p].c = c,
           \A e \in Containers : e # c => linked'[e] = linked[e],
           killed \subseteq killed',
           linked'[c] /\ c \notin killed' =>
              (d.c = c /\ "links" \in d.rt) \/ (linked[c] /\ "links" \notin proc[p].rt)
    PROVE  LinkOk'
  <1> SUFFICES ASSUME NEW e \in Containers, linked'[e], e \notin killed'
               PROVE  \E q \in Procs : proc'[q].c = e /\ "links" \in proc'[q].rt
    BY DEF LinkOk
  <1>1. CASE e = c /\ d.c = c /\ "links" \in d.rt
    BY <1>1 DEF Moved
  <1>2. CASE ~(e = c /\ d.c = c /\ "links" \in d.rt)
    <2>1. linked[e] /\ e \notin killed /\ (e = c => "links" \notin proc[p].rt)
      BY <1>2
    <2>2. PICK q \in Procs : proc[q].c = e /\ "links" \in proc[q].rt
      BY <2>1 DEF Inv, LinkOk
    <2>3. q # p
      BY <2>1, <2>2
    <2> QED
      BY <2>2, <2>3 DEF Moved
  <1> QED
    BY <1>1, <1>2

\* Starts: only a process that has started may remove the link.
LEMMA StartsStep ==
    ASSUME Inv, NEW p \in Procs, NEW d, Moved(p, d), d.c # None => d.c = proc[p].c,
           NEW c \in Containers, proc[p].c = c,
           \A e \in Containers : starts'[e] = starts[e],
           \A e \in Containers : e # c => linked'[e] = linked[e],
           Started(d) => Started(proc[p]),
           ~linked'[c] => ~linked[c] \/ "links" \in proc[p].rt,
           starts[c] = 1 =>
              /\ Pc(d) \in {"publish", "cage", "links"} => "links" \notin d.rt
              /\ "links" \in d.rt => linked'[c]
    PROVE  StartsOk'
  <1>1. \A q \in Procs : proc'[q].c \in Containers =>
           proc'[q].c = proc[q].c /\ (Started(proc'[q]) => Started(proc[q]))
    BY NoneAssumption, WindowsAssumption DEF Moved
  <1>2. ASSUME NEW e \in Containers, starts[e] = 0, NEW q \in Procs, proc'[q].c = e
        PROVE  ~Started(proc'[q])
    BY <1>1, <1>2 DEF Inv, StartsOk
  <1>3. ASSUME NEW e \in Containers, starts[e] = 1, NEW q \in Procs, NEW q2 \in Procs,
               proc'[q].c = e, proc'[q2].c = e, Started(proc'[q]), Started(proc'[q2])
        PROVE  q = q2
    BY <1>1, <1>3 DEF Inv, StartsOk
  <1>4. ASSUME NEW e \in Containers, starts[e] = 1, NEW q \in Procs, proc'[q].c = e
        PROVE  /\ Pc(proc'[q]) \in {"publish", "cage", "links"} => "links" \notin proc'[q].rt
               /\ "links" \in proc'[q].rt => linked'[e]
    <2>1. CASE q = p
      BY <1>1, <1>4, <2>1 DEF Moved
    <2>2. CASE q # p
      <3>1. /\ proc'[q] = proc[q] /\ proc[q].c = e
            /\ Pc(proc[q]) \in {"publish", "cage", "links"} => "links" \notin proc[q].rt
            /\ "links" \in proc[q].rt => linked[e]
        BY <1>4, <2>2 DEF Inv, StartsOk, Moved
      <3>2. ASSUME "links" \in proc[q].rt, e = c, "links" \in proc[p].rt PROVE FALSE
        <4>1. Started(proc[q]) /\ Started(proc[p])
          BY <3>2 DEF Started
        <4> QED
          BY <1>4, <2>2, <3>1, <3>2, <4>1 DEF Inv, StartsOk
      <3>3. "links" \in proc[q].rt => linked'[e]
        BY <3>1, <3>2
      <3> QED
        BY <3>1, <3>3
    <2> QED
      BY <2>1, <2>2
  <1> QED
    BY <1>2, <1>3, <1>4 DEF StartsOk, Started, Pc

\* state.json: who opens it or makes the directory comes to write it.
LEMMA FileStep ==
    ASSUME Inv, NEW p \in Procs, NEW d, Moved(p, d),
           NEW c \in Containers, proc[p].c = c,
           \A e \in Containers : e # c => file'[e] = file[e] /\ dir'[e] = dir[e],
           faults' = 0 => faults = 0 /\ d.c \in {c, None},
           file'[c] # None => dir'[c] = "there",
           faults' = 0 /\ file'[c] = Torn =>
              (d.c = c /\ Pc(d) = "write") \/ (file[c] = Torn /\ Pc(proc[p]) # "write"),
           faults' = 0 /\ file'[c] = None /\ dir'[c] = "there" =>
              \/ d.c = c /\ Pc(d) \in {"rootfs", "truncate"}
              \/ /\ file[c] = None /\ dir[c] = "there"
                 /\ Pc(proc[p]) \notin {"rootfs", "truncate"},
           faults' = 0 /\ Up(file'[c]) =>
              (d.c = c /\ Settles(d)) \/ (file'[c] = file[c] /\ ~Settles(proc[p]))
    PROVE  FileOk'
  <1>1. \A q \in Procs : q # p => proc'[q] = proc[q]
    BY DEF Moved
  <1>2. ASSUME NEW e \in Containers, faults' = 0, file'[e] = Torn
        PROVE  \E q \in Procs : proc'[q].c = e /\ Pc(proc'[q]) = "write"
    <2>1. CASE e = c /\ d.c = c /\ Pc(d) = "write"
      BY <2>1 DEF Moved
    <2>2. CASE ~(e = c /\ d.c = c /\ Pc(d) = "write")
      <3>1. PICK q \in Procs : proc[q].c = e /\ Pc(proc[q]) = "write"
        BY <1>2, <2>2 DEF Inv, FileOk
      <3>2. q # p
        BY <1>2, <2>2, <3>1
      <3> QED
        BY <1>1, <3>1, <3>2
    <2> QED
      BY <2>1, <2>2
  <1>3. ASSUME NEW e \in Containers, faults' = 0, file'[e] = None, dir'[e] = "there"
        PROVE  \E q \in Procs : proc'[q].c = e /\ Pc(proc'[q]) \in {"rootfs", "truncate"}
    <2>1. CASE e = c /\ d.c = c /\ Pc(d) \in {"rootfs", "truncate"}
      BY <2>1 DEF Moved
    <2>2. CASE ~(e = c /\ d.c = c /\ Pc(d) \in {"rootfs", "truncate"})
      <3>1. PICK q \in Procs : proc[q].c = e /\ Pc(proc[q]) \in {"rootfs", "truncate"}
        BY <1>3, <2>2 DEF Inv, FileOk
      <3>2. q # p
        BY <1>3, <2>2, <3>1
      <3> QED
        BY <1>1, <3>1, <3>2
    <2> QED
      BY <2>1, <2>2
  <1>4. \A e \in Containers : file'[e] # None => dir'[e] = "there"
    BY DEF Inv, FileOk
  <1>5. ASSUME NEW e \in Containers, faults' = 0, Up(file'[e])
        PROVE  \E q \in Procs : proc'[q].c = e /\ Settles(proc'[q])
    <2>1. CASE e = c /\ d.c = c /\ Settles(d)
      BY <2>1 DEF Moved
    <2>2. CASE ~(e = c /\ d.c = c /\ Settles(d))
      <3>1. file'[e] = file[e] /\ (e = c => ~Settles(proc[p]))
        BY <1>5, <2>2
      <3>2. PICK q \in Procs : proc[q].c = e /\ Settles(proc[q])
        BY <1>5, <3>1 DEF Inv, FileOk
      <3>3. q # p
        BY <3>1, <3>2
      <3> QED
        BY <1>1, <3>2, <3>3
    <2> QED
      BY <2>1, <2>2
  <1> QED
    BY <1>2, <1>3, <1>4, <1>5 DEF FileOk, Pc, Settles, Up

\* FileOk of the next state, clause by clause.
LEMMA FileNext ==
    ASSUME \A e \in Containers : faults' = 0 /\ Up(file'[e]) =>
              \E q \in Procs : proc'[q].c = e /\ Settles(proc'[q]),
           \A e \in Containers :
              /\ file'[e] # None => dir'[e] = "there"
              /\ faults' = 0 /\ file'[e] = Torn =>
                    \E q \in Procs : proc'[q].c = e /\ Pc(proc'[q]) = "write"
              /\ faults' = 0 /\ file'[e] = None /\ dir'[e] = "there" =>
                    \E q \in Procs : proc'[q].c = e /\ Pc(proc'[q]) \in {"rootfs", "truncate"}
    PROVE  FileOk'
  BY DEF FileOk

\* What the only process of a calm container knows.
LEMMA CalmFacts ==
    ASSUME Inv, NEW p \in Procs, NEW c \in Containers, proc[p].c = c, calm[c],
           NEW r, r = proc[p]
    PROVE  /\ Pc(r) = "rootfs" => dir[c] = "there"
           /\ r.mem # None /\ First(r.calls) \notin {"none", "exit"} =>
                 /\ dir[c] = "there"
                 /\ Pc(r) \in {"truncate", "write"} \/ file[c] \in State
           /\ "container" \in grants[c] => dir[c] = "there" /\ Owes(r, file[c])
  <1>1. "container" \in grants[c] => dir[c] = "there" /\ Owes(r, file[c])
    <2> SUFFICES ASSUME "container" \in grants[c] PROVE dir[c] = "there" /\ Owes(r, file[c])
      OBVIOUS
    <2>1. PICK q \in Procs : proc[q].c = c /\ Owes(proc[q], file[c]) /\ dir[c] = "there"
      BY DEF Inv, CalmOk
    <2>2. q = p
      BY <2>1 DEF Inv, CalmOk
    <2> QED
      BY <2>1, <2>2
  <1> QED
    BY <1>1 DEF Inv, CalmOk

\* Grants: the only process of a calm container owes what it granted.
LEMMA CalmStep ==
    ASSUME Inv, NEW p \in Procs, NEW d, Moved(p, d), d.c # None => d.c = proc[p].c,
           NEW c \in Containers, proc[p].c = c,
           \A e \in Containers : e # c =>
              /\ file'[e] = file[e] /\ dir'[e] = dir[e] /\ grants'[e] = grants[e]
              /\ calm'[e] = calm[e],
           calm'[c] =>
              /\ calm[c]
              /\ d.c = c =>
                    /\ Pc(d) = "rootfs" => dir'[c] = "there"
                    /\ d.mem # None /\ First(d.calls) \notin {"none", "exit"} =>
                          /\ dir'[c] = "there"
                          /\ Pc(d) \in {"truncate", "write"} \/ file'[c] \in State
              /\ "container" \in grants'[c] =>
                    dir'[c] = "there" /\ d.c = c /\ Owes(d, file'[c])
    PROVE  CalmOk'
  <1>1. \A q \in Procs : proc'[q].c \in Containers =>
           proc'[q].c = proc[q].c
    BY WindowsAssumption DEF Moved
  <1>2. proc'[p] = d /\ \A q \in Procs : q # p => proc'[q] = proc[q]
    BY DEF Moved
  <1>3. ASSUME NEW e \in Containers, calm'[e] PROVE calm[e]
    BY <1>3
  <1>4. ASSUME NEW e \in Containers, calm'[e], NEW q \in Procs, NEW q2 \in Procs,
               proc'[q].c = e, proc'[q2].c = e
        PROVE  q = q2
    BY <1>1, <1>3, <1>4 DEF Inv, CalmOk
  <1>5. ASSUME NEW e \in Containers, calm'[e], NEW q \in Procs, proc'[q].c = e
        PROVE  /\ Pc(proc'[q]) = "rootfs" => dir'[e] = "there"
               /\ proc'[q].mem # None /\ First(proc'[q].calls) \notin {"none", "exit"} =>
                     /\ dir'[e] = "there"
                     /\ Pc(proc'[q]) \in {"truncate", "write"} \/ file'[e] \in State
    <2>1. CASE q = p
      <3>1. e = c /\ d.c = c
        BY <1>1, <1>2, <1>5, <2>1
      <3> QED
        BY <1>2, <1>5, <2>1, <3>1
    <2>2. CASE q # p
      <3>1. proc[q].c = e /\ proc'[q] = proc[q] /\ calm[e]
        BY <1>2, <1>3, <1>5, <2>2
      <3>2. e # c
        BY <2>2, <3>1 DEF Inv, CalmOk
      <3> QED
        BY <3>1, <3>2 DEF Inv, CalmOk
    <2> QED
      BY <2>1, <2>2
  <1>6. ASSUME NEW e \in Containers, calm'[e], "container" \in grants'[e]
        PROVE  dir'[e] = "there" /\ \E q \in Procs : proc'[q].c = e /\ Owes(proc'[q], file'[e])
    <2>1. CASE e = c
      BY <1>2, <1>6, <2>1
    <2>2. CASE e # c
      <3>1. PICK q \in Procs : proc[q].c = e /\ Owes(proc[q], file[e]) /\ dir[e] = "there"
        BY <1>3, <1>6, <2>2 DEF Inv, CalmOk
      <3>2. q # p
        BY <2>2, <3>1
      <3> QED
        BY <1>2, <2>2, <3>1, <3>2
    <2> QED
      BY <2>1, <2>2
  <1> SUFFICES ASSUME NEW e \in Containers, calm'[e]
               PROVE  /\ \A q, q2 \in Procs : proc'[q].c = e /\ proc'[q2].c = e => q = q2
                      /\ \A q \in Procs : proc'[q].c = e =>
                            /\ Pc(proc'[q]) = "rootfs" => dir'[e] = "there"
                            /\ proc'[q].mem # None /\ First(proc'[q].calls) \notin {"none", "exit"} =>
                                  /\ dir'[e] = "there"
                                  /\ Pc(proc'[q]) \in {"truncate", "write"} \/ file'[e] \in State
                      /\ "container" \in grants'[e] =>
                            /\ dir'[e] = "there"
                            /\ \E q \in Procs : proc'[q].c = e /\ Owes(proc'[q], file'[e])
    BY DEF CalmOk
  <1> QED
    BY <1>4, <1>5, <1>6

\* All parts together.
LEMMA StepInv ==
    ASSUME Inv, TypesOk', NEW p \in Procs, NEW d, Moved(p, d), Local(d),
           RunningOk', LinkOk', StartsOk', FileOk', CalmOk'
    PROVE  Inv'
  BY DEF Inv, Moved, Local, CageOk, ObjectOk, ShellOk, WriteOk, Pc

\* A step that changes nothing but the process.
LEMMA QuietStep ==
    ASSUME Inv, NEW p \in Procs, NEW d, Moved(p, d), Local(d), UNCHANGED <<disk, winnt, history>>,
           NEW c \in Containers, NEW r, r = proc[p], r.c = c, d.c = c,
           "cage" \in r.rt => "cage" \in d.rt,
           Pc(r) \in {"inject", "keep"} => "cage" \in d.rt \/ Pc(d) \in {"inject", "keep"},
           "links" \in r.rt => "links" \in d.rt,
           Started(d) => Started(r),
           Settles(r) => Settles(d) \/ file[c] = None,
           "links" \in d.rt => "links" \in r.rt,
           Pc(d) \in {"publish", "cage", "links"} => Pc(r) \in {"publish", "cage", "links"},
           Pc(r) # "write",
           Pc(r) \in {"rootfs", "truncate"} =>
              Pc(d) \in {"rootfs", "truncate"} \/ dir[c] # "there",
           calm[c] =>
              /\ Pc(d) = "rootfs" => dir[c] = "there"
              /\ d.mem # None /\ First(d.calls) \notin {"none", "exit"} =>
                    /\ dir[c] = "there"
                    /\ Pc(d) \in {"truncate", "write"} \/ file[c] \in State
              /\ "container" \in grants[c] => Owes(d, file[c])
    PROVE  Inv'
  <1>1. /\ dir' = dir /\ file' = file /\ port' = port /\ linked' = linked /\ running' = running
        /\ grants' = grants /\ starts' = starts /\ calm' = calm /\ commands' = commands
        /\ faults' = faults /\ killed' = killed
    BY DEF disk, winnt, history
  <1>2. TypesOk'
    BY <1>1 DEF Inv, TypesOk, Moved
  <1>3. RunningOk'
    <2>1. running' \in [Containers -> SUBSET Procs]
      BY <1>2 DEF TypesOk
    <2>2. p \in running[c] => "cage" \in r.rt \/ Pc(r) \in {"inject", "keep"}
      BY DEF Inv, RunningOk
    <2> QED
      BY <1>1, <2>1, <2>2, RunningStep
  <1>4. LinkOk'
    BY <1>1, LinkStep
  <1>5. StartsOk'
    <2>1. starts[c] = 1 =>
             /\ Pc(r) \in {"publish", "cage", "links"} => "links" \notin r.rt
             /\ "links" \in r.rt => linked[c]
      BY DEF Inv, StartsOk
    <2> QED
      BY <1>1, <2>1, StartsStep
  <1>6. FileOk'
    <2>1. file[c] # None => dir[c] = "there"
      BY DEF Inv, FileOk
    <2>2. Up(file[c]) => Settles(d) \/ ~Settles(r)
      BY NoneAssumption DEF Up
    <2> QED
      BY <1>1, <2>1, <2>2, FileStep
  <1>7. CalmOk'
    <2>1. calm[c] /\ "container" \in grants[c] => dir[c] = "there"
      BY CalmFacts
    <2> QED
      BY <1>1, <2>1, CalmStep
  <1> QED
    BY <1>2, <1>3, <1>4, <1>5, <1>6, <1>7, StepInv

\* Where a process is that owes the grant.
LEMMA OwesFacts ==
    ASSUME NEW r, NEW f, Owes(r, f)
    PROVE  Pc(r) \in {"wait", "record", "write", "none", "revoke"}
  BY DEF Owes, Pc, First

-----------------------------------------------------------------------------
(* start *)

\* A step of start that only adds to what the object or the call holds.
LEMMA StartQuiet ==
    ASSUME Inv, NEW p \in Procs, NEW d, Moved(p, d), Local(d), UNCHANGED <<disk, winnt, history>>,
           NEW r, r = proc[p], Pc(r) \in StartPcs \ {"publish"}, Ahead(d, r), Kept(d, r),
           d.calls = r.calls, r.rt \subseteq d.rt, "links" \in d.rt => "links" \in r.rt,
           Pc(r) = "keep" => "cage" \in d.rt
    PROVE  Inv'
  <1>1. r.c \in Containers /\ r.mem = "created"
    <2>1. r.mem = "created"
      BY ProcFacts DEF CageOk
    <2>2. r.mem # None
      BY <2>1, NoneAssumption DEF Status
    <2>3. r.c # None
      BY <2>2, ProcFacts DEF ObjectOk, Unused
    <2> QED
      BY <2>1, <2>3, ProcFacts
  <1>2. d.c = r.c /\ Started(r)
    BY DEF Kept, Started
  <1>3. /\ Pc(r) = "cage" => Pc(d) = "links"
        /\ Pc(r) = "links" => Pc(d) = "netstack"
        /\ Pc(r) = "netstack" => Pc(d) = "spawn"
        /\ Pc(r) = "spawn" => Pc(d) = "inject"
        /\ Pc(r) = "inject" => Pc(d) = "keep"
        /\ Pc(r) = "keep" => Pc(d) = "truncate"
        /\ Pc(r) \in {"cage", "links", "netstack", "spawn", "inject", "keep"}
    BY DEF Ahead, Follows, StartPcs, Caging
  <1>4. calm[r.c] =>
           /\ "container" \notin grants[r.c]
           /\ First(d.calls) \notin {"none", "exit"} =>
                 dir[r.c] = "there" /\ file[r.c] \in State
    BY <1>1, <1>3, CalmFacts, OwesFacts, NoneAssumption DEF Status
  <1>5. ~Settles(r)
    <2>1. r.steps # <<>>
      BY <1>3 DEF Pc, First
    <2> QED
      BY <1>1, <1>3, <2>1 DEF Settles
  <1> QED
    BY <1>1, <1>2, <1>3, <1>4, <1>5, QuietStep

-----------------------------------------------------------------------------
(* Guards that are dropped, errors *)

\* Dropping guards takes p out of what they stand for, and touches nothing else.
LEMMA DropFacts ==
    ASSUME Inv, NEW p \in Procs, NEW gone, Drop(p, gone), NEW c \in Containers, proc[p].c = c
    PROVE  /\ running' \in [Containers -> SUBSET Procs] /\ port' \in [Containers -> SUBSET Procs]
           /\ linked' \in [Containers -> BOOLEAN]
           /\ \A e \in Containers : e # c =>
                 running'[e] = running[e] /\ port'[e] = port[e] /\ linked'[e] = linked[e]
           /\ running'[c] = IF "cage" \in gone THEN running[c] \ {p} ELSE running[c]
           /\ port'[c] = IF "mapper" \in gone THEN port[c] \ {p} ELSE port[c]
           /\ linked'[c] <=> (linked[c] /\ "links" \notin gone)
  <1>1. /\ running \in [Containers -> SUBSET Procs] /\ port \in [Containers -> SUBSET Procs]
        /\ linked \in [Containers -> BOOLEAN]
    BY DEF Inv, TypesOk
  <1>2. /\ running' \in [Containers -> SUBSET Procs]
        /\ \A e \in Containers : e # c => running'[e] = running[e]
        /\ running'[c] = IF "cage" \in gone THEN running[c] \ {p} ELSE running[c]
    BY <1>1 DEF Drop
  <1>3. /\ port' \in [Containers -> SUBSET Procs]
        /\ \A e \in Containers : e # c => port'[e] = port[e]
        /\ port'[c] = IF "mapper" \in gone THEN port[c] \ {p} ELSE port[c]
    BY <1>1 DEF Drop
  <1>4. linked' = IF "links" \in gone THEN [linked EXCEPT ![c] = FALSE] ELSE linked
    BY DEF Drop
  <1>5. /\ linked' \in [Containers -> BOOLEAN]
        /\ \A e \in Containers : e # c => linked'[e] = linked[e]
    BY <1>1, <1>4
  <1>6. linked'[c] <=> (linked[c] /\ "links" \notin gone)
    <2>1. CASE "links" \in gone
      BY <1>1, <1>4, <2>1
    <2>2. CASE "links" \notin gone
      <3>1. linked' = linked /\ linked[c] \in BOOLEAN
        BY <1>1, <1>4, <2>2
      <3> QED
        BY <2>2, <3>1
    <2> QED
      BY <2>1, <2>2
  <1> QED
    BY <1>2, <1>3, <1>5, <1>6

\* A fault is counted, and the container is calm no longer.
LEMMA FaultFacts ==
    ASSUME Inv, NEW c \in Containers, Fault(c)
    PROVE  /\ faults' \in 0 .. MaxFaults /\ faults' # 0
           /\ calm' \in [Containers -> BOOLEAN] /\ ~calm'[c]
           /\ \A e \in Containers : e # c => calm'[e] = calm[e]
           /\ starts' = starts /\ commands' = commands
  BY WindowsAssumption DEF Inv, TypesOk, Fault

\* An error ends a call.
LEMMA AfterErrorFacts ==
    ASSUME NEW r, Local(r)
    PROVE  /\ AfterError(r) \in CallSeqs
           /\ AfterError(r) = r.calls \/ First(AfterError(r)) = "exit"
           /\ r.mem = None => First(AfterError(r)) = "exit"
           /\ First(AfterError(r)) \notin Opening
  <1>1. <<"exit">> \in CallSeqs /\ First(<<"exit">>) = "exit"
    BY DEF CallSeqs, First
  <1>2. r.calls \in CallSeqs /\ (First(r.calls) \in Opening => r.mem = None)
    BY DEF Local, Process, ObjectOk
  <1>3. CASE r.lib /\ r.mem # None
    BY <1>2, <1>3 DEF AfterError
  <1>4. CASE ~(r.lib /\ r.mem # None)
    BY <1>1, <1>4 DEF AfterError, Opening
  <1> QED
    BY <1>3, <1>4

\* A step that drops guards, of a process that is in no hurry with state.json or
\* that has met a fault.
LEMMA DropStep ==
    ASSUME Inv, NEW p \in Procs, NEW d, Moved(p, d), Local(d),
           NEW c \in Containers, NEW r, r = proc[p], r.c = c, d.c \in {c, None},
           NEW gone, Drop(p, gone), UNCHANGED <<disk, grants>>,
           "cage" \notin gone /\ p \in running[c] => d.c = c /\ "cage" \in d.rt,
           "links" \in r.rt /\ "links" \notin gone =>
              (d.c = c /\ "links" \in d.rt) \/ c \in killed',
           "links" \in gone => "links" \in r.rt /\ "links" \notin d.rt,
           "links" \in d.rt => "links" \in r.rt,
           Started(d) => Started(r),
           Pc(d) \notin {"publish", "cage", "links", "rootfs"},
           \/ Fault(c) /\ killed \subseteq killed'
           \/ /\ UNCHANGED history
              /\ Pc(r) \in {"load", "publish", "kill", "unlink", "unpublish", "unnet",
                            "teardown", "exit", "drop"}
              /\ Settles(r) => d.c = c /\ Settles(d)
              /\ d.c = c /\ d.mem # None /\ First(d.calls) \notin {"none", "exit"} =>
                    r.mem # None /\ First(r.calls) \notin {"none", "exit"}
    PROVE  Inv'
  <1>1. dir' = dir /\ file' = file /\ grants' = grants
    BY DEF disk
  <1>2. /\ starts' = starts /\ commands' = commands
        /\ faults' \in 0 .. MaxFaults /\ calm' \in [Containers -> BOOLEAN]
        /\ \A e \in Containers : e # c => calm'[e] = calm[e]
        /\ faults' = 0 \/ calm'[c] => UNCHANGED history /\ ~Fault(c)
        /\ killed \subseteq killed'
    <2>1. CASE Fault(c) /\ killed \subseteq killed'
      BY <2>1, FaultFacts
    <2>2. CASE UNCHANGED history /\ ~Fault(c)
      BY <2>2 DEF history, Inv, TypesOk
    <2>3. UNCHANGED history => killed \subseteq killed'
      BY DEF history
    <2> QED
      BY <2>1, <2>2, <2>3
  <1>3. faults' = 0 \/ calm'[c] =>
           /\ faults' = faults /\ calm' = calm
           /\ Pc(r) \in {"load", "publish", "kill", "unlink", "unpublish", "unnet",
                         "teardown", "exit", "drop"}
           /\ Settles(r) => d.c = c /\ Settles(d)
           /\ d.c = c /\ d.mem # None /\ First(d.calls) \notin {"none", "exit"} =>
                 r.mem # None /\ First(r.calls) \notin {"none", "exit"}
    BY <1>2 DEF history
  <1>4. /\ running' \in [Containers -> SUBSET Procs] /\ port' \in [Containers -> SUBSET Procs]
        /\ linked' \in [Containers -> BOOLEAN]
        /\ \A e \in Containers : e # c =>
              running'[e] = running[e] /\ port'[e] = port[e] /\ linked'[e] = linked[e]
        /\ running'[c] = IF "cage" \in gone THEN running[c] \ {p} ELSE running[c]
        /\ port'[c] = IF "mapper" \in gone THEN port[c] \ {p} ELSE port[c]
        /\ linked'[c] <=> (linked[c] /\ "links" \notin gone)
    <2>1. proc[p].c = c
      OBVIOUS
    <2> QED
      BY <2>1, DropFacts
  <1>5. TypesOk'
    BY <1>1, <1>2, <1>4 DEF Inv, TypesOk, Moved
  <1>6. RunningOk'
    <2>1. p \in running'[c] => d.c = c /\ "cage" \in d.rt
      BY <1>4
    <2>2. \A q \in running'[c] : q # p => q \in running[c]
      BY <1>4
    <2> QED
      BY <1>4, <2>1, <2>2, RunningStep
  <1>7. LinkOk'
    <2>1. linked'[c] /\ c \notin killed' =>
             (d.c = c /\ "links" \in d.rt) \/ (linked[c] /\ "links" \notin r.rt)
      BY <1>4
    <2> QED
      BY <1>2, <1>4, <2>1, LinkStep
  <1>8. StartsOk'
    <2>1. starts[c] = 1 => ("links" \in r.rt => linked[c])
      BY DEF Inv, StartsOk
    <2>2. starts[c] = 1 => ("links" \in d.rt => linked'[c])
      BY <1>4, <2>1
    <2>3. ~linked'[c] => ~linked[c] \/ "links" \in r.rt
      BY <1>4
    <2> QED
      BY <1>2, <1>4, <2>2, <2>3, StartsStep
  <1>9. FileOk'
    <2>1. file[c] # None => dir[c] = "there"
      BY DEF Inv, FileOk
    <2> QED
      BY <1>1, <1>3, <2>1, FileStep
  <1>10. CalmOk'
    <2>1. calm'[c] => calm[c] /\ "container" \notin grants[c]
      BY <1>3, CalmFacts, OwesFacts
    <2>2. calm'[c] /\ d.c = c /\ d.mem # None /\ First(d.calls) \notin {"none", "exit"} =>
             dir[c] = "there" /\ file[c] \in State
      BY <1>3, <2>1, CalmFacts
    <2> QED
      BY <1>1, <1>2, <2>1, <2>2, CalmStep
  <1> QED
    BY <1>5, <1>6, <1>7, <1>8, <1>9, <1>10, StepInv

\* A process that is not about to write or to leave has nothing to keep for it.
LEMMA RestFacts ==
    ASSUME NEW r, Pc(r) \notin {"truncate", "write", "drop"}
    PROVE  /\ WriteOk(r) /\ r.steps \notin DropSeqs
           /\ Pc(r) \notin {"stage", "wait", "record"} => r.steps \notin ShellSeqs
  <1>1. \A s \in DropSeqs : First(s) \in {"truncate", "write", "drop"}
    BY DEF DropSeqs, First
  <1>2. \A s \in ShellSeqs : First(s) \in {"stage", "wait", "record"}
    BY DEF ShellSeqs, First
  <1> QED
    BY <1>1, <1>2 DEF WriteOk, Pc

\* An error, with or without a fault.
LEMMA ErrorInv ==
    ASSUME Inv, NEW p \in Procs, NEW s, At(p, s), s \notin StopPcs, Error(p),
           \/ UNCHANGED history /\ s \in {"load", "publish"}
           \/ Fault(proc[p].c) /\ UNCHANGED killed
    PROVE  Inv'
  <1>1. PICK r : r = proc[p]
    OBVIOUS
  <1>2. r.c \in Containers /\ Pc(r) = s /\ Local(r) /\ CageOk(r) /\ ObjectOk(r) /\ ShellOk(r)
    BY <1>1, AtFacts, ProcFacts
  <1>3. PICK cs : cs = AfterError(r)
    OBVIOUS
  <1>4. /\ cs \in CallSeqs /\ (cs = r.calls \/ First(cs) = "exit")
        /\ (r.mem = None => First(cs) = "exit") /\ First(cs) \notin Opening
    BY <1>2, <1>3, AfterErrorFacts
  <1>5. PICK d : d = [r EXCEPT !.steps = <<>>, !.loc = {}, !.calls = cs]
    OBVIOUS
  <1>6. /\ d \in Process /\ d.steps = <<>> /\ d.loc = {} /\ d.calls = cs /\ d.c = r.c
        /\ d.mem = r.mem /\ d.rt = r.rt /\ d.filter = r.filter /\ Pc(d) = "none"
    <2>1. <<>> \in StepSeqs
      BY DEF StepSeqs, Others
    <2> QED
      BY <1>2, <1>4, <1>5, <2>1 DEF Local, Process, Pc, First
  <1>7. Moved(p, d)
    <2>1. proc' = [proc EXCEPT ![p] = d]
      BY <1>1, <1>3, <1>5 DEF Error
    <2> QED
      BY <1>6, <2>1, MoveFacts DEF Inv
  <1>8. Local(d)
    <2>1. CageOk(d)
      BY <1>2, <1>6 DEF CageOk, StartPcs, StopPcs, Caging, Linked
    <2>2. ObjectOk(d)
      BY <1>2, <1>4, <1>6, WindowsAssumption DEF ObjectOk, Opening
    <2>3. ShellOk(d)
      BY <1>2, <1>4, <1>6, RestFacts DEF ShellOk, StartPcs, Caging
    <2> QED
      BY <1>6, <2>1, <2>2, <2>3, RestFacts DEF Local
  <1>9. Drop(p, r.loc) /\ UNCHANGED <<disk, grants>>
    BY <1>1 DEF Error
  <1>10. "cage" \notin r.loc /\ p \in running[r.c] => "cage" \in r.rt
    BY <1>1, <1>2 DEF Inv, RunningOk, CageOk, Caging
  <1>11. s \in {"load", "publish"} => ~Settles(r)
    <2>1. s \in {"load", "publish"} => r.mem \in {None, "created"} /\ r.steps # <<>>
      BY <1>2 DEF CageOk, ObjectOk, StartPcs, Pc, First
    <2> QED
      BY <1>2, <2>1, NoneAssumption DEF Settles, Status
  <1>12. "links" \notin r.loc
    BY <1>2 DEF CageOk
  <1>13. Started(d) => Started(r)
    BY <1>6 DEF Started, StartPcs, Caging
  <1> QED
    BY <1>1, <1>2, <1>4, <1>6, <1>7, <1>8, <1>9, <1>10, <1>11, <1>12, <1>13, DropStep

-----------------------------------------------------------------------------
(* stop and the end of a process *)

\* A process slot that is not in use.
LEMMA UnusedFacts ==
    /\ Unused \in Process /\ Local(Unused) /\ ~Started(Unused)
    /\ Pc(Unused) = "none" /\ Unused.c = None /\ Unused.rt = {}
  <1>1. <<>> \in StepSeqs /\ <<>> \in CallSeqs /\ First(<<>>) = "none"
    BY DEF StepSeqs, Others, CallSeqs, First
  <1>2. Unused \in Process
    BY <1>1 DEF Unused, Process
  <1>3. /\ Unused.c = None /\ Unused.rt = {} /\ Unused.loc = {} /\ Unused.mem = None
        /\ Unused.steps = <<>> /\ Unused.calls = <<>> /\ Pc(Unused) = "none"
    BY <1>1 DEF Unused, Pc
  <1>4. None # "running" /\ None # "created"
    BY NoneAssumption DEF Status
  <1>5. CageOk(Unused)
    BY <1>3, <1>4 DEF CageOk, StartPcs, StopPcs, Caging, Linked
  <1>6. ObjectOk(Unused) /\ ShellOk(Unused)
    BY <1>1, <1>3, <1>4, RestFacts DEF ObjectOk, ShellOk, StartPcs, Caging, Opening
  <1> QED
    BY <1>2, <1>3, <1>4, <1>5, <1>6, RestFacts DEF Local, Started, StartPcs, Caging

\* The process is gone, with everything it had to itself.
LEMMA GoneInv ==
    ASSUME Inv, NEW p \in Procs, proc[p].c \in Containers, proc' = [proc EXCEPT ![p] = Unused],
           NEW gone, Drop(p, gone), UNCHANGED <<disk, grants>>,
           p \in running[proc[p].c] => "cage" \in gone,
           "links" \in gone => "links" \in proc[p].rt,
           "links" \in proc[p].rt /\ "links" \notin gone => proc[p].c \in killed',
           \/ Fault(proc[p].c) /\ killed \subseteq killed'
           \/ /\ UNCHANGED history /\ ~Settles(proc[p])
              /\ At(p, "exit") \/ At(p, "drop")
    PROVE  Inv'
  <1>1. Moved(p, Unused)
    BY UnusedFacts, MoveFacts DEF Inv
  <1>2. PICK r : r = proc[p]
    OBVIOUS
  <1>3. PICK d : d = Unused
    OBVIOUS
  <1>4. /\ Local(d) /\ ~Started(d) /\ Pc(d) = "none" /\ d.c = None /\ d.rt = {}
    BY <1>3, UnusedFacts
  <1>5. r.c # None
    BY <1>2, WindowsAssumption
  <1>6. At(p, "exit") \/ At(p, "drop") => Pc(r) \in {"exit", "drop"}
    BY <1>2, AtFacts
  <1> QED
    BY <1>1, <1>2, <1>3, <1>4, <1>5, <1>6, DropStep

\* The process exits and every field of its object is dropped.
LEMMA ExitedInv == ASSUME Inv, NEW p \in Procs, Exited(p) PROVE Inv'
  <1>1. /\ proc[p].c \in Containers /\ proc[p].steps # <<>>
        /\ (Pc(proc[p]) = "exit" /\ proc[p].mem # "running") \/ Pc(proc[p]) = "drop"
    BY AtFacts DEF Exited
  <1>2. p \in running[proc[p].c] => "cage" \in proc[p].rt
    BY <1>1 DEF Inv, RunningOk
  <1>3. Pc(proc[p]) = "drop" => proc[p].mem # "running"
    <2>1. proc[p].steps \in StepSeqs /\ First(proc[p].steps) = Pc(proc[p])
      BY ProcFacts DEF Pc
    <2>2. Pc(proc[p]) = "drop" => proc[p].steps \in DropSeqs
      BY <1>1, <2>1, StepFacts DEF Shape, DropSeqs
    <2> QED
      BY <2>2, ProcFacts DEF WriteOk
  <1>4. ~Settles(proc[p])
    BY <1>1, <1>3 DEF Settles
  <1> QED
    BY <1>1, <1>2, <1>4, GoneInv DEF Exited

\* The process is killed.
LEMMA KilledInv == ASSUME Inv, NEW p \in Procs, Killed(p) PROVE Inv'
  <1>1. proc[p].c \in Containers
    BY ProcFacts DEF Killed
  <1>2. Drop(p, {"cage", "mapper"})
    BY DEF Killed, Drop
  <1>3. proc[p].c \in killed' /\ killed \subseteq killed' /\ UNCHANGED <<disk, grants>>
    BY DEF Killed
  <1> QED
    BY <1>1, <1>2, <1>3, GoneInv DEF Killed

\* A part of the object is taken out and dropped.
LEMMA PartInv ==
    ASSUME Inv, NEW p \in Procs, NEW step, NEW part, At(p, step),
           <<step, part>> \in {<<"kill", "cage">>, <<"unlink", "links">>, <<"unpublish", "mapper">>,
                               <<"unnet", "netstack">>, <<"teardown", "mapper">>},
           NEW e \in Process, Goto(p, e), Kept(e, proc[p]), e.steps = proc[p].steps,
           e.calls = proc[p].calls, e.loc = proc[p].loc, e.rt = proc[p].rt \ {part},
           e.mem = IF step = "unnet" THEN "stopped" ELSE proc[p].mem,
           Drop(p, proc[p].rt \cap {part}), UNCHANGED <<disk, grants, history>>
    PROVE  Inv'
  <1>1. PICK r : r = proc[p]
    OBVIOUS
  <1>2. /\ r.c \in Containers /\ Pc(r) = step /\ r.steps # <<>>
        /\ Local(r) /\ CageOk(r) /\ ObjectOk(r) /\ ShellOk(r)
    BY <1>1, AtFacts, ProcFacts
  <1>3. /\ step \in {"kill", "unlink", "unpublish", "unnet", "teardown"}
        /\ step = "kill" <=> part = "cage"
        /\ step = "unlink" <=> part = "links"
        /\ part \in {"cage", "links", "mapper", "netstack"}
    OBVIOUS
  <1>4. PICK d \in Process :
           /\ Moved(p, d) /\ Kept(d, e) /\ Ahead(d, e) /\ d.calls = r.calls /\ d.loc = r.loc
           /\ d.rt = r.rt \ {part} /\ d.mem = IF step = "unnet" THEN "stopped" ELSE r.mem
    BY <1>1, <1>2, GotoFacts DEF Inv
  <1>5. /\ d.c = r.c /\ d.filter = r.filter
        /\ step = "kill" => Pc(d) = "unlink"
        /\ step = "unlink" => Pc(d) = "unpublish"
        /\ step = "unpublish" => Pc(d) = "unnet"
        /\ step = "unnet" => Pc(d) = "truncate"
        /\ step = "teardown" => Pc(d) = "none"
    <2>1. Pc(e) = step
      BY <1>1, <1>2 DEF Pc
    <2> QED
      BY <1>1, <1>4, <2>1 DEF Kept, Ahead, Follows
  <1>6. r.mem # None /\ r.loc = {}
    <2>1. r.mem # None
      BY <1>2, <1>3 DEF ObjectOk
    <2>2. r.loc = {}
      BY <1>2, <1>3 DEF CageOk, Caging
    <2> QED
      BY <2>1, <2>2
  <1>7. Local(d)
    <2>1. CageOk(d)
      BY <1>2, <1>3, <1>4, <1>5, <1>6 DEF CageOk, StartPcs, StopPcs, Caging, Linked
    <2>2. d.mem # None
      BY <1>4, <1>6, NoneAssumption DEF Status
    <2>3. First(d.calls) \notin Opening
      BY <1>2, <1>4, <1>6 DEF ObjectOk
    <2>4. ObjectOk(d)
      BY <1>2, <1>3, <1>5, <2>2, <2>3, WindowsAssumption DEF ObjectOk
    <2>5. d.steps \notin ShellSeqs
      <3>1. \A s \in ShellSeqs : First(s) \in {"stage", "wait", "record"}
        BY DEF ShellSeqs, First
      <3> QED
        BY <1>3, <1>5, <3>1 DEF Pc
    <2>6. ShellOk(d)
      BY <1>2, <1>3, <1>4, <1>5, <2>5 DEF ShellOk, StartPcs, Caging
    <2>7. WriteOk(d)
      <3>1. CASE step = "unnet"
        BY <1>4, <1>5, <3>1 DEF WriteOk
      <3>2. CASE step # "unnet"
        BY <1>3, <1>5, <3>2, RestFacts
      <3> QED
        BY <3>1, <3>2
    <2> QED
      BY <1>4, <2>1, <2>4, <2>6, <2>7 DEF Local
  <1>8. p \in running[r.c] => "cage" \in r.rt
    BY <1>1, <1>2, <1>3 DEF Inv, RunningOk
  <1>9. Settles(r) => Settles(d)
    <2>1. r.steps # <<>> /\ (Settles(r) => r.mem = "running")
      BY <1>2, <1>3 DEF Settles
    <2> QED
      BY <1>4, <1>5, <2>1 DEF Settles
  <1>10. Started(d) => Started(r)
    BY <1>3, <1>4, <1>5 DEF Started, StartPcs, Caging
  <1>11. PICK gone : gone = r.rt \cap {part} /\ Drop(p, gone)
    BY <1>1
  <1>12. /\ "cage" \notin gone /\ p \in running[r.c] => "cage" \in d.rt
         /\ "links" \notin gone /\ "links" \in r.rt => "links" \in d.rt
         /\ "links" \in gone => "links" \in r.rt /\ "links" \notin d.rt
         /\ "links" \in d.rt => "links" \in r.rt
    BY <1>4, <1>8, <1>11
  <1>13. UNCHANGED <<disk, grants>> /\ UNCHANGED history
    OBVIOUS
  <1>14. /\ Pc(d) \notin {"publish", "cage", "links", "rootfs"}
         /\ Pc(r) \in {"load", "publish", "kill", "unlink", "unpublish", "unnet", "teardown", "exit",
                      "drop"}
    BY <1>2, <1>3, <1>5
  <1> QED
    BY <1>1, <1>2, <1>4, <1>5, <1>6, <1>7, <1>9, <1>10, <1>11, <1>12, <1>13, <1>14, DropStep

\* stop takes one part of the runtime apart.
LEMMA StopStepInv ==
    ASSUME Inv, NEW p \in Procs, NEW step, NEW part, StopStep(p, step, part),
           <<step, part>> \in {<<"kill", "cage">>, <<"unlink", "links">>, <<"unpublish", "mapper">>,
                               <<"unnet", "netstack">>}
    PROVE  Inv'
  <1>1. PICK r : r = proc[p]
    OBVIOUS
  <1>2. PICK m : m = IF part = "netstack" THEN "stopped" ELSE r.mem
    OBVIOUS
  <1>3. PICK e : e = [r EXCEPT !.rt = r.rt \ {part}, !.mem = m]
    OBVIOUS
  <1>4. r \in Process /\ m \in Status \cup {None}
    BY <1>1, <1>2, ProcFacts DEF Status
  <1>5. /\ e \in Process /\ e.lib = r.lib /\ e.filter = r.filter /\ e.c = r.c /\ e.steps = r.steps /\ e.calls = r.calls
        /\ e.loc = r.loc /\ e.rt = r.rt \ {part} /\ e.mem = m
    BY <1>3, <1>4 DEF Process
  <1>6. Goto(p, e)
    BY <1>1, <1>2, <1>3 DEF StopStep
  <1>7. m = IF step = "unnet" THEN "stopped" ELSE r.mem
    BY <1>2
  <1> QED
    BY <1>1, <1>5, <1>6, <1>7, PartInv DEF StopStep, Kept

\* A shell's port is given back.
LEMMA TeardownInv == ASSUME Inv, NEW p \in Procs, teardown_port_mappings(p) PROVE Inv'
  <1>1. PICK r : r = proc[p]
    OBVIOUS
  <1>2. PICK e : e = [r EXCEPT !.rt = r.rt \ {"mapper"}]
    OBVIOUS
  <1>3. r \in Process
    BY <1>1, ProcFacts
  <1>4. /\ e \in Process /\ e.lib = r.lib /\ e.filter = r.filter /\ e.c = r.c /\ e.steps = r.steps /\ e.calls = r.calls
        /\ e.loc = r.loc /\ e.rt = r.rt \ {"mapper"} /\ e.mem = r.mem
    BY <1>2, <1>3 DEF Process
  <1>5. Goto(p, e)
    BY <1>1, <1>2 DEF teardown_port_mappings
  <1> QED
    BY <1>1, <1>4, <1>5, PartInv DEF teardown_port_mappings, Kept

\* Drop of a running container begins to stop it.
LEMMA ExitInv == ASSUME Inv, NEW p \in Procs, Exit(p) PROVE Inv'
  <1>1. PICK r : r = proc[p]
    OBVIOUS
  <1>2. /\ r.c \in Containers /\ Pc(r) = "exit" /\ r.mem = "running" /\ r.steps # <<>>
        /\ r \in Process /\ Local(r) /\ CageOk(r) /\ ObjectOk(r) /\ ShellOk(r)
    BY <1>1, AtFacts, ProcFacts DEF Exit
  <1>3. PICK s : s = stop_steps \o <<"drop">>
    OBVIOUS
  <1>4. s \in StepSeqs /\ First(s) = "kill"
    <2>1. s = <<"kill", "unlink", "unpublish", "unnet", "truncate", "write", "drop">>
      BY <1>3, StepsFacts
    <2> QED
      BY <2>1 DEF StepSeqs, Closing, First
  <1>5. PICK d : d = [r EXCEPT !.steps = s]
    OBVIOUS
  <1>6. /\ d \in Process /\ d.steps = s /\ d.calls = r.calls /\ d.c = r.c /\ d.mem = r.mem
        /\ d.rt = r.rt /\ d.loc = r.loc /\ d.filter = r.filter /\ Pc(d) = "kill"
    BY <1>2, <1>4, <1>5 DEF Process, Pc
  <1>7. Moved(p, d)
    <2>1. proc' = [proc EXCEPT ![p] = d]
      BY <1>1, <1>3, <1>5 DEF Exit
    <2> QED
      BY <1>6, <2>1, MoveFacts DEF Inv
  <1>8. r.mem # None
    BY <1>2, NoneAssumption DEF Status
  <1>9. Local(d)
    <2>1. CageOk(d)
      BY <1>2, <1>6 DEF CageOk, StartPcs, StopPcs, Caging, Linked
    <2>2. ObjectOk(d)
      BY <1>2, <1>6, <1>8, WindowsAssumption DEF ObjectOk
    <2>3. ShellOk(d)
      BY <1>2, <1>6, RestFacts DEF ShellOk, StartPcs, Caging
    <2> QED
      BY <1>6, <2>1, <2>2, <2>3, RestFacts DEF Local
  <1>10. calm[r.c] =>
            /\ "container" \notin grants[r.c]
            /\ First(d.calls) \notin {"none", "exit"} =>
                  dir[r.c] = "there" /\ file[r.c] \in State
    BY <1>1, <1>2, <1>6, <1>8, CalmFacts, OwesFacts
  <1>11. UNCHANGED <<disk, winnt, history>> /\ (Started(d) => Started(r)) /\ Settles(d)
    BY <1>2, <1>6 DEF Exit, Started, Settles
  <1> QED
    BY <1>1, <1>2, <1>6, <1>7, <1>9, <1>10, <1>11, QuietStep

-----------------------------------------------------------------------------
(* start *)

\* What a step of start makes of a process: d has the runtime rt and the locals
\* loc, and goes on.
LEMMA StartLocal ==
    ASSUME NEW r, Local(r), Pc(r) \in StartPcs, r.steps # <<>>,
           NEW d \in Process, Kept(d, r), Ahead(d, r), d.calls = r.calls,
           d.mem = IF Pc(r) = "keep" THEN "running" ELSE r.mem,
           r.rt \subseteq d.rt, "cage" \in d.rt => "cage" \in r.rt \/ Pc(r) = "keep",
           Pc(r) \notin {"publish", "keep"} => "cage" \in d.loc,
           Pc(r) \in {"publish", "keep"} => d.loc = {},
           d.loc \subseteq {"cage", "netstack"},
           r.filter /\ Pc(r) = "links" => "links" \in d.rt,
           Pc(r) = "keep" => "cage" \in d.rt
    PROVE  Local(d)
  <1>1. /\ Pc(r) = "publish" => Pc(d) = "cage"
        /\ Pc(r) = "cage" => Pc(d) = "links"
        /\ Pc(r) = "links" => Pc(d) = "netstack"
        /\ Pc(r) = "netstack" => Pc(d) = "spawn"
        /\ Pc(r) = "spawn" => Pc(d) = "inject"
        /\ Pc(r) = "inject" => Pc(d) = "keep"
        /\ Pc(r) = "keep" => Pc(d) = "truncate"
        /\ Pc(r) \in {"publish", "cage", "links", "netstack", "spawn", "inject", "keep"}
    BY DEF Ahead, Follows, StartPcs, Caging
  <1>2. CageOk(r) /\ ObjectOk(r) /\ ShellOk(r)
    BY DEF Local
  <1>3. r.mem = "created" /\ "cage" \notin r.rt /\ d.mem # None
    BY <1>2, NoneAssumption DEF CageOk, Status
  <1>4. CageOk(d)
    BY <1>1, <1>2, <1>3 DEF CageOk, StartPcs, StopPcs, Caging, Linked, Kept
  <1>5. ObjectOk(d)
    <2>1. r.c # None
      BY <1>1, <1>2, UnusedFacts DEF ObjectOk
    <2>2. First(r.calls) \notin Opening
      BY <1>2 DEF ObjectOk
    <2> QED
      BY <1>1, <1>3, <2>1, <2>2 DEF ObjectOk, Kept
  <1>6. d.steps \notin DropSeqs /\ d.steps \notin ShellSeqs
    <2>1. r.steps \notin DropSeqs
      BY <1>1, RestFacts
    <2>2. \A s \in ShellSeqs : First(s) \in {"stage", "wait", "record"}
      BY DEF ShellSeqs, First
    <2> QED
      BY <1>1, <2>1, <2>2 DEF Ahead, Shape, Pc
  <1>7. ShellOk(d)
    BY <1>1, <1>2, <1>6 DEF ShellOk, StartPcs, Caging
  <1>8. WriteOk(d)
    BY <1>1, <1>6 DEF WriteOk
  <1> QED
    BY <1>4, <1>5, <1>7, <1>8 DEF Local

\* start makes the job or the silo.
LEMMA MakeCageInv == ASSUME Inv, NEW p \in Procs, MakeCage(p) PROVE Inv'
  <1>1. PICK r : r = proc[p]
    OBVIOUS
  <1>2. /\ At(p, "cage") /\ Pc(r) = "cage" /\ r.steps # <<>> /\ r \in Process /\ Local(r)
        /\ r.loc \subseteq Runtime /\ CageOk(r)
    BY <1>1, AtFacts, ProcFacts DEF MakeCage
  <1>3. CASE Refused(p)
    BY <1>2, <1>3, ErrorInv DEF Refused, StopPcs
  <1>4. ASSUME Goto(p, [r EXCEPT !.loc = r.loc \cup {"cage"}]), UNCHANGED <<disk, winnt, history>>
        PROVE  Inv'
    <2>1. PICK e : e = [r EXCEPT !.loc = r.loc \cup {"cage"}]
      OBVIOUS
    <2>2. /\ e \in Process /\ e.lib = r.lib /\ e.filter = r.filter /\ e.c = r.c /\ e.steps = r.steps /\ e.calls = r.calls
          /\ e.loc = r.loc \cup {"cage"} /\ e.rt = r.rt /\ e.mem = r.mem
      BY <1>2, <2>1 DEF Process, Runtime
    <2>3. PICK d \in Process :
             /\ Moved(p, d) /\ Kept(d, e) /\ Ahead(d, e) /\ d.calls = r.calls
             /\ d.loc = r.loc \cup {"cage"} /\ d.rt = r.rt /\ d.mem = r.mem
      <3>1. Goto(p, e) /\ e.steps # <<>> /\ TypesOk
        BY <1>2, <1>4, <2>1, <2>2 DEF Inv
      <3> QED
        BY <2>2, <3>1, GotoFacts
    <2>4. Kept(d, r) /\ Ahead(d, r)
      BY <2>2, <2>3 DEF Kept, Ahead, Pc
    <2>5. d.loc \subseteq {"cage", "netstack"}
      BY <1>2, <2>3 DEF CageOk
    <2>6. Local(d)
      BY <1>2, <2>3, <2>4, <2>5, StartLocal DEF StartPcs
    <2> QED
      BY <1>1, <1>2, <1>4, <2>3, <2>4, <2>6, StartQuiet DEF StartPcs
  <1> QED
    BY <1>1, <1>3, <1>4 DEF MakeCage

\* The process goes on as e says.
LEMMA GoOn ==
    ASSUME Inv, NEW p \in Procs, NEW s, At(p, s), NEW e \in Process, Goto(p, e),
           e.steps = proc[p].steps, Kept(e, proc[p])
    PROVE  \E d \in Process :
              /\ Moved(p, d) /\ Kept(d, proc[p]) /\ Ahead(d, proc[p])
              /\ d.calls = e.calls /\ d.mem = e.mem /\ d.rt = e.rt /\ d.loc = e.loc
              /\ d.sid = e.sid /\ d.out = e.out
  <1>1. e.steps # <<>> /\ TypesOk /\ Pc(e) = Pc(proc[p])
    BY AtFacts DEF Inv, Pc
  <1>2. PICK d \in Process :
           /\ Moved(p, d) /\ Kept(d, e) /\ Ahead(d, e)
           /\ d.calls = e.calls /\ d.mem = e.mem /\ d.rt = e.rt /\ d.loc = e.loc
           /\ d.sid = e.sid /\ d.out = e.out
    BY <1>1, GotoFacts
  <1>3. Kept(d, proc[p]) /\ Ahead(d, proc[p])
    BY <1>1, <1>2 DEF Kept, Ahead
  <1> QED
    BY <1>2, <1>3

\* The process goes on and keeps its fields.
LEMMA SameFacts ==
    ASSUME Inv, NEW p \in Procs, NEW s, At(p, s), Same(p), NEW r, r = proc[p]
    PROVE  \E d \in Process :
              /\ Moved(p, d) /\ Ahead(d, r) /\ Kept(d, r) /\ d.c = r.c /\ d.calls = r.calls
              /\ d.mem = r.mem /\ d.rt = r.rt /\ d.loc = r.loc /\ d.sid = r.sid /\ d.out = r.out
  <1>1. Goto(p, r) /\ Kept(r, r) /\ r \in Process
    BY ProcFacts DEF Same, Kept
  <1>2. PICK d \in Process :
           /\ Moved(p, d) /\ Kept(d, r) /\ Ahead(d, r) /\ d.calls = r.calls /\ d.mem = r.mem
           /\ d.rt = r.rt /\ d.loc = r.loc /\ d.sid = r.sid /\ d.out = r.out
    BY <1>1, GoOn
  <1> QED
    BY <1>2 DEF Kept

\* start has a network stack or goes on without.
LEMMA NetstackInv == ASSUME Inv, NEW p \in Procs, try_start_netstack(p) PROVE Inv'
  <1>1. PICK r : r = proc[p]
    OBVIOUS
  <1>2. /\ At(p, "netstack") /\ Pc(r) = "netstack" /\ r.steps # <<>> /\ r \in Process /\ Local(r)
        /\ CageOk(r) /\ UNCHANGED <<disk, winnt, history>>
    BY <1>1, AtFacts, ProcFacts DEF try_start_netstack
  <1>3. PICK ns \in {{}, {"netstack"}} : Goto(p, [r EXCEPT !.loc = r.loc \cup ns])
    BY <1>1 DEF try_start_netstack
  <1>4. PICK e : e = [r EXCEPT !.loc = r.loc \cup ns]
    OBVIOUS
  <1>5. /\ e \in Process /\ e.lib = r.lib /\ e.filter = r.filter /\ e.c = r.c /\ e.steps = r.steps /\ e.calls = r.calls
        /\ e.loc = r.loc \cup ns /\ e.rt = r.rt /\ e.mem = r.mem
    BY <1>2, <1>4 DEF Process, Runtime
  <1>6. PICK d \in Process :
           /\ Moved(p, d) /\ Kept(d, r) /\ Ahead(d, r) /\ d.calls = r.calls
           /\ d.loc = r.loc \cup ns /\ d.rt = r.rt /\ d.mem = r.mem
    <2>1. Goto(p, e) /\ Kept(e, r)
      BY <1>3, <1>4, <1>5 DEF Kept
    <2> QED
      BY <1>1, <1>2, <1>5, <2>1, GoOn
  <1>7. "cage" \in d.loc /\ d.loc \subseteq {"cage", "netstack"}
    BY <1>2, <1>6 DEF CageOk, Caging
  <1>8. Local(d)
    BY <1>2, <1>6, <1>7, StartLocal DEF StartPcs, Caging
  <1> QED
    BY <1>1, <1>2, <1>6, <1>8, StartQuiet DEF StartPcs, Caging

\* start injects the shim and keeps the daemon, or drops it.
LEMMA InjectInv == ASSUME Inv, NEW p \in Procs, Inject(p) PROVE Inv'
  <1>1. PICK r : r = proc[p]
    OBVIOUS
  <1>2. /\ At(p, "inject") /\ Pc(r) = "inject" /\ r.steps # <<>> /\ r \in Process /\ Local(r)
        /\ CageOk(r) /\ UNCHANGED <<disk, winnt, history>>
    BY <1>1, AtFacts, ProcFacts DEF Inject
  <1>3. PICK keep \in SUBSET (r.loc \cap {"netstack"}) :
           Goto(p, [r EXCEPT !.loc = r.loc \ {"netstack"}, !.rt = r.rt \cup keep])
    BY <1>1 DEF Inject
  <1>4. PICK e : e = [r EXCEPT !.loc = r.loc \ {"netstack"}, !.rt = r.rt \cup keep]
    OBVIOUS
  <1>5. /\ e \in Process /\ e.lib = r.lib /\ e.filter = r.filter /\ e.c = r.c /\ e.steps = r.steps /\ e.calls = r.calls
        /\ e.loc = r.loc \ {"netstack"} /\ e.rt = r.rt \cup keep /\ e.mem = r.mem
    BY <1>2, <1>4 DEF Process, Runtime
  <1>6. PICK d \in Process :
           /\ Moved(p, d) /\ Kept(d, r) /\ Ahead(d, r) /\ d.calls = r.calls
           /\ d.loc = r.loc \ {"netstack"} /\ d.rt = r.rt \cup keep /\ d.mem = r.mem
    <2>1. Goto(p, e) /\ Kept(e, r)
      BY <1>3, <1>4, <1>5 DEF Kept
    <2> QED
      BY <1>1, <1>2, <1>5, <2>1, GoOn
  <1>7. /\ "cage" \in d.loc /\ d.loc \subseteq {"cage", "netstack"}
        /\ \A x \in {"cage", "links"} : x \in d.rt => x \in r.rt
    BY <1>2, <1>6 DEF CageOk, Caging
  <1>8. Local(d)
    BY <1>2, <1>6, <1>7, StartLocal DEF StartPcs, Caging
  <1> QED
    BY <1>1, <1>2, <1>6, <1>7, <1>8, StartQuiet DEF StartPcs, Caging

\* start stores the cage: the container is running.
LEMMA KeepInv == ASSUME Inv, NEW p \in Procs, Keep(p) PROVE Inv'
  <1>1. PICK r : r = proc[p]
    OBVIOUS
  <1>2. /\ At(p, "keep") /\ Pc(r) = "keep" /\ r.steps # <<>> /\ r \in Process /\ Local(r)
        /\ CageOk(r) /\ UNCHANGED <<disk, winnt, history>>
    BY <1>1, AtFacts, ProcFacts DEF Keep
  <1>3. PICK e : e = [r EXCEPT !.loc = {}, !.rt = r.rt \cup {"cage"}, !.mem = "running"]
    OBVIOUS
  <1>4. Goto(p, e)
    BY <1>1, <1>3 DEF Keep
  <1>5. /\ e \in Process /\ e.lib = r.lib /\ e.filter = r.filter /\ e.c = r.c /\ e.steps = r.steps /\ e.calls = r.calls
        /\ e.loc = {} /\ e.rt = r.rt \cup {"cage"} /\ e.mem = "running"
    BY <1>2, <1>3 DEF Process, Runtime, Status
  <1>6. PICK d \in Process :
           /\ Moved(p, d) /\ Kept(d, r) /\ Ahead(d, r) /\ d.calls = r.calls
           /\ d.loc = {} /\ d.rt = r.rt \cup {"cage"} /\ d.mem = "running"
    <2>1. Kept(e, r)
      BY <1>5 DEF Kept
    <2> QED
      BY <1>1, <1>2, <1>4, <1>5, <2>1, GoOn
  <1>7. Local(d)
    BY <1>2, <1>6, StartLocal DEF StartPcs, Caging
  <1> QED
    BY <1>1, <1>2, <1>6, <1>7, StartQuiet DEF StartPcs, Caging

\* A step that changes what Windows keeps, and not the disk.
LEMMA WinStep ==
    ASSUME Inv, NEW p \in Procs, NEW d, Moved(p, d), Local(d),
           NEW c \in Containers, NEW r, r = proc[p], r.c = c, d.c = c,
           UNCHANGED <<disk, grants, history>>,
           TypesOk', RunningOk', LinkOk', StartsOk',
           d.mem = r.mem, d.calls = r.calls, r.steps # <<>>,
           Pc(r) \in {"ports", "exec"} \cup StartPcs, Pc(d) # "rootfs"
    PROVE  Inv'
  <1>1. dir' = dir /\ file' = file /\ grants' = grants /\ calm' = calm /\ faults' = faults
    BY DEF disk, history
  <1>2. Pc(r) \notin {"write", "rootfs", "truncate", "wait", "record", "none", "revoke"}
    BY DEF StartPcs, Caging
  <1>3. FileOk'
    <2>1. file[c] # None => dir[c] = "there"
      BY DEF Inv, FileOk
    <2>2. Settles(r) => Settles(d)
      BY <1>2 DEF Settles, StartPcs, Caging
    <2> QED
      BY <1>1, <1>2, <2>1, <2>2, FileStep
  <1>4. CalmOk'
    <2>1. calm[c] => "container" \notin grants[c]
      BY <1>2, CalmFacts, OwesFacts
    <2>2. calm[c] /\ d.mem # None /\ First(d.calls) \notin {"none", "exit"} =>
             dir[c] = "there" /\ file[c] \in State
      BY <1>2, CalmFacts
    <2> QED
      BY <1>1, <2>1, <2>2, CalmStep
  <1> QED
    BY <1>3, <1>4, StepInv

\* The steps outside start and stop change little in a process.
LEMMA PlainLocal ==
    ASSUME NEW r, Local(r), NEW d \in Process, Kept(d, r), d.calls = r.calls, d.mem = r.mem,
           r.loc = d.loc, \A x \in {"cage", "links"} : x \in d.rt <=> x \in r.rt,
           Ahead(d, r) \/ (d.steps = <<>> /\ Pc(d) = "none"),
           Pc(r) \in {"ports", "exec", "resolve", "wait", "record", "truncate", "write", "stage",
                      "revoke", "delete"},
           Pc(d) \in {"none", "drop", "wait", "record", "truncate", "write", "delete"},
           Pc(d) = "write" => WriteOk(d)
    PROVE  Local(d)
  <1>1. CageOk(r) /\ ObjectOk(r) /\ ShellOk(r) /\ WriteOk(r)
    BY DEF Local
  <1>2. CageOk(d)
    BY <1>1 DEF CageOk, StartPcs, StopPcs, Caging, Linked, Kept
  <1>3. ObjectOk(d)
    <2>1. r.mem # None
      BY <1>1 DEF ObjectOk
    <2>2. r.c # None /\ First(r.calls) \notin Opening
      BY <1>1, <2>1, UnusedFacts DEF ObjectOk
    <2> QED
      BY <2>1, <2>2 DEF ObjectOk, Kept
  <1>4. WriteOk(d)
    <2>1. CASE Ahead(d, r) /\ Pc(d) # "write"
      <3>1. d.steps \in DropSeqs => r.steps \in DropSeqs
        BY <2>1 DEF Ahead, Shape, Pc
      <3> QED
        BY <1>1, <2>1, <3>1 DEF WriteOk
    <2>2. CASE Pc(d) = "none"
      BY <2>2, RestFacts
    <2> QED
      BY <2>1, <2>2
  <1>5. d.steps \in ShellSeqs => r.steps \in ShellSeqs
    <2>1. CASE Ahead(d, r)
      <3>1. (Pc(d) = "wait" => Pc(r) = "stage") /\ (Pc(d) = "record" => Pc(r) = "wait")
        BY <2>1 DEF Ahead, Follows
      <3>2. d.steps \in ShellSeqs => Pc(d) \in {"wait", "record"}
        <4>1. \A s \in ShellSeqs : First(s) \in {"stage", "wait", "record"}
          BY DEF ShellSeqs, First
        <4> QED
          BY <4>1 DEF Pc
      <3>3. Pc(r) = "stage" => r.steps \in ShellSeqs
        BY <2>1 DEF Ahead, Shape, Pc, ShellSeqs
      <3>4. Pc(r) = "wait" /\ r.steps # <<"wait">> => r.steps \in ShellSeqs
        BY <2>1 DEF Ahead, Shape, Pc, ShellSeqs
      <3>5. r.steps = <<"wait">> => Pc(d) = "none"
        BY <2>1 DEF Ahead, First
      <3> QED
        BY <3>1, <3>2, <3>3, <3>4, <3>5
    <2>2. CASE Pc(d) = "none"
      BY <2>2, RestFacts
    <2> QED
      BY <2>1, <2>2
  <1>6. Pc(d) = "delete" => Pc(r) = "revoke"
    BY DEF Ahead, Follows
  <1>7. ShellOk(d)
    BY <1>1, <1>5, <1>6 DEF ShellOk, StartPcs, Caging
  <1> QED
    BY <1>2, <1>3, <1>4, <1>7 DEF Local

\* The host port is bound, or is not free.
LEMMA PublishInv == ASSUME Inv, NEW p \in Procs, Publish(p) PROVE Inv'
  <1>1. PICK r : r = proc[p]
    OBVIOUS
  <1>2. PICK s \in {"publish", "ports"} : At(p, s)
    BY DEF Publish
  <1>3. /\ Pc(r) = s /\ r.steps # <<>> /\ r \in Process /\ Local(r) /\ CageOk(r)
        /\ r.c \in Containers
    BY <1>1, <1>2, AtFacts, ProcFacts
  <1>4. r.loc = {} /\ (At(p, "ports") <=> s = "ports")
    <2>1. r.loc = {}
      BY <1>2, <1>3 DEF CageOk, Caging
    <2>2. At(p, "ports") => s = "ports"
      BY <1>2 DEF At
    <2> QED
      BY <1>2, <2>1, <2>2
  <1>5. ASSUME NEW d \in Process, Moved(p, d), Kept(d, r), Ahead(d, r), d.calls = r.calls,
               d.mem = r.mem, d.loc = r.loc, d.rt = r.rt \/ d.rt = r.rt \cup {"mapper"}
        PROVE  /\ Local(d) /\ Pc(d) \in {"cage", "none"} /\ d.c = r.c
               /\ Started(d) => Started(r)
               /\ Pc(d) = "cage" => Pc(r) = "publish"
    <2>1. (s = "publish" => Pc(d) = "cage") /\ (s = "ports" => Pc(d) = "none") /\ d.c = r.c
      BY <1>3, <1>5 DEF Ahead, Follows, Kept
    <2>2. CASE s = "publish"
      BY <1>3, <1>4, <1>5, <2>1, <2>2, StartLocal DEF StartPcs, Caging, Started
    <2>3. CASE s = "ports"
      BY <1>3, <1>5, <2>1, <2>3, PlainLocal DEF StartPcs, Caging, Started
    <2> QED
      BY <2>1, <2>2, <2>3
  <1>6. CASE /\ port[r.c] = {} /\ Goto(p, [r EXCEPT !.rt = r.rt \cup {"mapper"}])
             /\ port' = [port EXCEPT ![r.c] = {p}]
             /\ UNCHANGED <<disk, linked, running, grants, history>>
    <2>1. PICK e : e = [r EXCEPT !.rt = r.rt \cup {"mapper"}]
      OBVIOUS
    <2>2. /\ e \in Process /\ e.lib = r.lib /\ e.filter = r.filter /\ e.c = r.c /\ e.steps = r.steps
          /\ e.calls = r.calls /\ e.loc = r.loc /\ e.rt = r.rt \cup {"mapper"} /\ e.mem = r.mem
      BY <1>3, <2>1 DEF Process, Runtime
    <2>3. Goto(p, e) /\ Kept(e, r)
      BY <1>6, <2>1, <2>2 DEF Kept
    <2>4. PICK d \in Process :
             /\ Moved(p, d) /\ Kept(d, r) /\ Ahead(d, r) /\ d.calls = r.calls
             /\ d.loc = r.loc /\ d.rt = r.rt \cup {"mapper"} /\ d.mem = r.mem
      BY <1>1, <1>2, <2>2, <2>3, GoOn
    <2>5. /\ Local(d) /\ Pc(d) \in {"cage", "none"} /\ d.c = r.c /\ (Started(d) => Started(r))
          /\ Pc(d) = "cage" => Pc(r) = "publish"
      BY <1>5, <2>4
    <2>6. /\ port' \in [Containers -> SUBSET Procs] /\ port'[r.c] = {p}
          /\ \A x \in Containers : x # r.c => port'[x] = port[x]
      BY <1>3, <1>6 DEF Inv, TypesOk
    <2>7. linked' = linked /\ running' = running /\ starts' = starts /\ killed' = killed
      BY <1>6 DEF history
    <2>8. TypesOk'
      BY <1>6, <2>4, <2>6 DEF Inv, TypesOk, Moved, disk, history
    <2>9. RunningOk'
      <3>1. running' \in [Containers -> SUBSET Procs]
        BY <2>8 DEF TypesOk
      <3>2. p \in running[r.c] => "cage" \in d.rt
        BY <1>1, <1>2, <1>3, <2>4 DEF Inv, RunningOk
      <3> QED
        BY <1>1, <1>3, <2>4, <2>5, <2>7, <3>1, <3>2, RunningStep
    <2>10. LinkOk'
      BY <1>1, <1>3, <2>4, <2>5, <2>7, LinkStep
    <2>11. StartsOk'
      <3>1. starts[r.c] = 1 =>
               /\ Pc(r) \in {"publish", "cage", "links"} => "links" \notin r.rt
               /\ "links" \in r.rt => linked[r.c]
        BY <1>1, <1>3 DEF Inv, StartsOk
      <3> QED
        BY <1>1, <1>3, <2>4, <2>5, <2>7, <3>1, StartsStep
    <2> QED
      BY <1>1, <1>2, <1>3, <1>6, <2>4, <2>5, <2>8, <2>9, <2>10, <2>11, WinStep DEF StartPcs
  <1>7. CASE s = "publish" /\ Error(p) /\ (UNCHANGED history \/ (Fault(r.c) /\ UNCHANGED killed))
    BY <1>1, <1>2, <1>7, ErrorInv DEF StopPcs
  <1>8. CASE /\ s = "ports" /\ Same(p) /\ UNCHANGED <<disk, winnt>>
             /\ UNCHANGED history \/ (Fault(r.c) /\ UNCHANGED killed)
    <2>1. PICK d \in Process :
             /\ Moved(p, d) /\ Kept(d, r) /\ Ahead(d, r) /\ d.calls = r.calls
             /\ d.loc = r.loc /\ d.rt = r.rt /\ d.mem = r.mem
      <3>1. Goto(p, r) /\ Kept(r, r)
        BY <1>1, <1>8 DEF Same, Kept
      <3> QED
        BY <1>1, <1>2, <1>3, <3>1, GoOn
    <2>2. /\ Local(d) /\ Pc(d) \in {"cage", "none"} /\ d.c = r.c /\ (Started(d) => Started(r))
          /\ Pc(d) = "cage" => Pc(r) = "publish"
      BY <1>5, <2>1
    <2>3. Pc(r) = "ports" /\ Pc(d) = "none"
      BY <1>3, <1>8, <2>2
    <2>4. CASE UNCHANGED history
      <3>1. calm[r.c] =>
               /\ "container" \notin grants[r.c]
               /\ d.mem # None /\ First(d.calls) \notin {"none", "exit"} =>
                     dir[r.c] = "there" /\ file[r.c] \in State
        BY <1>1, <1>3, <2>1, <2>3, CalmFacts, OwesFacts
      <3>2. Settles(r) => Settles(d)
        BY <1>3, <2>1, <2>3 DEF Settles
      <3>3. UNCHANGED <<disk, winnt, history>>
        BY <1>8, <2>4
      <3> QED
        BY <1>1, <1>3, <2>1, <2>2, <2>3, <3>1, <3>2, <3>3, QuietStep
    <2>5. CASE Fault(r.c) /\ UNCHANGED killed
      <3>1. Drop(p, {}) /\ UNCHANGED <<disk, grants>> /\ killed \subseteq killed'
        BY <1>8, <2>5 DEF Drop, winnt
      <3>2. p \in running[r.c] => "cage" \in r.rt
        BY <1>1, <1>3, <2>3 DEF Inv, RunningOk
      <3> QED
        BY <1>1, <1>3, <2>1, <2>2, <2>3, <2>5, <3>1, <3>2, DropStep
    <2> QED
      BY <1>8, <2>4, <2>5
  <1> QED
    BY <1>1, <1>2, <1>4, <1>6, <1>7, <1>8 DEF Publish

\* start makes the bind link, or removes it by replacing its filter, or has none.
LEMMA LinksInv == ASSUME Inv, NEW p \in Procs, setup_bind_links(p) PROVE Inv'
  <1>1. PICK r : r = proc[p]
    OBVIOUS
  <1>2. /\ At(p, "links") /\ Pc(r) = "links" /\ r.steps # <<>> /\ r \in Process /\ Local(r)
        /\ CageOk(r) /\ r.c \in Containers
    BY <1>1, AtFacts, ProcFacts DEF setup_bind_links
  <1>3. CASE Refused(p)
    BY <1>2, <1>3, ErrorInv DEF Refused, StopPcs
  <1>4. CASE /\ Goto(p, [r EXCEPT !.rt = r.rt \cup {"links"}])
             /\ linked' = [linked EXCEPT ![r.c] = "links" \notin r.rt]
             /\ UNCHANGED <<disk, port, running, grants, history>>
    <2>1. PICK e : e = [r EXCEPT !.rt = r.rt \cup {"links"}]
      OBVIOUS
    <2>2. /\ e \in Process /\ e.lib = r.lib /\ e.filter = r.filter /\ e.c = r.c /\ e.steps = r.steps
          /\ e.calls = r.calls /\ e.loc = r.loc /\ e.rt = r.rt \cup {"links"} /\ e.mem = r.mem
      BY <1>2, <2>1 DEF Process, Runtime
    <2>3. Goto(p, e) /\ Kept(e, r)
      BY <1>4, <2>1, <2>2 DEF Kept
    <2>4. PICK d \in Process :
             /\ Moved(p, d) /\ Kept(d, r) /\ Ahead(d, r) /\ d.calls = r.calls
             /\ d.loc = r.loc /\ d.rt = r.rt \cup {"links"} /\ d.mem = r.mem
      BY <1>1, <1>2, <2>2, <2>3, GoOn
    <2>5. "cage" \in d.loc /\ d.loc \subseteq {"cage", "netstack"}
      BY <1>2, <2>4 DEF CageOk, Caging
    <2>6. Local(d)
      BY <1>2, <2>4, <2>5, StartLocal DEF StartPcs, Caging
    <2>7. d.c = r.c /\ Pc(d) = "netstack"
      BY <1>2, <2>4 DEF Kept, Ahead, Follows
    <2>8. port' = port /\ running' = running /\ starts' = starts /\ killed' = killed
      BY <1>4 DEF history
    <2>9. PICK b : b = ("links" \notin r.rt)
      OBVIOUS
    <2>10. b \in BOOLEAN /\ linked' = [linked EXCEPT ![r.c] = b]
      BY <1>4, <2>9
    <2>11. linked \in [Containers -> BOOLEAN]
      BY DEF Inv, TypesOk
    <2>12. /\ linked' \in [Containers -> BOOLEAN] /\ linked'[r.c] = b
           /\ \A x \in Containers : x # r.c => linked'[x] = linked[x]
      BY <1>2, <2>10, <2>11
    <2>13. TypesOk'
      BY <1>4, <2>4, <2>12 DEF Inv, TypesOk, Moved, disk, history
    <2>14. RunningOk'
      <3>1. running' \in [Containers -> SUBSET Procs]
        BY <2>13 DEF TypesOk
      <3>2. p \in running[r.c] => "cage" \in d.rt
        BY <1>1, <1>2, <2>4 DEF Inv, RunningOk
      <3> QED
        BY <1>1, <1>2, <2>4, <2>7, <2>8, <3>1, <3>2, RunningStep
    <2>15. LinkOk'
      BY <1>1, <1>2, <2>4, <2>7, <2>8, <2>12, LinkStep
    <2>16. StartsOk'
      <3>1. starts[r.c] = 1 => "links" \notin r.rt
        BY <1>1, <1>2 DEF Inv, StartsOk
      <3>2. Started(r)
        BY <1>2 DEF Started, StartPcs, Caging
      <3>3. (starts[r.c] = 1 => linked'[r.c]) /\ (~linked'[r.c] => "links" \in r.rt)
        BY <2>9, <2>12, <3>1
      <3> QED
        BY <1>1, <1>2, <2>4, <2>7, <2>8, <2>12, <3>2, <3>3, StartsStep
    <2> QED
      BY <1>1, <1>2, <1>4, <2>4, <2>6, <2>7, <2>13, <2>14, <2>15, <2>16, WinStep
         DEF StartPcs, Caging
  <1>5. CASE ~r.filter /\ Same(p) /\ UNCHANGED <<disk, winnt, history>>
    <2>1. PICK d \in Process :
             /\ Moved(p, d) /\ Ahead(d, r) /\ Kept(d, r) /\ d.c = r.c /\ d.calls = r.calls
             /\ d.mem = r.mem /\ d.rt = r.rt /\ d.loc = r.loc
      BY <1>1, <1>2, <1>5, SameFacts
    <2>2. "cage" \in d.loc /\ d.loc \subseteq {"cage", "netstack"}
      BY <1>2, <2>1 DEF CageOk, Caging
    <2>3. Local(d)
      BY <1>2, <1>5, <2>1, <2>2, StartLocal DEF StartPcs, Caging
    <2> QED
      BY <1>1, <1>2, <1>5, <2>1, <2>3, StartQuiet DEF StartPcs, Caging
  <1> QED
    BY <1>1, <1>3, <1>4, <1>5 DEF setup_bind_links

\* start or exec puts a program into the cage.
LEMMA SpawnInv == ASSUME Inv, NEW p \in Procs, Spawn(p) PROVE Inv'
  <1>1. PICK r : r = proc[p]
    OBVIOUS
  <1>2. PICK s \in {"spawn", "exec"} : At(p, s)
    BY DEF Spawn
  <1>3. /\ Pc(r) = s /\ r.steps # <<>> /\ r \in Process /\ Local(r) /\ CageOk(r)
        /\ r.c \in Containers
    BY <1>1, <1>2, AtFacts, ProcFacts
  <1>4. CASE Refused(p)
    BY <1>2, <1>4, ErrorInv DEF Refused, StopPcs
  <1>5. CASE /\ Same(p) /\ running' = [running EXCEPT ![r.c] = running[r.c] \cup {p}]
             /\ UNCHANGED <<disk, port, linked, grants, history>>
    <2>1. PICK d \in Process :
             /\ Moved(p, d) /\ Kept(d, r) /\ Ahead(d, r) /\ d.calls = r.calls
             /\ d.loc = r.loc /\ d.rt = r.rt /\ d.mem = r.mem
      <3>1. Goto(p, r) /\ Kept(r, r)
        BY <1>1, <1>5 DEF Same, Kept
      <3> QED
        BY <1>1, <1>2, <1>3, <3>1, GoOn
    <2>2. d.c = r.c /\ (s = "spawn" => Pc(d) = "inject") /\ (s = "exec" => Pc(d) = "none")
      BY <1>3, <2>1 DEF Kept, Ahead, Follows
    <2>3. Local(d)
      <3>1. CASE s = "spawn"
        <4>1. "cage" \in d.loc /\ d.loc \subseteq {"cage", "netstack"}
          BY <1>3, <2>1, <3>1 DEF CageOk, Caging
        <4> QED
          BY <1>3, <2>1, <3>1, <4>1, StartLocal DEF StartPcs, Caging
      <3>2. CASE s = "exec"
        BY <1>3, <2>1, <2>2, <3>2, PlainLocal
      <3> QED
        BY <3>1, <3>2
    <2>4. /\ running' \in [Containers -> SUBSET Procs] /\ running'[r.c] = running[r.c] \cup {p}
          /\ \A x \in Containers : x # r.c => running'[x] = running[x]
      BY <1>3, <1>5 DEF Inv, TypesOk
    <2>5. port' = port /\ linked' = linked /\ starts' = starts /\ killed' = killed
      BY <1>5 DEF history
    <2>6. TypesOk'
      BY <1>5, <2>1, <2>4 DEF Inv, TypesOk, Moved, disk, history
    <2>7. RunningOk'
      <3>1. "cage" \in d.rt \/ Pc(d) \in {"inject", "keep"}
        BY <1>3, <2>1, <2>2 DEF CageOk, StopPcs
      <3> QED
        BY <1>1, <1>3, <2>1, <2>2, <2>4, <3>1, RunningStep
    <2>8. LinkOk'
      BY <1>1, <1>3, <2>1, <2>2, <2>5, LinkStep
    <2>9. StartsOk'
      <3>1. starts[r.c] = 1 => ("links" \in r.rt => linked[r.c])
        BY <1>1, <1>3 DEF Inv, StartsOk
      <3>2. Started(d) => Started(r)
        BY <1>3, <2>1, <2>2 DEF Started, StartPcs, Caging
      <3> QED
        BY <1>1, <1>3, <2>1, <2>2, <2>5, <3>1, <3>2, StartsStep
    <2> QED
      BY <1>1, <1>3, <1>5, <2>1, <2>2, <2>3, <2>6, <2>7, <2>8, <2>9, WinStep
         DEF StartPcs, Caging
  <1> QED
    BY <1>1, <1>4, <1>5 DEF Spawn

\* The program exits by itself.
LEMMA ProgramExitsInv == ASSUME Inv, NEW p \in Procs, ProgramExits(p) PROVE Inv'
  <1>1. /\ proc' = proc /\ dir' = dir /\ file' = file /\ port' = port /\ linked' = linked
        /\ grants' = grants /\ starts' = starts /\ calm' = calm /\ commands' = commands
        /\ faults' = faults /\ killed' = killed
    BY DEF ProgramExits, disk, history
  <1>2. /\ running' \in [Containers -> SUBSET Procs]
        /\ \A c \in Containers : running'[c] \subseteq running[c]
    <2>1. proc[p].c \in Containers /\ running \in [Containers -> SUBSET Procs]
      BY ProcFacts DEF ProgramExits, TypesOk
    <2> QED
      BY <2>1 DEF ProgramExits
  <1>3. TypesOk'
    BY <1>1, <1>2 DEF Inv, TypesOk
  <1>4. RunningOk'
    BY <1>1, <1>2 DEF Inv, RunningOk
  <1>5. LinkOk' /\ StartsOk' /\ FileOk' /\ CalmOk'
    BY <1>1 DEF Inv, LinkOk, StartsOk, FileOk, CalmOk
  <1>6. \A q \in Procs : Local(proc[q])'
    BY <1>1 DEF Inv
  <1> QED
    BY <1>3, <1>4, <1>5, <1>6 DEF Inv

-----------------------------------------------------------------------------
(* create, load, write_state *)

\* A step that leaves the program and the links alone.
LEMMA AsideStep ==
    ASSUME Inv, NEW p \in Procs, NEW d, Moved(p, d),
           NEW c \in Containers, NEW r, r = proc[p], r.c = c, d.c = c,
           UNCHANGED <<linked, running, starts>>, killed \subseteq killed',
           d.rt = r.rt, d.mem = "running" => r.mem = "running",
           Pc(r) \notin {"inject", "keep"}, Pc(d) \notin StartPcs
    PROVE  RunningOk' /\ LinkOk' /\ StartsOk'
  <1>1. /\ running' \in [Containers -> SUBSET Procs]
        /\ running' = running /\ linked' = linked /\ starts' = starts
    BY DEF Inv, TypesOk
  <1>2. RunningOk'
    <2>1. p \in running[c] => "cage" \in d.rt
      BY DEF Inv, RunningOk
    <2> QED
      BY <1>1, <2>1, RunningStep
  <1>3. LinkOk'
    BY <1>1, LinkStep
  <1>4. StartsOk'
    <2>1. starts[c] = 1 => ("links" \in r.rt => linked[c])
      BY DEF Inv, StartsOk
    <2>2. Pc(d) \notin {"publish", "cage", "links"} /\ (Started(d) => Started(r))
      BY DEF Started, StartPcs, Caging
    <2> QED
      BY <1>1, <2>1, <2>2, StartsStep
  <1> QED
    BY <1>2, <1>3, <1>4

\* create makes the directory.
LEMMA MkdirInv == ASSUME Inv, NEW p \in Procs, Mkdir(p) PROVE Inv'
  <1>1. PICK r : r = proc[p]
    OBVIOUS
  <1>2. PICK c : c = r.c
    OBVIOUS
  <1>3. /\ At(p, "mkdir") /\ Pc(r) = "mkdir" /\ r.steps # <<>> /\ r \in Process
        /\ CageOk(r) /\ ObjectOk(r) /\ ShellOk(r) /\ c \in Containers
    BY <1>1, <1>2, AtFacts, ProcFacts DEF Mkdir
  <1>4. PICK d \in Process :
           /\ Moved(p, d) /\ Ahead(d, r) /\ Kept(d, r) /\ d.c = c /\ d.calls = r.calls
           /\ d.mem = r.mem /\ d.rt = r.rt /\ d.loc = r.loc
    BY <1>1, <1>2, <1>3, SameFacts DEF Mkdir
  <1>5. Pc(d) = "rootfs" /\ d.mem = None /\ d.rt = {} /\ d.loc = {}
    BY <1>3, <1>4 DEF Ahead, Follows, ObjectOk
  <1>6. Local(d)
    <2>1. None # "running" /\ c # None
      BY <1>3, NoneAssumption, WindowsAssumption DEF Status
    <2>2. CageOk(d)
      BY <1>5, <2>1 DEF CageOk, StartPcs, StopPcs, Caging, Linked
    <2>3. ObjectOk(d)
      BY <1>3, <1>4, <1>5, <2>1 DEF ObjectOk
    <2>4. ShellOk(d)
      BY <1>5, <2>1, RestFacts DEF ShellOk, StartPcs, Caging
    <2> QED
      BY <1>4, <1>5, <2>2, <2>3, <2>4, RestFacts DEF Local
  <1>7. /\ dir' \in [Containers -> {"new", "there", "gone"}] /\ dir'[c] = "there"
        /\ \A e \in Containers : e # c => dir'[e] = dir[e]
    BY <1>1, <1>2, <1>3 DEF Mkdir, Inv, TypesOk
  <1>8. /\ file' = file /\ port' = port /\ linked' = linked /\ running' = running
        /\ grants' = grants /\ starts' = starts /\ calm' = calm /\ commands' = commands
        /\ faults' = faults /\ killed' = killed
    BY DEF Mkdir, winnt, history
  <1>9. TypesOk'
    BY <1>4, <1>7, <1>8 DEF Inv, TypesOk, Moved
  <1>10. RunningOk' /\ LinkOk' /\ StartsOk'
    BY <1>1, <1>2, <1>3, <1>4, <1>5, <1>8, AsideStep DEF StartPcs, Caging
  <1>11. FileOk'
    <2>1. ~Settles(r)
      BY <1>3, <1>4, <1>5, NoneAssumption DEF Settles, Status
    <2> QED
      BY <1>1, <1>2, <1>3, <1>4, <1>5, <1>7, <1>8, <2>1, FileStep
  <1>12. CalmOk'
    <2>1. calm[c] => "container" \notin grants[c]
      BY <1>1, <1>2, <1>3, CalmFacts, OwesFacts
    <2> QED
      BY <1>1, <1>2, <1>3, <1>4, <1>5, <1>7, <1>8, <2>1, CalmStep
  <1> QED
    BY <1>4, <1>6, <1>9, <1>10, <1>11, <1>12, StepInv

\* An object comes into being, with the state m.
LEMMA ObjectLocal ==
    ASSUME NEW r, Local(r), r.steps # <<>>, Pc(r) \in {"rootfs", "load"},
           NEW d \in Process, Kept(d, r), d.calls = r.calls, d.mem \in {"created", "stopped"},
           d.rt = r.rt, d.loc = r.loc, Pc(d) \in {"truncate", "none"}
    PROVE  Local(d)
  <1>1. CageOk(r) /\ ObjectOk(r) /\ ShellOk(r)
    BY DEF Local
  <1>2. /\ d.rt = {} /\ d.loc = {} /\ d.mem # None /\ r.c # None
        /\ First(r.calls) \notin Opening
    BY <1>1, UnusedFacts, NoneAssumption DEF ObjectOk, Status
  <1>3. CageOk(d)
    BY <1>2 DEF CageOk, StartPcs, StopPcs, Caging, Linked
  <1>4. ObjectOk(d)
    BY <1>2 DEF ObjectOk, Kept
  <1>5. d.steps \notin ShellSeqs
    <2>1. \A s \in ShellSeqs : First(s) \in {"stage", "wait", "record"}
      BY DEF ShellSeqs, First
    <2> QED
      BY <2>1 DEF Pc
  <1>6. ShellOk(d)
    BY <1>5 DEF ShellOk, StartPcs, Caging
  <1>7. WriteOk(d)
    BY DEF WriteOk
  <1> QED
    BY <1>3, <1>4, <1>6, <1>7 DEF Local

\* create prepares the rootfs, or fails and leaves the directory.
LEMMA RootfsInv == ASSUME Inv, NEW p \in Procs, PrepareRootfs(p) PROVE Inv'
  <1>1. PICK r : r = proc[p]
    OBVIOUS
  <1>2. /\ At(p, "rootfs") /\ Pc(r) = "rootfs" /\ r.steps # <<>> /\ r \in Process /\ Local(r)
        /\ r.c \in Containers
    BY <1>1, AtFacts, ProcFacts DEF PrepareRootfs
  <1>3. CASE Refused(p)
    BY <1>2, <1>3, ErrorInv DEF Refused, StopPcs
  <1>4. CASE Goto(p, [r EXCEPT !.mem = "created"]) /\ UNCHANGED <<disk, winnt, history>>
    <2>1. PICK e : e = [r EXCEPT !.mem = "created"]
      OBVIOUS
    <2>2. /\ e \in Process /\ e.lib = r.lib /\ e.filter = r.filter /\ e.c = r.c /\ e.steps = r.steps
          /\ e.calls = r.calls /\ e.loc = r.loc /\ e.rt = r.rt /\ e.mem = "created"
      BY <1>2, <2>1 DEF Process, Status
    <2>3. Goto(p, e) /\ Kept(e, r)
      BY <1>4, <2>1, <2>2 DEF Kept
    <2>4. PICK d \in Process :
             /\ Moved(p, d) /\ Kept(d, r) /\ Ahead(d, r) /\ d.calls = r.calls
             /\ d.loc = r.loc /\ d.rt = r.rt /\ d.mem = "created"
      BY <1>1, <1>2, <2>2, <2>3, GoOn
    <2>5. Pc(d) = "truncate" /\ d.c = r.c
      BY <1>2, <2>4 DEF Ahead, Follows, Kept
    <2>6. Local(d) /\ (Started(d) => Started(r)) /\ Settles(d)
      BY <1>2, <2>4, <2>5, ObjectLocal DEF Started, StartPcs, Caging, Settles
    <2>7. calm[r.c] => dir[r.c] = "there" /\ "container" \notin grants[r.c]
      BY <1>1, <1>2, CalmFacts, OwesFacts
    <2> QED
      BY <1>1, <1>2, <1>4, <2>4, <2>5, <2>6, <2>7, QuietStep
  <1> QED
    BY <1>1, <1>3, <1>4 DEF PrepareRootfs

\* load reads state.json, or fails.
LEMMA LoadInv == ASSUME Inv, NEW p \in Procs, Load(p) PROVE Inv'
  <1>1. PICK r : r = proc[p]
    OBVIOUS
  <1>2. /\ At(p, "load") /\ Pc(r) = "load" /\ r.steps # <<>> /\ r \in Process /\ Local(r)
        /\ r.c \in Containers
    BY <1>1, AtFacts, ProcFacts DEF Load
  <1>3. PICK f : f = file[r.c]
    OBVIOUS
  <1>4. CASE f \in {None, Torn}
    <2>1. Error(p) /\ UNCHANGED history
      BY <1>1, <1>3, <1>4 DEF Load
    <2> QED
      BY <1>2, <2>1, ErrorInv DEF StopPcs
  <1>5. CASE f \notin {None, Torn}
    <2>1. f \in State /\ f.status \in Status
      BY <1>2, <1>3, <1>5 DEF Inv, TypesOk, State
    <2>2. PICK m : m = IF f.status = "running" THEN "stopped" ELSE f.status
      OBVIOUS
    <2>3. m \in {"created", "stopped"}
      BY <2>1, <2>2 DEF Status
    <2>4. PICK e : e = [r EXCEPT !.mem = m]
      OBVIOUS
    <2>5. /\ e \in Process /\ e.lib = r.lib /\ e.filter = r.filter /\ e.c = r.c /\ e.steps = r.steps
          /\ e.calls = r.calls /\ e.loc = r.loc /\ e.rt = r.rt /\ e.mem = m
      BY <1>2, <2>3, <2>4 DEF Process, Status
    <2>6. Goto(p, e) /\ UNCHANGED <<disk, winnt, history>> /\ Kept(e, r)
      BY <1>1, <1>3, <1>5, <2>2, <2>4, <2>5 DEF Load, Kept
    <2>7. PICK d \in Process :
             /\ Moved(p, d) /\ Kept(d, r) /\ Ahead(d, r) /\ d.calls = r.calls
             /\ d.loc = r.loc /\ d.rt = r.rt /\ d.mem = m
      BY <1>1, <1>2, <2>5, <2>6, GoOn
    <2>8. Pc(d) = "none" /\ d.c = r.c
      BY <1>2, <2>7 DEF Ahead, Follows, Kept
    <2>9. Local(d) /\ (Started(d) => Started(r))
      BY <1>2, <2>3, <2>7, <2>8, ObjectLocal DEF Started, StartPcs, Caging
    <2>10. dir[r.c] = "there"
      BY <1>2, <1>3, <1>5 DEF Inv, FileOk
    <2>11. calm[r.c] => "container" \notin grants[r.c]
      BY <1>1, <1>2, CalmFacts, OwesFacts
    <2>12. ~Settles(r)
      <3>1. r.mem = None
        BY <1>1, <1>2, ProcFacts DEF ObjectOk
      <3> QED
        BY <1>2, <3>1, NoneAssumption DEF Settles, Status
    <2> QED
      BY <1>1, <1>2, <1>3, <2>1, <2>6, <2>7, <2>8, <2>9, <2>10, <2>11, <2>12, QuietStep
  <1> QED
    BY <1>4, <1>5

\* A call that fails half-way leaves the object as it is.
LEMMA EndedLocal ==
    ASSUME NEW r, Local(r), Pc(r) \in {"truncate", "delete"}, NEW s \in {<<>>, <<"drop">>},
           s = <<"drop">> => r.mem # "running",
           NEW d, d = [r EXCEPT !.steps = s, !.calls = AfterError(r)]
    PROVE  /\ d \in Process /\ Local(d) /\ d.c = r.c /\ d.mem = r.mem /\ d.rt = r.rt
           /\ Pc(d) \in {"none", "drop"} /\ d.calls = AfterError(r)
           /\ Started(d) => Started(r)
  <1>1. r \in Process /\ CageOk(r) /\ ObjectOk(r) /\ ShellOk(r)
    BY DEF Local
  <1>2. PICK cs : cs = AfterError(r)
    OBVIOUS
  <1>3. /\ cs \in CallSeqs /\ (cs = r.calls \/ First(cs) = "exit") /\ First(cs) \notin Opening
    BY <1>2, AfterErrorFacts
  <1>4. s \in StepSeqs /\ First(s) \in {"none", "drop"} /\ (First(s) = "drop" => s = <<"drop">>)
    <2>1. CASE s = <<>>
      BY <2>1 DEF StepSeqs, Others, First
    <2>2. CASE s = <<"drop">>
      BY <2>2 DEF StepSeqs, Others, First
    <2> QED
      BY <2>1, <2>2
  <1>5. /\ d \in Process /\ d.steps = s /\ d.loc = r.loc /\ d.calls = cs /\ d.c = r.c
        /\ d.mem = r.mem /\ d.rt = r.rt /\ d.filter = r.filter /\ Pc(d) \in {"none", "drop"}
        /\ Pc(d) = "drop" => s = <<"drop">>
    BY <1>1, <1>2, <1>3, <1>4 DEF Process, Pc
  <1>6. CageOk(d)
    BY <1>1, <1>5 DEF CageOk, StartPcs, StopPcs, Caging, Linked
  <1>7. r.mem # None /\ r.c # None
    BY <1>1, UnusedFacts DEF ObjectOk
  <1>8. ObjectOk(d)
    BY <1>3, <1>5, <1>7 DEF ObjectOk
  <1>9. ShellOk(d)
    <2>1. \A t \in ShellSeqs : First(t) \in {"stage", "wait", "record"}
      BY DEF ShellSeqs, First
    <2>2. d.steps \notin ShellSeqs
      BY <1>5, <2>1 DEF Pc
    <2> QED
      BY <1>1, <1>3, <1>5, <2>2 DEF ShellOk, StartPcs, Caging
  <1>10. WriteOk(d)
    <2>1. CASE Pc(d) = "none"
      BY <2>1, RestFacts
    <2>2. CASE Pc(d) = "drop"
      BY <1>5, <2>2 DEF WriteOk
    <2> QED
      BY <1>5, <2>1, <2>2
  <1>11. Started(d) => Started(r)
    BY <1>5 DEF Started, StartPcs, Caging
  <1> QED
    BY <1>2, <1>5, <1>6, <1>8, <1>9, <1>10, <1>11 DEF Local

\* write_state opens the file, or fails because the directory is gone.
LEMMA TruncateInv == ASSUME Inv, NEW p \in Procs, Truncate(p) PROVE Inv'
  <1>1. PICK r : r = proc[p]
    OBVIOUS
  <1>2. PICK c : c = r.c
    OBVIOUS
  <1>3. /\ At(p, "truncate") /\ Pc(r) = "truncate" /\ r.steps # <<>> /\ r \in Process /\ Local(r)
        /\ CageOk(r) /\ ObjectOk(r) /\ c \in Containers /\ r.mem # None
    <2>1. Pc(r) = "truncate" /\ ObjectOk(r)
      BY <1>1, AtFacts, ProcFacts DEF Truncate
    <2> QED
      BY <1>1, <1>2, <2>1, AtFacts, ProcFacts DEF Truncate, ObjectOk
  <1>4. CASE dir[c] # "there"
    <2>1. PICK s \in {<<>>, <<"drop">>} :
             /\ proc' = [proc EXCEPT ![p] = [r EXCEPT !.steps = s, !.calls = AfterError(r)]]
             /\ s = <<"drop">> => r.mem # "running"
      <3>1. PICK b : b = \E i \in DOMAIN r.steps : r.steps[i] = "drop"
        OBVIOUS
      <3>2. PICK s : s = IF b THEN <<"drop">> ELSE <<>>
        OBVIOUS
      <3>3. proc' = [proc EXCEPT ![p] = [r EXCEPT !.steps = s, !.calls = AfterError(r)]]
        BY <1>1, <1>2, <1>4, <3>1, <3>2 DEF Truncate
      <3>4. s \in {<<>>, <<"drop">>} /\ (s = <<"drop">> => b)
        BY <3>2
      <3>5. b => r.mem # "running"
        <4>1. r.steps \in {<<"truncate", "write">>, <<"truncate", "write", "drop">>}
          BY <1>3, StepFacts DEF Shape, Process, Pc
        <4>2. ASSUME r.steps = <<"truncate", "write">> PROVE ~b
          <5>1. DOMAIN r.steps = 1 .. 2 /\ r.steps[1] = "truncate" /\ r.steps[2] = "write"
            BY <4>2
          <5>2. \A i \in 1 .. 2 : i = 1 \/ i = 2
            OBVIOUS
          <5>3. \A i \in DOMAIN r.steps : r.steps[i] # "drop"
            BY <5>1, <5>2
          <5> QED
            BY <3>1, <5>3
        <4>3. b => r.steps \in DropSeqs
          BY <4>1, <4>2 DEF DropSeqs
        <4> QED
          BY <1>1, <4>3, ProcFacts DEF WriteOk
      <3> QED
        BY <3>3, <3>4, <3>5
    <2>2. UNCHANGED <<disk, winnt, history>>
      BY <1>1, <1>2, <1>4 DEF Truncate
    <2>3. PICK d : d = [r EXCEPT !.steps = s, !.calls = AfterError(r)]
      OBVIOUS
    <2>4. /\ d \in Process /\ Local(d) /\ d.c = r.c /\ d.mem = r.mem /\ d.rt = r.rt
          /\ Pc(d) \in {"none", "drop"} /\ d.calls = AfterError(r) /\ (Started(d) => Started(r))
      BY <1>3, <2>1, <2>3, EndedLocal
    <2>5. Moved(p, d)
      BY <2>1, <2>3, <2>4, MoveFacts DEF Inv
    <2>6. calm[c] => "container" \notin grants[c] /\ First(d.calls) \in {"none", "exit"}
      BY <1>1, <1>2, <1>3, <1>4, <2>4, CalmFacts, AfterErrorFacts
    <2>7. file[c] = None
      BY <1>3, <1>4 DEF Inv, FileOk
    <2> QED
      BY <1>1, <1>2, <1>3, <1>4, <2>2, <2>4, <2>5, <2>6, <2>7, QuietStep
  <1>5. CASE dir[c] = "there"
    <2>1. PICK a : a = IF file[c] \in {None, Torn} THEN {} ELSE file[c].aces
      OBVIOUS
    <2>2. PICK o : o = [status |-> r.mem, aces |-> a]
      OBVIOUS
    <2>16. o \in State /\ o.status = r.mem
      <3>1. file[c] \notin {None, Torn} => file[c].aces \subseteq Sids
        BY <1>3 DEF Inv, TypesOk, State
      <3>2. a \subseteq Sids /\ r.mem \in Status
        BY <1>1, <1>3, <2>1, <3>1, ProcFacts
      <3> QED
        BY <2>2, <3>2 DEF State
    <2>3. PICK e : e = [r EXCEPT !.out = o]
      OBVIOUS
    <2>4. /\ e \in Process /\ e.lib = r.lib /\ e.filter = r.filter /\ e.c = r.c /\ e.steps = r.steps /\ e.out = o
          /\ e.calls = r.calls /\ e.loc = r.loc /\ e.rt = r.rt /\ e.mem = r.mem
      BY <1>3, <2>3, <2>16 DEF Process
    <2>5. /\ Goto(p, e) /\ Kept(e, r) /\ file' = [file EXCEPT ![c] = Torn]
          /\ UNCHANGED <<dir, winnt, history>>
      BY <1>1, <1>2, <1>5, <2>1, <2>2, <2>3, <2>4 DEF Truncate, Kept
    <2>6. PICK d \in Process :
             /\ Moved(p, d) /\ Kept(d, r) /\ Ahead(d, r) /\ d.calls = r.calls /\ d.out = o
             /\ d.loc = r.loc /\ d.rt = r.rt /\ d.mem = r.mem
      BY <1>1, <1>3, <2>4, <2>5, GoOn
    <2>7. Pc(d) = "write" /\ d.c = c /\ d.steps = Tail(r.steps)
      BY <1>2, <1>3, <2>6 DEF Ahead, Follows, Kept
    <2>8. Local(d)
      <3>1. d.steps \in DropSeqs => d.mem # "running"
        <4>2. d.steps \in DropSeqs => r.steps \in DropSeqs
          BY <1>3, <2>6 DEF Ahead, Shape, Pc
        <4> QED
          BY <1>1, <2>6, <4>2, ProcFacts DEF WriteOk
      <3>2. WriteOk(d)
        BY <2>6, <2>16, <3>1 DEF WriteOk
      <3> QED
        BY <1>3, <2>6, <2>7, <3>2, PlainLocal
    <2>9. /\ dir' = dir /\ port' = port /\ linked' = linked /\ running' = running
          /\ grants' = grants /\ starts' = starts /\ calm' = calm /\ commands' = commands
          /\ faults' = faults /\ killed' = killed
      BY <2>5 DEF winnt, history
    <2>10. /\ file' \in [Containers -> State \cup {None, Torn}] /\ file'[c] = Torn
           /\ \A x \in Containers : x # c => file'[x] = file[x]
      BY <1>3, <2>5 DEF Inv, TypesOk
    <2>11. TypesOk'
      BY <2>6, <2>9, <2>10 DEF Inv, TypesOk, Moved
    <2>12. RunningOk' /\ LinkOk' /\ StartsOk'
      BY <1>1, <1>2, <1>3, <2>6, <2>7, <2>9, AsideStep DEF StartPcs, Caging
    <2>13. FileOk'
      <3>1. ~Up(file'[c])
        BY <2>10, NoneAssumption DEF Up
      <3> QED
        BY <1>1, <1>2, <1>3, <1>5, <2>6, <2>7, <2>9, <2>10, <3>1, NoneAssumption, FileStep
    <2>14. CalmOk'
      <3>1. calm[c] => "container" \notin grants[c]
        BY <1>1, <1>2, <1>3, CalmFacts, OwesFacts
      <3> QED
        BY <1>1, <1>2, <1>3, <1>5, <2>6, <2>7, <2>9, <2>10, <3>1, CalmStep
    <2> QED
      BY <2>6, <2>8, <2>11, <2>12, <2>13, <2>14, StepInv
  <1> QED
    BY <1>4, <1>5

\* write_state writes the file, if the directory is still there.
LEMMA WriteStateInv == ASSUME Inv, NEW p \in Procs, WriteState(p) PROVE Inv'
  <1>1. PICK r : r = proc[p]
    OBVIOUS
  <1>2. PICK c : c = r.c
    OBVIOUS
  <1>3. /\ At(p, "write") /\ Pc(r) = "write" /\ r.steps # <<>> /\ r \in Process /\ Local(r)
        /\ CageOk(r) /\ ObjectOk(r) /\ c \in Containers /\ r.mem \in Status
        /\ WriteOk(r) /\ r.out \in State
    <2>1. Pc(r) = "write" /\ ObjectOk(r) /\ r.mem \in Status \cup {None}
      BY <1>1, AtFacts, ProcFacts DEF WriteState
    <2>2. r.mem # None
      BY <2>1 DEF ObjectOk
    <2>3. WriteOk(r) /\ r.out \in State
      BY <1>1, <2>1, ProcFacts DEF WriteOk
    <2> QED
      BY <1>1, <1>2, <2>1, <2>2, <2>3, AtFacts, ProcFacts DEF WriteState
  <1>4. PICK e : e = [r EXCEPT !.sid = None, !.out = None]
    OBVIOUS
  <1>5. /\ e \in Process /\ e.lib = r.lib /\ e.filter = r.filter /\ e.c = r.c /\ e.steps = r.steps
        /\ e.calls = r.calls /\ e.loc = r.loc /\ e.rt = r.rt /\ e.mem = r.mem
    BY <1>3, <1>4 DEF Process
  <1>6. Goto(p, e) /\ Kept(e, r) /\ UNCHANGED <<dir, winnt, history>>
    BY <1>1, <1>4, <1>5 DEF WriteState, Kept
  <1>7. PICK d \in Process :
           /\ Moved(p, d) /\ Kept(d, r) /\ Ahead(d, r) /\ d.calls = r.calls
           /\ d.loc = r.loc /\ d.rt = r.rt /\ d.mem = r.mem
    BY <1>1, <1>3, <1>5, <1>6, GoOn
  <1>8. Pc(d) \in {"none", "drop"} /\ d.c = c /\ d.steps = Tail(r.steps)
    BY <1>2, <1>3, <1>7 DEF Ahead, Follows, Kept
  <1>9. Local(d)
    BY <1>3, <1>7, <1>8, PlainLocal
  <1>10. /\ dir' = dir /\ port' = port /\ linked' = linked /\ running' = running
         /\ grants' = grants /\ starts' = starts /\ calm' = calm /\ commands' = commands
         /\ faults' = faults /\ killed' = killed
    BY <1>6 DEF winnt, history
  <1>11. PICK f : f = r.out
    OBVIOUS
  <1>12. f \in State /\ f \notin {None, Torn}
    BY <1>3, <1>11, NoneAssumption
  <1>13. file \in [Containers -> State \cup {None, Torn}] /\ (file[c] # None => dir[c] = "there")
    BY <1>3 DEF Inv, TypesOk, FileOk
  <1>14. /\ file' \in [Containers -> State \cup {None, Torn}]
         /\ \A x \in Containers : x # c => file'[x] = file[x]
         /\ dir[c] = "there" => file'[c] = f
         /\ dir[c] # "there" => file'[c] = file[c] /\ file[c] = None
    <2>1. CASE dir[c] = "there"
      <3>1. file' = [file EXCEPT ![c] = f]
        BY <1>1, <1>2, <1>11, <2>1 DEF WriteState
      <3> QED
        BY <1>3, <1>12, <1>13, <2>1, <3>1
    <2>2. CASE dir[c] # "there"
      <3>1. file' = file
        BY <1>1, <1>2, <2>2 DEF WriteState
      <3> QED
        BY <1>13, <2>2, <3>1
    <2> QED
      BY <2>1, <2>2
  <1>15. TypesOk'
    BY <1>7, <1>10, <1>14 DEF Inv, TypesOk, Moved
  <1>16. RunningOk' /\ LinkOk' /\ StartsOk'
    BY <1>1, <1>2, <1>3, <1>7, <1>8, <1>10, AsideStep DEF StartPcs, Caging
  <1>17. FileOk'
    <2>1. file'[c] # Torn /\ (file'[c] # None => dir'[c] = "there")
          /\ (dir'[c] = "there" => file'[c] # None)
      BY <1>10, <1>12, <1>14, NoneAssumption
    <2>2. Up(file'[c]) => Settles(d)
      <3> SUFFICES ASSUME Up(file'[c]), r.mem # "running" PROVE Settles(d)
        BY <1>7 DEF Settles
      <3>1. f.status = "running"
        BY <1>14, NoneAssumption DEF Up
      <3>2. r.steps = <<"write">> /\ r.calls = <<"remove", "exit">>
        BY <1>3, <1>11, <3>1 DEF WriteOk
      <3>3. d.steps = <<>> /\ d.mem \in {"created", "stopped"}
        BY <1>3, <1>7, <1>8, <3>2 DEF Status
      <3> QED
        BY <1>7, <3>2, <3>3 DEF Settles
    <2> QED
      BY <1>1, <1>2, <1>3, <1>7, <1>8, <1>10, <1>14, <2>1, <2>2, FileStep
  <1>18. CalmOk'
    <2>1. calm[c] /\ First(r.calls) \notin {"none", "exit"} => dir[c] = "there"
      BY <1>1, <1>2, <1>3, NoneAssumption, CalmFacts
    <2>2. calm[c] /\ "container" \in grants[c] => dir[c] = "there" /\ Owes(d, file'[c])
      <3> SUFFICES ASSUME calm[c], "container" \in grants[c]
                   PROVE  dir[c] = "there" /\ Owes(d, file'[c])
        OBVIOUS
      <3>1. dir[c] = "there" /\ Owes(r, file[c])
        BY <1>1, <1>2, <1>3, CalmFacts
      <3>2. /\ r.mem \in {"created", "stopped"} /\ r.calls = <<"remove", "exit">>
            /\ "container" \in r.out.aces /\ r.steps = <<"write">>
        BY <1>3, <3>1 DEF Owes, Pc, First
      <3>3. d.steps = <<>>
        BY <1>8, <3>2
      <3> QED
        BY <1>7, <1>11, <1>12, <1>14, <3>1, <3>2, <3>3 DEF Owes
    <2> QED
      BY <1>1, <1>2, <1>3, <1>7, <1>8, <1>10, <1>12, <1>14, <2>1, <2>2, CalmStep
  <1> QED
    BY <1>7, <1>9, <1>15, <1>16, <1>17, <1>18, StepInv

-----------------------------------------------------------------------------
(* remove *)

\* remove revokes what the file lists.
LEMMA RevokeInv == ASSUME Inv, NEW p \in Procs, Revoke(p) PROVE Inv'
  <1>1. PICK r : r = proc[p]
    OBVIOUS
  <1>2. PICK c : c = r.c
    OBVIOUS
  <1>3. /\ At(p, "revoke") /\ Pc(r) = "revoke" /\ r.steps # <<>> /\ r \in Process /\ Local(r)
        /\ ShellOk(r) /\ c \in Containers
    BY <1>1, <1>2, AtFacts, ProcFacts DEF Revoke
  <1>4. PICK d \in Process :
           /\ Moved(p, d) /\ Ahead(d, r) /\ Kept(d, r) /\ d.c = c /\ d.calls = r.calls
           /\ d.mem = r.mem /\ d.rt = r.rt /\ d.loc = r.loc
    BY <1>1, <1>2, <1>3, SameFacts DEF Revoke
  <1>5. Pc(d) = "delete" /\ r.calls = <<"exit">> /\ r.calls # <<"remove", "exit">>
    BY <1>3, <1>4 DEF Ahead, Follows, ShellOk
  <1>6. Local(d)
    BY <1>3, <1>4, <1>5, PlainLocal
  <1>7. /\ dir' = dir /\ file' = file /\ port' = port /\ linked' = linked /\ running' = running
        /\ starts' = starts /\ calm' = calm /\ commands' = commands /\ faults' = faults
        /\ killed' = killed
    BY DEF Revoke, disk, history
  <1>8. /\ grants' \in [Containers -> SUBSET Sids]
        /\ \A x \in Containers : x # c => grants'[x] = grants[x]
        /\ file[c] \notin {None, Torn} => grants'[c] = grants[c] \ file[c].aces
        /\ grants'[c] \subseteq grants[c]
    <2>1. grants' = IF file[c] \in {None, Torn} THEN grants
                    ELSE [grants EXCEPT ![c] = grants[c] \ file[c].aces]
      BY <1>1, <1>2 DEF Revoke
    <2>2. grants \in [Containers -> SUBSET Sids]
      BY DEF Inv, TypesOk
    <2> QED
      BY <1>3, <2>1, <2>2
  <1>9. TypesOk'
    BY <1>4, <1>7, <1>8 DEF Inv, TypesOk, Moved
  <1>10. RunningOk' /\ LinkOk' /\ StartsOk'
    BY <1>1, <1>2, <1>3, <1>4, <1>5, <1>7, AsideStep DEF StartPcs, Caging
  <1>11. FileOk'
    <2>1. file[c] # None => dir[c] = "there"
      BY <1>3 DEF Inv, FileOk
    <2>2. Settles(r) => Settles(d)
      BY <1>3, <1>4, <1>5 DEF Settles
    <2> QED
      BY <1>1, <1>2, <1>3, <1>4, <1>5, <1>7, <2>1, <2>2, FileStep
  <1>12. CalmOk'
    <2>1. calm[c] => "container" \notin grants'[c]
      <3> SUFFICES ASSUME calm[c], "container" \in grants[c] PROVE "container" \notin grants'[c]
        BY <1>8
      <3>1. Owes(r, file[c])
        BY <1>1, <1>2, <1>3, CalmFacts
      <3>2. file[c] \in State /\ "container" \in file[c].aces
        BY <1>3, <3>1 DEF Owes, Pc, First
      <3> QED
        BY <1>8, <3>2, NoneAssumption
    <2>2. First(d.calls) = "exit"
      BY <1>4, <1>5 DEF First
    <2> QED
      BY <1>1, <1>2, <1>3, <1>4, <1>5, <1>7, <1>8, <2>1, <2>2, CalmStep
  <1> QED
    BY <1>4, <1>6, <1>9, <1>10, <1>11, <1>12, StepInv

\* remove_dir_all, done or failed.
LEMMA DeleteInv == ASSUME Inv, NEW p \in Procs, Delete(p) PROVE Inv'
  <1>1. PICK r : r = proc[p]
    OBVIOUS
  <1>2. PICK c : c = r.c
    OBVIOUS
  <1>3. /\ At(p, "delete") /\ Pc(r) = "delete" /\ r.steps # <<>> /\ r \in Process /\ Local(r)
        /\ ShellOk(r) /\ c \in Containers /\ c # None
    BY <1>1, <1>2, AtFacts, ProcFacts, WindowsAssumption DEF Delete
  <1>4. /\ file \in [Containers -> State \cup {None, Torn}]
        /\ dir \in [Containers -> {"new", "there", "gone"}]
        /\ file[c] # None => dir[c] = "there"
    BY <1>3 DEF Inv, TypesOk, FileOk
  <1>5. CASE /\ Same(p) /\ dir' = [dir EXCEPT ![c] = "gone"] /\ file' = [file EXCEPT ![c] = None]
             /\ UNCHANGED <<winnt, history>>
    <2>1. PICK d \in Process :
             /\ Moved(p, d) /\ Ahead(d, r) /\ Kept(d, r) /\ d.c = c /\ d.calls = r.calls
             /\ d.mem = r.mem /\ d.rt = r.rt /\ d.loc = r.loc
      BY <1>1, <1>2, <1>3, <1>5, SameFacts
    <2>2. Pc(d) = "none" /\ First(d.calls) = "exit"
      BY <1>3, <2>1 DEF Ahead, Follows, ShellOk, First
    <2>3. Local(d)
      BY <1>3, <2>1, <2>2, PlainLocal
    <2>4. /\ port' = port /\ linked' = linked /\ running' = running /\ grants' = grants
          /\ starts' = starts /\ calm' = calm /\ commands' = commands /\ faults' = faults
          /\ killed' = killed
      BY <1>5 DEF winnt, history
    <2>5. /\ file' \in [Containers -> State \cup {None, Torn}] /\ file'[c] = None
          /\ dir' \in [Containers -> {"new", "there", "gone"}] /\ dir'[c] = "gone"
          /\ \A x \in Containers : x # c => file'[x] = file[x] /\ dir'[x] = dir[x]
      BY <1>3, <1>4, <1>5
    <2>6. TypesOk'
      BY <2>1, <2>4, <2>5 DEF Inv, TypesOk, Moved
    <2>7. RunningOk' /\ LinkOk' /\ StartsOk'
      BY <1>1, <1>2, <1>3, <2>1, <2>2, <2>4, AsideStep DEF StartPcs, Caging
    <2>8. FileOk'
      <3>1. ~Up(file'[c])
        BY <2>5, NoneAssumption DEF Up
      <3> QED
        BY <1>1, <1>2, <1>3, <2>1, <2>4, <2>5, <3>1, NoneAssumption, FileStep
    <2>9. CalmOk'
      <3>1. calm[c] => "container" \notin grants[c]
        BY <1>1, <1>2, <1>3, CalmFacts, OwesFacts
      <3> QED
        BY <1>1, <1>2, <1>3, <2>1, <2>2, <2>4, <2>5, <3>1, CalmStep
    <2> QED
      BY <2>1, <2>3, <2>6, <2>7, <2>8, <2>9, StepInv
  <1>6. CASE /\ dir[c] = "there" /\ Fault(c) /\ UNCHANGED killed /\ file' \in {file, [file EXCEPT ![c] = None]}
             /\ proc' = [proc EXCEPT ![p] = [r EXCEPT !.steps = <<>>, !.calls = AfterError(r)]]
             /\ UNCHANGED <<dir, winnt>>
    <2>1. PICK d : d = [r EXCEPT !.steps = <<>>, !.calls = AfterError(r)]
      OBVIOUS
    <2>2. /\ d \in Process /\ Local(d) /\ d.c = c /\ d.mem = r.mem /\ d.rt = r.rt
          /\ Pc(d) \in {"none", "drop"}
      BY <1>2, <1>3, <2>1, EndedLocal
    <2>3. Moved(p, d)
      BY <1>6, <2>1, <2>2, MoveFacts DEF Inv
    <2>4. /\ dir' = dir /\ port' = port /\ linked' = linked /\ running' = running
          /\ grants' = grants /\ killed' = killed
      BY <1>6 DEF winnt
    <2>5. /\ faults' \in 0 .. MaxFaults /\ faults' # 0
          /\ calm' \in [Containers -> BOOLEAN] /\ ~calm'[c]
          /\ \A x \in Containers : x # c => calm'[x] = calm[x]
          /\ starts' = starts /\ commands' = commands
      BY <1>3, <1>6, FaultFacts
    <2>6. /\ file' \in [Containers -> State \cup {None, Torn}] /\ file'[c] \in {file[c], None}
          /\ \A x \in Containers : x # c => file'[x] = file[x]
      BY <1>3, <1>4, <1>6
    <2>7. TypesOk'
      BY <2>3, <2>4, <2>5, <2>6 DEF Inv, TypesOk, Moved
    <2>8. RunningOk' /\ LinkOk' /\ StartsOk'
      BY <1>1, <1>2, <1>3, <2>2, <2>3, <2>4, <2>5, AsideStep DEF StartPcs, Caging
    <2>9. FileOk'
      BY <1>1, <1>2, <1>3, <1>6, <2>2, <2>3, <2>4, <2>5, <2>6, FileStep
    <2>10. CalmOk'
      BY <1>1, <1>2, <1>3, <2>2, <2>3, <2>4, <2>5, <2>6, CalmStep
    <2> QED
      BY <2>2, <2>3, <2>7, <2>8, <2>9, <2>10, StepInv
  <1> QED
    BY <1>1, <1>2, <1>5, <1>6 DEF Delete

-----------------------------------------------------------------------------
(* Shells *)

\* A shell is found and waited for: the process goes on as it is.
LEMMA PassInv ==
    ASSUME Inv, NEW p \in Procs, NEW s \in {"resolve", "wait"}, At(p, s), Same(p),
           UNCHANGED <<disk, winnt, history>>
    PROVE  Inv'
  <1>1. PICK r : r = proc[p]
    OBVIOUS
  <1>2. /\ Pc(r) = s /\ r.steps # <<>> /\ r \in Process /\ Local(r) /\ CageOk(r)
        /\ r.c \in Containers
    BY <1>1, AtFacts, ProcFacts
  <1>3. PICK d \in Process :
           /\ Moved(p, d) /\ Ahead(d, r) /\ Kept(d, r) /\ d.c = r.c /\ d.calls = r.calls
           /\ d.mem = r.mem /\ d.rt = r.rt /\ d.loc = r.loc /\ d.sid = r.sid
    BY <1>1, SameFacts
  <1>4. Pc(d) \in {"none", "record"} /\ d.steps = Tail(r.steps)
    BY <1>2, <1>3 DEF Ahead, Follows
  <1>5. Local(d) /\ (Started(d) => Started(r))
    BY <1>2, <1>3, <1>4, PlainLocal DEF Started, StartPcs, Caging
  <1>6. calm[r.c] /\ d.mem # None /\ First(d.calls) \notin {"none", "exit"} =>
           dir[r.c] = "there" /\ file[r.c] \in State
    BY <1>1, <1>2, <1>3, CalmFacts
  <1>7. calm[r.c] /\ "container" \in grants[r.c] => Owes(d, file[r.c])
    <2> SUFFICES ASSUME calm[r.c], "container" \in grants[r.c] PROVE Owes(d, file[r.c])
      OBVIOUS
    <2>1. Owes(r, file[r.c])
      BY <1>1, <1>2, CalmFacts
    <2>2. /\ r.mem \in {"created", "stopped"} /\ r.calls = <<"remove", "exit">>
          /\ r.sid = "container" /\ r.steps = <<"wait", "record", "write">>
      BY <1>2, <2>1 DEF Owes, Pc, First
    <2>3. d.steps = <<"record", "write">>
      BY <1>4, <2>2
    <2> QED
      BY <1>3, <2>2, <2>3 DEF Owes
  <1>8. Settles(r) => Settles(d)
    BY <1>2, <1>3 DEF Settles
  <1> QED
    BY <1>1, <1>2, <1>3, <1>4, <1>5, <1>6, <1>7, <1>8, QuietStep

\* The resolver finds the shell or not.
LEMMA ResolveInv == ASSUME Inv, NEW p \in Procs, Resolve(p) PROVE Inv'
  <1>1. CASE Refused(p)
    BY <1>1, ErrorInv DEF Refused, StopPcs, Resolve
  <1>2. CASE Same(p) /\ UNCHANGED <<disk, winnt, history>>
    BY <1>2, PassInv DEF Resolve
  <1> QED
    BY <1>1, <1>2 DEF Resolve

\* The shell exits or the launch fails.
LEMMA WaitInv == ASSUME Inv, NEW p \in Procs, WaitShell(p) PROVE Inv'
  <1>1. CASE Refused(p)
    BY <1>1, ErrorInv DEF Refused, StopPcs, WaitShell
  <1>2. CASE Same(p) /\ UNCHANGED <<disk, winnt, history>>
    BY <1>2, PassInv DEF WaitShell
  <1> QED
    BY <1>1, <1>2 DEF WaitShell

\* The launch grants the SID access to the shell.
LEMMA StageInv == ASSUME Inv, NEW p \in Procs, Stage(p) PROVE Inv'
  <1>1. PICK r : r = proc[p]
    OBVIOUS
  <1>2. PICK c : c = r.c
    OBVIOUS
  <1>3. /\ At(p, "stage") /\ Pc(r) = "stage" /\ r.steps # <<>> /\ r \in Process /\ Local(r)
        /\ CageOk(r) /\ ObjectOk(r) /\ ShellOk(r) /\ c \in Containers
        /\ r.mem \in Status \cup {None}
    BY <1>1, <1>2, AtFacts, ProcFacts DEF Stage
  <1>4. /\ r.steps = <<"stage", "wait", "record", "write">>
        /\ r.calls = <<"remove", "exit">> /\ r.mem \in {"created", "stopped"} /\ r.mem # None
    <2>1. r.mem # None
      BY <1>3 DEF ObjectOk
    <2>2. r.steps = <<"stage", "wait", "record", "write">>
      BY <1>3, StepFacts DEF Shape, Process, Pc
    <2>3. r.steps \in ShellSeqs
      BY <2>2 DEF ShellSeqs
    <2> QED
      BY <1>3, <2>1, <2>2, <2>3 DEF ShellOk, Status
  <1>5. PICK sid \in Sids :
           /\ Goto(p, [r EXCEPT !.sid = sid])
           /\ grants' = [grants EXCEPT ![c] = grants[c] \cup {sid}]
    BY <1>1, <1>2 DEF Stage
  <1>6. PICK e : e = [r EXCEPT !.sid = sid]
    OBVIOUS
  <1>7. /\ e \in Process /\ e.lib = r.lib /\ e.filter = r.filter /\ e.c = r.c /\ e.steps = r.steps /\ e.sid = sid
        /\ e.calls = r.calls /\ e.loc = r.loc /\ e.rt = r.rt /\ e.mem = r.mem
    BY <1>3, <1>6 DEF Process
  <1>8. Goto(p, e) /\ Kept(e, r)
    BY <1>5, <1>6, <1>7 DEF Kept
  <1>9. PICK d \in Process :
           /\ Moved(p, d) /\ Kept(d, r) /\ Ahead(d, r) /\ d.calls = r.calls /\ d.sid = sid
           /\ d.loc = r.loc /\ d.rt = r.rt /\ d.mem = r.mem
    BY <1>1, <1>3, <1>7, <1>8, GoOn
  <1>10. Pc(d) = "wait" /\ d.c = c /\ d.steps = <<"wait", "record", "write">>
    BY <1>2, <1>3, <1>4, <1>9 DEF Ahead, Follows, Kept
  <1>11. Local(d)
    BY <1>3, <1>9, <1>10, PlainLocal
  <1>12. /\ dir' = dir /\ file' = file /\ port' = port /\ linked' = linked /\ running' = running
         /\ starts' = starts /\ calm' = calm /\ commands' = commands /\ faults' = faults
         /\ killed' = killed
    BY DEF Stage, disk, history
  <1>13. /\ grants' \in [Containers -> SUBSET Sids] /\ grants'[c] = grants[c] \cup {sid}
         /\ \A x \in Containers : x # c => grants'[x] = grants[x]
    BY <1>3, <1>5 DEF Inv, TypesOk
  <1>14. TypesOk'
    BY <1>9, <1>12, <1>13 DEF Inv, TypesOk, Moved
  <1>15. RunningOk' /\ LinkOk' /\ StartsOk'
    BY <1>1, <1>2, <1>3, <1>9, <1>10, <1>12, AsideStep DEF StartPcs, Caging
  <1>16. FileOk'
    <2>1. file[c] # None => dir[c] = "there"
      BY <1>3 DEF Inv, FileOk
    <2>2. ~Settles(r)
      BY <1>3, <1>4 DEF Settles
    <2> QED
      BY <1>1, <1>2, <1>3, <1>9, <1>10, <1>12, <2>1, <2>2, FileStep
  <1>17. CalmOk'
    <2>1. calm[c] => "container" \notin grants[c]
      BY <1>1, <1>2, <1>3, CalmFacts, OwesFacts
    <2>2. calm[c] => dir[c] = "there" /\ file[c] \in State
      <3>1. First(r.calls) \notin {"none", "exit"}
        BY <1>4 DEF First
      <3> QED
        BY <1>1, <1>2, <1>3, <1>4, <3>1, CalmFacts
    <2>3. calm[c] /\ "container" \in grants'[c] => Owes(d, file'[c])
      <3>1. calm[c] /\ "container" \in grants'[c] => sid = "container"
        BY <1>13, <2>1
      <3> QED
        BY <1>4, <1>9, <1>10, <3>1 DEF Owes
    <2> QED
      BY <1>1, <1>2, <1>3, <1>9, <1>10, <1>12, <1>13, <2>2, <2>3, CalmStep
  <1> QED
    BY <1>9, <1>11, <1>14, <1>15, <1>16, <1>17, StepInv

\* shell_with_plan opens the file it has read, or records nothing.
LEMMA RecordInv == ASSUME Inv, NEW p \in Procs, Record(p) PROVE Inv'
  <1>1. PICK r : r = proc[p]
    OBVIOUS
  <1>2. PICK c : c = r.c
    OBVIOUS
  <1>3. /\ At(p, "record") /\ Pc(r) = "record" /\ r.steps # <<>> /\ r \in Process /\ Local(r)
        /\ c \in Containers /\ r.steps = <<"record", "write">>
        /\ r.calls = <<"remove", "exit">> /\ r.mem \in {"created", "stopped"} /\ r.mem # None
    <2>1. /\ At(p, "record") /\ Pc(r) = "record" /\ r.steps # <<>> /\ r \in Process /\ Local(r)
          /\ c \in Containers /\ ObjectOk(r) /\ ShellOk(r) /\ r.mem \in Status \cup {None}
      BY <1>1, <1>2, AtFacts, ProcFacts DEF Record
    <2>2. r.mem # None
      BY <2>1 DEF ObjectOk
    <2>3. r.steps = <<"record", "write">>
      BY <2>1, StepFacts DEF Shape, Process, Pc
    <2>4. r.steps \in ShellSeqs
      BY <2>3 DEF ShellSeqs
    <2> QED
      BY <2>1, <2>2, <2>3, <2>4 DEF ShellOk, Status
  <1>4. First(r.calls) = "remove" /\ Tail(r.steps) = <<"write">> /\ First(<<"write">>) = "write"
    BY <1>3 DEF First
  <1>5. calm[c] => dir[c] = "there" /\ file[c] \in State
    BY <1>1, <1>2, <1>3, <1>4, CalmFacts
  <1>6. ~Settles(r)
    BY <1>3 DEF Settles
  <1>7. CASE file[c] \in {None, Torn}
    <2>1. PICK d : d = [r EXCEPT !.steps = <<>>]
      OBVIOUS
    <2>2. /\ d \in Process /\ Kept(d, r) /\ d.c = c /\ d.calls = r.calls /\ d.loc = r.loc
          /\ d.rt = r.rt /\ d.mem = r.mem /\ d.steps = <<>> /\ Pc(d) = "none"
      <3>1. <<>> \in StepSeqs
        BY DEF StepSeqs, Others
      <3> QED
        BY <1>2, <1>3, <2>1, <3>1 DEF Process, Kept, Pc, First
    <2>3. Moved(p, d)
      <3>1. proc' = [proc EXCEPT ![p] = d]
        BY <1>1, <1>2, <1>7, <2>1 DEF Record
      <3> QED
        BY <2>2, <3>1, MoveFacts DEF Inv
    <2>4. Local(d) /\ (Started(d) => Started(r))
      BY <1>3, <2>2, PlainLocal DEF Started, StartPcs, Caging
    <2>5. UNCHANGED <<disk, winnt, history>>
      BY <1>1, <1>2, <1>7 DEF Record, disk
    <2>6. ~calm[c]
      BY <1>5, <1>7, NoneAssumption
    <2> QED
      BY <1>1, <1>2, <1>3, <1>6, <2>2, <2>3, <2>4, <2>5, <2>6, QuietStep
  <1>8. CASE file[c] \notin {None, Torn}
    <2>1. file[c] \in State /\ dir[c] = "there"
      BY <1>3, <1>8 DEF Inv, TypesOk, FileOk
    <2>2. PICK new : new = IF r.sid = "container" THEN {"container"} ELSE {}
      OBVIOUS
    <2>3. PICK o : o = [file[c] EXCEPT !.aces = file[c].aces \cup new]
      OBVIOUS
    <2>4. o \in State /\ o.aces = file[c].aces \cup new
      BY <2>1, <2>2, <2>3 DEF State, Sids
    <2>5. PICK e : e = [r EXCEPT !.out = o]
      OBVIOUS
    <2>6. /\ e \in Process /\ e.lib = r.lib /\ e.filter = r.filter /\ e.c = r.c
          /\ e.steps = r.steps /\ e.out = o /\ e.calls = r.calls /\ e.loc = r.loc
          /\ e.rt = r.rt /\ e.mem = r.mem
      BY <1>3, <2>4, <2>5 DEF Process
    <2>7. /\ Goto(p, e) /\ Kept(e, r) /\ file' = [file EXCEPT ![c] = Torn]
          /\ UNCHANGED <<dir, winnt, history>>
      BY <1>1, <1>2, <1>8, <2>2, <2>3, <2>5, <2>6 DEF Record, Kept
    <2>8. PICK d \in Process :
             /\ Moved(p, d) /\ Kept(d, r) /\ Ahead(d, r) /\ d.calls = r.calls /\ d.out = o
             /\ d.loc = r.loc /\ d.rt = r.rt /\ d.mem = r.mem
      BY <1>1, <1>3, <2>6, <2>7, GoOn
    <2>9. Pc(d) = "write" /\ d.c = c /\ d.steps = <<"write">>
      BY <1>2, <1>4, <2>8 DEF Ahead, Kept
    <2>10. Local(d)
      <3>1. WriteOk(d)
        BY <1>3, <2>4, <2>8, <2>9 DEF WriteOk
      <3> QED
        BY <1>3, <2>8, <2>9, <3>1, PlainLocal
    <2>11. /\ dir' = dir /\ port' = port /\ linked' = linked /\ running' = running
           /\ grants' = grants /\ starts' = starts /\ calm' = calm /\ commands' = commands
           /\ faults' = faults /\ killed' = killed
      BY <2>7 DEF winnt, history
    <2>12. /\ file' \in [Containers -> State \cup {None, Torn}] /\ file'[c] = Torn
           /\ \A x \in Containers : x # c => file'[x] = file[x]
      BY <1>3, <2>7 DEF Inv, TypesOk
    <2>13. TypesOk'
      BY <2>8, <2>11, <2>12 DEF Inv, TypesOk, Moved
    <2>14. RunningOk' /\ LinkOk' /\ StartsOk'
      BY <1>1, <1>2, <1>3, <2>8, <2>9, <2>11, AsideStep DEF StartPcs, Caging
    <2>15. FileOk'
      <3>1. ~Up(file'[c])
        BY <2>12, NoneAssumption DEF Up
      <3> QED
        BY <1>1, <1>2, <1>3, <2>1, <2>8, <2>9, <2>11, <2>12, <3>1, NoneAssumption, FileStep
    <2>16. CalmOk'
      <3>1. calm[c] /\ "container" \in grants[c] => Owes(d, file'[c])
        <4> SUFFICES ASSUME calm[c], "container" \in grants[c] PROVE Owes(d, file'[c])
          OBVIOUS
        <4>1. Owes(r, file[c])
          BY <1>1, <1>2, <1>3, CalmFacts
        <4>2. r.sid = "container"
          BY <1>3, <4>1 DEF Owes, Pc, First
        <4>3. "container" \in o.aces
          BY <2>2, <2>4, <4>2
        <4> QED
          BY <1>3, <2>4, <2>8, <2>9, <4>3 DEF Owes
      <3> QED
        BY <1>1, <1>2, <1>3, <2>1, <2>8, <2>9, <2>11, <2>12, <3>1, CalmStep
    <2> QED
      BY <2>8, <2>10, <2>13, <2>14, <2>15, <2>16, StepInv
  <1> QED
    BY <1>7, <1>8

-----------------------------------------------------------------------------
(* Processes and calls *)

\* What the next call makes of a process: nothing to stop, the steps of the call,
\* or an error.
Called(d, r) ==
    \/ /\ Head(r.calls) = "stop" /\ r.mem # "running"
       /\ d = [r EXCEPT !.calls = Tail(r.calls)]
    \/ /\ ~(Head(r.calls) = "stop" /\ r.mem # "running")
       /\ Allowed(Head(r.calls), r.mem)
       /\ d = [r EXCEPT !.calls = Tail(r.calls), !.steps = Steps(Head(r.calls))]
    \/ /\ ~Allowed(Head(r.calls), r.mem)
       /\ \E cs \in {Tail(r.calls), <<"exit">>} : d = [r EXCEPT !.calls = cs]

\* The first steps of the calls.
LEMMA FirstStep ==
    ASSUME NEW x \in {"create", "load", "start", "exec", "stop", "remove", "ports", "shell",
                      "teardown", "resolve", "shell_with_plan", "exit"}
    PROVE  /\ Steps(x) \in StepSeqs
           /\ x = "create" => First(Steps(x)) = "mkdir"
           /\ x = "start" => First(Steps(x)) = "publish"
           /\ x = "stop" => First(Steps(x)) = "kill"
           /\ x = "remove" => First(Steps(x)) = "revoke"
           /\ x = "shell_with_plan" => First(Steps(x)) = "stage"
           /\ x = "shell" => First(Steps(x)) = "wait"
           /\ x \in {"load", "exec", "ports", "teardown", "resolve", "exit"} =>
                 First(Steps(x)) = x
  <1>1. CASE x = "create"
    BY <1>1, StepsFacts DEF StepSeqs, Others, First
  <1>2. CASE x = "start"
    BY <1>2, StepsFacts DEF StepSeqs, Starting, First
  <1>3. CASE x = "stop"
    BY <1>3, StepsFacts DEF StepSeqs, Closing, First
  <1>4. CASE x = "remove"
    BY <1>4, StepsFacts DEF StepSeqs, Others, First
  <1>5. CASE x = "shell_with_plan"
    BY <1>5, StepsFacts DEF StepSeqs, Others, First
  <1>6. CASE x = "shell"
    BY <1>6, StepsFacts DEF StepSeqs, Others, First
  <1>7. CASE x \in {"load", "exec", "ports", "teardown", "resolve", "exit"}
    <2>1. Steps(x) = <<x>>
      BY <1>7, StepsFacts
    <2>2. <<x>> \in StepSeqs
      BY <1>7 DEF StepSeqs, Others
    <2>3. First(<<x>>) = x
      BY DEF First
    <2> QED
      BY <1>7, <2>1, <2>2, <2>3
  <1> QED
    BY <1>1, <1>2, <1>3, <1>4, <1>5, <1>6, <1>7

\* A call keeps what is local to the process.
LEMMA CallLocal ==
    ASSUME NEW r, Local(r), r.steps = <<>>, r.calls # <<>>, NEW d, Called(d, r)
    PROVE  /\ d \in Process /\ Local(d) /\ d.c = r.c /\ d.mem = r.mem /\ d.rt = r.rt
           /\ d.steps # <<>> => Pc(d) = First(Steps(Head(r.calls)))
           /\ Pc(d) = "publish" => Head(r.calls) = "start" /\ r.mem = "created"
           /\ Pc(d) \in {"none", "mkdir", "load", "publish", "exec", "kill", "revoke", "ports",
                         "wait", "teardown", "resolve", "stage", "exit"}
           /\ First(d.calls) \notin {"none", "exit"} => Head(r.calls) # "exit"
           /\ Head(r.calls) = "remove" /\ r.mem # "running" =>
                 d.calls = <<"exit">> /\ d.steps = <<"revoke", "delete">>
  <1>1. r \in Process /\ CageOk(r) /\ ObjectOk(r) /\ ShellOk(r) /\ r.calls \in CallSeqs
    BY DEF Local, Process
  <1>2. PICK x : x = Head(r.calls)
    OBVIOUS
  <1>3. PICK t : t = Tail(r.calls)
    OBVIOUS
  <1>4. /\ t \in CallSeqs /\ First(r.calls) = x /\ First(t) \notin Opening
        /\ x = "remove" => t = <<"exit">>
        /\ x = "exit" => t = <<>>
        /\ First(t) = "resolve" => x = "create"
        /\ First(t) = "shell_with_plan" => x = "resolve"
        /\ x = "shell_with_plan" => t = <<"remove", "exit">>
        /\ x = "start" => First(t) \notin {"resolve", "shell_with_plan"}
        /\ x \in {"create", "load", "start", "exec", "stop", "remove", "ports", "shell",
                  "teardown", "resolve", "shell_with_plan", "exit"}
    BY <1>1, <1>2, <1>3, CallFacts
  <1>5. Pc(r) = "none" /\ r.loc = {} /\ r.c # None
    <2>1. Pc(r) = "none"
      BY DEF Pc, First
    <2>2. r.c # None
      BY <1>1 DEF ObjectOk, Unused
    <2> QED
      BY <1>1, <2>1, <2>2 DEF CageOk, Caging
  <1>6. /\ r.mem = None => x \in {"create", "load", "exit"}
        /\ x \in {"create", "load"} => r.mem = None
    BY <1>1, <1>4, <1>5 DEF ObjectOk, Opening
  <1>7. None # "running" /\ None # "created"
    BY NoneAssumption DEF Status
  <1>8. First(<<"exit">>) = "exit" /\ First(<<>>) = "none" /\ <<"exit">> \in CallSeqs
        /\ First(<<"remove", "exit">>) = "remove"
    BY DEF First, CallSeqs
  <1>9. ASSUME NEW cs \in {t, <<"exit">>}, d = [r EXCEPT !.calls = cs],
               ~Allowed(x, r.mem) \/ (x = "stop" /\ r.mem # "running")
        PROVE  /\ d \in Process /\ Local(d) /\ d.c = r.c /\ d.mem = r.mem /\ d.rt = r.rt
               /\ d.steps = <<>> /\ d.calls = cs /\ Pc(d) = "none"
    <2>1. /\ d \in Process /\ d.steps = <<>> /\ d.calls = cs /\ d.c = r.c /\ d.mem = r.mem
          /\ d.rt = r.rt /\ d.loc = {} /\ d.filter = r.filter /\ Pc(d) = "none"
      BY <1>1, <1>4, <1>5, <1>8, <1>9 DEF Process, Pc
    <2>2. x \in {"start", "exec", "remove", "stop"} /\ r.mem # None
      BY <1>4, <1>6, <1>9 DEF Allowed
    <2>3. CageOk(d)
      BY <1>1, <1>5, <2>1 DEF CageOk, StartPcs, StopPcs, Caging, Linked
    <2>4. First(cs) \notin Opening /\ First(cs) \notin {"resolve", "shell_with_plan"}
      BY <1>4, <1>8, <2>2 DEF Opening
    <2>5. ObjectOk(d) /\ ShellOk(d)
      BY <1>5, <2>1, <2>2, <2>4, RestFacts DEF ObjectOk, ShellOk, StartPcs, Caging
    <2> QED
      BY <2>1, <2>3, <2>5, RestFacts DEF Local
  <1>10. CASE x = "stop" /\ r.mem # "running" /\ d = [r EXCEPT !.calls = t]
    BY <1>4, <1>8, <1>9, <1>10, <1>2
  <1>11. CASE ~Allowed(x, r.mem) /\ \E cs \in {t, <<"exit">>} : d = [r EXCEPT !.calls = cs]
    <2>1. x = "remove" => r.mem = "running"
      BY <1>11 DEF Allowed
    <2>2. x # "exit"
      BY <1>11 DEF Allowed
    <2> QED
      BY <1>2, <1>9, <1>11, <2>1, <2>2
  <1>12. CASE /\ ~(x = "stop" /\ r.mem # "running") /\ Allowed(x, r.mem)
              /\ d = [r EXCEPT !.calls = t, !.steps = Steps(x)]
    <2>1. PICK s : s = Steps(x)
      OBVIOUS
    <2>2. /\ s \in StepSeqs
          /\ x = "create" => First(s) = "mkdir"
          /\ x = "start" => First(s) = "publish"
          /\ x = "stop" => First(s) = "kill"
          /\ x = "remove" => First(s) = "revoke"
          /\ x = "shell_with_plan" => First(s) = "stage"
          /\ x = "shell" => First(s) = "wait"
          /\ x \in {"load", "exec", "ports", "teardown", "resolve", "exit"} => First(s) = x
      BY <1>4, <2>1, FirstStep
    <2>3. /\ d \in Process /\ d.steps = s /\ d.calls = t /\ d.c = r.c /\ d.mem = r.mem
          /\ d.rt = r.rt /\ d.loc = {} /\ d.filter = r.filter /\ Pc(d) = First(s)
      BY <1>1, <1>4, <1>5, <1>12, <2>1, <2>2 DEF Process, Pc
    <2>4. /\ x = "start" => r.mem = "created"
          /\ x = "exec" => r.mem = "running"
      BY <1>12 DEF Allowed
    <2>5. CageOk(d)
      BY <1>1, <1>4, <1>5, <2>2, <2>3, <2>4 DEF CageOk, StartPcs, StopPcs, Caging, Linked
    <2>6. ObjectOk(d)
      BY <1>1, <1>4, <1>5, <1>6, <2>2, <2>3 DEF ObjectOk
    <2>7. ShellOk(d)
      <3>1. x = "remove" => d.calls = <<"exit">>
        BY <1>4, <2>3
      <3>2. x = "shell_with_plan" => d.calls = <<"remove", "exit">> /\ r.mem # "running"
        BY <1>1, <1>4, <2>3 DEF ShellOk
      <3>4. d.steps \in ShellSeqs => x = "shell_with_plan"
        <4>1. x = "shell" => d.steps = <<"wait">>
          BY <2>1, <2>3, StepsFacts
        <4>2. <<"wait">> \notin ShellSeqs
          BY DEF ShellSeqs
        <4>3. \A t2 \in ShellSeqs : First(t2) \in {"stage", "wait", "record"}
          BY DEF ShellSeqs, First
        <4> QED
          BY <1>4, <2>2, <2>3, <4>1, <4>2, <4>3 DEF Pc
      <3>3. First(t) \in {"resolve", "shell_with_plan"} => r.mem # "running" /\ x # "start"
        BY <1>1, <1>4, <1>6, <1>7 DEF ShellOk
      <3> QED
        BY <1>4, <2>2, <2>3, <3>1, <3>2, <3>3, <3>4 DEF ShellOk, StartPcs, Caging
    <2>8. x = "remove" => d.calls = <<"exit">> /\ d.steps = <<"revoke", "delete">>
      BY <1>4, <2>1, <2>3, StepsFacts
    <2>9. First(t) \notin {"none", "exit"} => x # "exit"
      BY <1>4, <1>8
    <2>10. WriteOk(d)
      BY <1>4, <2>2, <2>3, RestFacts
    <2> QED
      BY <1>2, <1>4, <2>1, <2>2, <2>3, <2>4, <2>5, <2>6, <2>7, <2>8, <2>9, <2>10 DEF Local
  <1> QED
    BY <1>2, <1>3, <1>10, <1>11, <1>12 DEF Called

\* The next call of a process.
LEMMA CallInv == ASSUME Inv, NEW p \in Procs, Call(p) PROVE Inv'
  <1>1. PICK r : r = proc[p]
    OBVIOUS
  <1>2. PICK c : c = r.c
    OBVIOUS
  <1>3. /\ r.steps = <<>> /\ r.calls # <<>> /\ r \in Process /\ Local(r) /\ CageOk(r)
        /\ Pc(r) = "none" /\ c \in Containers
    <2>1. /\ r.steps = <<>> /\ r.calls # <<>> /\ r \in Process /\ Local(r) /\ CageOk(r)
          /\ ObjectOk(r) /\ r.c \in Containers \cup {None}
      BY <1>1, ProcFacts DEF Call
    <2>2. r.c # None
      BY <2>1 DEF ObjectOk, Unused
    <2> QED
      BY <1>2, <2>1, <2>2 DEF Pc, First
  <1>4. PICK x : x = Head(r.calls)
    OBVIOUS
  <1>5. First(r.calls) = x
    BY <1>3, <1>4 DEF First
  <1>6. PICK d : Called(d, r) /\ proc' = [proc EXCEPT ![p] = d]
    <2>1. PICK t : t = Tail(r.calls)
      OBVIOUS
    <2>2. PICK b : b = [r EXCEPT !.calls = t]
      OBVIOUS
    <2>3. b.mem = r.mem /\ b.lib = r.lib /\ b.calls = t
      BY <1>3, <2>2 DEF Process
    <2>4. PICK d : d = IF x = "stop" /\ b.mem # "running" THEN b
                       ELSE IF Allowed(x, b.mem) THEN [b EXCEPT !.steps = Steps(x)]
                       ELSE [b EXCEPT !.calls = AfterError(b)]
      OBVIOUS
    <2>5. proc' = [proc EXCEPT ![p] = d]
      BY <1>1, <1>4, <2>1, <2>2, <2>4 DEF Call
    <2>6. CASE x = "stop" /\ r.mem # "running"
      BY <1>4, <2>1, <2>2, <2>3, <2>4, <2>5, <2>6 DEF Called
    <2>7. CASE ~(x = "stop" /\ r.mem # "running") /\ Allowed(x, r.mem)
      <3>1. d = [r EXCEPT !.calls = t, !.steps = Steps(x)]
        BY <1>3, <2>2, <2>3, <2>4, <2>7 DEF Process
      <3> QED
        BY <1>4, <2>1, <2>5, <2>7, <3>1 DEF Called
    <2>8. CASE ~(x = "stop" /\ r.mem # "running") /\ ~Allowed(x, r.mem)
      <3>1. PICK cs : cs = AfterError(b)
        OBVIOUS
      <3>2. cs \in {t, <<"exit">>}
        BY <2>3, <3>1 DEF AfterError
      <3>3. d = [r EXCEPT !.calls = cs]
        BY <1>3, <2>2, <2>3, <2>4, <2>8, <3>1 DEF Process
      <3> QED
        BY <1>4, <2>1, <2>5, <2>8, <3>2, <3>3 DEF Called
    <2> QED
      BY <2>6, <2>7, <2>8
  <1>7. /\ d \in Process /\ Local(d) /\ d.c = c /\ d.mem = r.mem /\ d.rt = r.rt
        /\ d.steps # <<>> => Pc(d) = First(Steps(x))
        /\ Pc(d) = "publish" => x = "start" /\ r.mem = "created"
        /\ Pc(d) \in {"none", "mkdir", "load", "publish", "exec", "kill", "revoke", "ports",
                      "wait", "teardown", "resolve", "stage", "exit"}
        /\ First(d.calls) \notin {"none", "exit"} => x # "exit"
        /\ x = "remove" /\ r.mem # "running" =>
              d.calls = <<"exit">> /\ d.steps = <<"revoke", "delete">>
    BY <1>2, <1>3, <1>4, <1>6, CallLocal
  <1>8. Moved(p, d)
    BY <1>6, <1>7, MoveFacts DEF Inv
  <1>9. calm[c] =>
           /\ Pc(d) # "rootfs"
           /\ d.mem # None /\ First(d.calls) \notin {"none", "exit"} =>
                 dir[c] = "there" /\ file[c] \in State
           /\ "container" \in grants[c] => dir[c] = "there" /\ Owes(d, file[c])
    <2> SUFFICES ASSUME calm[c]
                 PROVE  /\ d.mem # None /\ First(d.calls) \notin {"none", "exit"} =>
                              dir[c] = "there" /\ file[c] \in State
                        /\ "container" \in grants[c] => dir[c] = "there" /\ Owes(d, file[c])
      BY <1>7
    <2>1. d.mem # None /\ First(d.calls) \notin {"none", "exit"} =>
             dir[c] = "there" /\ file[c] \in State
      <3>1. x # "none"
        BY <1>3, <1>4, CallFacts DEF Process
      <3> QED
        BY <1>1, <1>2, <1>3, <1>5, <1>7, <3>1, CalmFacts
    <2>2. ASSUME "container" \in grants[c] PROVE dir[c] = "there" /\ Owes(d, file[c])
      <3>1. dir[c] = "there" /\ Owes(r, file[c])
        BY <1>1, <1>2, <1>3, <2>2, CalmFacts
      <3>2. /\ r.mem \in {"created", "stopped"} /\ r.calls = <<"remove", "exit">>
            /\ file[c] \in State /\ "container" \in file[c].aces
        BY <1>3, <3>1 DEF Owes
      <3>3. x = "remove"
        BY <1>4, <3>2
      <3> QED
        BY <1>7, <3>1, <3>2, <3>3 DEF Owes
    <2> QED
      BY <2>1, <2>2
  <1>10. /\ dir' = dir /\ file' = file /\ port' = port /\ linked' = linked /\ running' = running
         /\ grants' = grants /\ calm' = calm /\ commands' = commands /\ faults' = faults
         /\ killed' = killed
    BY DEF Call, disk, winnt
  <1>11. starts' = IF x = "start" /\ r.mem = "created"
                   THEN [starts EXCEPT ![c] = starts[c] + 1] ELSE starts
    <2>1. PICK b : b = [r EXCEPT !.calls = Tail(r.calls)]
      OBVIOUS
    <2>2. b.mem = r.mem /\ b.c = c
      BY <1>2, <1>3, <2>1 DEF Process
    <2>3. starts' = IF x = "start" /\ Allowed(x, b.mem)
                    THEN [starts EXCEPT ![b.c] = starts[b.c] + 1] ELSE starts
      BY <1>1, <1>4, <2>1 DEF Call
    <2>4. x = "start" => (Allowed(x, r.mem) <=> r.mem = "created")
      BY DEF Allowed
    <2> QED
      BY <2>2, <2>3, <2>4
  <1>12. Settles(r) => Settles(d)
    <2>1. CASE r.mem = "running"
      BY <1>7, <2>1 DEF Settles
    <2>2. CASE r.mem # "running" /\ Settles(r)
      <3>1. r.calls = <<"remove", "exit">> /\ r.mem \in {"created", "stopped"}
        BY <1>3, <2>2 DEF Settles
      <3>2. x = "remove"
        BY <1>4, <3>1
      <3>3. Pc(d) = "revoke"
        BY <1>7, <2>2, <3>2 DEF Pc, First
      <3> QED
        BY <1>7, <3>1, <3>3 DEF Settles
    <2> QED
      BY <2>1, <2>2
  <1>13. CASE x = "start" /\ r.mem = "created"
    <2>1. /\ starts \in [Containers -> Nat] /\ starts' \in [Containers -> Nat]
          /\ starts'[c] = starts[c] + 1 /\ starts[c] \in Nat
          /\ \A e \in Containers : e # c => starts'[e] = starts[e]
      BY <1>3, <1>11, <1>13 DEF Inv, TypesOk
    <2>2. TypesOk'
      BY <1>8, <1>10, <2>1 DEF Inv, TypesOk, Moved
    <2>3. RunningOk'
      <3>1. running' \in [Containers -> SUBSET Procs]
        BY <2>2 DEF TypesOk
      <3>2. p \in running[c] => "cage" \in d.rt
        BY <1>1, <1>3, <1>7 DEF Inv, RunningOk
      <3> QED
        BY <1>1, <1>2, <1>3, <1>7, <1>8, <1>10, <3>1, <3>2, RunningStep
    <2>4. LinkOk'
      BY <1>1, <1>2, <1>3, <1>7, <1>8, <1>10, LinkStep
    <2>5. StartsOk'
      <3>1. proc'[p] = d /\ \A q \in Procs : q # p => proc'[q] = proc[q]
        BY <1>8 DEF Moved
      <3>2. starts'[c] # 0 /\ (starts'[c] = 1 => starts[c] = 0)
        BY <2>1
      <3>3. starts'[c] = 1 => \A q \in Procs : proc[q].c = c =>
               ~Started(proc[q]) /\ "links" \notin proc[q].rt
               /\ Pc(proc[q]) \notin {"publish", "cage", "links"}
        BY <1>3, <3>2 DEF Inv, StartsOk, Started, StartPcs, Caging
      <3>4. starts'[c] = 1 => "links" \notin d.rt
        BY <1>1, <1>2, <1>7, <3>3
      <3>5. ASSUME NEW e \in Containers, starts'[e] = 0, NEW q \in Procs, proc'[q].c = e
            PROVE  ~Started(proc'[q])
        <4>1. e # c /\ q # p
          BY <1>7, <3>1, <3>2, <3>5
        <4> QED
          BY <2>1, <3>1, <3>5, <4>1 DEF Inv, StartsOk
      <3>6. ASSUME NEW e \in Containers, starts'[e] = 1, NEW q \in Procs, NEW q2 \in Procs,
                   proc'[q].c = e, proc'[q2].c = e, Started(proc'[q]), Started(proc'[q2])
            PROVE  q = q2
        <4>1. CASE e = c
          BY <3>1, <3>3, <3>6, <4>1
        <4>2. CASE e # c
          <5>1. q # p /\ q2 # p
            BY <1>7, <3>1, <3>6, <4>2
          <5> QED
            BY <2>1, <3>1, <3>6, <4>2, <5>1 DEF Inv, StartsOk
        <4> QED
          BY <4>1, <4>2
      <3>7. ASSUME NEW e \in Containers, starts'[e] = 1, NEW q \in Procs, proc'[q].c = e
            PROVE  /\ Pc(proc'[q]) \in {"publish", "cage", "links"} => "links" \notin proc'[q].rt
                   /\ "links" \in proc'[q].rt => linked'[e]
        <4>1. CASE e = c
          BY <3>1, <3>3, <3>4, <3>7, <4>1
        <4>2. CASE e # c
          <5>1. q # p
            BY <1>7, <3>1, <3>7, <4>2
          <5> QED
            BY <1>10, <2>1, <3>1, <3>7, <4>2, <5>1 DEF Inv, StartsOk
        <4> QED
          BY <4>1, <4>2
      <3> QED
        BY <3>5, <3>6, <3>7 DEF StartsOk, Started, Pc
    <2>6. FileOk'
      <3>1. file[c] # None => dir[c] = "there"
        BY <1>3 DEF Inv, FileOk
      <3> QED
        BY <1>1, <1>2, <1>3, <1>7, <1>8, <1>10, <1>12, <3>1, FileStep
    <2>7. CalmOk'
      BY <1>1, <1>2, <1>3, <1>7, <1>8, <1>9, <1>10, CalmStep
    <2> QED
      BY <1>7, <1>8, <2>2, <2>3, <2>4, <2>5, <2>6, <2>7, StepInv
  <1>14. CASE ~(x = "start" /\ r.mem = "created")
    <2>1. UNCHANGED <<disk, winnt, history>>
      BY <1>10, <1>11, <1>14 DEF disk, winnt, history
    <2>2. Pc(d) \notin StartPcs /\ (Started(d) => Started(r))
      BY <1>7, <1>14 DEF Started, StartPcs, Caging
    <2> QED
      BY <1>1, <1>2, <1>3, <1>7, <1>8, <1>9, <1>12, <2>1, <2>2, QuietStep DEF StartPcs
  <1> QED
    BY <1>13, <1>14

\* The commands begin with create or load.
LEMMA CommandFacts ==
    ASSUME NEW cs \in Commands \cup {library}
    PROVE  cs \in CallSeqs /\ First(cs) = Head(cs) /\ Head(cs) \in Opening
  <1>1. CASE cs = cmd_create
    BY <1>1 DEF cmd_create, CallSeqs, First, Opening
  <1>2. CASE cs = cmd_start
    BY <1>2 DEF cmd_start, CallSeqs, First, Opening
  <1>3. CASE cs = cmd_run
    BY <1>3 DEF cmd_run, CallSeqs, First, Opening
  <1>4. CASE cs = cmd_exec
    BY <1>4 DEF cmd_exec, CallSeqs, First, Opening
  <1>5. CASE cs = cmd_stop
    BY <1>5 DEF cmd_stop, CallSeqs, First, Opening
  <1>6. CASE cs = cmd_rm
    BY <1>6 DEF cmd_rm, CallSeqs, First, Opening
  <1>7. CASE cs = cmd_shell_binary
    BY <1>7 DEF cmd_shell_binary, CallSeqs, First, Opening
  <1>8. CASE cs = cmd_shell
    BY <1>8 DEF cmd_shell, CallSeqs, First, Opening
  <1>9. CASE cs = library
    BY <1>9 DEF library, CallSeqs, First, Opening
  <1> QED
    BY <1>1, <1>2, <1>3, <1>4, <1>5, <1>6, <1>7, <1>8, <1>9 DEF Commands

\* A new process.
LEMMA LaunchInv == ASSUME Inv, NEW p \in Procs, Launch(p) PROVE Inv'
  <1>1. PICK cs \in Commands \cup {library}, c \in Containers, filter \in BOOLEAN :
           /\ filter => \E i \in DOMAIN cs : cs[i] = "start"
           /\ Head(cs) = "create" => dir[c] = "new" /\ \A q \in Procs : proc[q].c # c
           /\ proc' = [proc EXCEPT ![p] = [Unused EXCEPT !.calls = cs, !.c = c,
                                                         !.lib = (cs = library),
                                                         !.filter = filter]]
           /\ calm' = [calm EXCEPT ![c] = @ /\ Head(cs) = "create"]
    BY Zenon DEF Launch
  <1>2. PICK d : d = [Unused EXCEPT !.calls = cs, !.c = c, !.lib = (cs = library),
                                    !.filter = filter]
    OBVIOUS
  <1>3. cs \in CallSeqs /\ First(cs) = Head(cs) /\ Head(cs) \in Opening
    BY CommandFacts
  <1>4. /\ d \in Process /\ d.c = c /\ d.calls = cs /\ d.steps = <<>> /\ d.mem = None
        /\ d.rt = {} /\ d.loc = {} /\ Pc(d) = "none"
    <2>1. (cs = library) \in BOOLEAN
      OBVIOUS
    <2>2. <<>> \in StepSeqs /\ First(<<>>) = "none"
      BY DEF StepSeqs, Others, First
    <2>3. d.steps = <<>> /\ d.mem = None /\ d.rt = {} /\ d.loc = {} /\ d.c = c /\ d.calls = cs
      BY <1>2 DEF Unused
    <2>4. d \in Process
      BY <1>2, <1>3, <2>1, <2>2 DEF Unused, Process
    <2> QED
      BY <2>2, <2>3, <2>4 DEF Pc
  <1>5. /\ proc' \in [Procs -> Process] /\ proc'[p] = d
        /\ \A q \in Procs : q # p => proc'[q] = proc[q]
    BY <1>1, <1>2, <1>4 DEF Inv, TypesOk
  <1>6. c # None /\ None # "running" /\ None # "created" /\ proc[p].c = None
        /\ \A e \in Containers : e # None
    BY NoneAssumption, WindowsAssumption DEF Status, Launch, Unused
  <1>7. Local(d) /\ ~Started(d)
    <2>1. CageOk(d)
      BY <1>4, <1>6 DEF CageOk, StartPcs, StopPcs, Caging, Linked
    <2>2. ObjectOk(d)
      BY <1>3, <1>4, <1>6 DEF ObjectOk
    <2>3. ShellOk(d)
      BY <1>4, <1>6, RestFacts DEF ShellOk, StartPcs, Caging
    <2> QED
      BY <1>4, <1>6, <2>1, <2>2, <2>3, RestFacts DEF Local, Started, StartPcs, Caging
  <1>8. /\ dir' = dir /\ file' = file /\ port' = port /\ linked' = linked /\ running' = running
        /\ grants' = grants /\ starts' = starts /\ faults' = faults /\ commands' = commands + 1
        /\ killed' = killed
    BY DEF Launch, disk, winnt
  <1>9. /\ calm' \in [Containers -> BOOLEAN]
        /\ \A e \in Containers : e # c => calm'[e] = calm[e]
        /\ calm'[c] => calm[c] /\ dir[c] = "new" /\ \A q \in Procs : proc[q].c # c
    <2>1. PICK b : b = (calm[c] /\ Head(cs) = "create")
      OBVIOUS
    <2>2. b \in BOOLEAN /\ calm' = [calm EXCEPT ![c] = b] /\ calm \in [Containers -> BOOLEAN]
      BY <1>1, <2>1 DEF Inv, TypesOk
    <2>3. /\ calm' \in [Containers -> BOOLEAN] /\ calm'[c] = b
          /\ \A e \in Containers : e # c => calm'[e] = calm[e]
      BY <2>2
    <2> QED
      BY <1>1, <2>1, <2>3
  <1>10. TypesOk'
    BY <1>5, <1>8, <1>9 DEF Inv, TypesOk
  <1>11. RunningOk'
    <2> SUFFICES ASSUME NEW e \in Containers, NEW q \in running[e]
                 PROVE  /\ proc'[q].c = e
                        /\ "cage" \in proc'[q].rt \/ Pc(proc'[q]) \in {"inject", "keep"}
      BY <1>8 DEF RunningOk, Pc
    <2>1. /\ q \in Procs /\ proc[q].c = e
          /\ "cage" \in proc[q].rt \/ Pc(proc[q]) \in {"inject", "keep"}
      BY DEF Inv, TypesOk, RunningOk
    <2>2. proc'[q] = proc[q]
      BY <1>5, <1>6, <2>1
    <2> QED
      BY <2>1, <2>2
  <1>12. LinkOk'
    <2> SUFFICES ASSUME NEW e \in Containers, linked[e], e \notin killed
                 PROVE  \E q \in Procs : proc'[q].c = e /\ "links" \in proc'[q].rt
      BY <1>8 DEF LinkOk
    <2>1. PICK q \in Procs : proc[q].c = e /\ "links" \in proc[q].rt
      BY DEF Inv, LinkOk
    <2> QED
      BY <1>5, <1>6, <2>1
  <1>13. StartsOk'
    <2>1. ASSUME NEW e \in Containers, NEW q \in Procs, proc'[q].c = e, Started(proc'[q])
          PROVE  proc[q].c = e /\ Started(proc[q])
      BY <1>5, <1>7, <2>1
    <2>2. ASSUME NEW e \in Containers, starts[e] = 0, NEW q \in Procs, proc'[q].c = e
          PROVE  ~Started(proc'[q])
      BY <2>1, <2>2 DEF Inv, StartsOk
    <2>3. ASSUME NEW e \in Containers, starts[e] = 1, NEW q \in Procs, NEW q2 \in Procs,
                 proc'[q].c = e, proc'[q2].c = e, Started(proc'[q]), Started(proc'[q2])
          PROVE  q = q2
      BY <2>1, <2>3 DEF Inv, StartsOk
    <2>4. ASSUME NEW e \in Containers, starts[e] = 1, NEW q \in Procs, proc'[q].c = e
          PROVE  /\ Pc(proc'[q]) \in {"publish", "cage", "links"} => "links" \notin proc'[q].rt
                 /\ "links" \in proc'[q].rt => linked[e]
      <3>1. CASE q = p
        BY <1>4, <1>5, <3>1
      <3>2. CASE q # p
        BY <1>5, <2>4, <3>2 DEF Inv, StartsOk
      <3> QED
        BY <3>1, <3>2
    <2> QED
      BY <1>8, <2>2, <2>3, <2>4 DEF StartsOk, Started, Pc
  <1>14. FileOk'
    <2>1. \A e \in Containers : file[e] # None => dir[e] = "there"
      BY DEF Inv, FileOk
    <2>2. ASSUME NEW e \in Containers, faults = 0, file[e] = Torn
          PROVE  \E q \in Procs : proc'[q].c = e /\ Pc(proc'[q]) = "write"
      <3>1. PICK q \in Procs : proc[q].c = e /\ Pc(proc[q]) = "write"
        BY <2>2 DEF Inv, FileOk
      <3> QED
        BY <1>5, <1>6, <3>1
    <2>3. ASSUME NEW e \in Containers, faults = 0, file[e] = None, dir[e] = "there"
          PROVE  \E q \in Procs : proc'[q].c = e /\ Pc(proc'[q]) \in {"rootfs", "truncate"}
      <3>1. PICK q \in Procs : proc[q].c = e /\ Pc(proc[q]) \in {"rootfs", "truncate"}
        BY <2>3 DEF Inv, FileOk
      <3> QED
        BY <1>5, <1>6, <3>1
    <2>4. ASSUME NEW e \in Containers, faults = 0, Up(file[e])
          PROVE  \E q \in Procs : proc'[q].c = e /\ Settles(proc'[q])
      <3>1. PICK q \in Procs : proc[q].c = e /\ Settles(proc[q])
        BY <2>4 DEF Inv, FileOk
      <3> QED
        BY <1>5, <1>6, <3>1
    <2>5. \A e \in Containers : faults' = 0 /\ Up(file'[e]) =>
             \E q \in Procs : proc'[q].c = e /\ Settles(proc'[q])
      BY <1>8, <2>4
    <2>6. \A e \in Containers :
             /\ file'[e] # None => dir'[e] = "there"
             /\ faults' = 0 /\ file'[e] = Torn =>
                   \E q \in Procs : proc'[q].c = e /\ Pc(proc'[q]) = "write"
             /\ faults' = 0 /\ file'[e] = None /\ dir'[e] = "there" =>
                   \E q \in Procs : proc'[q].c = e /\ Pc(proc'[q]) \in {"rootfs", "truncate"}
      BY <1>8, <2>1, <2>2, <2>3
    <2> QED
      BY <2>5, <2>6, FileNext
  <1>15. CalmOk'
    <2> SUFFICES ASSUME NEW e \in Containers, calm'[e]
                 PROVE  /\ \A q, q2 \in Procs : proc'[q].c = e /\ proc'[q2].c = e => q = q2
                        /\ \A q \in Procs : proc'[q].c = e =>
                              /\ Pc(proc'[q]) = "rootfs" => dir'[e] = "there"
                              /\ proc'[q].mem # None /\ First(proc'[q].calls) \notin {"none", "exit"} =>
                                    /\ dir'[e] = "there"
                                    /\ Pc(proc'[q]) \in {"truncate", "write"} \/ file'[e] \in State
                        /\ "container" \in grants'[e] =>
                              /\ dir'[e] = "there"
                              /\ \E q \in Procs : proc'[q].c = e /\ Owes(proc'[q], file'[e])
      BY DEF CalmOk
    <2>1. CASE e = c
      <3>1. calm[c] /\ dir[c] = "new" /\ \A q \in Procs : proc[q].c # c
        BY <1>9, <2>1
      <3>2. "container" \notin grants[c]
        BY <3>1 DEF Inv, CalmOk
      <3>3. \A q \in Procs : proc'[q].c = c => q = p
        BY <1>5, <3>1
      <3> QED
        BY <1>4, <1>5, <1>8, <2>1, <3>2, <3>3
    <2>2. CASE e # c
      <3>1. calm[e]
        BY <1>9, <2>2
      <3>2. \A q \in Procs : proc'[q].c = e => q # p
        BY <1>4, <1>5, <2>2
      <3>3. "container" \in grants[e] =>
               /\ dir[e] = "there"
               /\ \E q \in Procs : proc[q].c = e /\ Owes(proc[q], file[e])
        BY <3>1 DEF Inv, CalmOk
      <3>4. \A q \in Procs : proc[q].c = e => q # p
        BY <1>6
      <3>5. "container" \in grants[e] =>
               \E q \in Procs : proc'[q].c = e /\ Owes(proc'[q], file[e])
        BY <1>5, <3>3, <3>4
      <3> QED
        BY <1>5, <1>8, <3>1, <3>2, <3>3, <3>5 DEF Inv, CalmOk
    <2> QED
      BY <2>1, <2>2
  <1>16. ASSUME NEW q \in Procs PROVE Local(proc'[q])
    BY <1>5, <1>7 DEF Inv
  <1> QED
    BY <1>10, <1>11, <1>12, <1>13, <1>14, <1>15, <1>16
       DEF Inv, Local, CageOk, ObjectOk, ShellOk, WriteOk, Pc

-----------------------------------------------------------------------------
(* The theorems *)

\* Nothing has happened yet.
LEMMA InitInv == ASSUME Init PROVE Inv
  <1>1. \A p \in Procs : proc[p] = Unused
    BY DEF Init
  <1>2. TypesOk
    BY UnusedFacts, WindowsAssumption DEF Init, TypesOk
  <1>3. \A p \in Procs : Local(proc[p])
    BY <1>1, UnusedFacts
  <1>4. RunningOk /\ LinkOk /\ StartsOk
    <2>1. \A c \in Containers : running[c] = {} /\ ~linked[c] /\ starts[c] = 0
      BY DEF Init
    <2> QED
      BY <1>1, <2>1, UnusedFacts DEF RunningOk, LinkOk, StartsOk
  <1>5. FileOk
    BY NoneAssumption DEF Init, FileOk, Up
  <1>6. CalmOk
    <2>1. \A p \in Procs : proc[p].c = None
      BY <1>1, UnusedFacts
    <2>2. \A c \in Containers : c # None /\ grants[c] = {}
      BY WindowsAssumption DEF Init
    <2> QED
      BY <2>1, <2>2 DEF CalmOk
  <1> QED
    BY <1>2, <1>3, <1>4, <1>5, <1>6 DEF Inv

\* Every step keeps the invariant.
LEMMA NextInv == ASSUME Inv, [Next]_vars PROVE Inv'
  <1>1. CASE UNCHANGED vars
    <2>1. /\ proc' = proc /\ dir' = dir /\ file' = file /\ port' = port /\ linked' = linked
          /\ running' = running /\ grants' = grants /\ starts' = starts /\ calm' = calm
          /\ commands' = commands /\ faults' = faults /\ killed' = killed
      BY <1>1 DEF vars, disk, winnt, history
    <2>2. TypesOk' /\ (\A p \in Procs : Local(proc[p]))'
      BY <2>1 DEF Inv, TypesOk
    <2>3. RunningOk' /\ LinkOk' /\ StartsOk' /\ FileOk' /\ CalmOk'
      BY <2>1 DEF Inv, RunningOk, LinkOk, StartsOk, FileOk, CalmOk
    <2> QED
      BY <2>2, <2>3 DEF Inv
  <1>2. ASSUME NEW p \in Procs, Step(p) PROVE Inv'
    <2>1. CASE Launch(p) \/ Call(p) \/ Exit(p) \/ Exited(p)
      BY <2>1, LaunchInv, CallInv, ExitInv, ExitedInv
    <2>2. CASE \/ Mkdir(p) \/ PrepareRootfs(p) \/ Load(p) \/ Truncate(p) \/ WriteState(p)
      BY <2>2, MkdirInv, RootfsInv, LoadInv, TruncateInv, WriteStateInv
    <2>3. CASE Publish(p) \/ MakeCage(p) \/ setup_bind_links(p) \/ try_start_netstack(p)
      BY <2>3, PublishInv, MakeCageInv, LinksInv, NetstackInv
    <2>4. CASE Spawn(p) \/ Inject(p) \/ Keep(p)
      BY <2>4, SpawnInv, InjectInv, KeepInv
    <2>5. CASE Kill(p) \/ Unlink(p) \/ Unpublish(p) \/ StopNetstack(p)
      BY <2>5, StopStepInv DEF Kill, Unlink, Unpublish, StopNetstack
    <2>6. CASE teardown_port_mappings(p) \/ Revoke(p) \/ Delete(p)
      BY <2>6, TeardownInv, RevokeInv, DeleteInv
    <2>7. CASE Resolve(p) \/ Stage(p) \/ WaitShell(p) \/ Record(p)
      BY <2>7, ResolveInv, StageInv, WaitInv, RecordInv
    <2> QED
      BY <1>2, <2>1, <2>2, <2>3, <2>4, <2>5, <2>6, <2>7 DEF Step
  <1>3. ASSUME NEW p \in Procs, Killed(p) \/ ProgramExits(p) PROVE Inv'
    BY <1>3, KilledInv, ProgramExitsInv
  <1> QED
    BY <1>1, <1>2, <1>3 DEF Next

\* The invariant holds, whatever the commands, however they interleave and
\* whatever fails.
THEOREM InvHolds == Spec => []Inv
  <1>1. Init => Inv
    BY InitInv
  <1>2. Inv /\ [Next]_vars => Inv'
    BY NextInv
  <1> QED
    BY <1>1, <1>2, PTL DEF Spec

\* The types, and: a program runs only while a living psroot process holds the
\* job or silo it was started in (start, exec, stop, Drop and a killed psroot).
THEOREM ProgramsCaged == Spec => []ProgramHasCage
  <1>1. ASSUME Inv PROVE ProgramHasCage
    <2>1. TypeOK
      BY <1>1, ProcFacts DEF Inv, TypesOk, TypeOK
    <2>2. ASSUME NEW c \in Containers, NEW p \in running[c]
          PROVE  proc[p].c = c /\ Holds(p, "cage")
      <3>1. p \in Procs
        BY <1>1, <2>2 DEF Inv, TypesOk
      <3>2. proc[p].c = c /\ ("cage" \in proc[p].rt \/ Pc(proc[p]) \in {"inject", "keep"})
        BY <1>1, <2>2 DEF Inv, RunningOk
      <3>3. Pc(proc[p]) \in Caging => "cage" \in proc[p].loc
        BY <1>1, <3>1, ProcFacts DEF CageOk
      <3> QED
        BY <3>2, <3>3 DEF Holds, Caging
    <2> QED
      BY <2>1, <2>2 DEF ProgramHasCage
  <1> QED
    BY <1>1, InvHolds, PTL

\* A bind link outlives its process only if that was killed, and as long as nothing
\* failed the state.json of a container at rest does not say that it runs.
THEOREM LeavesNothing == Spec => []NothingLeftBehind
  <1>1. ASSUME Inv PROVE NothingLeftBehind
    <2> SUFFICES ASSUME NEW c \in Containers, c \notin killed, \A p \in Procs : proc[p].c # c
                 PROVE  /\ ~linked[c]
                        /\ faults = 0 /\ file[c] \in State => file[c].status # "running"
      BY DEF NothingLeftBehind
    <2>1. ~linked[c]
      BY <1>1 DEF Inv, LinkOk
    <2>2. faults = 0 /\ file[c] \in State => file[c].status # "running"
      BY <1>1 DEF Inv, FileOk, Up
    <2> QED
      BY <2>1, <2>2
  <1> QED
    BY <1>1, InvHolds, PTL

\* The program of a process that has the bind filter, in a container that was
\* started once, has its volume mounted.
THEOREM Mounted == Spec => []MountedWhileRunning
  <1>1. ASSUME Inv PROVE MountedWhileRunning
    <2> SUFFICES ASSUME NEW c \in Containers, NEW p \in running[c], proc[p].filter, starts[c] = 1
                 PROVE  linked[c]
      BY DEF MountedWhileRunning
    <2>1. p \in Procs
      BY <1>1 DEF Inv, TypesOk
    <2>2. proc[p].c = c /\ ("cage" \in proc[p].rt \/ Pc(proc[p]) \in {"inject", "keep"})
      BY <1>1 DEF Inv, RunningOk
    <2>3. "links" \in proc[p].rt
      <3>1. /\ Pc(proc[p]) \in Linked => "links" \in proc[p].rt
            /\ "cage" \in proc[p].rt => "links" \in proc[p].rt
        BY <1>1, <2>1, ProcFacts DEF CageOk
      <3> QED
        BY <2>2, <3>1 DEF Linked
    <2> QED
      BY <1>1, <2>1, <2>2, <2>3 DEF Inv, StartsOk
  <1> QED
    BY <1>1, InvHolds, PTL

\* remove leaves no ACE of the container's SID, when nothing failed and only one
\* command worked on the container.
THEOREM GrantsGone == Spec => []GrantsRevoked
  <1>1. Inv => GrantsRevoked
    BY DEF Inv, CalmOk, GrantsRevoked
  <1> QED
    BY <1>1, InvHolds, PTL

\* state.json of a container at rest is there and whole, as long as nothing
\* failed, however many commands worked on the container.
THEOREM Loadable == Spec => []LoadableAtRest
  <1>1. Inv => LoadableAtRest
    BY DEF Inv, FileOk, LoadableAtRest
  <1> QED
    BY <1>1, InvHolds, PTL
=============================================================================
