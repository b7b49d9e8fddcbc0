----------------------------- MODULE PortMapper -----------------------------
(***************************************************************************)
(* The host-side TCP port mapper of one container (psroot-portmap): one    *)
(* accept loop per published port, each on its own thread, and a shutdown  *)
(* that raises every loop's flag, kicks it out of accept() by connecting   *)
(* to its own listener, and joins the threads.  A container started later  *)
(* may publish the same ports again, with a mapper of its own.             *)
(*                                                                         *)
(* The relayed bytes are left out: of a proxied connection only its thread *)
(* is kept.  The operating system's part (the backlog, who can be          *)
(* connected to) is modelled from how the mapper uses it.                  *)
(***************************************************************************)
EXTENDS Naturals, Sequences, SequencesExt

CONSTANTS Ports,     \* the published host endpoints
          Wildcard,  \* those bound to 0.0.0.0, which Windows cannot connect to
          Backlog,   \* connections an endpoint queues before accept
          MaxConn    \* bound on the connections clients hold open per endpoint

ASSUME PortMapperAssumption ==
    /\ Wildcard \subseteq Ports
    /\ Backlog \in Nat \ {0}
    /\ MaxConn \in Nat

VARIABLES mappings,  \* the list of live mappings
          loop,      \* per endpoint: where its accept loop is
          flag,      \* per endpoint: the shutdown flag of its loop
          queue,     \* per endpoint: connections not yet accepted
          proxies,   \* per endpoint: connection threads
          closer     \* the thread in shutdown: its phase, list and position

vars == <<mappings, loop, flag, queue, proxies, closer>>

Alive == {"accept", "got", "error"}
Idle == [pc |-> "idle", list |-> <<>>, at |-> 1]

Init ==
    /\ mappings = <<>>
    /\ loop = [p \in Ports |-> "none"]
    /\ flag = [p \in Ports |-> "no"]
    /\ queue = [p \in Ports |-> 0]
    /\ proxies = [p \in Ports |-> 0]
    /\ closer = Idle

\* The listening socket is shared by the mapping and by its loop: the port is
\* taken until both have let go of it.
Bound(p) ==
    p \in ToSet(mappings) \cup ToSet(closer.list) \/ loop[p] \in Alive

\* What is left in the backlog is reset when the socket is closed.
Released(p, m, c, l) ==
    p \notin ToSet(m) \cup ToSet(c.list) /\ l[p] \notin Alive

-----------------------------------------------------------------------------
(* PortMapper::add *)

\* bind fails, and nothing changes, while the port is taken.
Add(p) ==
    /\ closer.pc = "idle"
    /\ ~Bound(p)
    /\ mappings' = Append(mappings, p)
    /\ loop' = [loop EXCEPT ![p] = "accept"]
    /\ flag' = [flag EXCEPT ![p] = "no"]
    /\ UNCHANGED <<queue, proxies, closer>>

-----------------------------------------------------------------------------
(* accept_loop *)

\* Connections a client holds open, whatever their stage.
Open(p) == queue[p] + proxies[p] + (IF loop[p] = "got" THEN 1 ELSE 0)

\* A client reaches the published port.
ClientConnects(p) ==
    /\ Bound(p)
    /\ queue[p] < Backlog
    /\ Open(p) < MaxConn
    /\ queue' = [queue EXCEPT ![p] = @ + 1]
    /\ UNCHANGED <<mappings, loop, flag, proxies, closer>>

\* accept() hands out a queued connection, or its failure.
Accept(p) ==
    /\ loop[p] = "accept"
    /\ queue[p] > 0
    /\ queue' = [queue EXCEPT ![p] = @ - 1]
    /\ \E r \in {"got", "error"} : loop' = [loop EXCEPT ![p] = r]
    /\ UNCHANGED <<mappings, flag, proxies, closer>>

\* The loop returns and drops its share of the listening socket.
EndLoop(p) ==
    /\ loop' = [loop EXCEPT ![p] = "ended"]
    /\ queue' = [queue EXCEPT ![p] =
                    IF Released(p, mappings, closer, loop') THEN 0 ELSE @]
    /\ UNCHANGED <<mappings, flag, proxies, closer>>

\* Mutation of Dispatch: the flag is looked at after a failed accept only.
DispatchBlind(p) ==
    \/ /\ loop[p] = "error" /\ flag[p] = "yes"
       /\ EndLoop(p)
    \/ /\ loop[p] = "error" /\ flag[p] = "no"
       /\ loop' = [loop EXCEPT ![p] = "accept"]
       /\ UNCHANGED <<mappings, flag, queue, proxies, closer>>
    \/ /\ loop[p] = "got"
       /\ loop' = [loop EXCEPT ![p] = "accept"]
       /\ proxies' = [proxies EXCEPT ![p] = @ + 1]
       /\ UNCHANGED <<mappings, flag, queue, closer>>

\* After accept() returned: stop if the flag is up, else serve the connection
\* on a thread of its own (or log the failure) and accept again.
Dispatch(p) ==
    \/ /\ loop[p] \in {"got", "error"} /\ flag[p] = "yes"
       /\ EndLoop(p)
    \/ /\ loop[p] = "error" /\ flag[p] = "no"
       /\ loop' = [loop EXCEPT ![p] = "accept"]
       /\ UNCHANGED <<mappings, flag, queue, proxies, closer>>
    \/ /\ loop[p] = "got" /\ flag[p] = "no"
       /\ loop' = [loop EXCEPT ![p] = "accept"]
       /\ proxies' = [proxies EXCEPT ![p] = @ + 1]
       /\ UNCHANGED <<mappings, flag, queue, closer>>

\* proxy_connection ends: the upstream refused, or both directions closed.
ProxyEnds(p) ==
    /\ proxies[p] > 0
    /\ proxies' = [proxies EXCEPT ![p] = @ - 1]
    /\ UNCHANGED <<mappings, loop, flag, queue, closer>>

-----------------------------------------------------------------------------
(* PortMapper::shutdown, also on drop *)

\* The list is taken out of the mapper.
TakeList ==
    /\ closer.pc = "idle"
    /\ mappings # <<>>
    /\ closer' = [pc |-> "flag", list |-> mappings, at |-> 1]
    /\ mappings' = <<>>
    /\ UNCHANGED <<loop, flag, queue, proxies>>

RaiseFlag ==
    /\ closer.pc = "flag"
    /\ flag' = [flag EXCEPT ![closer.list[closer.at]] = "yes"]
    /\ closer' = [closer EXCEPT !.pc = "kick"]
    /\ UNCHANGED <<mappings, loop, queue, proxies>>

\* Whether a connection to the endpoint's own address is established.
CanKick(p) == p \notin Wildcard /\ queue[p] < Backlog

\* The kick; its result is ignored.  After the last one, the joins.
Kick ==
    /\ closer.pc = "kick"
    /\ LET p == closer.list[closer.at] IN
          queue' = [queue EXCEPT ![p] =
                      IF CanKick(p) THEN @ + 1 ELSE @]
    /\ closer' = IF closer.at = Len(closer.list)
                 THEN [closer EXCEPT !.pc = "join", !.at = 1]
                 ELSE [closer EXCEPT !.pc = "flag", !.at = @ + 1]
    /\ UNCHANGED <<mappings, loop, flag, proxies>>

\* Mutation of Joinable: the threads are not waited for.
JoinableAlways(p) == TRUE

Joinable(p) == loop[p] = "ended"

\* Join the threads in order; then the list is dropped, and with it the
\* mapper's share of the listening sockets.
Join ==
    /\ closer.pc = "join"
    /\ Joinable(closer.list[closer.at])
    /\ IF closer.at < Len(closer.list)
       THEN /\ closer' = [closer EXCEPT !.at = @ + 1]
            /\ UNCHANGED queue
       ELSE /\ closer' = Idle
            /\ queue' = [p \in Ports |->
                            IF Released(p, mappings, Idle, loop) THEN 0 ELSE queue[p]]
    /\ UNCHANGED <<mappings, loop, flag, proxies>>

-----------------------------------------------------------------------------
LoopStep(p) == Accept(p) \/ Dispatch(p)

CloserStep == RaiseFlag \/ Kick \/ Join

Next ==
    \/ \E p \in Ports : Add(p) \/ ClientConnects(p) \/ LoopStep(p) \/ ProxyEnds(p)
    \/ TakeList \/ CloserStep

Spec == Init /\ [][Next]_vars

\* Threads are scheduled.  Nothing is assumed of clients and of the connections
\* they hold open, nor that anybody calls shutdown.
FairSpec ==
    /\ Spec
    /\ \A p \in Ports : WF_vars(LoopStep(p))
    /\ WF_vars(CloserStep)

-----------------------------------------------------------------------------
(* Properties *)

\* Queues are within the backlog, the shutdown is at a mapping of its list.
TypeOK ==
    /\ mappings \in Seq(Ports)
    /\ loop \in [Ports -> Alive \cup {"none", "ended"}]
    /\ flag \in [Ports -> {"yes", "no"}]
    /\ queue \in [Ports -> 0 .. Backlog]
    /\ proxies \in [Ports -> 0 .. MaxConn]
    /\ closer.pc \in {"idle", "flag", "kick", "join"}
    /\ closer.list \in Seq(Ports)
    /\ closer.at \in 1 .. Len(closer.list) \/ closer = Idle

\* A shutdown that has begun returns, whatever the clients do: the flag is up
\* before the kick, so the kick (or, when the backlog was too full for it, a
\* queued client) brings the loop to the flag.  A port bound to the wildcard
\* address is the exception: it cannot be kicked, and without a client its loop
\* sleeps on.
ShutdownReturns ==
    (closer.pc # "idle" /\ \A i \in DOMAIN closer.list : closer.list[i] \notin Wildcard)
        ~> (closer.pc = "idle")

\* Once shutdown has returned, every published port can be bound again and no
\* loop is left that would serve it: what the next container to publish the
\* port relies on.
PortsReleased ==
    /\ TypeOK
    /\ (closer.pc = "idle" /\ mappings = <<>>) => \A p \in Ports : ~Bound(p)
=============================================================================
