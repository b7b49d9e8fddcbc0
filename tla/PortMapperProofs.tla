-------------------------- MODULE PortMapperProofs --------------------------
(***************************************************************************)
(* Once PortMapper::shutdown has returned no port is taken and no accept   *)
(* loop is left, for every set of published endpoints, every backlog and   *)
(* any number of clients.                                                  *)
(***************************************************************************)
EXTENDS PortMapper, TLAPS

-----------------------------------------------------------------------------
(* The inductive invariant *)

\* The variables, with the shutdown's record spelt out.
Typed ==
    /\ mappings \in Seq(Ports)
    /\ loop \in [Ports -> Alive \cup {"none", "ended"}]
    /\ flag \in [Ports -> {"yes", "no"}]
    /\ queue \in [Ports -> 0 .. Backlog]
    /\ proxies \in [Ports -> 0 .. MaxConn]
    /\ closer \in [pc : {"idle", "flag", "kick", "join"}, list : Seq(Ports), at : Nat]
    /\ closer.at \in 1 .. Len(closer.list) \/ closer = Idle

\* shutdown is at an entry of its list, or there is none.
CloserInv ==
    \/ closer = Idle
    \/ closer.pc # "idle" /\ closer.at \in 1 .. Len(closer.list)

\* p is an entry of the mapper's list or of the list a shutdown works on.
Listed(p) ==
    \/ \E i \in 1 .. Len(mappings) : mappings[i] = p
    \/ \E i \in 1 .. Len(closer.list) : closer.list[i] = p

\* An accept loop belongs to a mapping, or to one that is being shut down.
LoopsListed == \A p \in Ports : loop[p] \in Alive => Listed(p)

\* The threads before the one that is joined have ended.
JoinedEnded ==
    closer.pc = "join" =>
        \A i \in 1 .. Len(closer.list) : i < closer.at => loop[closer.list[i]] = "ended"

\* The flag is up before the loop is kicked.
FlagRaised == closer.pc = "kick" => flag[closer.list[closer.at]] = "yes"

\* The port is taken: Bound, in the terms of the invariant.
Taken(p) == Listed(p) \/ loop[p] \in Alive

\* A port that is not taken has no connections waiting.
FreeIsEmpty == \A p \in Ports : ~Taken(p) => queue[p] = 0

\* As long as its loop has not been told to stop, a port's clients are within
\* their bound; the kicks come on top of them.
ClientsBounded == \A p \in Ports : flag[p] = "no" => Open(p) <= MaxConn

Inv ==
    /\ Typed
    /\ CloserInv
    /\ LoopsListed
    /\ JoinedEnded
    /\ FlagRaised
    /\ FreeIsEmpty
    /\ ClientsBounded

-----------------------------------------------------------------------------
(* The model's Bound and the invariant's Taken agree. *)

\* The two ways to say that a port is bound agree.
LEMMA BoundTaken ==
    ASSUME Typed, NEW p \in Ports
    PROVE  Bound(p) <=> Taken(p)
  BY DEF Typed, Bound, Taken, Listed, ToSet

\* No mapping exists yet.
LEMMA InitInv == Init => Inv
  <1> SUFFICES ASSUME Init PROVE Inv
    OBVIOUS
  <1>1. Typed /\ CloserInv
    BY PortMapperAssumption DEF Init, Typed, CloserInv, Idle, Alive
  <1>2. LoopsListed /\ JoinedEnded /\ FlagRaised /\ FreeIsEmpty /\ ClientsBounded
    BY PortMapperAssumption
    DEF Init, LoopsListed, JoinedEnded, FlagRaised, FreeIsEmpty, ClientsBounded, Idle, Alive, Open
  <1> QED
    BY <1>1, <1>2 DEF Inv

\* The invariant says that shutdown has released the ports.
LEMMA InvImplies == Inv => PortsReleased
  <1> SUFFICES ASSUME Inv PROVE PortsReleased
    OBVIOUS
  <1>1. TypeOK
    BY DEF Inv, Typed, TypeOK, CloserInv
  <1>2. ASSUME closer.pc = "idle", mappings = <<>>, NEW p \in Ports
        PROVE  ~Bound(p)
    <2>1. closer = Idle
      BY <1>2 DEF Inv, CloserInv
    <2>2. ~Listed(p)
      BY <1>2, <2>1 DEF Listed, Idle
    <2> QED
      BY <2>2, BoundTaken DEF Inv, LoopsListed, Taken
  <1> QED
    BY <1>1, <1>2 DEF PortsReleased

-----------------------------------------------------------------------------
(* Every step preserves the invariant *)

\* add binds a port and starts its loop.
LEMMA AddInv == ASSUME Inv, NEW p \in Ports, Add(p) PROVE Inv'
  <1> USE PortMapperAssumption
  <1>1. /\ closer = Idle /\ closer' = Idle
        /\ ~Taken(p) /\ queue[p] = 0
    BY BoundTaken DEF Inv, CloserInv, FreeIsEmpty, Add
  <1>2. Typed'
    BY <1>1 DEF Inv, Typed, Add, Alive
  <1>3. \A q \in Ports : Listed(q) => Listed(q)'
    BY DEF Inv, Typed, Listed, Add
  <1>4. Listed(p)'
    <2>1. Len(mappings') = Len(mappings) + 1 /\ mappings'[Len(mappings) + 1] = p
      BY DEF Inv, Typed, Add
    <2>2. Len(mappings) + 1 \in 1 .. Len(mappings')
      BY <2>1 DEF Inv, Typed
    <2> QED
      BY <2>1, <2>2 DEF Listed
  <1>5. LoopsListed'
    BY <1>3, <1>4 DEF Inv, Typed, LoopsListed, Add
  <1>6. JoinedEnded' /\ FlagRaised' /\ CloserInv'
    BY <1>1 DEF JoinedEnded, FlagRaised, CloserInv, Idle
  <1>7. FreeIsEmpty'
    BY <1>1, <1>3 DEF Inv, Typed, FreeIsEmpty, Taken, Add, Alive
  <1>8. ClientsBounded'
    BY <1>1 DEF Inv, Typed, ClientsBounded, Taken, Open, Add, Alive
  <1> QED
    BY <1>2, <1>5, <1>6, <1>7, <1>8 DEF Inv

\* A step that leaves both lists alone, and moves no loop but p's, forward.
LEMMA ListsKept ==
    ASSUME Inv, NEW p \in Ports, NEW l \in Alive \cup {"ended"},
           UNCHANGED <<mappings, flag, closer>>,
           loop[p] \in Alive, loop' = [loop EXCEPT ![p] = l]
    PROVE  /\ CloserInv' /\ LoopsListed' /\ JoinedEnded' /\ FlagRaised'
           /\ \A q \in Ports : Listed(q)' <=> Listed(q)
           /\ \A q \in Ports : q # p => (Taken(q)' <=> Taken(q))
  <1>1. \A q \in Ports : Listed(q)' <=> Listed(q)
    BY DEF Listed
  <1>2. CloserInv'
    BY DEF Inv, CloserInv
  <1>3. LoopsListed' /\ \A q \in Ports : q # p => (Taken(q)' <=> Taken(q))
    BY <1>1 DEF Inv, Typed, LoopsListed, Taken, Alive
  <1>4. JoinedEnded' /\ FlagRaised'
    BY DEF Inv, Typed, JoinedEnded, FlagRaised, Alive
  <1> QED
    BY <1>1, <1>2, <1>3, <1>4

\* A client enters the backlog.
LEMMA ClientConnectsInv ==
    ASSUME Inv, NEW p \in Ports, ClientConnects(p) PROVE Inv'
  <1> USE PortMapperAssumption
  <1>1. Taken(p)
    BY BoundTaken DEF Inv, ClientConnects
  <1>2. \A q \in Ports : (Listed(q)' <=> Listed(q)) /\ (Taken(q)' <=> Taken(q))
    BY DEF Listed, Taken, ClientConnects
  <1>3. Typed'
    <2>1. queue' \in [Ports -> 0 .. Backlog]
      BY DEF Inv, Typed, ClientConnects
    <2> QED
      BY <2>1 DEF Inv, Typed, ClientConnects
  <1>4. CloserInv' /\ LoopsListed' /\ JoinedEnded' /\ FlagRaised'
    BY <1>2 DEF Inv, CloserInv, LoopsListed, JoinedEnded, FlagRaised, ClientConnects
  <1>5. FreeIsEmpty'
    BY <1>1, <1>2 DEF Inv, Typed, FreeIsEmpty, ClientConnects
  <1>6. ClientsBounded'
    <2> SUFFICES ASSUME NEW q \in Ports, flag'[q] = "no" PROVE Open(q)' <= MaxConn
      BY DEF ClientsBounded
    <2>1. CASE q = p
      BY <2>1 DEF Inv, Typed, Open, ClientConnects
    <2>2. CASE q # p
      BY <2>2 DEF Inv, Typed, ClientsBounded, Open, ClientConnects
    <2> QED
      BY <2>1, <2>2
  <1> QED
    BY <1>3, <1>4, <1>5, <1>6 DEF Inv

\* accept returns with a connection.
LEMMA AcceptInv == ASSUME Inv, NEW p \in Ports, Accept(p) PROVE Inv'
  <1> USE PortMapperAssumption
  <1>1. PICK r \in {"got", "error"} : loop' = [loop EXCEPT ![p] = r]
    BY DEF Accept
  <1>2. /\ CloserInv' /\ LoopsListed' /\ JoinedEnded' /\ FlagRaised'
        /\ \A q \in Ports : q # p => (Taken(q)' <=> Taken(q))
    BY <1>1, ListsKept DEF Accept, Alive
  <1>3. Typed'
    BY <1>1 DEF Inv, Typed, Accept, Alive
  <1>4. Taken(p)'
    BY <1>1 DEF Inv, Typed, Taken, Alive
  <1>5. FreeIsEmpty'
    BY <1>2, <1>4 DEF Inv, Typed, FreeIsEmpty, Accept
  <1>6. ClientsBounded'
    BY <1>1 DEF Inv, Typed, ClientsBounded, Open, Accept
  <1> QED
    BY <1>2, <1>3, <1>5, <1>6 DEF Inv

\* The accept loop ends and drops its listener.
LEMMA EndLoopInv ==
    ASSUME Inv, NEW p \in Ports, loop[p] \in {"got", "error"}, flag[p] = "yes", EndLoop(p)
    PROVE  Inv'
  <1> USE PortMapperAssumption
  <1>1. /\ CloserInv' /\ LoopsListed' /\ JoinedEnded' /\ FlagRaised'
        /\ \A q \in Ports : Listed(q)' <=> Listed(q)
        /\ \A q \in Ports : q # p => (Taken(q)' <=> Taken(q))
    BY ListsKept DEF EndLoop, Alive
  <1>2. Typed'
    BY DEF Inv, Typed, EndLoop, Alive
  <1>3. Released(p, mappings, closer, loop') <=> ~Listed(p)
    BY DEF Inv, Typed, EndLoop, Released, Listed, ToSet, Alive
  <1>4. Taken(p)' <=> Listed(p)
    BY <1>1 DEF Inv, Typed, EndLoop, Taken, Alive
  <1>5. FreeIsEmpty'
    BY <1>1, <1>3, <1>4 DEF Inv, Typed, FreeIsEmpty, EndLoop
  <1>6. ClientsBounded'
    BY DEF Inv, Typed, ClientsBounded, Open, EndLoop
  <1> QED
    BY <1>1, <1>2, <1>5, <1>6 DEF Inv

\* The loop looks at its flag and starts a proxy or ends.
LEMMA DispatchInv == ASSUME Inv, NEW p \in Ports, Dispatch(p) PROVE Inv'
  <1> USE PortMapperAssumption
  <1>1. CASE flag[p] = "yes"
    BY <1>1, EndLoopInv DEF Dispatch
  <1>2. CASE flag[p] = "no"
    <2>1. /\ loop[p] \in Alive /\ loop' = [loop EXCEPT ![p] = "accept"]
          /\ UNCHANGED <<mappings, flag, queue, closer>>
      BY <1>2 DEF Dispatch, Alive
    <2>2. \/ proxies' = proxies
          \/ loop[p] = "got" /\ proxies' = [proxies EXCEPT ![p] = @ + 1]
      BY <1>2 DEF Dispatch
    <2>3. /\ CloserInv' /\ LoopsListed' /\ JoinedEnded' /\ FlagRaised'
          /\ \A q \in Ports : q # p => (Taken(q)' <=> Taken(q))
      BY <2>1, ListsKept DEF Alive
    <2>4. Open(p) <= MaxConn
      BY <1>2 DEF Inv, ClientsBounded
    <2>5. Typed'
      <3>1. loop[p] = "got" => proxies[p] + 1 \in 0 .. MaxConn
        BY <2>4 DEF Inv, Typed, Open
      <3>2. proxies' \in [Ports -> 0 .. MaxConn]
        BY <2>2, <3>1 DEF Inv, Typed
      <3> QED
        BY <2>1, <3>2 DEF Inv, Typed, Alive
    <2>6. Taken(p)'
      BY <2>1 DEF Inv, Typed, Taken, Alive
    <2>7. FreeIsEmpty'
      BY <2>1, <2>3, <2>6 DEF Inv, Typed, FreeIsEmpty
    <2>8. ClientsBounded'
      <3> SUFFICES ASSUME NEW q \in Ports, flag'[q] = "no" PROVE Open(q)' <= MaxConn
        BY DEF ClientsBounded
      <3>1. CASE q = p
        BY <2>1, <2>2, <2>4, <3>1 DEF Inv, Typed, Open
      <3>2. CASE q # p
        BY <2>1, <2>2, <3>2 DEF Inv, Typed, ClientsBounded, Open
      <3> QED
        BY <3>1, <3>2
    <2> QED
      BY <2>3, <2>5, <2>7, <2>8 DEF Inv
  <1> QED
    BY <1>1, <1>2 DEF Inv, Typed

\* A proxied connection ends.
LEMMA ProxyEndsInv == ASSUME Inv, NEW p \in Ports, ProxyEnds(p) PROVE Inv'
  <1> USE PortMapperAssumption
  <1>1. \A q \in Ports : (Listed(q)' <=> Listed(q)) /\ (Taken(q)' <=> Taken(q))
    BY DEF Listed, Taken, ProxyEnds
  <1>2. Typed'
    BY DEF Inv, Typed, ProxyEnds
  <1>3. CloserInv' /\ LoopsListed' /\ JoinedEnded' /\ FlagRaised' /\ FreeIsEmpty'
    BY <1>1 DEF Inv, CloserInv, LoopsListed, JoinedEnded, FlagRaised, FreeIsEmpty, ProxyEnds
  <1>4. ClientsBounded'
    BY DEF Inv, Typed, ClientsBounded, Open, ProxyEnds
  <1> QED
    BY <1>2, <1>3, <1>4 DEF Inv

\* shutdown takes the list of mappings.
LEMMA TakeListInv == ASSUME Inv, TakeList PROVE Inv'
  <1> USE PortMapperAssumption
  <1>1. closer = Idle
    BY DEF Inv, CloserInv, TakeList
  <1>2. Len(mappings) >= 1 /\ Len(mappings) \in Nat
    BY DEF Inv, Typed, TakeList
  <1>3. Typed' /\ CloserInv'
    BY <1>2 DEF Inv, Typed, CloserInv, TakeList
  <1>4. \A q \in Ports : (Listed(q)' <=> Listed(q)) /\ (Taken(q)' <=> Taken(q))
    BY <1>1 DEF Listed, Taken, TakeList, Idle
  <1>5. LoopsListed' /\ JoinedEnded' /\ FlagRaised' /\ FreeIsEmpty'
    BY <1>4 DEF Inv, LoopsListed, JoinedEnded, FlagRaised, FreeIsEmpty, TakeList
  <1>6. ClientsBounded'
    BY DEF Inv, ClientsBounded, Open, TakeList
  <1> QED
    BY <1>3, <1>5, <1>6 DEF Inv

\* shutdown raises the flag of a mapping.
LEMMA RaiseFlagInv == ASSUME Inv, RaiseFlag PROVE Inv'
  <1> USE PortMapperAssumption
  <1>1. closer.at \in 1 .. Len(closer.list) /\ closer.list[closer.at] \in Ports
    BY DEF Inv, Typed, CloserInv, RaiseFlag, Idle
  <1>2. closer'.list = closer.list /\ closer'.at = closer.at /\ closer'.pc = "kick"
    BY DEF Inv, Typed, RaiseFlag
  <1>3. Typed'
    BY <1>1, <1>2 DEF Inv, Typed, RaiseFlag
  <1>4. \A q \in Ports : (Listed(q)' <=> Listed(q)) /\ (Taken(q)' <=> Taken(q))
    BY <1>2 DEF Listed, Taken, RaiseFlag
  <1>5. CloserInv' /\ LoopsListed' /\ JoinedEnded' /\ FreeIsEmpty'
    BY <1>1, <1>2, <1>4 DEF Inv, CloserInv, LoopsListed, JoinedEnded, FreeIsEmpty, RaiseFlag
  <1>7. FlagRaised'
    BY <1>1, <1>2 DEF Inv, Typed, FlagRaised, RaiseFlag
  <1>6. ClientsBounded'
    BY <1>1 DEF Inv, Typed, ClientsBounded, Open, RaiseFlag
  <1> QED
    BY <1>3, <1>5, <1>6, <1>7 DEF Inv

\* shutdown connects to wake the accept.
LEMMA KickInv == ASSUME Inv, Kick PROVE Inv'
  <1> USE PortMapperAssumption
  <1> DEFINE p == closer.list[closer.at]
  <1>1. closer.at \in 1 .. Len(closer.list) /\ p \in Ports /\ Len(closer.list) \in Nat
    BY DEF Inv, Typed, CloserInv, Kick, Idle
  <1>2. /\ closer'.list = closer.list
        /\ \/ closer'.pc = "join" /\ closer'.at = 1
           \/ closer'.pc = "flag" /\ closer'.at = closer.at + 1 /\ closer.at < Len(closer.list)
        /\ closer' \in [pc : {"idle", "flag", "kick", "join"}, list : Seq(Ports), at : Nat]
    <2>1. closer \in [pc : {"idle", "flag", "kick", "join"}, list : Seq(Ports), at : Nat]
      BY DEF Inv, Typed
    <2>2. CASE closer.at = Len(closer.list)
      BY <2>1, <2>2 DEF Kick
    <2>3. CASE closer.at # Len(closer.list)
      <3>1. closer' = [closer EXCEPT !.pc = "flag", !.at = @ + 1]
        BY <2>3 DEF Kick
      <3>2. closer.at + 1 \in Nat /\ closer.at < Len(closer.list)
        BY <1>1, <2>3
      <3> QED
        BY <2>1, <3>1, <3>2
    <2> QED
      BY <2>2, <2>3
  <1>3. /\ queue' \in [Ports -> 0 .. Backlog]
        /\ \A q \in Ports : q # p => queue'[q] = queue[q]
    <2>1. queue' = [queue EXCEPT ![p] = IF CanKick(p) THEN @ + 1 ELSE @]
      BY DEF Kick
    <2>2. queue[p] \in 0 .. Backlog
      BY <1>1 DEF Inv, Typed
    <2>3. (IF CanKick(p) THEN queue[p] + 1 ELSE queue[p]) \in 0 .. Backlog
      BY <2>2 DEF CanKick
    <2> HIDE DEF p
    <2> QED
      BY <1>1, <2>1, <2>3 DEF Inv, Typed
  <1>4. Typed' /\ CloserInv'
    <2>1. closer'.pc # "idle" /\ closer'.at \in 1 .. Len(closer'.list)
      BY <1>1, <1>2
    <2> QED
      BY <1>2, <1>3, <2>1 DEF Inv, Typed, CloserInv, Kick
  <1>5. \A q \in Ports : (Listed(q)' <=> Listed(q)) /\ (Taken(q)' <=> Taken(q))
    BY <1>2 DEF Listed, Taken, Kick
  <1>6. LoopsListed' /\ JoinedEnded' /\ FlagRaised'
    BY <1>1, <1>2, <1>5 DEF Inv, LoopsListed, JoinedEnded, FlagRaised, Kick
  <1>7. Taken(p)
    BY <1>1 DEF Taken, Listed
  <1>8. FreeIsEmpty'
    BY <1>3, <1>5, <1>7 DEF Inv, FreeIsEmpty
  <1>9. ClientsBounded'
    BY <1>3 DEF Inv, ClientsBounded, FlagRaised, Open, Kick
  <1> QED
    BY <1>4, <1>6, <1>8, <1>9 DEF Inv

\* shutdown joins the loop, or waits for it.
LEMMA JoinInv == ASSUME Inv, Join PROVE Inv'
  <1> USE PortMapperAssumption
  <1>1. /\ closer.at \in 1 .. Len(closer.list) /\ Len(closer.list) \in Nat
        /\ loop[closer.list[closer.at]] = "ended"
    BY DEF Inv, Typed, CloserInv, Join, Joinable, Idle
  <1>2. CASE closer.at < Len(closer.list)
    <2>1. /\ closer'.list = closer.list /\ closer'.at = closer.at + 1 /\ closer'.pc = "join"
          /\ closer' \in [pc : {"idle", "flag", "kick", "join"}, list : Seq(Ports), at : Nat]
          /\ queue' = queue
      BY <1>2 DEF Inv, Typed, Join
    <2>2. Typed' /\ CloserInv'
      BY <1>1, <1>2, <2>1 DEF Inv, Typed, CloserInv, Join
    <2>3. \A q \in Ports : (Listed(q)' <=> Listed(q)) /\ (Taken(q)' <=> Taken(q))
      BY <2>1 DEF Listed, Taken, Join
    <2>4. LoopsListed' /\ FreeIsEmpty' /\ ClientsBounded'
      BY <2>1, <2>3 DEF Inv, LoopsListed, FreeIsEmpty, ClientsBounded, Open, Join
    <2>5. JoinedEnded' /\ FlagRaised'
      BY <1>1, <2>1 DEF Inv, JoinedEnded, FlagRaised, Join
    <2> QED
      BY <2>2, <2>4, <2>5 DEF Inv
  <1>3. CASE closer.at = Len(closer.list)
    <2>1. /\ closer' = Idle /\ UNCHANGED <<mappings, loop, flag, proxies>>
          /\ queue' = [p \in Ports |->
                         IF Released(p, mappings, Idle, loop) THEN 0 ELSE queue[p]]
      BY <1>1, <1>3 DEF Join
    <2>2. \A i \in 1 .. Len(closer.list) : loop[closer.list[i]] = "ended"
      BY <1>1, <1>3 DEF Inv, JoinedEnded, FlagRaised, Join
    <2>3. \A q \in Ports : loop[q] \in Alive => Listed(q)'
      BY <2>1, <2>2 DEF Inv, LoopsListed, Listed, Alive
    <2>4. Typed' /\ CloserInv' /\ JoinedEnded' /\ FlagRaised'
      BY <2>1 DEF Inv, Typed, CloserInv, JoinedEnded, FlagRaised, Idle
    <2>5. \A q \in Ports : Taken(q)' <=> ~Released(q, mappings, Idle, loop)
      <3>1. Idle.list = <<>> /\ Len(Idle.list) = 0 /\ ToSet(Idle.list) = {}
        BY DEF Idle, ToSet
      <3>2. ToSet(mappings) = {mappings[i] : i \in 1 .. Len(mappings)}
        BY DEF Inv, Typed, ToSet
      <3> QED
        BY <2>1, <3>1, <3>2 DEF Taken, Listed, Released
    <2>6. LoopsListed' /\ FreeIsEmpty'
      BY <2>1, <2>3, <2>5 DEF LoopsListed, FreeIsEmpty
    <2>7. ClientsBounded'
      <3> SUFFICES ASSUME NEW q \in Ports, flag[q] = "no" PROVE Open(q)' <= MaxConn
        BY <2>1 DEF ClientsBounded
      <3>1. queue'[q] = queue[q] \/ queue'[q] = 0
        BY <2>1
      <3> QED
        BY <2>1, <3>1 DEF Inv, Typed, ClientsBounded, Open
    <2> QED
      BY <2>4, <2>6, <2>7 DEF Inv
  <1> QED
    BY <1>1, <1>2, <1>3

-----------------------------------------------------------------------------
\* Every step keeps the invariant.
LEMMA NextInv == Inv /\ [Next]_vars => Inv'
  <1> SUFFICES ASSUME Inv, [Next]_vars PROVE Inv'
    OBVIOUS
  <1>1. ASSUME NEW p \in Ports, Add(p) \/ ClientConnects(p) \/ LoopStep(p) \/ ProxyEnds(p)
        PROVE  Inv'
    BY <1>1, AddInv, ClientConnectsInv, AcceptInv, DispatchInv, ProxyEndsInv DEF LoopStep
  <1>2. CASE TakeList \/ CloserStep
    BY <1>2, TakeListInv, RaiseFlagInv, KickInv, JoinInv DEF CloserStep
  <1>3. CASE UNCHANGED vars
    BY <1>3
    DEF vars, Inv, Typed, CloserInv, LoopsListed, Listed, JoinedEnded, FlagRaised,
        FreeIsEmpty, Taken, ClientsBounded, Open
  <1> QED
    BY <1>1, <1>2, <1>3 DEF Next

\* Once PortMapper::shutdown has returned, every published port can be bound
\* again and no accept loop is left, whatever clients did meanwhile: the joins
\* come before the list, and with it the listening sockets, is dropped.
THEOREM ShutdownReleases == Spec => []PortsReleased
  <1>1. Spec => []Inv
    BY InitInv, NextInv, PTL DEF Spec
  <1> QED
    BY <1>1, InvImplies, PTL
=============================================================================
