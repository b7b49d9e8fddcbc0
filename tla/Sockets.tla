------------------------------ MODULE Sockets ------------------------------
(***************************************************************************)
(* What a hooked application's sockets are made of: the fake handles of    *)
(* the shim (netshim state.rs, hooks.rs), the ids of the daemon's socket   *)
(* table (socket_table.rs) and the NAT backend's state behind an id        *)
(* (nat.rs).  Ids are recycled, handles are not.                           *)
(*                                                                         *)
(* One application thread calls the hooks; requests and replies travel     *)
(* through the two rings, and as in Exchange a call may give up while it   *)
(* waits, its request is carried out all the same, and its late reply is   *)
(* what a later call finds first.                                          *)
(*                                                                         *)
(* Addresses and data are left out.  The host's sockets may succeed or     *)
(* fail.  A socket is named by the call that created it ("born"), and the  *)
(* call that closed its handle is kept in closer; both are history: the    *)
(* code only has the id.                                                   *)
(***************************************************************************)
EXTENDS Naturals, Sequences

CONSTANTS SlotCount,  \* slots of each ring
          MaxCalls,   \* bound on the number of hooked calls
          None        \* no socket

ASSUME SocketsAssumption == SlotCount \in Nat \ {0} /\ MaxCalls \in Nat

VARIABLES handles,  \* the shim's map: handle -> id and the socket it stands for
          slots,    \* the socket table; the id is the position
          free,     \* ids to be used again, oldest first
          calls,    \* hooked calls so far; also the correlation id
          app,      \* the call in progress
          req,      \* the shim-to-host ring
          rep,      \* the host-to-shim ring
          outcome,  \* how each call ended
          closer    \* the close call of each socket's handle, 0 before there is one

vars == <<handles, slots, free, calls, app, req, rep, outcome, closer>>

Call == 1 .. MaxCalls
Id == 1 .. MaxCalls
Type == {"tcp", "udp"}
Kind == {"fresh", "stream", "listener", "dgram"}
Socket == [kind : Kind, typ : Type, born : Call]

CreateOps == {"socket_tcp", "socket_udp"}
UseOps == {"bind", "connect", "listen", "send", "recv", "sendto", "recvfrom",
           "getsockname", "getpeername", "close"}

Request == [call : Call, op : CreateOps \cup UseOps, id : Id \cup {0}, born : Call \cup {0}]
Reply == [call : Call, ok : BOOLEAN, id : Id \cup {0}]

ASSUME NoneAssumption == None \notin Socket \cup [id : Id, born : Call]

NoCall == [pc |-> "idle", op |-> "none"]

Init ==
    /\ handles = <<>>
    /\ slots = <<>>
    /\ free = <<>>
    /\ calls = 0
    /\ app = NoCall
    /\ req = <<>>
    /\ rep = <<>>
    /\ outcome = [c \in Call |-> "none"]
    /\ closer = [c \in Call |-> 0]

-----------------------------------------------------------------------------
(* SocketTable *)

\* insert: the oldest free id, or a new one.
InsertId == IF free # <<>> THEN Head(free) ELSE Len(slots) + 1

Insert(s) ==
    /\ slots' = IF free # <<>> THEN [slots EXCEPT ![Head(free)] = s] ELSE Append(slots, s)
    /\ free' = IF free # <<>> THEN Tail(free) ELSE free

Get(id) == IF id \in DOMAIN slots THEN slots[id] ELSE None

\* Mutation of Remove: the id is given back whether or not it was in use.
RemoveAlways(id) ==
    /\ slots' = [slots EXCEPT ![id] = None]
    /\ free' = Append(Append(free, id), id)

\* remove: the id of a socket that was there can be used again.
Remove(id) ==
    /\ slots' = [slots EXCEPT ![id] = None]
    /\ free' = IF Get(id) # None THEN Append(free, id) ELSE free

-----------------------------------------------------------------------------
(* NatBackend: what an operation may make of a socket; a result that is not  *)
(* ok carries an error status.  Every host call may fail.                    *)

Ok(s) == [ok |-> TRUE, sock |-> s]
Err(s) == [ok |-> FALSE, sock |-> s]
Turn(s, kind) == {Ok([s EXCEPT !.kind = kind]), Err(s)}

\* bind: a datagram socket gets its host socket now, TCP waits for listen.
Bind(s) ==
    CASE s.kind = "fresh" /\ s.typ = "udp" -> Turn(s, "dgram")
      [] s.kind = "fresh" /\ s.typ = "tcp" -> {Ok(s)}
      [] OTHER -> {Err(s)}

\* connect: the stream replaces whatever state the socket had.
Connect(s) == Turn(s, "stream")

Listen(s) ==
    CASE s.kind = "fresh" -> Turn(s, "listener")
      [] s.kind = "listener" -> {Ok(s)}
      [] OTHER -> {Err(s)}

\* send and recv want a stream, recvfrom a datagram socket.
Needs(s, kind) == IF s.kind = kind THEN {Ok(s), Err(s)} ELSE {Err(s)}

\* getpeername only reads the address kept with a stream.
GetPeerName(s) == IF s.kind = "stream" THEN {Ok(s)} ELSE {Err(s)}

\* sendto binds a fresh datagram socket first; the binding stays when the
\* sending fails.
SendTo(s) ==
    IF s.kind = "fresh" /\ s.typ = "udp"
    THEN Turn(s, "dgram") \cup {Err([s EXCEPT !.kind = "dgram"])}
    ELSE Needs(s, "dgram")

Effects(op, s) ==
    CASE op = "bind" -> Bind(s)
      [] op = "connect" -> Connect(s)
      [] op = "listen" -> Listen(s)
      [] op \in {"send", "recv"} -> Needs(s, "stream")
      [] op = "getpeername" -> GetPeerName(s)
      [] op = "sendto" -> SendTo(s)
      [] op = "recvfrom" -> Needs(s, "dgram")
      [] op = "getsockname" -> {Ok(s)}

-----------------------------------------------------------------------------
(* The daemon carries out the oldest request and posts the reply, which a  *)
(* full ring drops.                                                        *)

\* A ring takes a message only while a slot is free.
Room(q) == Len(q) < SlotCount

PostReply(r) == rep' = IF Room(rep) THEN Append(rep, r) ELSE rep

Execute ==
    /\ req # <<>>
    /\ req' = Tail(req)
    /\ LET q == Head(req) IN
       \/ /\ q.op \in CreateOps
          /\ Insert([kind |-> "fresh", born |-> q.call,
                     typ |-> IF q.op = "socket_tcp" THEN "tcp" ELSE "udp"])
          /\ PostReply([call |-> q.call, ok |-> TRUE, id |-> InsertId])
       \/ /\ q.op = "close"
          /\ Remove(q.id)
          /\ PostReply([call |-> q.call, ok |-> TRUE, id |-> q.id])
       \/ /\ q.op \notin CreateOps \cup {"close"}
          /\ IF Get(q.id) = None
             THEN /\ PostReply([call |-> q.call, ok |-> FALSE, id |-> q.id])
                  /\ UNCHANGED slots
             ELSE \E e \in Effects(q.op, Get(q.id)) :
                  /\ slots' = [slots EXCEPT ![q.id] = e.sock]
                  /\ PostReply([call |-> q.call, ok |-> e.ok, id |-> q.id])
          /\ UNCHANGED free
    /\ UNCHANGED <<handles, calls, app, outcome, closer>>

-----------------------------------------------------------------------------
(* The hooks *)

\* The request of call calls + 1; a full ring ends the call at once.
Issue(op, id, born) ==
    /\ calls < MaxCalls
    /\ calls' = calls + 1
    /\ IF Room(req)
       THEN /\ req' = Append(req, [call |-> calls + 1, op |-> op, id |-> id, born |-> born])
            /\ app' = [pc |-> "wait", op |-> op]
            /\ UNCHANGED outcome
       ELSE /\ outcome' = [outcome EXCEPT ![calls + 1] = "failed"]
            /\ UNCHANGED <<req, app>>
    /\ closer' = IF op = "close" THEN [closer EXCEPT ![born] = calls + 1] ELSE closer
    /\ UNCHANGED <<slots, free, rep>>

\* hook_socket.
HookSocket(op) ==
    /\ app.pc = "idle"
    /\ Issue(op, 0, 0)
    /\ UNCHANGED handles

\* An open handle: closesocket leaves None in its place.
Open(h) == h \in DOMAIN handles /\ handles[h] # None

\* The other hooks look their handle up; unknown handles go to the system.
HookUse(op, h) ==
    /\ app.pc = "idle"
    /\ Open(h)
    /\ op # "close"
    /\ Issue(op, handles[h].id, handles[h].born)
    /\ UNCHANGED handles

\* Mutations of HookClose: the daemon is not told; the handle is kept.
HookCloseSilent(h) ==
    /\ app.pc = "idle"
    /\ Open(h)
    /\ handles' = [handles EXCEPT ![h] = None]
    /\ UNCHANGED <<slots, free, calls, app, req, rep, outcome, closer>>

HookCloseKeeps(h) ==
    /\ app.pc = "idle"
    /\ Open(h)
    /\ Issue("close", handles[h].id, handles[h].born)
    /\ UNCHANGED handles

\* hook_closesocket forgets the handle first, whatever becomes of the request.
HookClose(h) ==
    /\ app.pc = "idle"
    /\ Open(h)
    /\ handles' = [handles EXCEPT ![h] = None]
    /\ Issue("close", handles[h].id, handles[h].born)

Return(r) ==
    /\ app' = NoCall
    /\ outcome' = [outcome EXCEPT ![calls] = r]

\* Mutation of Matches: any reply will do.
MatchesAny(r) == TRUE

\* The correlation id of the reply is that of the call in progress.
Matches(r) == r.call = calls

\* A reply arrives.  The socket call allocates the next fake handle for the id
\* in it.
Receive ==
    /\ app.pc = "wait"
    /\ rep # <<>>
    /\ rep' = Tail(rep)
    /\ LET r == Head(rep) IN
       IF Matches(r) /\ r.ok
       THEN /\ Return("ok")
            /\ handles' = IF app.op \in CreateOps
                          THEN Append(handles, [id |-> r.id, born |-> calls])
                          ELSE handles
       ELSE /\ Return("failed")
            /\ UNCHANGED handles
    /\ UNCHANGED <<slots, free, calls, req, closer>>

\* The deadline passes, or the wait fails.
GiveUp ==
    /\ app.pc = "wait"
    /\ Return("failed")
    /\ UNCHANGED <<handles, slots, free, calls, req, rep, closer>>

-----------------------------------------------------------------------------
Next ==
    \/ Execute \/ Receive \/ GiveUp
    \/ \E op \in CreateOps : HookSocket(op)
    \/ \E h \in DOMAIN handles : HookClose(h) \/ \E op \in UseOps : HookUse(op, h)

Spec == Init /\ [][Next]_vars

-----------------------------------------------------------------------------
(* Properties *)

\* Ids, states, requests and replies are well formed.
TypeOK ==
    /\ handles \in Seq([id : Id, born : Call] \cup {None})
    /\ slots \in Seq(Socket \cup {None})
    /\ free \in Seq(Id)
    /\ calls \in 0 .. MaxCalls
    /\ app \in [pc : {"idle", "wait"}, op : CreateOps \cup UseOps \cup {"none"}]
    /\ req \in Seq(Request) /\ Len(req) <= SlotCount
    /\ rep \in Seq(Reply) /\ Len(rep) <= SlotCount
    /\ outcome \in [Call -> {"none", "ok", "failed"}]
    /\ closer \in [Call -> Call \cup {0}]

\* The free list of the socket table holds every empty id once and no other:
\* no id is handed out twice, none is lost.
TableInv ==
    /\ TypeOK
    /\ \A i, j \in DOMAIN free : free[i] = free[j] => i = j
    /\ {free[i] : i \in DOMAIN free} = {i \in DOMAIN slots : slots[i] = None}

\* An open handle reaches the socket it was returned for, although ids are
\* recycled, calls give up and replies come late.
HandleReachesOwn ==
    \A h \in DOMAIN handles : Open(h) =>
        /\ Get(handles[h].id) # None
        /\ slots[handles[h].id].born = handles[h].born

\* A request that is carried out works on the socket its caller meant.
RequestReachesOwn ==
    [][Execute /\ Head(req).op \in UseOps =>
          Get(Head(req).id) # None /\ slots[Head(req).id].born = Head(req).born]_vars

\* The close request of the socket is under way.
Closing(b) == \E i \in 1 .. Len(req) : req[i].op = "close" /\ req[i].born = b

\* A socket the table keeps for ever is owed to a failure of one of its own two
\* calls: an open handle stands for it, or its closing is still under way, or
\* the call that created it did not return it (still waiting, given up or
\* refused), or the very call that closed its handle failed.
LeakOnlyByFailure ==
    \A i \in DOMAIN slots : slots[i] # None =>
        LET b == slots[i].born IN
        \/ \E h \in DOMAIN handles : Open(h) /\ handles[h].born = b
        \/ Closing(b)
        \/ outcome[b] # "ok"
        \/ closer[b] # 0 /\ outcome[closer[b]] = "failed"
=============================================================================
