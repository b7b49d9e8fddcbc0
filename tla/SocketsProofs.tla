--------------------------- MODULE SocketsProofs ---------------------------
(***************************************************************************)
(* A fake handle of the shim always stands for the socket it was returned  *)
(* for, and a request works on the socket its caller meant, although the   *)
(* daemon's ids are recycled, calls give up and replies come late; for any *)
(* ring size and any number of calls.                                      *)
(***************************************************************************)
EXTENDS Sockets, TLAPS

-----------------------------------------------------------------------------
(* Facts about sequences *)

\* What Append does to length, last and earlier elements.
LEMMA AppendFacts ==
    ASSUME NEW S, NEW s \in Seq(S), NEW x \in S
    PROVE  /\ Append(s, x) \in Seq(S)
           /\ Len(Append(s, x)) = Len(s) + 1
           /\ \A i \in 1 .. Len(s) : Append(s, x)[i] = s[i]
           /\ Append(s, x)[Len(s) + 1] = x
           /\ Len(s) \in Nat
  OBVIOUS

\* What Tail does to length and elements.
LEMMA TailFacts ==
    ASSUME NEW S, NEW s \in Seq(S), s # <<>>
    PROVE  /\ Len(s) \in Nat \ {0}
           /\ Head(s) = s[1] /\ s[1] \in S
           /\ Tail(s) \in Seq(S)
           /\ Len(Tail(s)) = Len(s) - 1
           /\ \A i \in 1 .. Len(s) - 1 : Tail(s)[i] = s[i + 1]
  OBVIOUS

\* A function changed at one argument.
LEMMA ExceptFacts ==
    ASSUME NEW S, NEW s \in Seq(S), NEW n \in 1 .. Len(s), NEW x \in S
    PROVE  /\ [s EXCEPT ![n] = x] \in Seq(S)
           /\ Len([s EXCEPT ![n] = x]) = Len(s)
           /\ [s EXCEPT ![n] = x][n] = x
           /\ \A i \in 1 .. Len(s) : i # n => [s EXCEPT ![n] = x][i] = s[i]
  OBVIOUS

-----------------------------------------------------------------------------
(* The invariant *)

\* Id i of the table leads to the socket created by call b.
Reaches(i, b) == i \in 1 .. Len(slots) /\ slots[i] # None /\ slots[i].born = b

\* Calls are numbered in the order of their requests; the table is no longer
\* than the calls that were carried out, and a reply or a socket is older than
\* every request still in the ring.
Numbering ==
    /\ \A k \in 1 .. Len(req) : Len(slots) + k <= req[k].call /\ req[k].call <= calls
    /\ Len(slots) + Len(req) <= calls
    /\ \A j, k \in 1 .. Len(req) : j < k => req[j].call < req[k].call
    /\ \A i \in 1 .. Len(rep) : rep[i].call <= calls
    /\ \A i \in 1 .. Len(rep), k \in 1 .. Len(req) : rep[i].call < req[k].call
    /\ \A i \in 1 .. Len(slots), b \in Call : Reaches(i, b) =>
          b <= calls /\ \A k \in 1 .. Len(req) : b < req[k].call

\* A call has an outcome only once it returned; a request that is still in the
\* ring cannot have succeeded.
Outcomes ==
    /\ \A c \in Call : c > calls => outcome[c] = "none"
    /\ \A k \in 1 .. Len(req) : outcome[req[k].call] # "ok"
    /\ app.pc = "wait" =>
          /\ calls \in Call /\ outcome[calls] = "none"
          /\ \A k \in 1 .. Len(req) : req[k].call = calls => req[k].op = app.op
          /\ \A i \in 1 .. Len(slots) : Reaches(i, calls) => app.op \in CreateOps

\* The free list and the empty slots.
FreeExact ==
    /\ \A i, j \in 1 .. Len(free) : free[i] = free[j] => i = j
    /\ \A i \in 1 .. Len(free) : free[i] \in 1 .. Len(slots) /\ slots[free[i]] = None
    /\ \A i \in 1 .. Len(slots) : slots[i] = None => \E j \in 1 .. Len(free) : free[j] = i

\* No two ids lead to the same socket, no two open handles stand for it.
Unique ==
    /\ \A i, j \in 1 .. Len(slots), b \in Call : Reaches(i, b) /\ Reaches(j, b) => i = j
    /\ \A g, h \in DOMAIN handles :
          Open(g) /\ Open(h) /\ handles[g].born = handles[h].born => g = h

\* An open handle was returned by a call that succeeded, and leads to its socket.
HandlesReach ==
    \A h \in DOMAIN handles : Open(h) =>
        Reaches(handles[h].id, handles[h].born) /\ outcome[handles[h].born] = "ok"

\* A request in the ring leads to the socket its handle stood for.
RequestsReach ==
    \A k \in 1 .. Len(req) : req[k].op \in UseOps => Reaches(req[k].id, req[k].born)

\* The close request is the last one for its socket.
CloseLast ==
    \A k \in 1 .. Len(req) : req[k].op = "close" =>
        /\ \A h \in DOMAIN handles : Open(h) => handles[h].born # req[k].born
        /\ \A l \in 1 .. Len(req) :
              k < l /\ req[l].op \in UseOps => req[l].born # req[k].born

\* The reply a socket call waits for carries the id of its new socket.
RepliesReach ==
    app.pc = "wait" /\ app.op \in CreateOps =>
        \A i \in 1 .. Len(rep) :
            rep[i].call = calls /\ rep[i].ok => Reaches(rep[i].id, calls)

\* Why a socket may stay in the table.
Excused(b) ==
    \/ \E h \in DOMAIN handles : Open(h) /\ handles[h].born = b
    \/ Closing(b)
    \/ outcome[b] # "ok"
    \/ closer[b] # 0 /\ outcome[closer[b]] = "failed"

Leaks == \A i \in 1 .. Len(slots), b \in Call : Reaches(i, b) => Excused(b)

Inv ==
    /\ TypeOK /\ Numbering /\ Outcomes /\ FreeExact /\ Unique
    /\ HandlesReach /\ RequestsReach /\ CloseLast /\ RepliesReach /\ Leaks

-----------------------------------------------------------------------------
(* What the invariant says *)

\* The types of the parts of the state.
LEMMA TypeFacts ==
    ASSUME TypeOK
    PROVE  /\ calls \in Nat /\ calls <= MaxCalls
           /\ Len(req) \in Nat /\ Len(rep) \in Nat /\ Len(slots) \in Nat
           /\ Len(free) \in Nat /\ Len(handles) \in Nat
           /\ DOMAIN handles = 1 .. Len(handles) /\ DOMAIN slots = 1 .. Len(slots)
           /\ DOMAIN free = 1 .. Len(free)
           /\ \A k \in 1 .. Len(req) :
                 req[k] \in Request /\ req[k].call \in Call /\ req[k].call \in Nat
           /\ \A i \in 1 .. Len(rep) :
                 rep[i] \in Reply /\ rep[i].call \in Call /\ rep[i].call \in Nat
           /\ \A h \in DOMAIN handles : Open(h) =>
                 handles[h].id \in Id /\ handles[h].born \in Call /\ handles[h].born \in Nat
           /\ \A i \in 1 .. Len(slots) : slots[i] # None =>
                 slots[i] \in Socket /\ slots[i].born \in Call /\ slots[i].born \in Nat
  <1> USE SocketsAssumption
  <1>1. /\ Len(req) \in Nat /\ Len(rep) \in Nat /\ Len(slots) \in Nat
        /\ Len(free) \in Nat /\ Len(handles) \in Nat
        /\ DOMAIN handles = 1 .. Len(handles) /\ DOMAIN slots = 1 .. Len(slots)
        /\ DOMAIN free = 1 .. Len(free)
    BY DEF TypeOK
  <1>2. calls \in Nat /\ calls <= MaxCalls
    BY DEF TypeOK
  <1>3. /\ \A k \in 1 .. Len(req) : req[k] \in Request
        /\ \A i \in 1 .. Len(rep) : rep[i] \in Reply
        /\ \A h \in DOMAIN handles : handles[h] \in [id : Id, born : Call] \cup {None}
        /\ \A i \in 1 .. Len(slots) : slots[i] \in Socket \cup {None}
    BY <1>1 DEF TypeOK
  <1>4. /\ \A r \in Request : r.call \in Call /\ r.call \in Nat
        /\ \A r \in Reply : r.call \in Call /\ r.call \in Nat
        /\ \A r \in Socket : r.born \in Call /\ r.born \in Nat
        /\ \A r \in [id : Id, born : Call] : r.id \in Id /\ r.born \in Call /\ r.born \in Nat
    BY DEF Request, Reply, Socket, Call
  <1> QED
    BY <1>1, <1>2, <1>3, <1>4 DEF Open

\* The invariant contains the table's.
LEMMA InvTable == ASSUME Inv PROVE TableInv
  <1>1. DOMAIN free = 1 .. Len(free) /\ DOMAIN slots = 1 .. Len(slots)
    BY TypeFacts DEF Inv
  <1> QED
    BY <1>1 DEF Inv, FreeExact, TableInv

\* A handle that is mapped names the socket it was made for.
LEMMA InvHandles == ASSUME Inv PROVE HandleReachesOwn
  <1>1. DOMAIN slots = 1 .. Len(slots)
    BY TypeFacts DEF Inv
  <1> QED
    BY <1>1 DEF Inv, HandlesReach, HandleReachesOwn, Reaches, Get

\* A socket without a handle is one that a failure left behind.
LEMMA InvLeak == ASSUME Inv PROVE LeakOnlyByFailure
  <1>1. DOMAIN slots = 1 .. Len(slots)
    BY TypeFacts DEF Inv
  <1>2. \A i \in 1 .. Len(slots) : slots[i] # None =>
           Reaches(i, slots[i].born) /\ slots[i].born \in Call
    BY TypeFacts DEF Inv, Reaches
  <1> QED
    BY <1>1, <1>2 DEF Inv, Leaks, Excused, LeakOnlyByFailure

\* The step that executes a request reaches the request's own socket.
LEMMA InvRequest ==
    ASSUME Inv, req # <<>>, Head(req).op \in UseOps
    PROVE  Get(Head(req).id) # None /\ slots[Head(req).id].born = Head(req).born
  <1>1. Head(req) = req[1] /\ 1 \in 1 .. Len(req) /\ DOMAIN slots = 1 .. Len(slots)
    BY TailFacts, TypeFacts DEF Inv, TypeOK
  <1> QED
    BY <1>1 DEF Inv, RequestsReach, Reaches, Get

\* No socket, no handle, no request.
LEMMA InitInv == Init => Inv
  <1> SUFFICES ASSUME Init PROVE Inv
    OBVIOUS
  <1> USE SocketsAssumption
  <1>1. TypeOK
    BY DEF Init, TypeOK, NoCall
  <1>2. Numbering /\ Outcomes /\ FreeExact /\ Unique
    BY DEF Init, Numbering, Outcomes, FreeExact, Unique, NoCall, Reaches
  <1>3. HandlesReach /\ RequestsReach /\ CloseLast /\ RepliesReach /\ Leaks
    BY DEF Init, HandlesReach, RequestsReach, CloseLast, RepliesReach, Leaks, NoCall
  <1> QED
    BY <1>1, <1>2, <1>3 DEF Inv

-----------------------------------------------------------------------------
(* The socket table and the backend *)

\* What an operation makes of a socket is a socket of the same call.
LEMMA EffectsFacts ==
    ASSUME NEW op \in UseOps \ {"close"}, NEW s \in Socket, NEW e \in Effects(op, s)
    PROVE  e.sock \in Socket /\ e.sock.born = s.born /\ e.ok \in BOOLEAN
  <1>1. \A k \in Kind : LET u == [s EXCEPT !.kind = k] IN u \in Socket /\ u.born = s.born
    BY DEF Socket
  <1>2. ASSUME NEW u \in Socket, u.born = s.born, e \in {Ok(u), Err(u)}
        PROVE  e.sock \in Socket /\ e.sock.born = s.born /\ e.ok \in BOOLEAN
    <2>1. CASE e = [ok |-> TRUE, sock |-> u]
      <3>1. e.sock = u /\ e.ok = TRUE
        BY <2>1
      <3> QED
        BY <1>2, <3>1
    <2>2. CASE e = [ok |-> FALSE, sock |-> u]
      <3>1. e.sock = u /\ e.ok = FALSE
        BY <2>2
      <3> QED
        BY <1>2, <3>1
    <2> QED
      BY <1>2, <2>1, <2>2 DEF Ok, Err
  <1>3. ASSUME NEW k \in Kind, e \in Turn(s, k) \cup {Ok(s), Err(s), Err([s EXCEPT !.kind = k])}
        PROVE  e.sock \in Socket /\ e.sock.born = s.born /\ e.ok \in BOOLEAN
    BY <1>1, <1>2, <1>3 DEF Turn
  <1>4. \E k \in Kind : e \in Turn(s, k) \cup {Ok(s), Err(s), Err([s EXCEPT !.kind = k])}
    <2>1. "stream" \in Kind /\ "listener" \in Kind /\ "dgram" \in Kind
      BY DEF Kind
    <2>2. CASE op = "bind"
      BY <2>1, <2>2 DEF Effects, Bind, Socket, Type
    <2>3. CASE op = "connect"
      BY <2>1, <2>3 DEF Effects, Connect
    <2>4. CASE op = "listen"
      BY <2>1, <2>4 DEF Effects, Listen
    <2>5. CASE op \in {"send", "recv", "recvfrom"}
      BY <2>1, <2>5 DEF Effects, Needs
    <2>6. CASE op \in {"getpeername", "getsockname"}
      BY <2>1, <2>6 DEF Effects, GetPeerName
    <2>7. CASE op = "sendto"
      BY <2>1, <2>7 DEF Effects, SendTo, Needs
    <2> QED
      BY <2>2, <2>3, <2>4, <2>5, <2>6, <2>7 DEF UseOps
  <1> QED
    BY <1>3, <1>4

\* What the daemon does to the table when it carries out request q and answers
\* with r: a creation adds the new socket, a close takes its socket away, any
\* other operation leaves every id with the socket it had.
Moves(q, r) ==
    /\ slots' \in Seq(Socket \cup {None}) /\ free' \in Seq(Id)
    /\ Len(slots) <= Len(slots') /\ Len(slots') <= Len(slots) + 1
    /\ FreeExact'
    /\ \A i \in 1 .. Len(slots), b \in Call :
          Reaches(i, b) /\ ~(q.op = "close" /\ b = q.born) => Reaches(i, b)'
    /\ \A i \in 1 .. Len(slots'), b \in Call : Reaches(i, b)' =>
          \/ Reaches(i, b) /\ ~(q.op = "close" /\ b = q.born)
          \/ q.op \in CreateOps /\ b = q.call /\ i = r.id
    /\ q.op \in CreateOps => Reaches(r.id, q.call)'

\* The request at the head of the ring.
LEMMA HeadFacts ==
    ASSUME Inv, req # <<>>
    PROVE  /\ Head(req) = req[1] /\ 1 \in 1 .. Len(req) /\ Len(req) \in Nat \ {0}
           /\ req[1] \in Request /\ req[1].call \in Call
           /\ Tail(req) \in Seq(Request) /\ Len(Tail(req)) = Len(req) - 1
           /\ \A k \in 1 .. Len(req) - 1 : Tail(req)[k] = req[k + 1] /\ k + 1 \in 1 .. Len(req)
           /\ Len(slots) + 1 <= req[1].call /\ req[1].call <= calls
           /\ req[1].op \in UseOps => Reaches(req[1].id, req[1].born)
  <1>1. /\ Head(req) = req[1] /\ Len(req) \in Nat \ {0} /\ req[1] \in Request
        /\ Tail(req) \in Seq(Request) /\ Len(Tail(req)) = Len(req) - 1
        /\ \A k \in 1 .. Len(req) - 1 : Tail(req)[k] = req[k + 1]
    BY TailFacts DEF Inv, TypeOK
  <1>2. 1 \in 1 .. Len(req) /\ \A k \in 1 .. Len(req) - 1 : k + 1 \in 1 .. Len(req)
    BY <1>1
  <1> QED
    BY <1>1, <1>2 DEF Inv, Numbering, RequestsReach, Request

\* What create does to the table: a recycled id or the next one.
LEMMA CreateMoves ==
    ASSUME Inv, req # <<>>, NEW q, q = req[1], q.op \in CreateOps,
           NEW s \in Socket, s.born = q.call, Insert(s), NEW r, r.id = InsertId
    PROVE  Moves(q, r) /\ r.id \in Id
  <1> USE SocketsAssumption
  <1>1. /\ s # None /\ Len(slots) \in Nat /\ Len(free) \in Nat /\ q.op # "close"
        /\ slots \in Seq(Socket \cup {None}) /\ free \in Seq(Id)
        /\ s \in Socket \cup {None}
    BY NoneAssumption, TypeFacts DEF Inv, TypeOK, CreateOps
  <1>2. CASE free # <<>>
    <2> DEFINE n == free[1]
    <2>1. /\ Len(free) \in Nat \ {0} /\ Head(free) = n /\ free' \in Seq(Id)
          /\ Len(free') = Len(free) - 1
          /\ \A i \in 1 .. Len(free) - 1 : free'[i] = free[i + 1]
      BY <1>1, <1>2, TailFacts DEF Insert
    <2>2. /\ 1 \in 1 .. Len(free) /\ n \in 1 .. Len(slots) /\ slots[n] = None /\ n \in Id
          /\ \A i \in 1 .. Len(free') : i + 1 \in 1 .. Len(free) /\ i + 1 # 1
      <3>1. 1 \in 1 .. Len(free) /\ \A i \in 1 .. Len(free') : i + 1 \in 1 .. Len(free) /\ i + 1 # 1
        BY <2>1
      <3> QED
        BY <1>1, <3>1 DEF Inv, FreeExact
    <2>3. r.id = n
      BY <1>2, <2>1 DEF InsertId
    <2> HIDE DEF n
    <2>4. /\ slots' \in Seq(Socket \cup {None})
          /\ Len(slots') = Len(slots) /\ slots'[n] = s
          /\ \A i \in 1 .. Len(slots) : i # n => slots'[i] = slots[i]
      <3>1. slots' = [slots EXCEPT ![n] = s]
        BY <1>2, <2>1 DEF Insert
      <3> QED
        BY <1>1, <2>2, <3>1, ExceptFacts
    <2>5. FreeExact'
      <3>1. \A i, j \in 1 .. Len(free') : free'[i] = free'[j] => i = j
        <4>1. \A i \in 1 .. Len(free') : free'[i] = free[i + 1]
          BY <2>1
        <4>2. \A i, j \in 1 .. Len(free') : free[i + 1] = free[j + 1] => i + 1 = j + 1
          BY <2>2 DEF Inv, FreeExact
        <4> QED
          BY <4>1, <4>2
      <3>2. \A i \in 1 .. Len(free') : free[i + 1] # n
        BY <2>2 DEF Inv, FreeExact, n
      <3>3. \A i \in 1 .. Len(free') : free'[i] \in 1 .. Len(slots') /\ slots'[free'[i]] = None
        BY <2>1, <2>2, <2>4, <3>2 DEF Inv, FreeExact
      <3>4. ASSUME NEW i \in 1 .. Len(slots'), slots'[i] = None
            PROVE  \E j \in 1 .. Len(free') : free'[j] = i
        <4>1. i # n /\ slots[i] = None /\ i \in 1 .. Len(slots)
          BY <1>1, <2>4, <3>4
        <4>2. PICK j \in 1 .. Len(free) : free[j] = i
          BY <4>1 DEF Inv, FreeExact
        <4>3. j # 1
          BY <4>1, <4>2 DEF n
        <4>4. j - 1 \in 1 .. Len(free') /\ (j - 1) + 1 = j
          BY <2>1, <4>3
        <4>5. free'[j - 1] = i
          BY <2>1, <4>2, <4>4
        <4> QED
          BY <4>4, <4>5
      <3> QED
        BY <3>1, <3>3, <3>4 DEF FreeExact
    <2>6. \A i \in 1 .. Len(slots'), b \in Call : i # n => (Reaches(i, b)' <=> Reaches(i, b))
      BY <2>4 DEF Reaches
    <2>7. \A b \in Call : ~Reaches(r.id, b) /\ (Reaches(r.id, b)' <=> b = q.call)
      BY <1>1, <2>2, <2>3, <2>4 DEF Reaches
    <2>8. q.call \in Call
      BY HeadFacts
    <2> QED
      BY <1>1, <2>1, <2>2, <2>3, <2>4, <2>5, <2>6, <2>7, <2>8 DEF Moves
  <1>3. CASE free = <<>>
    <2> DEFINE n == Len(slots) + 1
    <2>1. /\ slots' = Append(slots, s) /\ free' = free /\ r.id = n
      BY <1>3 DEF Insert, InsertId
    <2>2. /\ slots' \in Seq(Socket \cup {None}) /\ Len(slots') = n /\ slots'[n] = s
          /\ \A i \in 1 .. Len(slots) : slots'[i] = slots[i]
      BY <1>1, <2>1, AppendFacts
    <2>3. n \in Id /\ n \in 1 .. Len(slots')
      <3>1. n <= MaxCalls
        BY <1>1, HeadFacts, TypeFacts DEF Inv, Call
      <3> QED
        BY <1>1, <2>2, <3>1 DEF Id
    <2>4. \A i \in 1 .. Len(slots') : i \in 1 .. Len(slots) \/ i = n
      BY <1>1, <2>2
    <2>5. \A i \in 1 .. Len(slots) : i \in 1 .. Len(slots') /\ i # n
      BY <1>1, <2>2
    <2> HIDE DEF n
    <2>6. FreeExact'
      BY <1>1, <1>3, <2>1, <2>2, <2>4 DEF Inv, FreeExact
    <2>7. Len(slots) <= Len(slots') /\ Len(slots') <= Len(slots) + 1
      BY <1>1, <2>2 DEF n
    <2>8. \A i \in 1 .. Len(slots), b \in Call : Reaches(i, b)' <=> Reaches(i, b)
      BY <2>2, <2>5 DEF Reaches
    <2>9. \A b \in Call : Reaches(r.id, b)' <=> b = q.call
      BY <1>1, <2>1, <2>2, <2>3 DEF Reaches
    <2>10. q.call \in Call
      BY HeadFacts
    <2> QED
      BY <1>1, <2>1, <2>2, <2>3, <2>4, <2>6, <2>7, <2>8, <2>9, <2>10 DEF Moves
  <1> QED
    BY <1>2, <1>3

\* What close does to the table.
LEMMA CloseMoves ==
    ASSUME Inv, req # <<>>, NEW q, q = req[1], q.op = "close", Remove(q.id), NEW r
    PROVE  Moves(q, r)
  <1> USE SocketsAssumption
  <1> DEFINE n == q.id
  <1>1. Reaches(n, q.born) /\ q.op \notin CreateOps /\ DOMAIN slots = 1 .. Len(slots)
    BY HeadFacts, TypeFacts DEF Inv, UseOps, CreateOps
  <1>2. /\ Len(slots) \in Nat /\ slots \in Seq(Socket \cup {None}) /\ free \in Seq(Id)
        /\ n \in 1 .. Len(slots) /\ slots[n] # None
        /\ q.born \in Call /\ n \in Id
    <2>1. n \in 1 .. Len(slots) /\ slots[n] # None /\ slots[n].born = q.born
      BY <1>1 DEF Reaches
    <2>2. q.born \in Call
      BY <2>1, TypeFacts DEF Inv
    <2>3. Len(slots) <= MaxCalls
      BY HeadFacts, TypeFacts DEF Inv, Call
    <2>4. Len(slots) \in Nat /\ slots \in Seq(Socket \cup {None}) /\ free \in Seq(Id)
      BY TypeFacts DEF Inv, TypeOK
    <2>5. n \in Id
      BY <2>1, <2>3, <2>4 DEF Id
    <2> QED
      BY <2>1, <2>2, <2>4, <2>5
  <1> HIDE DEF n
  <1>3. /\ slots' = [slots EXCEPT ![n] = None] /\ free' = Append(free, n)
    BY <1>1, <1>2 DEF Remove, Get, n
  <1>4. /\ slots' \in Seq(Socket \cup {None}) /\ Len(slots') = Len(slots)
        /\ slots'[n] = None
        /\ \A i \in 1 .. Len(slots) : i # n => slots'[i] = slots[i]
    BY <1>2, <1>3
  <1>5. /\ free' \in Seq(Id) /\ Len(free') = Len(free) + 1 /\ Len(free) \in Nat
        /\ \A i \in 1 .. Len(free) : free'[i] = free[i]
        /\ free'[Len(free) + 1] = n
    BY <1>2, <1>3, AppendFacts
  <1>6. FreeExact'
    <2>1. \A i \in 1 .. Len(free') : i \in 1 .. Len(free) \/ i = Len(free) + 1
      BY <1>5
    <2>2. \A i \in 1 .. Len(free) : free[i] # n
      BY <1>2 DEF Inv, FreeExact
    <2>3. ASSUME NEW i \in 1 .. Len(free'), NEW j \in 1 .. Len(free'), free'[i] = free'[j]
          PROVE  i = j
      <3>1. CASE i \in 1 .. Len(free) /\ j \in 1 .. Len(free)
        <4>1. free[i] = free[j]
          BY <1>5, <2>3, <3>1
        <4> QED
          BY <3>1, <4>1 DEF Inv, FreeExact
      <3>2. CASE i \in 1 .. Len(free) /\ j = Len(free) + 1
        BY <1>5, <2>2, <2>3, <3>2
      <3>3. CASE i = Len(free) + 1 /\ j \in 1 .. Len(free)
        BY <1>5, <2>2, <2>3, <3>3
      <3> QED
        BY <2>1, <3>1, <3>2, <3>3
    <2>4. \A i \in 1 .. Len(free') : free'[i] \in 1 .. Len(slots') /\ slots'[free'[i]] = None
      BY <1>2, <1>4, <1>5, <2>1, <2>2 DEF Inv, FreeExact
    <2>5. ASSUME NEW i \in 1 .. Len(slots'), slots'[i] = None
          PROVE  \E j \in 1 .. Len(free') : free'[j] = i
      <3>1. CASE i = n
        <4>1. Len(free) + 1 \in 1 .. Len(free')
          BY <1>5
        <4> QED
          BY <1>5, <3>1, <4>1
      <3>2. CASE i # n
        <4>1. PICK j \in 1 .. Len(free) : free[j] = i
          BY <1>4, <2>5, <3>2 DEF Inv, FreeExact
        <4>2. j \in 1 .. Len(free')
          BY <1>5
        <4> QED
          BY <1>5, <4>1, <4>2
      <3> QED
        BY <3>1, <3>2
    <2> QED
      BY <2>3, <2>4, <2>5 DEF FreeExact
  <1>7. \A i \in 1 .. Len(slots), b \in Call : Reaches(i, b) => (i = n <=> b = q.born)
    BY <1>1, <1>2 DEF Inv, Unique, Reaches
  <1>8. \A i \in 1 .. Len(slots), b \in Call : Reaches(i, b) /\ b # q.born => Reaches(i, b)'
    BY <1>4, <1>7 DEF Reaches
  <1>9. \A i \in 1 .. Len(slots'), b \in Call : Reaches(i, b)' => Reaches(i, b) /\ b # q.born
    BY <1>4, <1>7 DEF Reaches
  <1> QED
    BY <1>1, <1>2, <1>4, <1>5, <1>6, <1>8, <1>9 DEF Moves

\* Neither the socket of an id nor the free list changes.
LEMMA UseMoves ==
    ASSUME Inv, NEW q, q.op \notin CreateOps \cup {"close"}, free' = free,
           slots' \in Seq(Socket \cup {None}), Len(slots') = Len(slots),
           \A i \in 1 .. Len(slots) :
              /\ slots'[i] = None <=> slots[i] = None
              /\ slots[i] # None => slots'[i].born = slots[i].born,
           NEW r
    PROVE  Moves(q, r)
  <1>1. FreeExact'
    BY DEF Inv, FreeExact
  <1>2. Len(slots) \in Nat /\ free \in Seq(Id)
    BY TypeFacts DEF Inv, TypeOK
  <1>3. \A i \in 1 .. Len(slots), b \in Call : Reaches(i, b)' <=> Reaches(i, b)
    BY DEF Reaches
  <1> QED
    BY <1>1, <1>2, <1>3 DEF Moves, CreateOps

\* What the daemon's execution of any request does to the table.
LEMMA ExecuteMoves ==
    ASSUME Inv, Execute, NEW q, q = req[1]
    PROVE  \E r \in Reply :
              /\ r.call = q.call /\ Moves(q, r)
              /\ rep' = rep \/ (Room(rep) /\ rep' = Append(rep, r))
  <1> USE SocketsAssumption
  <1>1. /\ req # <<>> /\ Head(req) = q /\ q \in Request /\ q.call \in Call
        /\ DOMAIN slots = 1 .. Len(slots)
    BY HeadFacts, TypeFacts DEF Execute, Inv
  <1>2. CASE q.op \in CreateOps
    <2> DEFINE s == [kind |-> "fresh", born |-> q.call,
                     typ |-> IF q.op = "socket_tcp" THEN "tcp" ELSE "udp"]
    <2>1. s \in Socket /\ s.born = q.call
      BY <1>1 DEF Socket, Kind, Type
    <2>2. PICK r : r = [call |-> q.call, ok |-> TRUE, id |-> InsertId]
      OBVIOUS
    <2>3. r.id = InsertId /\ r.call = q.call
      BY <2>2
    <2>4. Insert(s) /\ PostReply(r)
      BY <1>1, <1>2, <2>2 DEF Execute, CreateOps
    <2> HIDE DEF s
    <2>5. Moves(q, r) /\ r.id \in Id
      BY <1>1, <1>2, <2>1, <2>3, <2>4, CreateMoves
    <2>6. r \in Reply
      BY <1>1, <2>2, <2>3, <2>5 DEF Reply
    <2> QED
      BY <2>3, <2>4, <2>5, <2>6 DEF PostReply
  <1>3. CASE q.op = "close"
    <2>1. PICK r : r = [call |-> q.call, ok |-> TRUE, id |-> q.id]
      OBVIOUS
    <2>2. Remove(q.id) /\ PostReply(r)
      BY <1>1, <1>3, <2>1 DEF Execute, CreateOps
    <2>3. r \in Reply /\ r.call = q.call
      BY <1>1, <2>1 DEF Request, Reply
    <2>4. Moves(q, r)
      BY <1>1, <1>3, <2>2, CloseMoves
    <2> QED
      BY <2>2, <2>3, <2>4 DEF PostReply
  <1>4. CASE q.op \notin CreateOps \cup {"close"}
    <2>1. q.op \in UseOps \ {"close"}
      BY <1>1, <1>4 DEF Request
    <2>2. Reaches(q.id, q.born)
      BY <1>1, <2>1, HeadFacts
    <2>3. /\ q.id \in 1 .. Len(slots) /\ slots[q.id] # None
          /\ slots[q.id] \in Socket /\ Get(q.id) = slots[q.id]
          /\ slots \in Seq(Socket \cup {None})
      BY <1>1, <2>2, TypeFacts DEF Inv, TypeOK, Reaches, Get
    <2>4. free' = free /\ \E e \in Effects(q.op, slots[q.id]) :
             /\ slots' = [slots EXCEPT ![q.id] = e.sock]
             /\ PostReply([call |-> q.call, ok |-> e.ok, id |-> q.id])
      BY <1>1, <1>4, <2>3 DEF Execute
    <2>5. PICK e \in Effects(q.op, slots[q.id]) :
             /\ slots' = [slots EXCEPT ![q.id] = e.sock]
             /\ PostReply([call |-> q.call, ok |-> e.ok, id |-> q.id])
      BY <2>4
    <2>6. e.sock \in Socket /\ e.sock.born = slots[q.id].born /\ e.ok \in BOOLEAN
      BY <2>1, <2>3, EffectsFacts
    <2>7. PICK r : r = [call |-> q.call, ok |-> e.ok, id |-> q.id]
      OBVIOUS
    <2>8. r \in Reply /\ r.call = q.call
      BY <1>1, <2>6, <2>7 DEF Request, Reply
    <2>9. e.sock # None /\ e.sock \in Socket \cup {None}
      BY <2>6, NoneAssumption
    <2>10. /\ slots' \in Seq(Socket \cup {None})
           /\ Len(slots') = Len(slots) /\ slots'[q.id] = e.sock
           /\ \A i \in 1 .. Len(slots) : i # q.id => slots'[i] = slots[i]
      BY <2>3, <2>5, <2>9, ExceptFacts
    <2>11. Moves(q, r)
      BY <1>4, <2>3, <2>4, <2>6, <2>9, <2>10, UseMoves
    <2> QED
      BY <2>5, <2>7, <2>8, <2>11 DEF PostReply
  <1> QED
    BY <1>2, <1>3, <1>4

\* The daemon executes a request and replies.
LEMMA ExecuteInv == ASSUME Inv, Execute PROVE Inv'
  <1> USE SocketsAssumption
  <1>1. PICK q : q = req[1]
    OBVIOUS
  <1>2. PICK r \in Reply :
           /\ r.call = q.call /\ Moves(q, r)
           /\ rep' = rep \/ (Room(rep) /\ rep' = Append(rep, r))
    BY <1>1, ExecuteMoves
  <1>3. /\ req # <<>> /\ req' = Tail(req) /\ UNCHANGED <<handles, calls, app, outcome, closer>>
        /\ \A h : Open(h)' <=> Open(h)
    BY DEF Execute, Open
  <1>4. /\ q \in Request /\ q.call \in Call /\ q.call \in Nat /\ q.call <= calls
        /\ 1 \in 1 .. Len(req) /\ Len(req) \in Nat \ {0}
        /\ Len(slots) + 1 <= q.call
        /\ q.op \in UseOps => Reaches(q.id, q.born)
    BY <1>1, <1>3, HeadFacts, TypeFacts DEF Inv
  <1>5. /\ req' \in Seq(Request) /\ Len(req') = Len(req) - 1
        /\ \A k \in 1 .. Len(req') :
              req'[k] = req[k + 1] /\ k + 1 \in 1 .. Len(req) /\ 1 < k + 1
    BY <1>3, <1>4, HeadFacts
  <1>6. /\ rep' \in Seq(Reply) /\ Len(rep') <= SlotCount
        /\ \A i \in 1 .. Len(rep') :
              (i \in 1 .. Len(rep) /\ rep'[i] = rep[i]) \/ rep'[i] = r
    <2>1. CASE rep' = rep
      BY <2>1 DEF Inv, TypeOK
    <2>2. CASE Room(rep) /\ rep' = Append(rep, r)
      <3>1. rep \in Seq(Reply) /\ Len(rep) \in Nat
        BY TypeFacts DEF Inv, TypeOK
      <3>2. /\ rep' \in Seq(Reply) /\ Len(rep') = Len(rep) + 1
            /\ \A i \in 1 .. Len(rep) : rep'[i] = rep[i]
            /\ rep'[Len(rep) + 1] = r
        BY <2>2, <3>1, AppendFacts
      <3>3. \A i \in 1 .. Len(rep') : i \in 1 .. Len(rep) \/ i = Len(rep) + 1
        BY <3>1, <3>2
      <3> QED
        BY <2>2, <3>1, <3>2, <3>3 DEF Room
    <2> QED
      BY <1>2, <2>1, <2>2
  <1>7. /\ slots' \in Seq(Socket \cup {None}) /\ free' \in Seq(Id)
        /\ Len(slots) <= Len(slots') /\ Len(slots') <= Len(slots) + 1
        /\ Len(slots) \in Nat /\ Len(slots') \in Nat
        /\ FreeExact'
    BY <1>2, TypeFacts DEF Moves, Inv
  <1>8. \A i \in 1 .. Len(slots), b \in Call :
           Reaches(i, b) /\ ~(q.op = "close" /\ b = q.born) => Reaches(i, b)'
    BY <1>2 DEF Moves
  <1>9. \A i \in 1 .. Len(slots'), b \in Call : Reaches(i, b)' =>
           \/ Reaches(i, b) /\ ~(q.op = "close" /\ b = q.born)
           \/ q.op \in CreateOps /\ b = q.call /\ i = r.id
    BY <1>2 DEF Moves
  <1>10. q.op \in CreateOps => Reaches(r.id, q.call)'
    BY <1>2 DEF Moves
  <1>11. TypeOK'
    BY <1>3, <1>4, <1>5, <1>6, <1>7 DEF Inv, TypeOK
  <1>12. Numbering'
    <2>1. \A k \in 1 .. Len(req') : /\ Len(slots') + k <= req'[k].call /\ req'[k].call <= calls
                                    /\ q.call < req'[k].call
      <3> SUFFICES ASSUME NEW k \in 1 .. Len(req')
                   PROVE  /\ Len(slots') + k <= req'[k].call /\ req'[k].call <= calls
                          /\ q.call < req'[k].call
        OBVIOUS
      <3>1. /\ req'[k] = req[k + 1] /\ k + 1 \in 1 .. Len(req) /\ 1 < k + 1
            /\ req[k + 1].call \in Nat
        BY <1>5, TypeFacts DEF Inv
      <3>2. Len(slots) + (k + 1) <= req[k + 1].call /\ req[k + 1].call <= calls
        BY <3>1 DEF Inv, Numbering
      <3>3. q.call < req[k + 1].call
        BY <1>1, <1>4, <3>1 DEF Inv, Numbering
      <3> QED
        BY <1>7, <3>1, <3>2, <3>3
    <2>2. Len(slots') + Len(req') <= calls
      <3>1. Len(slots) + Len(req) <= calls /\ calls \in Nat
        BY TypeFacts DEF Inv, Numbering
      <3> QED
        BY <1>4, <1>5, <1>7, <3>1
    <2>3. \A j, k \in 1 .. Len(req') : j < k => req'[j].call < req'[k].call
      <3>1. \A j, k \in 1 .. Len(req') : j < k => j + 1 < k + 1
        BY <1>4, <1>5
      <3>2. \A j, k \in 1 .. Len(req) : j < k => req[j].call < req[k].call
        BY DEF Inv, Numbering
      <3> QED
        BY <1>5, <3>1, <3>2
    <2>4. \A i \in 1 .. Len(rep') : rep'[i].call <= calls
      BY <1>2, <1>4, <1>6 DEF Inv, Numbering
    <2>5. \A i \in 1 .. Len(rep'), k \in 1 .. Len(req') : rep'[i].call < req'[k].call
      BY <1>2, <1>5, <1>6, <2>1 DEF Inv, Numbering
    <2>6. \A i \in 1 .. Len(slots'), b \in Call : Reaches(i, b)' =>
             b <= calls /\ \A k \in 1 .. Len(req') : b < req'[k].call
      <3> SUFFICES ASSUME NEW i \in 1 .. Len(slots'), NEW b \in Call, Reaches(i, b)'
                   PROVE  b <= calls /\ \A k \in 1 .. Len(req') : b < req'[k].call
        OBVIOUS
      <3>1. CASE b = q.call
        BY <1>4, <2>1, <3>1
      <3>2. CASE Reaches(i, b)
        BY <1>5, <3>2 DEF Inv, Numbering, Reaches
      <3> QED
        BY <1>9, <3>1, <3>2
    <2> QED
      BY <1>3, <2>1, <2>2, <2>3, <2>4, <2>5, <2>6 DEF Numbering
  <1>13. Outcomes'
    <2>1. \A k \in 1 .. Len(req') : outcome[req'[k].call] # "ok"
      BY <1>5 DEF Inv, Outcomes
    <2>2. ASSUME app.pc = "wait"
          PROVE  /\ \A k \in 1 .. Len(req') : req'[k].call = calls => req'[k].op = app.op
                 /\ \A i \in 1 .. Len(slots') : Reaches(i, calls)' => app.op \in CreateOps
      <3>1. calls \in Call /\ (q.call = calls => q.op = app.op)
        BY <1>1, <1>4, <2>2 DEF Inv, Outcomes
      <3>2. \A k \in 1 .. Len(req') : req'[k].call = calls => req'[k].op = app.op
        BY <1>5, <2>2 DEF Inv, Outcomes
      <3>3. ASSUME NEW i \in 1 .. Len(slots'), Reaches(i, calls)' PROVE app.op \in CreateOps
        <4>1. PICK b \in Call : b = calls
          BY <3>1
        <4>2. Reaches(i, b)'
          BY <1>3, <3>3, <4>1 DEF Reaches
        <4>3. CASE Reaches(i, b)
          <5>1. i \in 1 .. Len(slots) /\ Reaches(i, calls)
            BY <4>1, <4>3 DEF Reaches
          <5> QED
            BY <2>2, <5>1 DEF Inv, Outcomes
        <4>4. CASE q.op \in CreateOps /\ b = q.call
          BY <3>1, <4>1, <4>4
        <4> QED
          BY <1>9, <4>2, <4>3, <4>4
      <3> QED
        BY <3>2, <3>3
    <2> QED
      BY <1>3, <2>1, <2>2 DEF Inv, Outcomes
  <1>14. Unique'
    <2>1. ASSUME NEW i \in 1 .. Len(slots'), NEW j \in 1 .. Len(slots'), NEW b \in Call,
                 Reaches(i, b)', Reaches(j, b)'
          PROVE  i = j
      <3>1. ASSUME b = q.call PROVE i = r.id /\ j = r.id
        <4>1. \A n \in 1 .. Len(slots) : ~Reaches(n, b)
          BY <1>1, <1>4, <3>1 DEF Inv, Numbering
        <4>2. ~Reaches(i, b) /\ ~Reaches(j, b)
          BY <4>1 DEF Reaches
        <4> QED
          BY <1>9, <2>1, <4>2
      <3>2. ASSUME b # q.call PROVE i = j
        <4>1. Reaches(i, b) /\ Reaches(j, b)
          BY <1>9, <2>1, <3>2
        <4> QED
          BY <4>1 DEF Inv, Unique, Reaches
      <3> QED
        BY <3>1, <3>2
    <2> QED
      BY <1>3, <2>1 DEF Inv, Unique
  <1>15. HandlesReach'
    <2> SUFFICES ASSUME NEW h \in DOMAIN handles, Open(h)
                 PROVE  Reaches(handles[h].id, handles[h].born)' /\ outcome[handles[h].born] = "ok"
      BY <1>3 DEF HandlesReach
    <2>1. PICK n, b : n = handles[h].id /\ b = handles[h].born
      OBVIOUS
    <2>2. Reaches(n, b) /\ b \in Call /\ outcome[b] = "ok"
      BY <2>1, TypeFacts DEF Inv, HandlesReach
    <2>3. ~(q.op = "close" /\ b = q.born)
      BY <1>1, <1>4, <2>1 DEF Inv, CloseLast
    <2>4. Reaches(n, b)'
      BY <1>8, <2>2, <2>3 DEF Reaches
    <2> QED
      BY <1>3, <2>1, <2>2, <2>4 DEF Reaches
  <1>16. RequestsReach'
    <2> SUFFICES ASSUME NEW k \in 1 .. Len(req'), req'[k].op \in UseOps
                 PROVE  Reaches(req[k].id, req[k].born)'
      BY DEF RequestsReach
    <2>1. PICK n, b : n = req'[k].id /\ b = req'[k].born
      OBVIOUS
    <2>2. Reaches(n, b)
      BY <1>5, <2>1 DEF Inv, RequestsReach
    <2>3. b \in Call
      BY <2>2, TypeFacts DEF Inv, Reaches
    <2>4. ~(q.op = "close" /\ b = q.born)
      BY <1>1, <1>4, <1>5, <2>1 DEF Inv, CloseLast
    <2>5. Reaches(n, b)'
      BY <1>8, <2>2, <2>3, <2>4 DEF Reaches
    <2> QED
      BY <2>1, <2>5 DEF Reaches
  <1>17. CloseLast'
    <2>1. \A k \in 1 .. Len(req') : req'[k].op = "close" =>
             /\ \A h \in DOMAIN handles : Open(h) => handles[h].born # req'[k].born
             /\ \A l \in 1 .. Len(req') :
                   k < l /\ req'[l].op \in UseOps => req'[l].born # req'[k].born
      BY <1>5 DEF Inv, CloseLast
    <2> QED
      BY <1>3, <2>1 DEF CloseLast
  <1>18. RepliesReach'
    <2> SUFFICES ASSUME app.pc = "wait", app.op \in CreateOps,
                        NEW i \in 1 .. Len(rep'), rep'[i].call = calls, rep'[i].ok
                 PROVE  Reaches(rep[i].id, calls)'
      BY <1>3 DEF RepliesReach
    <2>1. rep'[i] = r
      BY <1>1, <1>4, <1>6, TypeFacts DEF Inv, Numbering
    <2>2. q.call = calls /\ q.op \in CreateOps
      BY <1>1, <1>2, <1>4, <2>1 DEF Inv, Outcomes
    <2> QED
      BY <1>3, <1>10, <2>1, <2>2 DEF Reaches
  <1>19. Leaks'
    <2> SUFFICES ASSUME NEW i \in 1 .. Len(slots'), NEW b \in Call, Reaches(i, b)'
                 PROVE  Excused(b)'
      BY DEF Leaks
    <2>1. CASE b = q.call
      <3>1. outcome[b] # "ok"
        BY <1>1, <1>4, <2>1 DEF Inv, Outcomes
      <3> QED
        BY <1>3, <3>1 DEF Excused
    <2>2. CASE Reaches(i, b) /\ ~(q.op = "close" /\ b = q.born)
      <3>1. Excused(b)
        BY <2>2 DEF Inv, Leaks, Reaches
      <3>2. Closing(b) => Closing(b)'
        <4> SUFFICES ASSUME NEW k \in 1 .. Len(req), req[k].op = "close", req[k].born = b
                     PROVE  \E l \in 1 .. Len(req') : req'[l].op = "close" /\ req'[l].born = b
          BY DEF Closing
        <4>1. k # 1
          BY <1>1, <2>2
        <4>2. k - 1 \in 1 .. Len(req') /\ (k - 1) + 1 = k
          BY <1>4, <1>5, <4>1
        <4>3. req'[k - 1] = req[k]
          BY <1>5, <4>2
        <4> QED
          BY <4>2, <4>3
      <3> QED
        BY <1>3, <3>1, <3>2 DEF Excused
    <2> QED
      BY <1>9, <2>1, <2>2
  <1> QED
    BY <1>7, <1>11, <1>12, <1>13, <1>14, <1>15, <1>16, <1>17, <1>18, <1>19 DEF Inv

-----------------------------------------------------------------------------
(* The hooks *)

\* A hook issues a request for the socket of an open handle, or for a new one,
\* and at most forgets the handle it closes.
LEMMA IssueInv ==
    ASSUME Inv, app.pc = "idle", NEW op \in CreateOps \cup UseOps,
           NEW id \in Id \cup {0}, NEW b \in Call \cup {0}, Issue(op, id, b),
           op \in UseOps => /\ Reaches(id, b) /\ b \in Call
                            /\ \A k \in 1 .. Len(req) : req[k].op = "close" => req[k].born # b,
           handles' \in Seq([id : Id, born : Call] \cup {None}),
           DOMAIN handles' = DOMAIN handles,
           \A h \in DOMAIN handles : Open(h)' => Open(h) /\ handles'[h] = handles[h],
           \A h \in DOMAIN handles : Open(h) /\ ~Open(h)' =>
              op = "close" /\ handles[h].born = b,
           op = "close" => \A h \in DOMAIN handles : Open(h)' => handles'[h].born # b
    PROVE  Inv'
  <1> USE SocketsAssumption
  <1>1. /\ calls \in Nat /\ calls' = calls + 1 /\ calls + 1 \in Call
        /\ UNCHANGED <<slots, free, rep>>
    BY TypeFacts DEF Inv, Issue, Call
  <1>2. \A i, c : Reaches(i, c)' <=> Reaches(i, c)
    BY <1>1 DEF Reaches
  <1>3. FreeExact' /\ Unique'
    <2>1. FreeExact'
      BY <1>1 DEF Inv, FreeExact
    <2> QED
      BY <1>1, <1>2, <2>1 DEF Inv, Unique
  <1>4. \A c \in Call : outcome[c] = "ok" => outcome'[c] = "ok"
    <2>1. outcome[calls + 1] = "none"
      BY <1>1 DEF Inv, Outcomes
    <2>2. outcome' = outcome \/ outcome' = [outcome EXCEPT ![calls + 1] = "failed"]
      BY DEF Issue
    <2> QED
      BY <2>1, <2>2 DEF Inv, TypeOK
  <1>5. HandlesReach'
    <2>1. \A h \in DOMAIN handles : Open(h)' =>
             Reaches(handles'[h].id, handles'[h].born) /\ outcome'[handles'[h].born] = "ok"
      BY <1>4, TypeFacts DEF Inv, HandlesReach
    <2> QED
      BY <1>1, <2>1 DEF HandlesReach, Reaches
  <1>6. \A c \in Call : (\E h \in DOMAIN handles : Open(h) /\ handles[h].born = c) =>
           \/ \E h \in DOMAIN handles' : Open(h)' /\ handles'[h].born = c
           \/ op = "close" /\ c = b
    OBVIOUS
  <1>9. /\ closer' \in [Call -> Call \cup {0}]
        /\ op = "close" => b \in Call /\ closer'[b] = calls + 1
        /\ \A c \in Call : ~(op = "close" /\ c = b) => closer'[c] = closer[c]
    BY <1>1 DEF Issue, Inv, TypeOK, UseOps
  <1>7. CASE ~Room(req)
    <2>1. /\ UNCHANGED <<req, app>> /\ outcome' = [outcome EXCEPT ![calls + 1] = "failed"]
      BY <1>7 DEF Issue
    <2>2. /\ outcome' \in [Call -> {"none", "ok", "failed"}]
          /\ outcome'[calls + 1] = "failed"
          /\ \A c \in Call : c # calls + 1 => outcome'[c] = outcome[c]
      BY <1>1, <2>1 DEF Inv, TypeOK
    <2>3. TypeOK'
      BY <1>1, <1>9, <2>1, <2>2 DEF Inv, TypeOK, Call
    <2>4. Numbering'
      <3>1. \A n \in Nat : n <= calls => n <= calls'
        BY <1>1
      <3>2. Len(slots) + Len(req) \in Nat
        BY TypeFacts DEF Inv
      <3>3. \A i \in 1 .. Len(slots), c \in Call : Reaches(i, c) => c \in Nat
        BY DEF Call
      <3> QED
        BY <1>1, <1>2, <2>1, <3>1, <3>2, <3>3, TypeFacts DEF Inv, Numbering
    <2>5. Outcomes'
      <3>1. \A c \in Call : c > calls' => outcome'[c] = "none"
        BY <1>1, <2>2 DEF Inv, Outcomes, Call
      <3>2. \A k \in 1 .. Len(req) : outcome'[req[k].call] # "ok"
        BY <2>2, TypeFacts DEF Inv, Outcomes
      <3> QED
        BY <2>1, <3>1, <3>2 DEF Outcomes
    <2>6. RequestsReach' /\ CloseLast' /\ RepliesReach'
      <3>1. RequestsReach'
        BY <1>1, <2>1 DEF Inv, RequestsReach, Reaches
      <3>2. CloseLast'
        BY <2>1 DEF Inv, CloseLast
      <3>3. RepliesReach'
        BY <2>1 DEF RepliesReach
      <3> QED
        BY <3>1, <3>2, <3>3
    <2>7. Leaks'
      <3> SUFFICES ASSUME NEW i \in 1 .. Len(slots), NEW c \in Call, Reaches(i, c)
                   PROVE  Excused(c)'
        BY <1>1, <1>2 DEF Leaks
      <3>1. Excused(c)
        BY DEF Inv, Leaks
      <3>2. Closing(c) => Closing(c)'
        BY <2>1 DEF Closing
      <3>3. outcome[c] # "ok" => outcome'[c] # "ok"
        BY <2>2
      <3>4. CASE op = "close" /\ c = b
        BY <1>1, <1>9, <2>2, <3>4 DEF Excused
      <3>5. CASE ~(op = "close" /\ c = b)
        <4>1. closer'[c] = closer[c]
          BY <1>9, <3>5
        <4>2. closer[c] # 0 /\ outcome[closer[c]] = "failed" => outcome'[closer[c]] = "failed"
          BY <2>2 DEF Inv, TypeOK
        <4> QED
          BY <1>6, <3>1, <3>2, <3>3, <3>5, <4>1, <4>2 DEF Excused
      <3> QED
        BY <3>4, <3>5
    <2> QED
      BY <1>3, <1>5, <2>3, <2>4, <2>5, <2>6, <2>7 DEF Inv
  <1>8. CASE Room(req)
    <2>1. PICK m : m = [call |-> calls + 1, op |-> op, id |-> id, born |-> b]
      OBVIOUS
    <2>2. /\ m \in Request /\ m.call = calls + 1 /\ m.op = op /\ m.id = id /\ m.born = b
          /\ req' = Append(req, m) /\ app' = [pc |-> "wait", op |-> op] /\ outcome' = outcome
      BY <1>1, <1>8, <2>1 DEF Issue, Request
    <2>3. /\ req' \in Seq(Request) /\ Len(req') = Len(req) + 1 /\ Len(req) \in Nat
          /\ \A k \in 1 .. Len(req) : req'[k] = req[k]
          /\ req'[Len(req) + 1] = m
      BY <2>2, AppendFacts DEF Inv, TypeOK
    <2>4. \A k \in 1 .. Len(req') :
             \/ k \in 1 .. Len(req) /\ req'[k] = req[k] /\ k < Len(req) + 1
             \/ k = Len(req) + 1 /\ req'[k] = m
      BY <2>3
    <2>5. app'.pc = "wait" /\ app'.op = op
      BY <2>2
    <2>6. TypeOK'
      BY <1>1, <1>8, <1>9, <2>2, <2>3 DEF Inv, TypeOK, Call, Room
    <2>7. Numbering'
      <3>1. Len(slots) \in Nat /\ Len(slots) + Len(req) <= calls
        BY TypeFacts DEF Inv, Numbering
      <3>2. \A k \in 1 .. Len(req) : Len(slots) + k <= req[k].call /\ req[k].call <= calls
               /\ req[k].call < calls + 1
        BY <1>1, TypeFacts DEF Inv, Numbering
      <3>3. \A k \in 1 .. Len(req') : Len(slots) + k <= req'[k].call /\ req'[k].call <= calls + 1
        <4> SUFFICES ASSUME NEW k \in 1 .. Len(req')
                     PROVE  Len(slots) + k <= req'[k].call /\ req'[k].call <= calls + 1
          OBVIOUS
        <4>1. CASE k = Len(req) + 1 /\ req'[k] = m
          BY <1>1, <2>2, <2>3, <3>1, <4>1
        <4>2. CASE k \in 1 .. Len(req) /\ req'[k] = req[k]
          BY <1>1, <3>2, <4>2, TypeFacts DEF Inv
        <4> QED
          BY <2>4, <4>1, <4>2
      <3>4. Len(slots) + Len(req') <= calls + 1
        BY <1>1, <2>3, <3>1
      <3>5. \A j, k \in 1 .. Len(req') : j < k => req'[j].call < req'[k].call
        <4> SUFFICES ASSUME NEW j \in 1 .. Len(req'), NEW k \in 1 .. Len(req'), j < k
                     PROVE  req'[j].call < req'[k].call
          OBVIOUS
        <4>1. j \in 1 .. Len(req) /\ req'[j] = req[j]
          BY <2>3
        <4> QED
          BY <2>2, <2>4, <3>2, <4>1 DEF Inv, Numbering
      <3>6. \A i \in 1 .. Len(rep) : rep[i].call <= calls + 1 /\ rep[i].call < calls + 1
        BY <1>1, TypeFacts DEF Inv, Numbering
      <3>7. \A i \in 1 .. Len(rep), k \in 1 .. Len(req') : rep[i].call < req'[k].call
        BY <2>2, <2>4, <3>6 DEF Inv, Numbering
      <3>8. \A i \in 1 .. Len(slots), c \in Call : Reaches(i, c) => c < calls + 1 /\ c <= calls + 1
        BY <1>1 DEF Inv, Numbering, Call
      <3>9. \A i \in 1 .. Len(slots), c \in Call : Reaches(i, c) =>
               \A k \in 1 .. Len(req') : c < req'[k].call
        BY <2>2, <2>4, <3>8 DEF Inv, Numbering
      <3> QED
        BY <1>1, <1>2, <3>3, <3>4, <3>5, <3>6, <3>7, <3>8, <3>9 DEF Numbering
    <2>8. Outcomes'
      <3>1. outcome[calls + 1] = "none" /\ \A c \in Call : c > calls' => outcome[c] = "none"
        BY <1>1 DEF Inv, Outcomes, Call
      <3>2. \A k \in 1 .. Len(req') : outcome[req'[k].call] # "ok"
        BY <2>2, <2>4, <3>1 DEF Inv, Outcomes
      <3>3. \A k \in 1 .. Len(req') : req'[k].call = calls + 1 => req'[k].op = op
        BY <1>1, <2>2, <2>4, TypeFacts DEF Inv, Numbering
      <3>4. \A i \in 1 .. Len(slots) : ~Reaches(i, calls + 1)
        BY <1>1 DEF Inv, Numbering
      <3> QED
        BY <1>1, <1>2, <2>2, <2>5, <3>1, <3>2, <3>3, <3>4 DEF Outcomes
    <2>9. RequestsReach'
      <3>1. \A k \in 1 .. Len(req') : req'[k].op \in UseOps => Reaches(req'[k].id, req'[k].born)
        BY <2>2, <2>4 DEF Inv, RequestsReach
      <3> QED
        BY <1>1, <3>1 DEF RequestsReach, Reaches
    <2>10. CloseLast'
      <3> SUFFICES ASSUME NEW k \in 1 .. Len(req'), req'[k].op = "close"
                   PROVE  /\ \A h \in DOMAIN handles' : Open(h)' => handles'[h].born # req'[k].born
                          /\ \A l \in 1 .. Len(req') :
                                k < l /\ req'[l].op \in UseOps => req'[l].born # req'[k].born
        BY DEF CloseLast
      <3>1. CASE k \in 1 .. Len(req) /\ req'[k] = req[k]
        <4>1. \A h \in DOMAIN handles' : Open(h)' => handles'[h].born # req'[k].born
          BY <3>1 DEF Inv, CloseLast
        <4>2. \A l \in 1 .. Len(req') :
                k < l /\ req'[l].op \in UseOps => req'[l].born # req'[k].born
          BY <2>2, <2>4, <3>1 DEF Inv, CloseLast
        <4> QED
          BY <4>1, <4>2
      <3>2. CASE k = Len(req) + 1 /\ req'[k] = m
        BY <2>2, <2>3, <3>2
      <3> QED
        BY <2>4, <3>1, <3>2
    <2>11. RepliesReach'
      <3>1. \A i \in 1 .. Len(rep) : rep[i].call # calls + 1
        BY <1>1, TypeFacts DEF Inv, Numbering
      <3> QED
        BY <1>1, <3>1 DEF RepliesReach
    <2>12. Leaks'
      <3> SUFFICES ASSUME NEW i \in 1 .. Len(slots), NEW c \in Call, Reaches(i, c)
                   PROVE  Excused(c)'
        BY <1>1, <1>2 DEF Leaks
      <3>1. Excused(c)
        BY DEF Inv, Leaks
      <3>2. Closing(c) => Closing(c)'
        BY <2>3 DEF Closing
      <3>3. op = "close" => Closing(b)'
        <4>1. Len(req) + 1 \in 1 .. Len(req')
          BY <2>3
        <4> QED
          BY <2>2, <2>3, <4>1 DEF Closing
      <3> QED
        BY <1>6, <1>9, <2>2, <3>1, <3>2, <3>3 DEF Excused
    <2> QED
      BY <1>3, <1>5, <2>6, <2>7, <2>8, <2>9, <2>10, <2>11, <2>12 DEF Inv
  <1> QED
    BY <1>7, <1>8

\* The socket hook sends create.
LEMMA HookSocketInv ==
    ASSUME Inv, NEW op \in CreateOps, HookSocket(op) PROVE Inv'
  <1>1. handles' = handles /\ \A h \in DOMAIN handles : Open(h)' <=> Open(h)
    BY DEF HookSocket, Open
  <1>2. op \notin UseOps
    BY DEF CreateOps, UseOps
  <1>3. handles \in Seq([id : Id, born : Call] \cup {None})
    BY DEF Inv, TypeOK
  <1>4. app.pc = "idle" /\ Issue(op, 0, 0) /\ op # "close"
    BY DEF HookSocket, CreateOps
  <1> QED
    BY <1>1, <1>2, <1>3, <1>4, IssueInv

\* The id and the socket an open handle stands for.
LEMMA HandleFacts ==
    ASSUME Inv, NEW h \in DOMAIN handles, Open(h),
           NEW id, NEW b, id = handles[h].id, b = handles[h].born
    PROVE  /\ id \in Id /\ b \in Call /\ Reaches(id, b)
           /\ \A k \in 1 .. Len(req) : req[k].op = "close" => req[k].born # b
  BY TypeFacts DEF Inv, HandlesReach, CloseLast

\* A hook that uses a handle sends its request.
LEMMA HookUseInv ==
    ASSUME Inv, NEW h \in DOMAIN handles, NEW op \in UseOps, HookUse(op, h) PROVE Inv'
  <1>1. handles' = handles /\ \A g \in DOMAIN handles : Open(g)' <=> Open(g)
    BY DEF HookUse, Open
  <1>2. PICK id, b : id = handles[h].id /\ b = handles[h].born
    OBVIOUS
  <1>3. app.pc = "idle" /\ Issue(op, id, b) /\ op # "close" /\ Open(h)
    BY <1>2 DEF HookUse
  <1>4. /\ id \in Id /\ b \in Call /\ Reaches(id, b)
        /\ \A k \in 1 .. Len(req) : req[k].op = "close" => req[k].born # b
    BY <1>2, <1>3, HandleFacts
  <1>5. handles \in Seq([id : Id, born : Call] \cup {None})
    BY DEF Inv, TypeOK
  <1> QED
    BY <1>1, <1>3, <1>4, <1>5, IssueInv

\* The closesocket hook takes the handle out and sends close.
LEMMA HookCloseInv ==
    ASSUME Inv, NEW h \in DOMAIN handles, HookClose(h) PROVE Inv'
  <1> DEFINE H == [id : Id, born : Call] \cup {None}
  <1>1. PICK id, b : id = handles[h].id /\ b = handles[h].born
    OBVIOUS
  <1>2. /\ app.pc = "idle" /\ Issue("close", id, b) /\ Open(h)
        /\ handles' = [handles EXCEPT ![h] = None]
    BY <1>1 DEF HookClose
  <1>3. /\ id \in Id /\ b \in Call /\ Reaches(id, b)
        /\ \A k \in 1 .. Len(req) : req[k].op = "close" => req[k].born # b
    BY <1>1, <1>2, HandleFacts
  <1>4. handles \in Seq(H) /\ None \in H /\ h \in 1 .. Len(handles)
    BY TypeFacts DEF Inv, TypeOK
  <1>5. handles' \in Seq(H)
    BY <1>2, <1>4, ExceptFacts
  <1>6. /\ DOMAIN handles' = DOMAIN handles /\ handles'[h] = None
        /\ \A g \in DOMAIN handles : g # h => handles'[g] = handles[g]
    BY <1>2
  <1>7. ~Open(h)' /\ \A g \in DOMAIN handles : g # h => (Open(g)' <=> Open(g))
    BY <1>6 DEF Open
  <1>8. \A g \in DOMAIN handles : Open(g)' => handles'[g].born # b
    BY <1>1, <1>2, <1>6, <1>7 DEF Inv, Unique
  <1>9. "close" \in UseOps
    BY DEF UseOps
  <1> QED
    BY <1>1, <1>2, <1>3, <1>5, <1>6, <1>7, <1>8, <1>9, IssueInv

\* A call returns.  Only a socket call that succeeds adds a handle.
LEMMA ReturnInv ==
    ASSUME Inv, app.pc = "wait", NEW r \in {"ok", "failed"}, Return(r),
           UNCHANGED <<slots, free, calls, req, closer>>,
           rep' \in Seq(Reply) /\ Len(rep') <= SlotCount,
           \A i \in 1 .. Len(rep') : \E j \in 1 .. Len(rep) : rep'[i] = rep[j],
           \/ handles' = handles /\ (r = "ok" => req = <<>> /\ app.op \notin CreateOps)
           \/ \E n \in Id : /\ r = "ok" /\ req = <<>> /\ Reaches(n, calls)
                            /\ handles' = Append(handles, [id |-> n, born |-> calls])
    PROVE  Inv'
  <1> USE SocketsAssumption
  <1>1. /\ calls \in Call /\ outcome[calls] = "none"
        /\ app'.pc = "idle" /\ app' = NoCall
        /\ outcome' \in [Call -> {"none", "ok", "failed"}] /\ outcome'[calls] = r
        /\ \A c \in Call : c # calls => outcome'[c] = outcome[c]
    BY DEF Inv, TypeOK, Outcomes, Return, NoCall
  <1>2. /\ handles' \in Seq([id : Id, born : Call] \cup {None})
        /\ \A h \in DOMAIN handles :
              h \in DOMAIN handles' /\ handles'[h] = handles[h] /\ (Open(h)' <=> Open(h))
        /\ \A h \in DOMAIN handles' : h \in DOMAIN handles
              \/ (handles'[h].born = calls /\ Reaches(handles'[h].id, calls)
                  /\ r = "ok" /\ h = Len(handles) + 1)
        /\ \A h \in DOMAIN handles : Open(h) => handles[h].born # calls
        /\ app.op \in CreateOps /\ r = "ok" =>
              \E h \in DOMAIN handles' : Open(h)' /\ handles'[h].born = calls
    <2>1. \A h \in DOMAIN handles : Open(h) => handles[h].born # calls
      BY <1>1 DEF Inv, HandlesReach
    <2>2. CASE handles' = handles /\ (r = "ok" => app.op \notin CreateOps)
      BY <2>1, <2>2 DEF Inv, TypeOK, Open
    <2>3. CASE \E n \in Id : /\ r = "ok" /\ Reaches(n, calls)
                             /\ handles' = Append(handles, [id |-> n, born |-> calls])
      <3> DEFINE H == [id : Id, born : Call] \cup {None}
      <3>0. PICK n \in Id : /\ r = "ok" /\ Reaches(n, calls)
                            /\ handles' = Append(handles, [id |-> n, born |-> calls])
        BY <2>3
      <3>1. PICK x : x = [id |-> n, born |-> calls] /\ handles' = Append(handles, x)
        BY <3>0
      <3>2. x \in [id : Id, born : Call] /\ x \in H /\ x.id = n /\ x.born = calls
        BY <1>1, <3>1
      <3>3. x # None
        BY <3>2, NoneAssumption
      <3>4. handles \in Seq(H) /\ DOMAIN handles = 1 .. Len(handles)
        BY TypeFacts DEF Inv, TypeOK
      <3> HIDE DEF H
      <3>5. /\ handles' \in Seq(H) /\ Len(handles') = Len(handles) + 1 /\ Len(handles) \in Nat
            /\ \A h \in 1 .. Len(handles) : handles'[h] = handles[h]
            /\ handles'[Len(handles) + 1] = x
        <4>1. handles' = Append(handles, x) /\ handles \in Seq(H) /\ x \in H
          BY <3>1, <3>2, <3>4
        <4> QED
          BY ONLY <4>1, AppendFacts
      <3>6. DOMAIN handles' = 1 .. Len(handles) + 1
        BY <3>5
      <3>7. /\ \A h \in DOMAIN handles : h \in DOMAIN handles'
            /\ \A h \in DOMAIN handles' : h \in DOMAIN handles \/ h = Len(handles) + 1
            /\ Len(handles) + 1 \in DOMAIN handles'
        BY <3>4, <3>5, <3>6
      <3>8. ASSUME NEW h \in DOMAIN handles
            PROVE  h \in DOMAIN handles' /\ handles'[h] = handles[h] /\ (Open(h)' <=> Open(h))
        <4>1. h \in DOMAIN handles' /\ handles'[h] = handles[h]
          BY <3>4, <3>5, <3>7
        <4> QED
          BY <4>1 DEF Open
      <3>9. PICK m : m = Len(handles) + 1
        OBVIOUS
      <3>10. m \in DOMAIN handles' /\ handles'[m] = x
        BY <3>5, <3>7, <3>9
      <3>11. Open(m)' /\ handles'[m].born = calls /\ Reaches(handles'[m].id, calls)
        BY <3>0, <3>2, <3>3, <3>10 DEF Open
      <3>12. \A h \in DOMAIN handles' : h \in DOMAIN handles \/ h = m
        BY <3>7, <3>9
      <3>13. handles' \in Seq([id : Id, born : Call] \cup {None})
        BY <3>5 DEF H
      <3> QED
        BY <2>1, <3>0, <3>8, <3>9, <3>10, <3>11, <3>12, <3>13
    <2> QED
      BY <2>1, <2>2, <2>3
  <1>3. r = "ok" => req = <<>>
    OBVIOUS
  <1>4. \A i, c : Reaches(i, c)' <=> Reaches(i, c)
    BY DEF Reaches
  <1>5. TypeOK'
    BY <1>1, <1>2 DEF Inv, TypeOK, NoCall
  <1>6. Numbering'
    BY <1>4 DEF Inv, Numbering
  <1>7. Outcomes'
    <2>1. \A c \in Call : c > calls => outcome'[c] = "none"
      <3>1. \A c \in Call : c > calls => c # calls
        BY DEF Inv, TypeOK, Call
      <3> QED
        BY <1>1, <3>1 DEF Inv, Outcomes
    <2>2. \A k \in 1 .. Len(req) : outcome'[req[k].call] # "ok"
      <3>1. CASE r = "ok"
        BY <1>3, <3>1
      <3>2. CASE r # "ok"
        BY <1>1, <3>2, TypeFacts DEF Inv, Outcomes
      <3> QED
        BY <3>1, <3>2
    <2> QED
      BY <1>1, <2>1, <2>2 DEF Outcomes
  <1>8. FreeExact' /\ RequestsReach'
    BY DEF Inv, FreeExact, RequestsReach, Reaches
  <1>9. Unique'
    <2>1. \A g, h \in DOMAIN handles' :
             Open(g)' /\ Open(h)' /\ handles'[g].born = handles'[h].born => g = h
      BY <1>2 DEF Inv, Unique
    <2> QED
      BY <1>4, <2>1 DEF Inv, Unique
  <1>10. HandlesReach'
    <2>1. \A h \in DOMAIN handles' : Open(h)' =>
             Reaches(handles'[h].id, handles'[h].born) /\ outcome'[handles'[h].born] = "ok"
      <3> SUFFICES ASSUME NEW h \in DOMAIN handles', Open(h)'
                   PROVE  Reaches(handles'[h].id, handles'[h].born)
                          /\ outcome'[handles'[h].born] = "ok"
        OBVIOUS
      <3>1. CASE h \in DOMAIN handles
        <4>1. Open(h) /\ handles'[h] = handles[h] /\ handles[h].born # calls
          BY <1>2, <3>1
        <4>2. handles[h].born \in Call
          BY <3>1, <4>1, TypeFacts DEF Inv
        <4> QED
          BY <1>1, <3>1, <4>1, <4>2 DEF Inv, HandlesReach
      <3>2. CASE h \notin DOMAIN handles
        BY <1>1, <1>2, <3>2
      <3> QED
        BY <3>1, <3>2
    <2> QED
      BY <2>1 DEF HandlesReach, Reaches
  <1>11. CloseLast'
    <2>1. CASE handles' = handles
      BY <2>1 DEF Inv, CloseLast, Open
    <2>2. CASE req = <<>>
      BY <2>2 DEF CloseLast
    <2> QED
      BY <2>1, <2>2
  <1>12. RepliesReach'
    BY <1>1 DEF RepliesReach
  <1>13. Leaks'
    <2> SUFFICES ASSUME NEW i \in 1 .. Len(slots), NEW c \in Call, Reaches(i, c)
                 PROVE  Excused(c)'
      BY <1>4 DEF Leaks
    <2>1. Excused(c)
      BY DEF Inv, Leaks
    <2>2. Closing(c) => Closing(c)'
      BY DEF Closing
    <2>3. closer[c] # 0 /\ outcome[closer[c]] = "failed" =>
             closer'[c] # 0 /\ outcome'[closer'[c]] = "failed"
      BY <1>1 DEF Inv, TypeOK
    <2>4. ASSUME outcome[c] # "ok", outcome'[c] = "ok"
          PROVE  \E h \in DOMAIN handles' : Open(h)' /\ handles'[h].born = c
      <3>1. c = calls /\ r = "ok"
        BY <1>1, <2>4
      <3>2. app.op \in CreateOps
        BY <3>1 DEF Inv, Outcomes
      <3> QED
        BY <1>2, <3>1, <3>2
    <2>5. ASSUME NEW h \in DOMAIN handles, Open(h), handles[h].born = c
          PROVE  h \in DOMAIN handles' /\ Open(h)' /\ handles'[h].born = c
      BY <1>2, <2>5
    <2> QED
      BY <2>1, <2>2, <2>3, <2>4, <2>5 DEF Excused
  <1> QED
    BY <1>5, <1>6, <1>7, <1>8, <1>9, <1>10, <1>11, <1>12, <1>13 DEF Inv

\* Mine is the reply at the head only when nothing of this thread is under way
\* in the other ring.
LEMMA ReceiveInv == ASSUME Inv, Receive PROVE Inv'
  <1>1. PICK r : r = rep[1]
    OBVIOUS
  <1>2. /\ Head(rep) = r /\ 1 \in 1 .. Len(rep) /\ r \in Reply
        /\ Tail(rep) \in Seq(Reply) /\ Len(Tail(rep)) = Len(rep) - 1
        /\ \A i \in 1 .. Len(rep) - 1 : Tail(rep)[i] = rep[i + 1]
        /\ Len(rep) \in Nat /\ Len(rep) <= SlotCount
    BY <1>1, TailFacts DEF Inv, TypeOK, Receive
  <1>3. rep' \in Seq(Reply) /\ Len(rep') <= SlotCount
    BY <1>2, SocketsAssumption DEF Receive
  <1>4. \A i \in 1 .. Len(rep') : \E j \in 1 .. Len(rep) : rep'[i] = rep[j]
    <2>1. \A i \in 1 .. Len(rep') : i + 1 \in 1 .. Len(rep) /\ rep'[i] = rep[i + 1]
      BY <1>2 DEF Receive
    <2> QED
      BY <2>1
  <1>5. app.pc = "wait" /\ UNCHANGED <<slots, free, calls, req, closer>>
    BY DEF Receive
  <1>6. CASE Matches(r) /\ r.ok
    <2>1. r.call = calls /\ r.ok
      BY <1>6 DEF Matches
    <2>2. req = <<>>
      <3>1. SUFFICES ASSUME req # <<>> PROVE FALSE
        OBVIOUS
      <3>2. 1 \in 1 .. Len(req)
        BY <3>1, TailFacts DEF Inv, TypeOK
      <3>3. rep[1].call < req[1].call /\ req[1].call <= calls
        BY <1>2, <3>2 DEF Inv, Numbering
      <3>4. req[1].call \in Nat /\ calls \in Nat
        BY <3>2, TypeFacts DEF Inv
      <3> QED
        BY <1>1, <2>1, <3>3, <3>4
    <2>3. Return("ok") /\ handles' = IF app.op \in CreateOps
                                     THEN Append(handles, [id |-> r.id, born |-> calls])
                                     ELSE handles
      BY <1>2, <1>6 DEF Receive
    <2>4. CASE app.op \in CreateOps
      <3>1. Reaches(r.id, calls)
        BY <1>1, <1>2, <1>5, <2>1, <2>4 DEF Inv, RepliesReach
      <3>2. r.id \in Id
        <4>1. r.id \in Id \cup {0} /\ r.id \in 1 .. Len(slots)
          BY <1>2, <3>1 DEF Reply, Reaches
        <4> QED
          BY <4>1, TypeFacts DEF Inv
      <3>3. handles' = Append(handles, [id |-> r.id, born |-> calls])
        BY <2>3, <2>4
      <3> QED
        BY <1>3, <1>4, <1>5, <2>2, <2>3, <3>1, <3>2, <3>3, ReturnInv
    <2>5. CASE app.op \notin CreateOps
      <3>1. handles' = handles
        BY <2>3, <2>5
      <3> QED
        BY <1>3, <1>4, <1>5, <2>2, <2>3, <2>5, <3>1, ReturnInv
    <2> QED
      BY <2>4, <2>5
  <1>7. CASE ~(Matches(r) /\ r.ok)
    <2>1. Return("failed") /\ handles' = handles
      BY <1>2, <1>7 DEF Receive
    <2>2. ("failed" = "ok") = FALSE
      OBVIOUS
    <2> QED
      BY <1>3, <1>4, <1>5, <2>1, <2>2, ReturnInv
  <1> QED
    BY <1>6, <1>7

\* A call times out.
LEMMA GiveUpInv == ASSUME Inv, GiveUp PROVE Inv'
  <1>1. /\ app.pc = "wait" /\ Return("failed") /\ handles' = handles /\ rep' = rep
        /\ UNCHANGED <<slots, free, calls, req, closer>>
    BY DEF GiveUp
  <1>2. /\ rep' \in Seq(Reply) /\ Len(rep') <= SlotCount
        /\ \A i \in 1 .. Len(rep') : \E j \in 1 .. Len(rep) : rep'[i] = rep[j]
    BY <1>1 DEF Inv, TypeOK
  <1>3. ("failed" = "ok") = FALSE
    OBVIOUS
  <1> QED
    BY <1>1, <1>2, <1>3, ReturnInv

\* Every step keeps the invariant.
LEMMA NextInv == ASSUME Inv, [Next]_vars PROVE Inv'
  <1>1. CASE Execute
    BY <1>1, ExecuteInv
  <1>2. CASE Receive
    BY <1>2, ReceiveInv
  <1>3. CASE GiveUp
    BY <1>3, GiveUpInv
  <1>4. CASE \E op \in CreateOps : HookSocket(op)
    BY <1>4, HookSocketInv
  <1>5. CASE \E h \in DOMAIN handles : HookClose(h)
    BY <1>5, HookCloseInv
  <1>6. CASE \E h \in DOMAIN handles, op \in UseOps : HookUse(op, h)
    BY <1>6, HookUseInv
  <1>7. CASE UNCHANGED vars
    <2>1. TypeOK' /\ Numbering' /\ Outcomes' /\ FreeExact' /\ Unique'
      BY <1>7 DEF Inv, vars, TypeOK, Numbering, Outcomes, FreeExact, Unique, Reaches, Open
    <2>2. HandlesReach' /\ RequestsReach' /\ CloseLast' /\ RepliesReach'
      BY <1>7 DEF Inv, vars, HandlesReach, RequestsReach, CloseLast, RepliesReach, Reaches, Open
    <2>3. Leaks'
      BY <1>7 DEF Inv, vars, Leaks, Excused, Closing, Reaches, Open
    <2> QED
      BY <2>1, <2>2, <2>3 DEF Inv
  <1> QED
    BY <1>1, <1>2, <1>3, <1>4, <1>5, <1>6, <1>7 DEF Next

-----------------------------------------------------------------------------
(* The theorems *)

\* The invariant holds throughout, for every ring size and number of calls.
THEOREM InvHolds == Spec => []Inv
  <1>1. Init => Inv
    BY InitInv
  <1>2. Inv /\ [Next]_vars => Inv'
    BY NextInv
  <1> QED
    BY <1>1, <1>2, PTL DEF Spec

\* The daemon's socket table hands no id out twice and loses none: the free
\* list of socket_table.rs holds every empty id exactly once.
THEOREM TableExact == Spec => []TableInv
  BY InvHolds, InvTable, PTL

\* A fake handle leads to the socket it was returned for, whatever was closed,
\* given up or answered late in between.
THEOREM HandlesReachOwn == Spec => []HandleReachesOwn
  BY InvHolds, InvHandles, PTL

\* A socket that stays in the table without a handle is owed to a failure of the
\* call that created it or of the call that closed its handle, no other.
THEOREM LeaksExcused == Spec => []LeakOnlyByFailure
  BY InvHolds, InvLeak, PTL

\* The daemon never carries out a request on a socket that is not the one the
\* caller's handle stood for when the hook was called.
THEOREM RequestsReachOwn == Spec => RequestReachesOwn
  <1>1. Inv /\ [Next]_vars =>
           [Execute /\ Head(req).op \in UseOps =>
              Get(Head(req).id) # None /\ slots[Head(req).id].born = Head(req).born]_vars
    BY InvRequest DEF Execute
  <1> QED
    BY <1>1, InvHolds, PTL DEF Spec, RequestReachesOwn
=============================================================================
