--------------------------- MODULE ExchangeProofs ---------------------------
(***************************************************************************)
(* What Client::exchange returns is the daemon's answer to that call.      *)
(* For any number of threads a reported status is the call's own; for one  *)
(* thread, the case in which the rings have a single producer, the data of *)
(* a call that succeeds is also whole.  Both hold for every ring size,     *)
(* every length of reply and every number of calls up to the number of     *)
(* correlation ids.                                                        *)
(***************************************************************************)
EXTENDS Exchange, TLAPS

-----------------------------------------------------------------------------
(* Facts about sequences and remainders *)

\* What Append does to length, last and earlier elements.
LEMMA AppendFacts ==
    ASSUME NEW S, NEW s \in Seq(S), NEW x \in S
    PROVE  /\ Append(s, x) \in Seq(S)
           /\ Len(Append(s, x)) = Len(s) + 1
           /\ \A i \in 1 .. Len(s) : Append(s, x)[i] = s[i]
           /\ Append(s, x)[Len(s) + 1] = x
  OBVIOUS

\* What Tail does to length and elements.
LEMMA TailFacts ==
    ASSUME NEW S, NEW s \in Seq(S), s # <<>>
    PROVE  /\ Len(s) \in Nat \ {0}
           /\ Head(s) = s[1] /\ s[1] \in S
           /\ Tail(s) \in Seq(S)
           /\ Len(Tail(s)) = Len(s) - 1
           /\ \A i \in 1 .. Len(s) - 1 : Tail(s)[i] = s[i + 1]
  OBVIOUS

\* A number below the modulus is its own remainder.
LEMMA SmallMod ==
    ASSUME NEW d \in Nat, NEW x \in 0 .. d - 1
    PROVE  x % d = x
  OBVIOUS

\* A remainder lies below the modulus.
LEMMA ModRange ==
    ASSUME NEW d \in Nat, d > 0, NEW x \in Nat
    PROVE  x % d \in 0 .. d - 1
  OBVIOUS

-----------------------------------------------------------------------------
(* The invariant for any number of threads *)

ClientState == [pc : {"idle", "send", "wait", "done"}, corr : Corr,
                call : 0 .. MaxCalls, got : Seq(Call)]

\* The daemon works on a request.
Busy == daemon.pc \in {"backend", "post"}

\* The correlation id of a call is its number, wherever the call is.
IdsInv ==
    /\ calls < MaxCalls => next = calls + 1
    /\ \A t \in Threads : client[t].pc # "idle" =>
          client[t].corr = client[t].call /\ client[t].call \in 1 .. calls
    /\ \A i \in 1 .. Len(req) : req[i].corr = req[i].call /\ req[i].call <= calls
    /\ \A i \in 1 .. Len(rep) : rep[i].corr = rep[i].call /\ rep[i].call <= calls
    /\ Busy => daemon.corr = daemon.call /\ daemon.call \in 1 .. calls
    /\ daemon.pc = "post" => daemon.left >= 1

\* Two threads are never in the same call.
ClientsApart ==
    \A t, u \in Threads :
        t # u /\ client[t].pc # "idle" /\ client[u].pc # "idle" =>
            client[t].call # client[u].call

\* A call is in one place before it is answered: about to be sent, in the
\* ring, or with the daemon.
PendingOnce ==
    /\ \A t \in Threads : client[t].pc = "send" =>
          /\ answer[client[t].call] = NoAnswer
          /\ Busy => daemon.call # client[t].call
          /\ \A i \in 1 .. Len(req) : req[i].call # client[t].call
    /\ \A i \in 1 .. Len(req) :
          /\ answer[req[i].call] = NoAnswer
          /\ Busy => daemon.call # req[i].call
    /\ \A i, j \in 1 .. Len(req) : req[i].call = req[j].call => i = j
    /\ daemon.pc = "backend" => answer[daemon.call] = NoAnswer

\* What the daemon posts is the answer to the call it names.
Answered ==
    /\ daemon.pc = "post" => answer[daemon.call] \in Answer
    /\ \A i \in 1 .. Len(rep) :
          answer[rep[i].call] \in Answer /\ rep[i].ok = answer[rep[i].call].ok
    /\ \A c \in Call : c > calls => answer[c] = NoAnswer

Inv == TypeOK /\ IdsInv /\ ClientsApart /\ PendingOnce /\ Answered /\ OwnStatus

\* What the type invariant says of the elements of the rings.
LEMMA TypeFacts ==
    ASSUME TypeOK
    PROVE  /\ calls \in Nat /\ calls <= MaxCalls
           /\ Len(req) \in Nat /\ Len(rep) \in Nat
           /\ \A i \in 1 .. Len(req) :
                 req[i] \in Request /\ req[i].call \in Call /\ req[i].call \in Nat
           /\ \A i \in 1 .. Len(rep) :
                 /\ rep[i] \in Reply /\ rep[i].call \in Call /\ rep[i].call \in Nat
                 /\ rep[i].ok \in BOOLEAN /\ rep[i].more \in BOOLEAN
           /\ \A t \in Threads : client[t] \in ClientState
           /\ \A c \in Call : answer[c] \in Answer \cup {NoAnswer}
  <1>1. /\ \A i \in 1 .. Len(req) : req[i] \in Request
        /\ \A i \in 1 .. Len(rep) : rep[i] \in Reply
        /\ Len(req) \in Nat /\ Len(rep) \in Nat
    BY DEF TypeOK
  <1>2. /\ \A r \in Request : r.call \in Call /\ r.call \in Nat
        /\ \A r \in Reply : /\ r.call \in Call /\ r.call \in Nat
                            /\ r.ok \in BOOLEAN /\ r.more \in BOOLEAN
    BY ExchangeAssumption DEF Request, Reply, Call
  <1>3. calls \in Nat /\ calls <= MaxCalls
    BY ExchangeAssumption DEF TypeOK
  <1>4. /\ \A t \in Threads : client[t] \in ClientState
        /\ \A c \in Call : answer[c] \in Answer \cup {NoAnswer}
    BY DEF TypeOK, ClientState
  <1> QED
    BY <1>1, <1>2, <1>3, <1>4

\* An answer has at least one fragment, an error exactly one.
LEMMA AnswerFacts ==
    /\ \A a \in Answer : a # NoAnswer /\ a.frags \in 1 .. MaxFrag /\ a.ok \in BOOLEAN
    /\ \A a \in Answer : ~a.ok => a.frags = 1
  <1> SUFFICES ASSUME NEW a \in Answer
               PROVE  /\ a # NoAnswer /\ a.frags \in 1 .. MaxFrag /\ a.ok \in BOOLEAN
                      /\ ~a.ok => a.frags = 1
    OBVIOUS
  <1>1. CASE a = [ok |-> FALSE, frags |-> 1]
    BY <1>1, ExchangeAssumption DEF NoAnswer
  <1>2. CASE a \in [ok : {TRUE}, frags : 1 .. MaxFrag]
    <2>1. a.ok = TRUE /\ a.frags \in 1 .. MaxFrag
      BY <1>2
    <2>2. NoAnswer.frags = 0
      BY DEF NoAnswer
    <2>3. a.frags # 0
      BY <2>1, ExchangeAssumption
    <2>4. a # NoAnswer
      BY <2>2, <2>3
    <2> QED
      BY <2>1, <2>4, Zenon
  <1> QED
    BY <1>1, <1>2 DEF Answer

\* Nothing has been sent yet.
LEMMA InitInv == Init => Inv
  <1> SUFFICES ASSUME Init PROVE Inv
    OBVIOUS
  <1> USE ExchangeAssumption
  <1>1. 1 % CorrSpace \in Corr /\ (MaxCalls > 0 => 1 % CorrSpace = 1)
    BY ModRange, SmallMod DEF Corr
  <1>2. 0 \in Corr
    BY DEF Corr
  <1>3. TypeOK
    BY <1>1, <1>2 DEF Init, TypeOK, IdleClient, IdleDaemon, Result
  <1>4. IdsInv
    BY <1>1 DEF Init, IdsInv, IdleClient, IdleDaemon, Busy
  <1>5. ClientsApart /\ PendingOnce /\ Answered /\ OwnStatus
    BY DEF Init, ClientsApart, PendingOnce, Answered, OwnStatus, IdleClient, IdleDaemon,
           Busy, Call
  <1> QED
    BY <1>3, <1>4, <1>5 DEF Inv

\* exchange takes the next correlation id.
LEMMA BeginInv == ASSUME Inv, NEW t \in Threads, Begin(t) PROVE Inv'
  <1> USE ExchangeAssumption
  <1>1. /\ next = calls + 1 /\ calls + 1 \in Call /\ calls' = calls + 1
        /\ calls + 1 \in Corr /\ calls \in Nat
    BY DEF Inv, TypeOK, IdsInv, Begin, Call, Corr
  <1>2. /\ client'[t].pc = "send" /\ client'[t].corr = calls + 1
        /\ client'[t].call = calls + 1 /\ client'[t].got = <<>>
        /\ \A u \in Threads : u # t => client'[u] = client[u]
    BY <1>1 DEF Inv, TypeOK, Begin
  <1>3. /\ next' \in Corr
        /\ calls' < MaxCalls => next' = calls' + 1
    <2>1. next + 1 \in Nat /\ CorrSpace > 0
      BY <1>1
    <2>2. next' \in 0 .. CorrSpace - 1
      BY <2>1, ModRange DEF Begin
    <2>3. calls' < MaxCalls => next + 1 \in 0 .. CorrSpace - 1
      BY <1>1
    <2> QED
      BY <1>1, <2>2, <2>3, SmallMod DEF Begin, Corr
  <1>4. TypeOK'
    <2>1. client'[t] \in ClientState
      BY <1>1 DEF Inv, TypeOK, Begin, ClientState, Call
    <2>2. client' \in [Threads -> ClientState]
      BY <2>1 DEF Inv, TypeOK, Begin, ClientState
    <2> QED
      BY <1>1, <1>3, <2>2 DEF Inv, TypeOK, Begin, Call, ClientState
  <1>5. IdsInv'
    <2>1. \A n \in 1 .. calls : n \in 1 .. calls'
      BY <1>1
    <2>2. \A u \in Threads : client'[u].pc # "idle" =>
            client'[u].corr = client'[u].call /\ client'[u].call \in 1 .. calls'
      BY <1>1, <1>2, <2>1 DEF Inv, IdsInv
    <2> QED
      BY <1>1, <1>3, <2>1, <2>2, TypeFacts DEF Inv, IdsInv, Begin, Busy
  <1>6. ClientsApart'
    BY <1>1, <1>2 DEF Inv, IdsInv, ClientsApart
  <1>7. PendingOnce'
    <2>1. answer[calls + 1] = NoAnswer
      BY <1>1 DEF Inv, Answered
    <2>2. Busy => daemon.call # calls + 1
      BY <1>1 DEF Inv, IdsInv
    <2>3. \A i \in 1 .. Len(req) : req[i].call # calls + 1
      BY <1>1, TypeFacts DEF Inv, IdsInv
    <2>4. \A u \in Threads : client'[u].pc = "send" =>
             /\ answer[client'[u].call] = NoAnswer
             /\ Busy => daemon.call # client'[u].call
             /\ \A i \in 1 .. Len(req) : req[i].call # client'[u].call
      BY <1>2, <2>1, <2>2, <2>3 DEF Inv, PendingOnce
    <2>5. UNCHANGED <<req, daemon, answer>>
      BY DEF Begin
    <2> QED
      BY <2>4, <2>5 DEF Inv, PendingOnce, Busy
  <1>8. Answered' /\ OwnStatus'
    BY <1>1 DEF Inv, Answered, OwnStatus, Begin, Call
  <1> QED
    BY <1>4, <1>5, <1>6, <1>7, <1>8 DEF Inv

\* A thread returns from exchange: every part of the invariant that is about
\* calls under way gets weaker.  The outcome is checked where it matters.
LEMMA ReturnInv ==
    ASSUME Inv, NEW t \in Threads, client[t].pc # "idle", NEW r \in Result, Return(t, r),
           UNCHANGED <<next, calls, req, daemon, stop, answer>>,
           rep' \in Seq(Reply) /\ Len(rep') <= SlotCount,
           \A i \in 1 .. Len(rep') : \E j \in 1 .. Len(rep) : rep'[i] = rep[j],
           r = "status" => answer[client[t].call] \in Answer /\ ~answer[client[t].call].ok
    PROVE  Inv'
  <1> USE ExchangeAssumption
  <1>1. client[t].call \in Call /\ client' = [client EXCEPT ![t] = IdleClient]
    BY TypeFacts DEF Inv, IdsInv, Return, Call
  <1>2. /\ client'[t] = IdleClient /\ client'[t].pc = "idle"
        /\ \A u \in Threads : u # t => client'[u] = client[u]
        /\ client' \in [Threads -> ClientState]
    <2>1. IdleClient \in ClientState /\ IdleClient.pc = "idle"
      BY DEF IdleClient, ClientState, Corr
    <2>2. client \in [Threads -> ClientState]
      BY DEF Inv, TypeOK, ClientState
    <2> HIDE DEF ClientState
    <2> QED
      BY <1>1, <2>1, <2>2
  <1>3. TypeOK'
    <2>1. outcome' \in [Call -> Result]
      BY <1>1 DEF Inv, TypeOK, Return
    <2> QED
      BY <1>2, <2>1 DEF Inv, TypeOK, ClientState
  <1>4. IdsInv'
    <2>1. \A u \in Threads : client'[u].pc # "idle" => client'[u] = client[u]
      BY <1>2
    <2> QED
      BY <2>1 DEF Inv, IdsInv, Busy
  <1>5. ClientsApart' /\ PendingOnce'
    <2>1. \A u \in Threads : client'[u].pc # "idle" => client'[u] = client[u]
      BY <1>2
    <2>2. ClientsApart'
      BY <2>1 DEF Inv, ClientsApart
    <2>3. PendingOnce'
      BY <2>1 DEF Inv, PendingOnce, Busy
    <2> QED
      BY <2>2, <2>3
  <1>6. Answered'
    BY DEF Inv, Answered
  <1>7. OwnStatus'
    <2> SUFFICES ASSUME NEW c \in Call, outcome'[c] = "status"
                 PROVE  ~answer[c].ok /\ answer[c].frags = 1
      BY DEF OwnStatus
    <2>1. CASE c = client[t].call
      <3>1. r = "status"
        BY <1>1, <2>1 DEF Inv, TypeOK, Return
      <3> QED
        BY <2>1, <3>1, AnswerFacts
    <2>2. CASE c # client[t].call
      BY <1>1, <2>2 DEF Inv, TypeOK, OwnStatus, Return
    <2> QED
      BY <2>1, <2>2
  <1> QED
    BY <1>3, <1>4, <1>5, <1>6, <1>7 DEF Inv

\* exchange pushes its request, or finds the ring full.
LEMMA SendInv == ASSUME Inv, NEW t \in Threads, Send(t) PROVE Inv'
  <1> USE ExchangeAssumption
  <1> DEFINE c == client[t].call
             m == [corr |-> client[t].corr, call |-> c]
  <1>1. /\ client[t].pc = "send" /\ c \in Call /\ client[t].corr = c /\ c <= calls
        /\ m \in Request /\ m.call = c /\ m.corr = c
    BY TypeFacts DEF Inv, IdsInv, Send, Call, Request, ClientState
  <1>2. CASE ~Room(req)
    <2>1. /\ Return(t, "full")
          /\ UNCHANGED <<next, calls, req, rep, daemon, stop, answer>>
      BY <1>2 DEF Send
    <2> QED
      BY <1>1, <2>1, ReturnInv DEF Inv, TypeOK, Result
  <1>3. CASE Room(req)
    <2>1. /\ req' = Append(req, m)
          /\ client' = [client EXCEPT ![t].pc = "wait"]
          /\ UNCHANGED <<next, calls, rep, daemon, stop, answer, outcome>>
      BY <1>3 DEF Send
    <2>2. /\ client'[t].pc = "wait" /\ client'[t].call = c /\ client'[t].corr = c
          /\ \A u \in Threads : u # t => client'[u] = client[u]
          /\ client' \in [Threads -> ClientState]
      BY <1>1, <2>1 DEF Inv, TypeOK, ClientState
    <2> HIDE DEF m, c
    <2>3. /\ req' \in Seq(Request) /\ Len(req') = Len(req) + 1
          /\ \A i \in 1 .. Len(req) : req'[i] = req[i]
          /\ req'[Len(req) + 1] = m
      BY <1>1, <2>1, AppendFacts DEF Inv, TypeOK
    <2>4. \A i \in 1 .. Len(req') :
             (i \in 1 .. Len(req) /\ req'[i] = req[i]) \/ (i = Len(req) + 1 /\ req'[i] = m)
      BY <2>3, TypeFacts DEF Inv
    <2>5. TypeOK'
      BY <1>3, <2>1, <2>2, <2>3 DEF Inv, TypeOK, Room, ClientState
    <2>6. IdsInv'
      BY <1>1, <2>1, <2>2, <2>4 DEF Inv, IdsInv, Busy
    <2>7. ClientsApart'
      BY <1>1, <2>2 DEF Inv, ClientsApart, c
    <2>8. PendingOnce'
      <3>1. /\ answer[c] = NoAnswer /\ (Busy => daemon.call # c)
            /\ \A i \in 1 .. Len(req) : req[i].call # c
            /\ \A u \in Threads : u # t /\ client[u].pc # "idle" => client[u].call # c
        BY <1>1 DEF Inv, PendingOnce, ClientsApart, c
      <3>2. \A u \in Threads : client'[u].pc = "send" =>
               u # t /\ client[u].pc = "send" /\ client'[u].call = client[u].call
        BY <2>2
      <3>3. \A u \in Threads : client'[u].pc = "send" =>
               \A i \in 1 .. Len(req') : req'[i].call # client'[u].call
        BY <1>1, <2>4, <3>1, <3>2 DEF Inv, PendingOnce
      <3>4. \A i, j \in 1 .. Len(req') : req'[i].call = req'[j].call => i = j
        BY <1>1, <2>4, <3>1 DEF Inv, PendingOnce
      <3> QED
        BY <1>1, <2>1, <2>4, <3>1, <3>2, <3>3, <3>4 DEF Inv, PendingOnce, Busy
    <2>9. Answered' /\ OwnStatus'
      BY <2>1 DEF Inv, Answered, OwnStatus
    <2> QED
      BY <2>5, <2>6, <2>7, <2>8, <2>9 DEF Inv
  <1> QED
    BY <1>2, <1>3

\* What a receiving thread finds: the reply is its own call's when the ids
\* agree, and carries the backend's verdict.
LEMMA ReceiveFacts ==
    ASSUME Inv, NEW t \in Threads, client[t].pc = "wait", rep # <<>>
    PROVE  /\ Head(rep) = rep[1] /\ rep[1] \in Reply /\ Len(rep) \in Nat \ {0}
           /\ Tail(rep) \in Seq(Reply) /\ Len(Tail(rep)) = Len(rep) - 1
           /\ Len(Tail(rep)) <= SlotCount
           /\ \A i \in 1 .. Len(rep) - 1 : Tail(rep)[i] = rep[i + 1]
           /\ \A i \in 1 .. Len(Tail(rep)) : \E j \in 1 .. Len(rep) : Tail(rep)[i] = rep[j]
           /\ answer[rep[1].call] \in Answer /\ rep[1].ok = answer[rep[1].call].ok
           /\ Matches(t, rep[1]) <=> rep[1].call = client[t].call
  <1> USE ExchangeAssumption
  <1>1. rep \in Seq(Reply) /\ Len(rep) <= SlotCount
    BY DEF Inv, TypeOK
  <1>2. /\ Head(rep) = rep[1] /\ rep[1] \in Reply /\ Len(rep) \in Nat \ {0}
        /\ Tail(rep) \in Seq(Reply) /\ Len(Tail(rep)) = Len(rep) - 1
        /\ \A i \in 1 .. Len(rep) - 1 : Tail(rep)[i] = rep[i + 1]
    BY <1>1, TailFacts
  <1>3. \A i \in 1 .. Len(rep) - 1 : i + 1 \in 1 .. Len(rep)
    BY <1>2
  <1>4. 1 \in 1 .. Len(rep)
    BY <1>2
  <1> QED
    BY <1>1, <1>2, <1>3, <1>4 DEF Inv, Answered, IdsInv, Matches

\* A fragment that is accepted is added to what the thread has.
LEMMA ReceiveAccepts ==
    ASSUME Inv, NEW t \in Threads, Receive(t), Matches(t, rep[1]), rep[1].ok
    PROVE  /\ client' \in [Threads -> ClientState]
           /\ client'[t].pc = IF rep[1].more THEN "wait" ELSE "done"
           /\ client'[t].call = client[t].call /\ client'[t].corr = client[t].corr
           /\ client'[t].got = Append(client[t].got, rep[1].call)
           /\ client'[t].got \in Seq(Call)
           /\ \A u \in Threads : u # t => client'[u] = client[u]
           /\ outcome' = outcome
  <1> USE ExchangeAssumption
  <1> DEFINE r == rep[1]
             g == Append(client[t].got, r.call)
  <1>1. client[t].pc = "wait" /\ Head(rep) = r /\ r \in Reply
    BY ReceiveFacts DEF Receive
  <1>2. client \in [Threads -> ClientState] /\ client[t] \in ClientState
    BY DEF Inv, TypeOK, ClientState
  <1>3. g \in Seq(Call)
    BY <1>1, <1>2 DEF ClientState, Reply
  <1> HIDE DEF g
  <1>4. CASE r.more
    <2>1. client' = [client EXCEPT ![t].got = g] /\ outcome' = outcome
      BY <1>1, <1>4 DEF Receive, g
    <2> QED
      BY <1>1, <1>2, <1>3, <1>4, <2>1 DEF ClientState, g
  <1>5. CASE ~r.more
    <2>1. client' = [client EXCEPT ![t].pc = "done", ![t].got = g] /\ outcome' = outcome
      BY <1>1, <1>5 DEF Receive, g
    <2> DEFINE mid == [client EXCEPT ![t].pc = "done"]
    <2>2. client' = [mid EXCEPT ![t].got = g]
      BY <2>1
    <2>3. /\ mid \in [Threads -> ClientState] /\ mid[t].pc = "done"
          /\ mid[t].call = client[t].call /\ mid[t].corr = client[t].corr
          /\ \A u \in Threads : u # t => mid[u] = client[u]
      BY <1>2 DEF ClientState
    <2> HIDE DEF mid
    <2> QED
      BY <1>3, <1>5, <2>1, <2>2, <2>3 DEF ClientState, g
  <1> QED
    BY <1>4, <1>5

\* exchange takes a reply: its own, a late one or a foreign fragment.
LEMMA ReceiveInv == ASSUME Inv, NEW t \in Threads, Receive(t) PROVE Inv'
  <1> USE ExchangeAssumption
  <1> DEFINE r == rep[1]
  <1>1. /\ client[t].pc = "wait" /\ rep # <<>> /\ rep' = Tail(rep)
        /\ UNCHANGED <<next, calls, req, daemon, stop, answer>>
    BY DEF Receive
  <1>2. /\ Head(rep) = r /\ r \in Reply
        /\ rep' \in Seq(Reply) /\ Len(rep') <= SlotCount
        /\ \A i \in 1 .. Len(rep') : \E j \in 1 .. Len(rep) : rep'[i] = rep[j]
        /\ answer[r.call] \in Answer /\ r.ok = answer[r.call].ok
        /\ Matches(t, r) <=> r.call = client[t].call
    BY <1>1, ReceiveFacts
  <1> HIDE DEF r
  <1>3. CASE ~Matches(t, r)
    <2>1. Return(t, "mismatch")
      BY <1>2, <1>3 DEF Receive
    <2> QED
      BY <1>1, <1>2, <2>1, ReturnInv DEF Result
  <1>4. CASE Matches(t, r) /\ ~r.ok
    <2>1. Return(t, "status")
      BY <1>2, <1>4 DEF Receive
    <2> QED
      BY <1>1, <1>2, <1>4, <2>1, ReturnInv DEF Result
  <1>5. CASE Matches(t, r) /\ r.ok
    <2>4. /\ client'[t].pc \in {"wait", "done"} /\ client'[t].call = client[t].call
          /\ client'[t].corr = client[t].corr
          /\ \A u \in Threads : u # t => client'[u] = client[u]
          /\ client' \in [Threads -> ClientState]
          /\ outcome' = outcome
      BY <1>5, ReceiveAccepts DEF r
    <2>5. TypeOK'
      BY <1>1, <1>2, <2>4 DEF Inv, TypeOK, ClientState
    <2>6. IdsInv'
      <3>1. \A u \in Threads : client'[u].pc # "idle" =>
               /\ client[u].pc # "idle"
               /\ client'[u].corr = client[u].corr /\ client'[u].call = client[u].call
        BY <1>1, <2>4
      <3> QED
        BY <1>1, <1>2, <3>1 DEF Inv, IdsInv, Busy
    <2>7. ClientsApart'
      BY <1>1, <2>4 DEF Inv, ClientsApart
    <2>8. PendingOnce'
      <3>1. \A u \in Threads : client'[u].pc = "send" => client'[u] = client[u]
        BY <2>4
      <3>2. \A u \in Threads : client'[u].pc = "send" =>
               /\ answer[client'[u].call] = NoAnswer
               /\ Busy => daemon.call # client'[u].call
               /\ \A i \in 1 .. Len(req) : req[i].call # client'[u].call
        BY <3>1 DEF Inv, PendingOnce
      <3> QED
        BY <1>1, <3>2 DEF Inv, PendingOnce, Busy
    <2>9. Answered' /\ OwnStatus'
      BY <1>1, <1>2, <2>4 DEF Inv, Answered, OwnStatus
    <2> QED
      BY <2>5, <2>6, <2>7, <2>8, <2>9 DEF Inv
  <1> QED
    BY <1>3, <1>4, <1>5

\* A call completes or times out.
LEMMA CompleteInv ==
    ASSUME Inv, NEW t \in Threads, Complete(t) \/ GiveUp(t) PROVE Inv'
  <1>1. PICK r \in {"ok", "timeout"} : Return(t, r)
    BY DEF Complete, GiveUp
  <1>2. /\ client[t].pc # "idle"
        /\ UNCHANGED <<next, calls, req, rep, daemon, stop, answer>>
    BY DEF Complete, GiveUp
  <1> QED
    BY <1>1, <1>2, ReturnInv DEF Inv, TypeOK, Result

\* Steps of the daemon between requests, and the stop flag.
LEMMA IdleInv ==
    ASSUME Inv, Poll \/ Tick \/ WaitFails \/ Exit \/ SetStop PROVE Inv'
  <1> USE ExchangeAssumption
  <1>1. /\ UNCHANGED <<next, calls, req, rep, client, answer, outcome>>
        /\ stop' \in {"yes", "no"}
    BY DEF Inv, TypeOK, Poll, Tick, WaitFails, Exit, SetStop
  <1>2. /\ daemon' \in [pc : {"poll", "recv", "backend", "post", "exited"},
                        corr : Corr, call : 0 .. MaxCalls, left : 0 .. MaxFrag]
        /\ daemon' = daemon \/ daemon'.pc \in {"poll", "recv", "exited"}
    <2> DEFINE D == [pc : {"poll", "recv", "backend", "post", "exited"},
                     corr : Corr, call : 0 .. MaxCalls, left : 0 .. MaxFrag]
    <2>1. daemon \in D
      BY DEF Inv, TypeOK
    <2>2. CASE Poll
      BY <2>1, <2>2 DEF Poll
    <2>3. CASE Tick
      BY <2>3 DEF Tick, IdleDaemon, Corr
    <2>4. CASE WaitFails \/ Exit
      BY <2>1, <2>4 DEF WaitFails, Exit
    <2>5. CASE SetStop
      BY <2>1, <2>5 DEF SetStop
    <2> QED
      BY <2>2, <2>3, <2>4, <2>5
  <1>3. TypeOK'
    BY <1>1, <1>2 DEF Inv, TypeOK
  <1>4. IdsInv' /\ ClientsApart' /\ PendingOnce' /\ Answered' /\ OwnStatus'
    BY <1>1, <1>2 DEF Inv, IdsInv, ClientsApart, PendingOnce, Answered, OwnStatus, Busy
  <1> QED
    BY <1>3, <1>4 DEF Inv

\* The daemon pops a request.
LEMMA TakeInv == ASSUME Inv, Take PROVE Inv'
  <1> USE ExchangeAssumption
  <1>1. /\ Head(req) = req[1] /\ req[1] \in Request /\ Len(req) \in Nat \ {0}
        /\ req' \in Seq(Request) /\ Len(req') = Len(req) - 1
        /\ \A i \in 1 .. Len(req) - 1 : req'[i] = req[i + 1]
    BY TailFacts DEF Inv, TypeOK, Take
  <1>2. 1 \in 1 .. Len(req) /\ \A i \in 1 .. Len(req) - 1 : i + 1 \in 1 .. Len(req) /\ i + 1 # 1
    BY <1>1
  <1>3. /\ req[1].call \in Call /\ req[1].corr \in Corr /\ req[1].call \in 1 .. calls
        /\ req[1].corr = req[1].call
    BY <1>1, <1>2, TypeFacts DEF Inv, IdsInv, Request, Call
  <1>4. /\ daemon'.pc = "backend" /\ daemon'.call = req[1].call /\ daemon'.corr = req[1].corr
        /\ ~Busy
        /\ daemon' \in [pc : {"poll", "recv", "backend", "post", "exited"},
                        corr : Corr, call : 0 .. MaxCalls, left : 0 .. MaxFrag]
        /\ UNCHANGED <<next, calls, rep, client, stop, answer, outcome>>
    BY <1>1, <1>3 DEF Take, Busy, Call
  <1>5. TypeOK'
    BY <1>1, <1>4 DEF Inv, TypeOK
  <1>6. IdsInv'
    <2>1. \A i \in 1 .. Len(req') : req'[i].corr = req'[i].call /\ req'[i].call <= calls
      BY <1>1, <1>2 DEF Inv, IdsInv
    <2> QED
      BY <1>3, <1>4, <2>1 DEF Inv, IdsInv, Busy
  <1>7. PendingOnce'
    <2>1. \A i \in 1 .. Len(req') : i + 1 \in 1 .. Len(req) /\ i + 1 # 1 /\ req'[i] = req[i + 1]
      BY <1>1, <1>2
    <2>2. \A i \in 1 .. Len(req') : req'[i].call # req[1].call
      BY <1>2, <2>1 DEF Inv, PendingOnce
    <2>3. \A i, j \in 1 .. Len(req') : req'[i].call = req'[j].call => i = j
      BY <2>1 DEF Inv, PendingOnce
    <2>4. \A u \in Threads : client[u].pc = "send" =>
             req[1].call # client[u].call
             /\ \A i \in 1 .. Len(req') : req'[i].call # client[u].call
      BY <1>2, <2>1 DEF Inv, PendingOnce
    <2>5. answer[req[1].call] = NoAnswer
      BY <1>2 DEF Inv, PendingOnce
    <2>6. \A i \in 1 .. Len(req') : answer[req'[i].call] = NoAnswer
      BY <2>1 DEF Inv, PendingOnce
    <2>7. \A u \in Threads : client[u].pc = "send" => answer[client[u].call] = NoAnswer
      BY DEF Inv, PendingOnce
    <2> QED
      BY <1>4, <2>2, <2>3, <2>4, <2>5, <2>6, <2>7 DEF PendingOnce, Busy
  <1>8. ClientsApart' /\ Answered' /\ OwnStatus'
    BY <1>4 DEF Inv, ClientsApart, Answered, OwnStatus
  <1> QED
    BY <1>5, <1>6, <1>7, <1>8 DEF Inv

\* The backend answers the request in hand.
LEMMA BackendReturnsInv == ASSUME Inv, BackendReturns PROVE Inv'
  <1> USE ExchangeAssumption
  <1> DEFINE D == [pc : {"poll", "recv", "backend", "post", "exited"},
                   corr : Corr, call : 0 .. MaxCalls, left : 0 .. MaxFrag]
  <1>1. PICK a \in Answer :
           /\ answer' = [answer EXCEPT ![daemon.call] = a]
           /\ daemon' = [daemon EXCEPT !.pc = "post", !.left = a.frags]
    BY DEF BackendReturns
  <1>2. /\ daemon.pc = "backend" /\ Busy
        /\ UNCHANGED <<next, calls, req, rep, client, stop, outcome>>
    BY DEF BackendReturns, Busy
  <1>3. /\ daemon.call \in Call /\ daemon.call \in 1 .. calls
        /\ answer[daemon.call] = NoAnswer /\ daemon.corr = daemon.call
    BY <1>2, TypeFacts DEF Inv, IdsInv, PendingOnce, Call
  <1>4. a.frags \in 1 .. MaxFrag
    BY AnswerFacts
  <1>5. /\ daemon' \in D /\ daemon'.pc = "post" /\ daemon'.left = a.frags
        /\ daemon'.call = daemon.call /\ daemon'.corr = daemon.corr
    <2>1. daemon \in D /\ a.frags \in 0 .. MaxFrag
      BY <1>4 DEF Inv, TypeOK
    <2> DEFINE n == a.frags
    <2> HIDE DEF n
    <2>2. daemon' = [daemon EXCEPT !.pc = "post", !.left = n] /\ n \in 0 .. MaxFrag
      BY <1>1, <2>1 DEF n
    <2>3. /\ daemon' \in D /\ daemon'.pc = "post" /\ daemon'.left = n
          /\ daemon'.call = daemon.call /\ daemon'.corr = daemon.corr
      BY <2>1, <2>2
    <2> QED
      BY <2>3 DEF n
  <1>6. /\ answer' \in [Call -> Answer \cup {NoAnswer}]
        /\ answer'[daemon.call] = a
        /\ \A c \in Call : c # daemon.call => answer'[c] = answer[c]
    BY <1>1, <1>3 DEF Inv, TypeOK
  <1>7. TypeOK'
    BY <1>2, <1>5, <1>6 DEF Inv, TypeOK
  <1>8. IdsInv'
    BY <1>2, <1>3, <1>4, <1>5 DEF Inv, IdsInv, Busy
  <1>9. PendingOnce'
    <2>1. \A u \in Threads : client[u].pc = "send" =>
             /\ client[u].call \in Call /\ client[u].call # daemon.call
             /\ answer'[client[u].call] = NoAnswer
      <3> SUFFICES ASSUME NEW u \in Threads, client[u].pc = "send"
                   PROVE  /\ client[u].call \in Call /\ client[u].call # daemon.call
                          /\ answer'[client[u].call] = NoAnswer
        OBVIOUS
      <3>1. client[u].call \in Call
        BY TypeFacts DEF Inv, IdsInv, Call
      <3> QED
        BY <1>2, <1>6, <3>1 DEF Inv, PendingOnce
    <2>2. \A i \in 1 .. Len(req) :
             req[i].call # daemon.call /\ answer'[req[i].call] = NoAnswer
      BY <1>2, <1>6, TypeFacts DEF Inv, PendingOnce
    <2>3. \A u \in Threads : client[u].pc = "send" =>
             \A i \in 1 .. Len(req) : req[i].call # client[u].call
      BY DEF Inv, PendingOnce
    <2>4. \A i, j \in 1 .. Len(req) : req[i].call = req[j].call => i = j
      BY DEF Inv, PendingOnce
    <2> QED
      BY <1>2, <1>5, <2>1, <2>2, <2>3, <2>4 DEF PendingOnce, Busy
  <1>10. Answered'
    <2>1. \A i \in 1 .. Len(rep) : rep[i].call # daemon.call /\ rep[i].call \in Call
      BY <1>3, AnswerFacts, TypeFacts DEF Inv, Answered
    <2>2. \A i \in 1 .. Len(rep) :
             answer'[rep[i].call] \in Answer /\ rep[i].ok = answer'[rep[i].call].ok
      BY <1>6, <2>1 DEF Inv, Answered
    <2>3. \A c \in Call : c > calls => answer'[c] = NoAnswer
      BY <1>3, <1>6, TypeFacts DEF Inv, Answered, Call
    <2> QED
      BY <1>2, <1>5, <1>6, <2>2, <2>3 DEF Answered
  <1>11. OwnStatus'
    <2>1. NoAnswer.frags = 0
      BY DEF NoAnswer
    <2> QED
      BY <1>2, <1>3, <1>6, <2>1 DEF Inv, OwnStatus
  <1>12. ClientsApart'
    BY <1>2 DEF Inv, ClientsApart
  <1> QED
    BY <1>7, <1>8, <1>9, <1>10, <1>11, <1>12 DEF Inv

\* The daemon pushes a fragment, or drops it on a full ring.
LEMMA PostReplyInv == ASSUME Inv, PostReply PROVE Inv'
  <1> USE ExchangeAssumption
  <1> DEFINE D == [pc : {"poll", "recv", "backend", "post", "exited"},
                   corr : Corr, call : 0 .. MaxCalls, left : 0 .. MaxFrag]
             m == [corr |-> daemon.corr, call |-> daemon.call,
                   ok |-> answer[daemon.call].ok, more |-> MoreFlag(daemon.left)]
  <1>1. /\ daemon.pc = "post" /\ Busy
        /\ UNCHANGED <<next, calls, req, client, stop, answer, outcome>>
    BY DEF PostReply, Busy
  <1>2. /\ daemon \in D /\ daemon.call \in Call /\ daemon.call \in 1 .. calls
        /\ daemon.corr = daemon.call /\ daemon.left \in 1 .. MaxFrag
        /\ answer[daemon.call] \in Answer
    <2>1. daemon \in D /\ daemon.call \in 1 .. calls /\ daemon.corr = daemon.call
          /\ answer[daemon.call] \in Answer /\ daemon.left >= 1
      BY <1>1 DEF Inv, TypeOK, IdsInv, Answered
    <2>2. daemon.left \in 1 .. MaxFrag
      BY <2>1
    <2>3. daemon.call \in Call
      BY <2>1, TypeFacts DEF Inv, Call
    <2> QED
      BY <2>1, <2>2, <2>3
  <1>3. /\ daemon' \in D
        /\ \/ daemon'.pc = "poll"
           \/ /\ daemon'.pc = "post" /\ daemon'.left >= 1
              /\ daemon'.call = daemon.call /\ daemon'.corr = daemon.corr
    <2>1. CASE daemon' = IdleDaemon
      BY <2>1 DEF IdleDaemon, Corr
    <2>2. CASE daemon.left # 1 /\ daemon' = [daemon EXCEPT !.left = @ - 1]
      <3>1. daemon.left - 1 \in 0 .. MaxFrag /\ daemon.left - 1 >= 1
        BY <1>2, <2>2
      <3> QED
        BY <1>1, <1>2, <2>2, <3>1
    <2> QED
      BY <2>1, <2>2 DEF PostReply
  <1>4. m \in Reply /\ m.call = daemon.call /\ m.corr = m.call /\ m.ok = answer[m.call].ok
    <2>1. answer[daemon.call].ok \in BOOLEAN
      BY <1>2, AnswerFacts
    <2>2. MoreFlag(daemon.left) \in BOOLEAN
      BY DEF MoreFlag
    <2>3. daemon.corr \in Corr
      BY <1>2
    <2> HIDE DEF D
    <2> QED
      BY <1>2, <2>1, <2>2, <2>3 DEF Reply
  <1> HIDE DEF D, m
  <1>5. /\ rep' \in Seq(Reply) /\ Len(rep') <= SlotCount
        /\ \A i \in 1 .. Len(rep') : rep'[i] = m \/ \E j \in 1 .. Len(rep) : rep'[i] = rep[j]
    <2>1. CASE ~Room(rep)
      BY <2>1 DEF PostReply, Inv, TypeOK
    <2>2. CASE Room(rep)
      <3>1. rep' = Append(rep, m) /\ rep \in Seq(Reply) /\ Len(rep) \in Nat
        BY <2>2 DEF PostReply, m, Inv, TypeOK
      <3>2. /\ rep' \in Seq(Reply) /\ Len(rep') = Len(rep) + 1
            /\ \A i \in 1 .. Len(rep) : rep'[i] = rep[i]
            /\ rep'[Len(rep) + 1] = m
        BY <1>4, <3>1, AppendFacts
      <3>3. \A i \in 1 .. Len(rep') : i \in 1 .. Len(rep) \/ i = Len(rep) + 1
        BY <3>1, <3>2
      <3> QED
        BY <2>2, <3>1, <3>2, <3>3 DEF Room
    <2> QED
      BY <2>1, <2>2
  <1>6. TypeOK'
    BY <1>1, <1>3, <1>5 DEF Inv, TypeOK, D
  <1>7. IdsInv'
    <2>1. \A i \in 1 .. Len(rep') : rep'[i].corr = rep'[i].call /\ rep'[i].call <= calls
      <3>1. m.corr = m.call /\ m.call <= calls
        BY <1>2, <1>4, TypeFacts DEF Inv
      <3>2. \A j \in 1 .. Len(rep) : rep[j].corr = rep[j].call /\ rep[j].call <= calls
        BY DEF Inv, IdsInv
      <3> QED
        BY <1>5, <3>1, <3>2
    <2> QED
      BY <1>1, <1>2, <1>3, <2>1 DEF Inv, IdsInv, Busy
  <1>8. PendingOnce'
    BY <1>1, <1>3 DEF Inv, PendingOnce, Busy
  <1>9. Answered'
    <2>1. \A i \in 1 .. Len(rep') :
             answer[rep'[i].call] \in Answer /\ rep'[i].ok = answer[rep'[i].call].ok
      BY <1>2, <1>4, <1>5 DEF Inv, Answered
    <2> QED
      BY <1>1, <1>2, <1>3, <2>1 DEF Inv, Answered
  <1>10. ClientsApart' /\ OwnStatus'
    BY <1>1 DEF Inv, ClientsApart, OwnStatus
  <1> QED
    BY <1>6, <1>7, <1>8, <1>9, <1>10 DEF Inv

\* Every step keeps the invariant.
LEMMA NextInv == Inv /\ [Next]_vars => Inv'
  <1> SUFFICES ASSUME Inv, [Next]_vars PROVE Inv'
    OBVIOUS
  <1>1. ASSUME NEW t \in Threads, ClientStep(t) PROVE Inv'
    BY <1>1, BeginInv, SendInv, ReceiveInv, CompleteInv DEF ClientStep
  <1>2. CASE DaemonLoop \/ WaitFails \/ BackendReturns \/ SetStop
    BY <1>2, IdleInv, TakeInv, PostReplyInv, BackendReturnsInv DEF DaemonLoop
  <1>3. CASE UNCHANGED vars
    BY <1>3 DEF vars, Inv, TypeOK, IdsInv, ClientsApart, PendingOnce, Answered, OwnStatus, Busy
  <1> QED
    BY <1>1, <1>2, <1>3 DEF Next

\* The error status Client::exchange returns is the one the backend gave for
\* that very call, for any number of threads.
THEOREM StatusIsOwn == Spec => []OwnStatus
  <1>1. Spec => []Inv
    BY InitInv, NextInv, PTL DEF Spec
  <1>2. Inv => OwnStatus
    BY DEF Inv
  <1> QED
    BY <1>1, <1>2, PTL

-----------------------------------------------------------------------------
(* No foreign fragment, for any number of threads *)

\* Every fragment a thread has is one of its call.
OwnFragments ==
    \A t \in Threads : client[t].pc # "idle" =>
        \A i \in 1 .. Len(client[t].got) : client[t].got[i] = client[t].call

\* What a step of a thread does to the threads' records.
LEMMA ClientFrame ==
    ASSUME Inv, NEW t \in Threads, ClientStep(t)
    PROVE  /\ \A u \in Threads : u # t => client'[u] = client[u]
           /\ \/ client'[t].pc = "idle"
              \/ /\ Begin(t) /\ client'[t].pc = "send" /\ client'[t].got = <<>>
                 /\ client'[t].call = calls + 1
              \/ /\ Send(t) /\ Room(req) /\ client'[t].pc = "wait"
                 /\ client'[t].call = client[t].call /\ client'[t].got = client[t].got
              \/ /\ Receive(t) /\ rep[1].call = client[t].call /\ rep[1].ok
                 /\ client'[t].pc = IF rep[1].more THEN "wait" ELSE "done"
                 /\ client'[t].call = client[t].call
                 /\ client'[t].got = Append(client[t].got, rep[1].call)
  <1>1. client \in [Threads -> ClientState]
    BY DEF Inv, TypeOK, ClientState
  <1>2. ASSUME NEW r, Return(t, r)
        PROVE  client'[t].pc = "idle" /\ \A u \in Threads : u # t => client'[u] = client[u]
    BY <1>1, <1>2 DEF Return, IdleClient
  <1>3. CASE Begin(t)
    BY <1>1, <1>3 DEF Begin
  <1>4. CASE Send(t)
    BY <1>1, <1>2, <1>4 DEF Send, ClientState
  <1>5. CASE Receive(t)
    <2>1. client[t].pc = "wait" /\ rep # <<>>
      BY <1>5 DEF Receive
    <2>2. Head(rep) = rep[1] /\ (Matches(t, rep[1]) <=> rep[1].call = client[t].call)
      BY <2>1, ReceiveFacts
    <2>3. CASE Matches(t, rep[1]) /\ rep[1].ok
      BY <1>5, <2>2, <2>3, ReceiveAccepts
    <2>4. CASE ~(Matches(t, rep[1]) /\ rep[1].ok)
      BY <1>2, <1>5, <2>2, <2>4 DEF Receive
    <2> QED
      BY <2>3, <2>4
  <1>6. CASE Complete(t) \/ GiveUp(t)
    BY <1>2, <1>6 DEF Complete, GiveUp
  <1> QED
    BY <1>3, <1>4, <1>5, <1>6 DEF ClientStep

\* Only the steps of a thread change the calls.
LEMMA OtherSteps ==
    ASSUME Next
    PROVE  (\E t \in Threads : ClientStep(t)) \/ client' = client
  BY DEF Next, DaemonLoop, Poll, Tick, Take, PostReply, Exit, WaitFails, BackendReturns, SetStop

\* Every step keeps a call's fragments its own.
LEMMA OwnFragmentsStep ==
    ASSUME Inv, OwnFragments, [Next]_vars PROVE OwnFragments'
  <1>1. CASE client' = client
    BY <1>1 DEF OwnFragments
  <1>2. ASSUME NEW t \in Threads, ClientStep(t) PROVE OwnFragments'
    <2>1. \A u \in Threads : u # t => client'[u] = client[u]
      BY <1>2, ClientFrame
    <2>2. ASSUME client'[t].pc # "idle", NEW i \in 1 .. Len(client'[t].got)
          PROVE  client'[t].got[i] = client'[t].call
      <3>1. CASE client'[t].got = <<>>
        BY <2>2, <3>1
      <3>2. CASE Send(t) /\ client'[t].call = client[t].call /\ client'[t].got = client[t].got
        BY <2>2, <3>2 DEF OwnFragments, Send
      <3>3. CASE /\ Receive(t) /\ rep[1].call = client[t].call
                 /\ client'[t].call = client[t].call
                 /\ client'[t].got = Append(client[t].got, rep[1].call)
        <4> DEFINE g == client[t].got
        <4>1. /\ client[t].pc = "wait" /\ client[t] \in ClientState
              /\ g \in Seq(Call) /\ rep[1].call \in Call
          BY <3>3, ReceiveFacts, TypeFacts DEF Inv, Receive, ClientState, Reply
        <4> HIDE DEF g
        <4>2. /\ Len(client'[t].got) = Len(g) + 1 /\ Len(g) \in Nat
              /\ \A j \in 1 .. Len(g) : client'[t].got[j] = g[j]
              /\ client'[t].got[Len(g) + 1] = client[t].call
          BY <3>3, <4>1, AppendFacts DEF g
        <4>3. i \in 1 .. Len(g) \/ i = Len(g) + 1
          BY <2>2, <4>2
        <4> QED
          BY <3>3, <4>1, <4>2, <4>3 DEF OwnFragments, g
      <3> QED
        BY <1>2, <2>2, <3>1, <3>2, <3>3, ClientFrame
    <2> QED
      BY <2>1, <2>2 DEF OwnFragments
  <1> QED
    BY <1>1, <1>2, OtherSteps DEF vars

\* No fragment of another call's reply ever ends up in the data of a call, for
\* any number of threads: a thread may steal a fragment from another and both
\* then fail or come out short, but neither takes it for its own.
THEOREM DataIsOwn == Spec => []OwnFragments
  <1>1. Init => Inv /\ OwnFragments
    BY InitInv DEF Init, OwnFragments, IdleClient
  <1>2. Inv /\ OwnFragments /\ [Next]_vars => (Inv /\ OwnFragments)'
    BY NextInv, OwnFragmentsStep
  <1> QED
    BY <1>1, <1>2, PTL DEF Spec

-----------------------------------------------------------------------------
(* One thread: the answer is whole *)

OneThread == \A t, u \in Threads : t = u

\* The thread is in the newest call, requests are in order, and once the
\* daemon has the newest request there is none behind it.
InOrder ==
    /\ \A t \in Threads : client[t].pc # "idle" => client[t].call = calls
    /\ \A i, j \in 1 .. Len(req) : i < j => req[i].call < req[j].call
    /\ (Busy /\ daemon.call = calls) => req = <<>>
    /\ (calls > 0 /\ answer[calls] # NoAnswer) =>
          req = <<>> /\ (Busy => daemon.call = calls)

\* The first n replies in the ring are for older calls, those behind them are
\* the fragments that follow the ones thread t has; all but the last of the
\* answer have the flag, and what is missing is with the daemon.
Fragments(t, n) ==
    LET c == client[t].call
        k == Len(client[t].got)
    IN /\ \A i \in 1 .. n : rep[i].call # c
       /\ \A i \in n + 1 .. Len(rep) :
             rep[i].call = c /\ (rep[i].more <=> k + (i - n) < answer[c].frags)
       /\ k + (Len(rep) - n) <= answer[c].frags
       /\ daemon.pc = "post" /\ daemon.call = c =>
             k + (Len(rep) - n) + daemon.left = answer[c].frags

InSequence ==
    \A t \in Threads :
        /\ client[t].pc = "send" => client[t].got = <<>>
        /\ client[t].pc = "wait" => \E n \in 0 .. Len(rep) : Fragments(t, n)
        /\ client[t].pc = "done" =>
              answer[client[t].call].ok
              /\ Len(client[t].got) = answer[client[t].call].frags

WholeInv == Inv /\ InOrder /\ OwnFragments /\ InSequence

\* The steps of the daemon that neither post nor answer.
Quiet == Poll \/ Tick \/ WaitFails \/ Exit \/ SetStop

\* Polling, time and stopping change neither calls nor rings.
LEMMA QuietFrame ==
    ASSUME TypeOK, Quiet
    PROVE  /\ UNCHANGED <<next, calls, req, rep, client, answer, outcome>>
           /\ daemon' = daemon \/ (~Busy /\ ~Busy')
  <1>1. UNCHANGED <<next, calls, req, rep, client, answer, outcome>>
    BY DEF Quiet, Poll, Tick, WaitFails, Exit, SetStop
  <1>2. CASE Poll \/ Exit \/ WaitFails
    BY <1>1, <1>2 DEF Poll, Exit, WaitFails, Busy, TypeOK
  <1>3. CASE Tick \/ SetStop
    BY <1>1, <1>3 DEF Tick, SetStop, Busy, IdleDaemon
  <1> QED
    BY <1>1, <1>2, <1>3 DEF Quiet

\* With one thread, requests and replies stay in the order of their calls.
LEMMA InOrderStep ==
    ASSUME OneThread, Inv, InOrder, Next PROVE InOrder'
  <1> USE ExchangeAssumption
  <1>1. ASSUME NEW t \in Threads, Begin(t) PROVE InOrder'
    <2>1. /\ calls' = calls + 1 /\ calls \in Nat /\ calls + 1 \in Call
          /\ UNCHANGED <<req, daemon, answer>>
      BY <1>1, TypeFacts DEF Begin, Inv, Call
    <2>2. \A u \in Threads : client'[u].pc # "idle" => client'[u].call = calls'
      BY <1>1, <2>1, ClientFrame DEF ClientStep, OneThread, Send, Receive, Begin
    <2>3. Busy => daemon.call # calls + 1
      BY <2>1 DEF Inv, IdsInv
    <2>4. answer[calls + 1] = NoAnswer
      BY <2>1 DEF Inv, Answered
    <2> QED
      BY <2>1, <2>2, <2>3, <2>4 DEF InOrder, Busy
  <1>2. ASSUME NEW t \in Threads, ClientStep(t), ~Begin(t) PROVE InOrder'
    <2>1. UNCHANGED <<calls, daemon, answer>>
      BY <1>2 DEF ClientStep, Send, Receive, Complete, GiveUp
    <2>2. \A u \in Threads : client'[u].pc # "idle" => client'[u].call = calls
      BY <1>2, <2>1, ClientFrame DEF InOrder, OneThread, Send, Receive
    <2>3. CASE req' = req
      BY <2>1, <2>2, <2>3 DEF InOrder, Busy
    <2>4. CASE Send(t) /\ Room(req)
      <3> DEFINE m == [corr |-> client[t].corr, call |-> client[t].call]
      <3>1. /\ client[t].pc = "send" /\ client[t].call = calls
            /\ calls \in Call /\ req' = Append(req, m) /\ m.call = calls
        BY <2>4, TypeFacts DEF Send, InOrder, Inv, IdsInv, Call
      <3>2. m \in Request
        BY <3>1, TypeFacts DEF Inv, ClientState, Request
      <3> HIDE DEF m
      <3>3. /\ Len(req') = Len(req) + 1 /\ Len(req) \in Nat
            /\ \A i \in 1 .. Len(req) : req'[i] = req[i]
            /\ req'[Len(req) + 1] = m
        BY <3>1, <3>2, AppendFacts DEF Inv, TypeOK
      <3>4. \A i \in 1 .. Len(req) : req[i].call < calls
        BY <3>1, TypeFacts DEF Inv, IdsInv, PendingOnce
      <3>5. \A i, j \in 1 .. Len(req') : i < j => req'[i].call < req'[j].call
        <4> SUFFICES ASSUME NEW i \in 1 .. Len(req'), NEW j \in 1 .. Len(req'), i < j
                     PROVE  req'[i].call < req'[j].call
          OBVIOUS
        <4>1. i \in 1 .. Len(req) /\ (j \in 1 .. Len(req) \/ j = Len(req) + 1)
          BY <3>3
        <4> QED
          BY <3>1, <3>3, <3>4, <4>1 DEF InOrder
      <3>6. answer[calls] = NoAnswer /\ (Busy => daemon.call # calls)
        BY <3>1 DEF Inv, PendingOnce
      <3> QED
        BY <2>1, <2>2, <3>5, <3>6 DEF InOrder, Busy
    <2> QED
      BY <1>2, <2>3, <2>4 DEF ClientStep, Send, Receive, Complete, GiveUp
  <1>3. CASE Quiet
    BY <1>3, QuietFrame DEF Inv, InOrder, Busy
  <1>4. CASE Take
    <2>1. /\ req # <<>> /\ req' = Tail(req) /\ daemon'.call = Head(req).call
          /\ UNCHANGED <<calls, client, answer>>
      BY <1>4 DEF Take
    <2>2. /\ Head(req) = req[1] /\ Len(req) \in Nat \ {0} /\ req' \in Seq(Request)
          /\ Len(req') = Len(req) - 1
          /\ \A i \in 1 .. Len(req) - 1 : req'[i] = req[i + 1]
      BY <2>1, TailFacts DEF Inv, TypeOK
    <2>3. \A i, j \in 1 .. Len(req') : i < j => req'[i].call < req'[j].call
      BY <2>2 DEF InOrder
    <2>4. req[1].call = calls => req' = <<>>
      <3> SUFFICES ASSUME req[1].call = calls, Len(req) > 1 PROVE FALSE
        BY <2>2
      <3>1. 1 \in 1 .. Len(req) /\ 2 \in 1 .. Len(req)
        BY <2>2
      <3>2. req[1].call < req[2].call
        BY <3>1 DEF InOrder
      <3>3. req[2].call <= calls /\ req[2].call \in Nat /\ calls \in Nat
        BY <3>1, TypeFacts DEF Inv, IdsInv
      <3> QED
        BY <3>2, <3>3
    <2>5. ~(calls > 0 /\ answer[calls] # NoAnswer)
      BY <2>1 DEF InOrder
    <2> QED
      BY <2>1, <2>2, <2>3, <2>4, <2>5 DEF InOrder
  <1>5. CASE BackendReturns
    <2>1. PICK a \in Answer :
             /\ answer' = [answer EXCEPT ![daemon.call] = a]
             /\ daemon' = [daemon EXCEPT !.pc = "post", !.left = a.frags]
      BY <1>5 DEF BackendReturns
    <2>2. /\ daemon'.call = daemon.call /\ Busy /\ UNCHANGED <<calls, req, client>>
      BY <1>5, <2>1 DEF BackendReturns, Busy, Inv, TypeOK
    <2>3. calls > 0 /\ calls # daemon.call => answer'[calls] = answer[calls]
      BY <2>1 DEF Inv, TypeOK, Call
    <2> QED
      BY <2>2, <2>3 DEF InOrder, Busy
  <1>6. CASE PostReply
    <2>1. UNCHANGED <<calls, req, client, answer>> /\ Busy
      BY <1>6 DEF PostReply, Busy
    <2>2. ~Busy' \/ daemon'.call = daemon.call
      BY <1>6 DEF PostReply, Busy, IdleDaemon, Inv, TypeOK
    <2> QED
      BY <2>1, <2>2 DEF InOrder, Busy
  <1> QED
    BY <1>1, <1>2, <1>3, <1>4, <1>5, <1>6 DEF Next, DaemonLoop, Quiet

\* Nothing a thread waits for changes.
LEMMA FragmentsKept ==
    ASSUME NEW t, NEW n, Fragments(t, n), client' = client, rep' = rep,
           answer'[client[t].call] = answer[client[t].call],
           daemon'.pc = "post" => daemon' = daemon
    PROVE  Fragments(t, n)'
  BY DEF Fragments

\* What is known of a thread that waits.
LEMMA WaitFacts ==
    ASSUME Inv, InOrder, NEW t \in Threads, client[t].pc \in {"send", "wait"}
    PROVE  /\ client[t].call = calls /\ calls \in Call /\ calls > 0
           /\ client[t].got \in Seq(Call) /\ Len(client[t].got) \in Nat
           /\ answer[calls] \in Answer \cup {NoAnswer}
           /\ answer[calls].frags \in Nat
           /\ answer[calls] = NoAnswer => answer[calls].frags = 0
  <1> USE ExchangeAssumption
  <1>1. /\ client[t].call = calls /\ calls \in Call /\ calls > 0
    BY TypeFacts DEF Inv, InOrder, IdsInv, Call
  <1>2. client[t].got \in Seq(Call) /\ Len(client[t].got) \in Nat
    BY TypeFacts DEF Inv, ClientState
  <1>3. answer[calls] \in Answer \cup {NoAnswer}
    BY <1>1, TypeFacts DEF Inv
  <1>4. NoAnswer.frags = 0
    BY DEF NoAnswer
  <1>5. \A a \in Answer : a.frags \in Nat
    BY AnswerFacts
  <1> QED
    BY <1>1, <1>2, <1>3, <1>4, <1>5

\* An unanswered call has no fragment, in the ring or in the thread.
LEMMA Unanswered ==
    ASSUME Inv, InOrder, NEW t \in Threads, client[t].pc = "wait", answer[calls] = NoAnswer,
           NEW n \in 0 .. Len(rep), Fragments(t, n)
    PROVE  n = Len(rep) /\ Len(client[t].got) = 0
  <1>1. /\ Len(client[t].got) \in Nat /\ answer[client[t].call].frags = 0
    BY WaitFacts
  <1>2. Len(client[t].got) + (Len(rep) - n) <= 0
    BY <1>1 DEF Fragments
  <1> QED
    BY <1>1, <1>2, TypeFacts DEF Inv

\* A request just sent has all its fragments still to come.
LEMMA SendSequence ==
    ASSUME Inv, InOrder, InSequence, NEW t \in Threads, Send(t), Room(req)
    PROVE  Fragments(t, Len(rep))'
  <1>1. client[t].pc = "send" /\ UNCHANGED <<rep, daemon, answer>>
    BY DEF Send
  <1>2. client'[t].call = client[t].call /\ client'[t].got = client[t].got
    BY DEF Send, Inv, TypeOK
  <1>3. /\ client[t].call = calls /\ calls \in Call /\ client[t].got = <<>>
        /\ answer[calls] = NoAnswer /\ answer[calls].frags = 0
        /\ Busy => daemon.call # calls
    BY <1>1, WaitFacts DEF Inv, PendingOnce, InSequence
  <1>4. \A i \in 1 .. Len(rep) : rep[i].call # calls
    BY <1>3, AnswerFacts DEF Inv, Answered
  <1>5. Len(rep) \in Nat /\ Len(client'[t].got) = 0
    BY <1>2, <1>3, TypeFacts DEF Inv
  <1> QED
    BY <1>1, <1>2, <1>3, <1>4, <1>5 DEF Fragments, Busy

\* The fragments of a call after one is taken.
LEMMA ReceiveSequence ==
    ASSUME Inv, InOrder, InSequence, NEW t \in Threads, Receive(t),
           rep[1].call = client[t].call, rep[1].ok
    PROVE  /\ rep[1].more => Fragments(t, 0)'
           /\ ~rep[1].more => answer[client[t].call].ok
                              /\ Len(client'[t].got) = answer[client[t].call].frags
  <1> DEFINE c == client[t].call
             k == Len(client[t].got)
             f == answer[c].frags
  <1>1. /\ client[t].pc = "wait" /\ rep # <<>> /\ rep' = Tail(rep)
        /\ UNCHANGED <<daemon, answer>>
    BY DEF Receive
  <1>2. /\ Len(rep) \in Nat \ {0} /\ Len(rep') = Len(rep) - 1
        /\ \A i \in 1 .. Len(rep) - 1 : rep'[i] = rep[i + 1]
        /\ answer[c] \in Answer /\ answer[c].ok /\ Matches(t, rep[1])
        /\ rep[1].more \in BOOLEAN
    BY <1>1, ReceiveFacts DEF Reply
  <1>3. /\ client'[t].call = c /\ client'[t].got = Append(client[t].got, rep[1].call)
    BY <1>2, ReceiveAccepts
  <1>4. client[t].got \in Seq(Call) /\ rep[1].call \in Call /\ k \in Nat /\ f \in Nat
    BY <1>1, WaitFacts
  <1>5. Len(client'[t].got) = k + 1
    BY <1>3, <1>4, AppendFacts
  <1>6. PICK n \in 0 .. Len(rep) : Fragments(t, n)
    BY <1>1 DEF InSequence
  <1>7. n = 0
    <2>1. \A i \in 1 .. n : rep[i].call # c
      BY <1>6 DEF Fragments
    <2> QED
      BY <2>1
  <1>8. /\ \A i \in 1 .. Len(rep) : rep[i].call = c /\ (rep[i].more <=> k + i < f)
        /\ k + Len(rep) <= f
        /\ daemon.pc = "post" /\ daemon.call = c => k + Len(rep) + daemon.left = f
    BY <1>2, <1>4, <1>6, <1>7 DEF Fragments
  <1> HIDE DEF k, f, c
  <1>9. ASSUME ~rep[1].more PROVE k + 1 = f
    BY <1>2, <1>4, <1>8, <1>9
  <1>10. /\ \A i \in 1 .. Len(rep') : rep'[i].call = c /\ (rep'[i].more <=> (k + 1) + i < f)
         /\ (k + 1) + Len(rep') <= f
         /\ daemon.pc = "post" /\ daemon.call = c => (k + 1) + Len(rep') + daemon.left = f
    <2>1. \A i \in 1 .. Len(rep') : i + 1 \in 1 .. Len(rep) /\ rep'[i] = rep[i + 1]
      BY <1>2
    <2>2. \A i \in 1 .. Len(rep') : k + (i + 1) = (k + 1) + i
      BY <1>2, <1>4
    <2>3. \A i \in 1 .. Len(rep') : rep'[i].call = c /\ (rep'[i].more <=> (k + 1) + i < f)
      BY <1>8, <2>1, <2>2
    <2>4. (k + 1) + Len(rep') = k + Len(rep)
      BY <1>2, <1>4
    <2> QED
      BY <1>8, <2>3, <2>4
  <1>11. Fragments(t, 0)'
    <2>1. Len(rep') \in Nat /\ \A i \in 0 + 1 .. Len(rep') : i \in 1 .. Len(rep') /\ i - 0 = i
      BY <1>2
    <2>2. Len(rep') - 0 = Len(rep')
      BY <2>1
    <2> QED
      BY <1>1, <1>3, <1>5, <1>10, <2>1, <2>2 DEF Fragments, f, c
  <1> QED
    BY <1>2, <1>5, <1>9, <1>11 DEF f, c

\* The fragments of a call when the backend answers.
LEMMA AnswerSequence ==
    ASSUME Inv, InOrder, InSequence, BackendReturns,
           NEW t \in Threads, client[t].pc = "wait"
    PROVE  \E n \in 0 .. Len(rep) : Fragments(t, n)'
  <1> USE ExchangeAssumption
  <1>1. PICK a \in Answer :
           /\ answer' = [answer EXCEPT ![daemon.call] = a]
           /\ daemon' = [daemon EXCEPT !.pc = "post", !.left = a.frags]
    BY DEF BackendReturns
  <1>2. /\ daemon.pc = "backend" /\ Busy /\ UNCHANGED <<calls, rep, client>>
    BY DEF BackendReturns, Busy
  <1>3. daemon'.call = daemon.call /\ daemon'.left = a.frags
    BY <1>1 DEF Inv, TypeOK
  <1>4. /\ client[t].call = calls /\ calls \in Call /\ Len(rep) \in Nat
    BY WaitFacts, TypeFacts DEF Inv
  <1>5. PICK n \in 0 .. Len(rep) : Fragments(t, n)
    BY DEF InSequence
  <1>6. CASE daemon.call # calls
    <2>1. answer'[calls] = answer[calls]
      BY <1>1, <1>4, <1>6 DEF Inv, TypeOK
    <2> QED
      BY <1>2, <1>3, <1>4, <1>5, <1>6, <2>1 DEF Fragments
  <1>7. CASE daemon.call = calls
    <2>1. answer[calls] = NoAnswer /\ answer'[calls] = a
      BY <1>1, <1>2, <1>4, <1>7 DEF Inv, TypeOK, PendingOnce
    <2>2. n = Len(rep) /\ Len(client[t].got) = 0
      BY <1>5, <2>1, Unanswered
    <2>3. a.frags \in Nat
      BY AnswerFacts
    <2>4. \A i \in 1 .. Len(rep) : rep[i].call # calls
      BY <2>1, AnswerFacts DEF Inv, Answered
    <2> QED
      BY <1>2, <1>3, <1>4, <2>1, <2>2, <2>3, <2>4 DEF Fragments
  <1> QED
    BY <1>6, <1>7

\* The fragments of a call after one is pushed or dropped.
LEMMA PostSequence ==
    ASSUME Inv, InOrder, InSequence, PostReply,
           NEW t \in Threads, client[t].pc = "wait"
    PROVE  \E n \in 0 .. Len(rep') : Fragments(t, n)'
  <1> USE ExchangeAssumption
  <1> DEFINE c == client[t].call
             k == Len(client[t].got)
             f == answer[c].frags
             m == [corr |-> daemon.corr, call |-> daemon.call,
                   ok |-> answer[daemon.call].ok, more |-> MoreFlag(daemon.left)]
  <1>1. /\ daemon.pc = "post" /\ Busy /\ UNCHANGED <<calls, client, answer>>
    BY DEF PostReply, Busy
  <1>2. /\ c = calls /\ calls \in Call /\ calls > 0 /\ k \in Nat /\ f \in Nat
        /\ Len(rep) \in Nat
    BY WaitFacts, TypeFacts DEF Inv
  <1>3. PICK n \in 0 .. Len(rep) : Fragments(t, n)
    BY DEF InSequence
  <1>4. daemon.left \in Nat \ {0} /\ daemon.call \in Call
    BY <1>1, TypeFacts DEF Inv, TypeOK, IdsInv, Call
  <1>5. CASE ~Room(rep)
    <2>1. daemon' = IdleDaemon /\ daemon'.pc = "poll" /\ rep' = rep
      BY <1>5 DEF PostReply, IdleDaemon
    <2> QED
      BY <1>1, <1>3, <2>1, FragmentsKept
  <1>6. CASE Room(rep)
    <2>1. rep' = Append(rep, m)
      BY <1>6 DEF PostReply
    <2>2. \/ daemon.left = 1 /\ daemon'.pc = "poll"
          \/ daemon.left # 1 /\ daemon'.call = daemon.call /\ daemon'.left = daemon.left - 1
      BY <1>6 DEF PostReply, IdleDaemon, Inv, TypeOK
    <2>3. m.call = daemon.call /\ (m.more <=> daemon.left > 1)
      BY DEF MoreFlag
    <2>4. m \in Reply
      <3>1. answer[daemon.call].ok \in BOOLEAN /\ daemon.corr \in Corr
        BY <1>1, AnswerFacts DEF Inv, Answered, TypeOK
      <3>2. MoreFlag(daemon.left) \in BOOLEAN
        BY DEF MoreFlag
      <3> QED
        BY <1>4, <3>1, <3>2 DEF Reply
    <2> HIDE DEF m
    <2>5. /\ Len(rep') = Len(rep) + 1
          /\ \A i \in 1 .. Len(rep) : rep'[i] = rep[i]
          /\ rep'[Len(rep) + 1] = m
      BY <2>1, <2>4, AppendFacts DEF Inv, TypeOK
    <2>6. /\ \A i \in 1 .. n : rep[i].call # c
          /\ \A i \in n + 1 .. Len(rep) : rep[i].call = c /\ (rep[i].more <=> k + (i - n) < f)
          /\ k + (Len(rep) - n) <= f
          /\ daemon.call = c => k + (Len(rep) - n) + daemon.left = f
      BY <1>1, <1>3 DEF Fragments
    <2>7. CASE daemon.call = c
      <3> HIDE DEF c, k, f
      <3>1. \A i \in 1 .. n : rep'[i].call # c
        BY <1>2, <2>5, <2>6
      <3>2. \A i \in n + 1 .. Len(rep') :
               rep'[i].call = c /\ (rep'[i].more <=> k + (i - n) < f)
        <4> SUFFICES ASSUME NEW i \in n + 1 .. Len(rep')
                     PROVE  rep'[i].call = c /\ (rep'[i].more <=> k + (i - n) < f)
          OBVIOUS
        <4>1. CASE i = Len(rep) + 1
          <5>1. k + (i - n) < f <=> daemon.left > 1
            BY <1>2, <1>4, <2>6, <2>7, <4>1
          <5> QED
            BY <2>3, <2>5, <2>7, <4>1, <5>1
        <4>2. CASE i # Len(rep) + 1
          <5>1. i \in n + 1 .. Len(rep) /\ i \in 1 .. Len(rep)
            BY <1>2, <2>5, <4>2
          <5> QED
            BY <2>5, <2>6, <5>1
        <4> QED
          BY <4>1, <4>2
      <3>3. k + (Len(rep') - n) <= f
        BY <1>2, <1>4, <2>5, <2>6, <2>7
      <3>4. daemon'.pc = "post" /\ daemon'.call = c => k + (Len(rep') - n) + daemon'.left = f
        BY <1>2, <1>4, <2>2, <2>5, <2>6, <2>7
      <3>5. Fragments(t, n)'
        BY <1>1, <3>1, <3>2, <3>3, <3>4 DEF Fragments, c, k, f
      <3> QED
        BY <1>2, <2>5, <3>5
    <2>8. CASE daemon.call # c
      <3>1. answer[calls] = NoAnswer
        BY <1>1, <1>2, <2>8 DEF InOrder
      <3>2. n = Len(rep) /\ k = 0 /\ f = 0
        BY <1>2, <1>3, <3>1, Unanswered, WaitFacts
      <3>3. \A i \in 1 .. Len(rep') : rep'[i].call # c
        BY <1>2, <2>3, <2>5, <2>6, <2>8, <3>2
      <3>4. daemon'.pc = "post" => daemon'.call # c
        BY <2>2, <2>8
      <3> HIDE DEF c, k, f
      <3>5. Fragments(t, Len(rep))'
        BY <1>1, <1>2, <2>5, <3>2, <3>3, <3>4 DEF Fragments, c, k, f
      <3> QED
        BY <1>2, <2>5, <3>5
    <2> QED
      BY <2>7, <2>8
  <1> QED
    BY <1>5, <1>6

\* With one thread, the fragments a call has and those on their way stay in sequence.
LEMMA InSequenceStep ==
    ASSUME OneThread, Inv, InOrder, InSequence, Next PROVE InSequence'
  <1>1. ASSUME NEW t \in Threads, ClientStep(t) PROVE InSequence'
    <2> SUFFICES ASSUME NEW u \in Threads
                 PROVE  /\ client'[u].pc = "send" => client'[u].got = <<>>
                        /\ client'[u].pc = "wait" => \E n \in 0 .. Len(rep') : Fragments(u, n)'
                        /\ client'[u].pc = "done" =>
                              /\ answer'[client'[u].call].ok
                              /\ Len(client'[u].got) = answer'[client'[u].call].frags
      BY DEF InSequence
    <2>1. u = t
      BY DEF OneThread
    <2>2. CASE client'[t].pc = "idle"
      BY <2>1, <2>2
    <2>3. CASE client'[t].pc = "send" /\ client'[t].got = <<>>
      BY <2>1, <2>3
    <2>4. CASE Send(t) /\ Room(req) /\ client'[t].pc = "wait"
      <3>1. Fragments(t, Len(rep))'
        BY <2>4, SendSequence
      <3>2. Len(rep') \in 0 .. Len(rep')
        BY <2>4, TypeFacts DEF Inv, Send
      <3> QED
        BY <2>1, <2>4, <3>1, <3>2
    <2>5. CASE /\ Receive(t) /\ rep[1].call = client[t].call /\ rep[1].ok
               /\ client'[t].pc = IF rep[1].more THEN "wait" ELSE "done"
               /\ client'[t].call = client[t].call
      <3>1. /\ rep[1].more => Fragments(t, 0)'
            /\ ~rep[1].more => answer[client[t].call].ok
                               /\ Len(client'[t].got) = answer[client[t].call].frags
        BY <2>5, ReceiveSequence
      <3>2. 0 \in 0 .. Len(rep') /\ answer' = answer
        BY <2>5, ReceiveFacts DEF Receive
      <3> QED
        BY <2>1, <2>5, <3>1, <3>2
    <2> QED
      BY <1>1, <2>2, <2>3, <2>4, <2>5, ClientFrame
  <1>2. CASE Quiet \/ Take
    <2>1. /\ UNCHANGED <<rep, client, answer>>
          /\ daemon'.pc = "post" => daemon' = daemon
      BY <1>2, QuietFrame DEF Inv, Take, Busy
    <2> QED
      BY <2>1, FragmentsKept DEF InSequence
  <1>3. CASE BackendReturns
    <2>1. UNCHANGED <<rep, client>>
      BY <1>3 DEF BackendReturns
    <2>2. \A t \in Threads : client[t].pc = "wait" => \E n \in 0 .. Len(rep) : Fragments(t, n)'
      BY <1>3, AnswerSequence
    <2>3. \A t \in Threads : client[t].pc = "done" =>
             answer'[client[t].call] = answer[client[t].call]
      <3> SUFFICES ASSUME NEW t \in Threads, client[t].pc = "done"
                   PROVE  answer'[client[t].call] = answer[client[t].call]
        OBVIOUS
      <3>1. client[t].call # daemon.call
        <4>1. daemon.pc = "backend" /\ answer[daemon.call] = NoAnswer
          BY <1>3 DEF BackendReturns, Inv, PendingOnce
        <4>2. NoAnswer.ok = FALSE
          BY DEF NoAnswer
        <4> QED
          BY <4>1, <4>2 DEF InSequence
      <3> QED
        BY <1>3, <3>1, TypeFacts DEF BackendReturns, Inv, TypeOK
    <2> QED
      BY <2>1, <2>2, <2>3 DEF InSequence
  <1>4. CASE PostReply
    <2>1. UNCHANGED <<client, answer>>
      BY <1>4 DEF PostReply
    <2>2. \A t \in Threads : client[t].pc = "wait" => \E n \in 0 .. Len(rep') : Fragments(t, n)'
      BY <1>4, PostSequence
    <2> QED
      BY <2>1, <2>2 DEF InSequence
  <1> QED
    BY <1>1, <1>2, <1>3, <1>4 DEF Next, DaemonLoop, Quiet

\* A call that is done has its whole answer.
LEMMA WholeImplies ==
    ASSUME WholeInv PROVE OwnWholeAnswer
  <1> SUFFICES ASSUME NEW t \in Threads, client[t].pc = "done"
               PROVE  LET c == client[t].call
                      IN answer[c].ok /\ client[t].got = [i \in 1 .. answer[c].frags |-> c]
    BY DEF OwnWholeAnswer, WholeInv, Inv
  <1> DEFINE c == client[t].call
             g == client[t].got
  <1>1. g \in Seq(Call)
    BY TypeFacts DEF WholeInv, Inv, ClientState
  <1>2. answer[c].ok /\ Len(g) = answer[c].frags
    BY DEF WholeInv, InSequence
  <1>3. \A i \in 1 .. Len(g) : g[i] = c
    BY DEF WholeInv, OwnFragments
  <1> HIDE DEF g
  <1>4. g = [i \in 1 .. Len(g) |-> g[i]]
    BY <1>1
  <1>5. g = [i \in 1 .. Len(g) |-> c]
    BY <1>3, <1>4
  <1> QED
    BY <1>2, <1>5 DEF g

\* With one thread in the client, a call that succeeds returns the whole answer
\* of the backend to that very call: late replies of calls that gave up and
\* replies cut short by a full ring are refused by their correlation id, and
\* the last fragment of an answer cannot arrive before the others.
THEOREM AnswerIsWhole ==
    ASSUME OneThread
    PROVE  Spec => []OwnWholeAnswer
  <1>1. Init => WholeInv
    <2> SUFFICES ASSUME Init PROVE WholeInv
      OBVIOUS
    <2>1. Inv
      BY InitInv
    <2>2. InOrder
      BY DEF Init, InOrder, IdleClient, IdleDaemon, Busy
    <2>3. OwnFragments /\ InSequence
      BY DEF Init, OwnFragments, InSequence, IdleClient
    <2> QED
      BY <2>1, <2>2, <2>3 DEF WholeInv
  <1>2. WholeInv /\ [Next]_vars => WholeInv'
    <2> SUFFICES ASSUME WholeInv, [Next]_vars PROVE WholeInv'
      OBVIOUS
    <2>1. Inv' /\ OwnFragments'
      BY NextInv, OwnFragmentsStep DEF WholeInv
    <2>2. CASE Next
      BY <2>1, <2>2, InOrderStep, InSequenceStep DEF WholeInv
    <2>3. CASE UNCHANGED vars
      <3>1. InOrder'
        BY <2>3 DEF WholeInv, vars, InOrder, Busy
      <3>2. InSequence'
        BY <2>3, FragmentsKept DEF WholeInv, vars, InSequence
      <3> QED
        BY <2>1, <3>1, <3>2 DEF WholeInv
    <2> QED
      BY <2>2, <2>3
  <1>3. WholeInv => OwnWholeAnswer
    BY WholeImplies
  <1> QED
    BY <1>1, <1>2, <1>3, PTL DEF Spec
=============================================================================
