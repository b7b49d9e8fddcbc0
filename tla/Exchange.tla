------------------------------ MODULE Exchange ------------------------------
(***************************************************************************)
(* The request/reply protocol of the userland network stack: application   *)
(* threads inside the shim call Client::exchange (client.rs), the daemon   *)
(* loop on the host takes one request at a time, runs it in the backend    *)
(* and posts the reply, in fragments when it is long (daemon.rs).  Both    *)
(* directions are the bounded queues of Ring / Fifo.                       *)
(*                                                                         *)
(* Time is left out: a call may give up at any moment while it waits (its  *)
(* deadline of 5 s), and the backend may take any time, for ever included: *)
(* the host sockets it reads from and connects are blocking ones.          *)
(*                                                                         *)
(* A call is numbered in the order in which calls start; the numbers and   *)
(* the two records answer and outcome are history, the code only has the   *)
(* correlation id.                                                         *)
(***************************************************************************)
EXTENDS Naturals, Sequences

CONSTANTS Threads,    \* application threads that call hooked functions
          SlotCount,  \* slots of each ring
          CorrSpace,  \* number of correlation ids (2^32 in the code)
          MaxFrag,    \* most fragments of a reply
          MaxCalls    \* bound on the number of calls

ASSUME ExchangeAssumption ==
    /\ SlotCount \in Nat \ {0}
    /\ MaxFrag \in Nat \ {0}
    /\ MaxCalls \in Nat
    /\ CorrSpace \in Nat /\ CorrSpace > MaxCalls

VARIABLES next,      \* next_correlation of the client
          calls,     \* how many calls were started
          req,       \* the shim-to-host ring
          rep,       \* the host-to-shim ring
          client,    \* per thread: where it is in exchange
          daemon,    \* where the daemon is in run / handle
          stop,      \* the stop flag
          answer,    \* per call: what the backend answered
          outcome    \* per call: what exchange returned

vars == <<next, calls, req, rep, client, daemon, stop, answer, outcome>>

Call == 1 .. MaxCalls
Corr == 0 .. CorrSpace - 1

\* What the backend answers: an error status, or data in n fragments.
Answer == {[ok |-> FALSE, frags |-> 1]} \cup [ok : {TRUE}, frags : 1 .. MaxFrag]
NoAnswer == [ok |-> FALSE, frags |-> 0]

Request == [corr : Corr, call : Call]
Reply == [corr : Corr, call : Call, ok : BOOLEAN, more : BOOLEAN]

\* The code reports "full" and "mismatch" as ClientError::Protocol.
Result == {"none", "ok", "status", "full", "mismatch", "timeout"}

IdleClient == [pc |-> "idle", corr |-> 0, call |-> 0, got |-> <<>>]
IdleDaemon == [pc |-> "poll", corr |-> 0, call |-> 0, left |-> 0]

Init ==
    /\ next = 1 % CorrSpace
    /\ calls = 0
    /\ req = <<>>
    /\ rep = <<>>
    /\ client = [t \in Threads |-> IdleClient]
    /\ daemon = IdleDaemon
    /\ stop = "no"
    /\ answer = [c \in Call |-> NoAnswer]
    /\ outcome = [c \in Call |-> "none"]

\* A ring takes a message only while a slot is free.
Room(q) == Len(q) < SlotCount

-----------------------------------------------------------------------------
(* Client::exchange *)

\* next_id: a fresh correlation id, then the request is sent.
Begin(t) ==
    /\ client[t].pc = "idle"
    /\ calls < MaxCalls
    /\ calls' = calls + 1
    /\ next' = (next + 1) % CorrSpace
    /\ client' = [client EXCEPT ![t] =
          [pc |-> "send", corr |-> next, call |-> calls + 1, got |-> <<>>]]
    /\ UNCHANGED <<req, rep, daemon, stop, answer, outcome>>

\* The call of thread t returns r to its hook.
Return(t, r) ==
    /\ client' = [client EXCEPT ![t] = IdleClient]
    /\ outcome' = [outcome EXCEPT ![client[t].call] = r]

\* channel.send: a full ring is reported as a protocol error.
Send(t) ==
    /\ client[t].pc = "send"
    /\ \/ /\ Room(req)
          /\ req' = Append(req, [corr |-> client[t].corr, call |-> client[t].call])
          /\ client' = [client EXCEPT ![t].pc = "wait"]
          /\ UNCHANGED outcome
       \/ /\ ~Room(req)
          /\ Return(t, "full")
          /\ UNCHANGED req
    /\ UNCHANGED <<next, calls, rep, daemon, stop, answer>>

\* Mutation of Matches: the correlation id is not checked.
MatchesAny(t, r) == TRUE

Matches(t, r) == r.corr = client[t].corr

\* recv_blocking returned a reply.  It is consumed even when it is refused.
Receive(t) ==
    /\ client[t].pc = "wait"
    /\ rep # <<>>
    /\ LET r == Head(rep) IN
       /\ rep' = Tail(rep)
       /\ IF ~Matches(t, r) THEN Return(t, "mismatch")
          ELSE IF ~r.ok THEN Return(t, "status")
          ELSE IF r.more
               THEN /\ client' = [client EXCEPT ![t].got = Append(@, r.call)]
                    /\ UNCHANGED outcome
          ELSE /\ client' = [client EXCEPT ![t].pc = "done",
                                           ![t].got = Append(@, r.call)]
               /\ UNCHANGED outcome
    /\ UNCHANGED <<next, calls, req, daemon, stop, answer>>

\* The combined data is handed to the hook.
Complete(t) ==
    /\ client[t].pc = "done"
    /\ Return(t, "ok")
    /\ UNCHANGED <<next, calls, req, rep, daemon, stop, answer>>

\* The deadline passed before the last fragment came, or the wait failed.
GiveUp(t) ==
    /\ client[t].pc = "wait"
    /\ Return(t, "timeout")
    /\ UNCHANGED <<next, calls, req, rep, daemon, stop, answer>>

-----------------------------------------------------------------------------
(* Daemon::run and handle *)

\* The loop finds the stop flag clear and waits for a request.
Poll ==
    /\ daemon.pc = "poll"
    /\ stop = "no"
    /\ daemon' = [daemon EXCEPT !.pc = "recv"]
    /\ UNCHANGED <<next, calls, req, rep, client, stop, answer, outcome>>

\* Nothing came within 100 ms: back to the flag.
Tick ==
    /\ daemon.pc = "recv"
    /\ req = <<>>
    /\ daemon' = IdleDaemon
    /\ UNCHANGED <<next, calls, req, rep, client, stop, answer, outcome>>

\* The wait on the futex fails: the loop ends with the error.
WaitFails ==
    /\ daemon.pc = "recv"
    /\ req = <<>>
    /\ daemon' = [daemon EXCEPT !.pc = "exited"]
    /\ UNCHANGED <<next, calls, req, rep, client, stop, answer, outcome>>

\* A request is there: it is taken, even when the flag was raised meanwhile.
Take ==
    /\ daemon.pc = "recv"
    /\ req # <<>>
    /\ req' = Tail(req)
    /\ daemon' = [pc |-> "backend", corr |-> Head(req).corr,
                  call |-> Head(req).call, left |-> 0]
    /\ UNCHANGED <<next, calls, rep, client, stop, answer, outcome>>

\* The backend returns.
BackendReturns ==
    /\ daemon.pc = "backend"
    /\ \E a \in Answer :
          /\ answer' = [answer EXCEPT ![daemon.call] = a]
          /\ daemon' = [daemon EXCEPT !.pc = "post", !.left = a.frags]
    /\ UNCHANGED <<next, calls, req, rep, client, stop, outcome>>

\* Mutation of MoreFlag: the flag is missing on the last fragment but one.
MoreFlagOffByOne(left) == left > 2

\* FLAG_MORE is set on all fragments but the last.
MoreFlag(left) == left > 1

\* One fragment is posted; a full ring drops the rest of the reply and the
\* loop only logs it.
PostReply ==
    /\ daemon.pc = "post"
    /\ \/ /\ Room(rep)
          /\ rep' = Append(rep, [corr |-> daemon.corr, call |-> daemon.call,
                                 ok |-> answer[daemon.call].ok,
                                 more |-> MoreFlag(daemon.left)])
          /\ daemon' = IF daemon.left = 1 THEN IdleDaemon
                       ELSE [daemon EXCEPT !.left = @ - 1]
       \/ /\ ~Room(rep)
          /\ daemon' = IdleDaemon
          /\ UNCHANGED rep
    /\ UNCHANGED <<next, calls, req, client, stop, answer, outcome>>

\* Mutation of Exit: the loop ends only once its replies are consumed.
ExitWhenDrained ==
    /\ daemon.pc = "poll"
    /\ stop = "yes"
    /\ rep = <<>>
    /\ daemon' = [daemon EXCEPT !.pc = "exited"]
    /\ UNCHANGED <<next, calls, req, rep, client, stop, answer, outcome>>

\* The loop sees the stop flag and ends.
Exit ==
    /\ daemon.pc = "poll"
    /\ stop = "yes"
    /\ daemon' = [daemon EXCEPT !.pc = "exited"]
    /\ UNCHANGED <<next, calls, req, rep, client, stop, answer, outcome>>

\* The runtime is dropped: it sets the flag and joins the daemon thread.
SetStop ==
    /\ stop = "no"
    /\ stop' = "yes"
    /\ UNCHANGED <<next, calls, req, rep, client, daemon, answer, outcome>>

-----------------------------------------------------------------------------
ClientStep(t) == Begin(t) \/ Send(t) \/ Receive(t) \/ Complete(t) \/ GiveUp(t)

DaemonLoop == Poll \/ Tick \/ Take \/ PostReply \/ Exit

Next ==
    \/ \E t \in Threads : ClientStep(t)
    \/ DaemonLoop \/ WaitFails \/ BackendReturns \/ SetStop

Spec == Init /\ [][Next]_vars

\* The daemon thread is scheduled; whether the backend returns is up to the
\* peers of its sockets, so nothing is assumed of BackendReturns, nor that a
\* wait ever fails.
FairSpec == Spec /\ WF_vars(DaemonLoop)

-----------------------------------------------------------------------------
(* Properties *)

\* Rings, ids and fragment counts are within their bounds.
TypeOK ==
    /\ next \in Corr
    /\ calls \in 0 .. MaxCalls
    /\ req \in Seq(Request) /\ Len(req) <= SlotCount
    /\ rep \in Seq(Reply) /\ Len(rep) <= SlotCount
    /\ client \in [Threads -> [pc : {"idle", "send", "wait", "done"},
                               corr : Corr, call : 0 .. MaxCalls, got : Seq(Call)]]
    /\ daemon \in [pc : {"poll", "recv", "backend", "post", "exited"},
                   corr : Corr, call : 0 .. MaxCalls, left : 0 .. MaxFrag]
    /\ stop \in {"yes", "no"}
    /\ answer \in [Call -> Answer \cup {NoAnswer}]
    /\ outcome \in [Call -> Result]

\* A call that succeeds returns the whole answer of the backend to that very
\* call: no fragment of another call's reply, none missing, none twice, although
\* late replies of calls that timed out and replies cut short by a full ring
\* lie in between.  For one calling thread: of two that wait at the same time
\* one may take a fragment of the other's reply.
OwnWholeAnswer ==
    /\ TypeOK
    /\ \A t \in Threads :
          client[t].pc = "done" =>
              LET c == client[t].call IN
              /\ answer[c].ok
              /\ client[t].got = [i \in 1 .. answer[c].frags |-> c]

\* The error status a call reports is the one the backend gave for it.
OwnStatus ==
    \A c \in Call : outcome[c] = "status" =>
        ~answer[c].ok /\ answer[c].frags = 1

\* If the backend always returns in the end, a raised stop flag ends the
\* daemon thread: NetstackRuntime's drop can join it, whatever the clients do.
StopEndsDaemon ==
    []<>(daemon.pc # "backend") => (stop = "yes" ~> daemon.pc = "exited")

\* The comment on exchange: send a request, receive the matching reply.  No
\* call of a single thread is refused because of another call's reply.
MatchingReply == \A c \in Call : outcome[c] # "mismatch"
=============================================================================
