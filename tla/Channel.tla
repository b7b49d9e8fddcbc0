------------------------------ MODULE Channel ------------------------------
(***************************************************************************)
(* One direction of the netstack channel (channel.rs over signal.rs): a    *)
(* sender that pushes and posts, and a receiver that polls, parks on the   *)
(* futex word and polls again.  The ring is the bounded FIFO queue it      *)
(* implements (Ring, Fifo), of which only the counts matter here.          *)
(*                                                                         *)
(* The swap and the store on the futex word, WaitOnAddress and             *)
(* WakeByAddressSingle are steps of their own.  WaitOnAddress compares the *)
(* word and blocks atomically.  Between two processes a wake-up call is    *)
(* not known to reach the waiter, which is the link "split"; all callers   *)
(* there pass a timeout (daemon.rs 100 ms, client.rs up to 5 s).           *)
(***************************************************************************)
EXTENDS Naturals

CONSTANTS SlotCount,   \* capacity of the ring
          MaxSend      \* bound on the number of messages sent

ASSUME ChannelAssumption == SlotCount \in Nat \ {0} /\ MaxSend \in Nat

VARIABLES link,    \* "same" process or "split" over two processes
          sent,    \* messages pushed so far
          rcvd,    \* messages popped so far
          futex,   \* the futex word in the ring header
          tx,      \* where the sender is in Channel::send
          rx,      \* where the receiver is in Channel::recv_blocking; "ended"
                   \* when the loop around it was left
          timeout  \* the timeout of the current call: "some" or "none"

vars == <<link, sent, rcvd, futex, tx, rx, timeout>>

TxPc == {"idle", "post", "wake"}
RxPc == {"idle", "park", "wait", "blocked", "reset", "retry", "ended"}

Pending == sent - rcvd

Init ==
    /\ link \in {"same", "split"}
    /\ sent = 0
    /\ rcvd = 0
    /\ futex = "idle"
    /\ tx = "idle"
    /\ rx = "idle"
    /\ timeout = "none"

-----------------------------------------------------------------------------
(* send *)

\* try_push; when the ring is full the call ends with an error.
Push ==
    /\ tx = "idle"
    /\ sent < MaxSend
    /\ Pending < SlotCount
    /\ sent' = sent + 1
    /\ tx' = "post"
    /\ UNCHANGED <<link, rcvd, futex, rx, timeout>>

\* post: swap in WOKEN, and wake only a receiver that had parked.
Post ==
    /\ tx = "post"
    /\ futex' = "woken"
    /\ tx' = IF futex = "sleeping" THEN "wake" ELSE "idle"
    /\ UNCHANGED <<link, sent, rcvd, rx, timeout>>

\* wake_one: releases a blocked receiver; across processes it may not.
Wake ==
    /\ tx = "wake"
    /\ tx' = "idle"
    /\ \/ rx = "blocked" /\ rx' = "reset"
       \/ (rx # "blocked" \/ link = "split") /\ UNCHANGED rx
    /\ UNCHANGED <<link, sent, rcvd, futex, timeout>>

-----------------------------------------------------------------------------
(* recv_blocking *)

\* The first try_recv: a message ends the call, an empty ring goes to park.
TryRecv ==
    /\ rx = "idle"
    /\ \/ /\ Pending > 0
          /\ rcvd' = rcvd + 1
          /\ UNCHANGED <<rx, timeout>>
       \/ /\ Pending = 0
          /\ rx' = "park"
          /\ timeout' \in IF link = "split" THEN {"some"} ELSE {"some", "none"}
          /\ UNCHANGED rcvd
    /\ UNCHANGED <<link, sent, futex, tx>>

\* Mutation of Park: a post that already arrived is overlooked.
ParkBlindly ==
    /\ rx = "park"
    /\ futex' = "sleeping"
    /\ rx' = "wait"
    /\ UNCHANGED <<link, sent, rcvd, tx, timeout>>

\* park: swap in SLEEPING; a token left by post is consumed without waiting.
Park ==
    /\ rx = "park"
    /\ futex' = "sleeping"
    /\ rx' = IF futex = "woken" THEN "reset" ELSE "wait"
    /\ UNCHANGED <<link, sent, rcvd, tx, timeout>>

\* WaitOnAddress returns at once when the word is no longer SLEEPING.
WaitOnAddress ==
    /\ rx = "wait"
    /\ rx' = IF futex = "sleeping" THEN "blocked" ELSE "reset"
    /\ UNCHANGED <<link, sent, rcvd, futex, tx, timeout>>

\* The wait ends without a wake-up: spuriously, or by its timeout.
SpuriousWake ==
    /\ rx = "blocked"
    /\ rx' = "reset"
    /\ UNCHANGED <<link, sent, rcvd, futex, tx, timeout>>

WaitTimeout ==
    /\ rx = "blocked"
    /\ timeout = "some"
    /\ rx' = "reset"
    /\ UNCHANGED <<link, sent, rcvd, futex, tx, timeout>>

\* The wait fails with another error: the call returns it, leaving the word,
\* and the loop around the call returns it too.
WaitError ==
    /\ rx \in {"wait", "blocked"}
    /\ rx' = "ended"
    /\ UNCHANGED <<link, sent, rcvd, futex, tx, timeout>>

\* The word is set back to IDLE, which may overwrite a second post.
Reset ==
    /\ rx = "reset"
    /\ futex' = "idle"
    /\ rx' = "retry"
    /\ UNCHANGED <<link, sent, rcvd, tx, timeout>>

\* Mutation of Retry: the call trusts the futex and does not poll again.
RetryNone ==
    /\ rx = "retry"
    /\ rx' = "park"
    /\ UNCHANGED <<link, sent, rcvd, futex, tx, timeout>>

\* try_recv once more: Some(message) or None.
Retry ==
    /\ rx = "retry"
    /\ rcvd' = IF Pending > 0 THEN rcvd + 1 ELSE rcvd
    /\ rx' = "idle"
    /\ UNCHANGED <<link, sent, futex, tx, timeout>>

\* The loop around the call ends before it calls again: the stop flag is set.
LeaveLoop ==
    /\ rx = "idle"
    /\ rx' = "ended"
    /\ UNCHANGED <<link, sent, rcvd, futex, tx, timeout>>

-----------------------------------------------------------------------------
Receiver ==
    \/ TryRecv \/ Park \/ WaitOnAddress \/ WaitTimeout \/ Reset \/ Retry

Next ==
    \/ Push \/ Post \/ Wake
    \/ Receiver \/ SpuriousWake \/ WaitError \/ LeaveLoop

Spec == Init /\ [][Next]_vars

\* The receiver is Daemon::run, a loop that calls recv_blocking again until its
\* stop flag is set or the call fails; the sender finishes a send it started.
\* Both are threads the OS keeps scheduling, and the handler between two calls
\* is taken to return.  Spurious wake-ups, errors and the stop are not owed to
\* anyone.
Fairness == WF_vars(Receiver) /\ WF_vars(Post) /\ WF_vars(Wake)

FairSpec == Spec /\ Fairness

-----------------------------------------------------------------------------
(* Properties *)

\* The counts are within their bounds, the futex word has one of its values.
TypeOK ==
    /\ link \in {"same", "split"}
    /\ sent \in 0 .. MaxSend
    /\ rcvd \in 0 .. sent
    /\ sent - rcvd <= SlotCount
    /\ futex \in {"idle", "sleeping", "woken"}
    /\ tx \in TxPc
    /\ rx \in RxPc
    /\ timeout \in {"some", "none"}

\* No lost wake-up: within one process the receiver never stays blocked in
\* WaitOnAddress over a pending message, unless the sender of it has still to
\* post or to call WakeByAddressSingle (signal.rs post and park).
NoLostWake ==
    link = "same" /\ rx = "blocked" /\ Pending > 0 => tx \in {"post", "wake"}

\* The strengthening that makes it inductive: from the moment the receiver
\* found the ring empty, every later message leaves a trace it will see.
PostIsSeen ==
    /\ rx \in {"park", "wait"} /\ Pending > 0 => tx = "post" \/ futex = "woken"
    /\ rx = "blocked" /\ tx = "post" => futex = "sleeping" \/ link = "split"
    /\ link = "same" /\ rx = "blocked" /\ futex # "sleeping" => tx = "wake"
    /\ rx \in {"wait", "blocked"} => futex \in {"sleeping", "woken"}

\* The futex hand-shake of post and park: a message pushed after the receiver
\* polled is never left without a trace the receiver will see.
WakeInv == TypeOK /\ NoLostWake /\ PostIsSeen

\* Every message that is pushed is received or the receive loop was left, by
\* its stop flag or by an error of the wait: although wake-ups between processes
\* may be missed, a receiver that still polls is never stuck over a message,
\* since the timeout of the park makes up for them (signal.rs: the futex is only
\* a hint, the ring is the source of truth).
EveryMessageReceived ==
    \A n \in 1 .. MaxSend : (sent >= n) ~> (rcvd >= n \/ rx = "ended")
=============================================================================
