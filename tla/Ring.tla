-------------------------------- MODULE Ring --------------------------------
(***************************************************************************)
(* The shared-memory ring of psroot-netstack-ipc (ring.rs), at the grain   *)
(* of its memory accesses: loading an index, writing or reading the two    *)
(* parts of a slot and storing an index are steps of their own, so that    *)
(* the producer's and the consumer's steps interleave as on real cores.    *)
(*                                                                         *)
(* head and tail are 64-bit counters that only grow, modulo IndexSpace     *)
(* (2^64 in the code); only the slot index wraps at SlotCount.  A slot is  *)
(* a header and a data part written one after the other, so a torn read    *)
(* shows as a header and data that belong to different messages.           *)
(*                                                                         *)
(* The Acquire loads and Release stores of head and tail order the slot    *)
(* accesses around them; the model therefore interleaves whole accesses.   *)
(***************************************************************************)
EXTENDS Integers, Sequences

CONSTANTS Producers,   \* threads that call try_push
          Consumers,   \* threads that call try_pop / try_peek
          Msg,         \* messages
          NoMsg,       \* content of a slot nobody wrote yet
          SlotCount,   \* slots of the ring (a power of two in the code)
          IndexSpace,  \* how many values an index has (2^64 in the code)
          MaxPush      \* bound on the number of messages pushed

ASSUME RingAssumption ==
    /\ SlotCount \in Nat /\ SlotCount >= 2
    /\ IndexSpace \in Nat /\ IndexSpace > SlotCount
    /\ IndexSpace % SlotCount = 0
    /\ MaxPush \in Nat
    /\ NoMsg \notin Msg

VARIABLES head,    \* producer index in the ring header
          tail,    \* consumer index in the ring header
          slots,   \* the slot array
          push,    \* per producer: where it is in try_push, and its registers
          pop,     \* per consumer: where it is in try_pop / try_peek
          sent,    \* history: messages published
          rcvd     \* history: slots consumed, as they were read

vars == <<head, tail, slots, push, pop, sent, rcvd>>

Index == 0 .. IndexSpace - 1
Slot  == 0 .. SlotCount - 1
Cell  == [hdr : Msg \cup {NoMsg}, data : Msg \cup {NoMsg}]

PushPc == {"idle", "check", "header", "data", "publish"}
PopPc  == {"idle", "check", "header", "data", "release"}

\* Mutation of WrappingInc: an addition that does not wrap.
WrappingIncPlain(i) == i + 1

\* u64::wrapping_add(1) and u64::wrapping_sub.
WrappingInc(i) == (i + 1) % IndexSpace
WrappingSub(i, j) == (i - j) % IndexSpace

\* index & mask.
SlotOf(i) == i % SlotCount

\* How many messages were published and released since the ring was created.
Pushed == Len(sent)
Popped == Len(rcvd)

Whole(m) == [hdr |-> m, data |-> m]

\* Ring::create: both indices are 0, the mapping is zeroed.
Init ==
    /\ head = 0
    /\ tail = 0
    /\ slots = [s \in Slot |-> Whole(NoMsg)]
    /\ push = [p \in Producers |-> [pc |-> "idle", head |-> 0, msg |-> NoMsg]]
    /\ pop = [c \in Consumers |->
                [pc |-> "idle", tail |-> 0, hdr |-> NoMsg, data |-> NoMsg]]
    /\ sent = <<>>
    /\ rcvd = <<>>

-----------------------------------------------------------------------------
(* try_push *)

\* The producer loads head (Relaxed).
PushBegin(p, m) ==
    /\ push[p].pc = "idle"
    /\ Pushed < MaxPush
    /\ push' = [push EXCEPT ![p] = [pc |-> "check", head |-> head, msg |-> m]]
    /\ UNCHANGED <<head, tail, slots, pop, sent, rcvd>>

\* Mutation of RoomAt: the indices are compared without wrapping.
RoomAtUnwrapped(i) == i < tail + SlotCount

RoomAt(i) == WrappingSub(i, tail) < SlotCount

\* It loads tail (Acquire); a full ring ends the call with RingError::Full.
PushCheck(p) ==
    /\ push[p].pc = "check"
    /\ push' = [push EXCEPT ![p].pc =
                   IF RoomAt(push[p].head) THEN "header" ELSE "idle"]
    /\ UNCHANGED <<head, tail, slots, pop, sent, rcvd>>

\* Mutation of PushHeader: head is published before the slot is filled.
PushHeaderPublished(p) ==
    /\ push[p].pc = "header"
    /\ slots' = [slots EXCEPT ![SlotOf(push[p].head)].hdr = push[p].msg]
    /\ head' = WrappingInc(push[p].head)
    /\ push' = [push EXCEPT ![p].pc = "data"]
    /\ UNCHANGED <<tail, pop, sent, rcvd>>

\* The header is written, then the data is copied.
PushHeader(p) ==
    /\ push[p].pc = "header"
    /\ slots' = [slots EXCEPT ![SlotOf(push[p].head)].hdr = push[p].msg]
    /\ push' = [push EXCEPT ![p].pc = "data"]
    /\ UNCHANGED <<head, tail, pop, sent, rcvd>>

PushData(p) ==
    /\ push[p].pc = "data"
    /\ slots' = [slots EXCEPT ![SlotOf(push[p].head)].data = push[p].msg]
    /\ push' = [push EXCEPT ![p].pc = "publish"]
    /\ UNCHANGED <<head, tail, pop, sent, rcvd>>

\* The new head is stored (Release): the message is visible.
PushPublish(p) ==
    /\ push[p].pc = "publish"
    /\ head' = WrappingInc(push[p].head)
    /\ sent' = Append(sent, Whole(push[p].msg))
    /\ push' = [push EXCEPT ![p].pc = "idle"]
    /\ UNCHANGED <<tail, slots, pop, rcvd>>

-----------------------------------------------------------------------------
(* try_pop, and try_peek followed by commit_peek *)

\* The consumer loads tail (Relaxed).
PopBegin(c) ==
    /\ pop[c].pc = "idle"
    /\ pop' = [pop EXCEPT ![c].pc = "check", ![c].tail = tail]
    /\ UNCHANGED <<head, tail, slots, push, sent, rcvd>>

Available(i) == head # i

\* It loads head (Acquire); equal indices end the call with RingError::Empty.
PopCheck(c) ==
    /\ pop[c].pc = "check"
    /\ pop' = [pop EXCEPT ![c].pc =
                  IF Available(pop[c].tail) THEN "header" ELSE "idle"]
    /\ UNCHANGED <<head, tail, slots, push, sent, rcvd>>

\* The header is read, then the data (a peek borrows it instead).
PopHeader(c) ==
    /\ pop[c].pc = "header"
    /\ pop' = [pop EXCEPT ![c].pc = "data",
                          ![c].hdr = slots[SlotOf(pop[c].tail)].hdr]
    /\ UNCHANGED <<head, tail, slots, push, sent, rcvd>>

\* Mutation of PopData: the slot is given back before its data is copied out.
PopDataReleased(c) ==
    /\ pop[c].pc = "data"
    /\ tail' = WrappingInc(pop[c].tail)
    /\ pop' = [pop EXCEPT ![c].pc = "release",
                          ![c].data = slots[SlotOf(pop[c].tail)].data]
    /\ UNCHANGED <<head, slots, push, sent, rcvd>>

PopData(c) ==
    /\ pop[c].pc = "data"
    /\ pop' = [pop EXCEPT ![c].pc = "release",
                          ![c].data = slots[SlotOf(pop[c].tail)].data]
    /\ UNCHANGED <<head, tail, slots, push, sent, rcvd>>

Delivered(c) == [hdr |-> pop[c].hdr, data |-> pop[c].data]

\* try_pop stores the tail it loaded, plus one (Release).
PopRelease(c) ==
    /\ pop[c].pc = "release"
    /\ tail' = WrappingInc(pop[c].tail)
    /\ rcvd' = Append(rcvd, Delivered(c))
    /\ pop' = [pop EXCEPT ![c].pc = "idle"]
    /\ UNCHANGED <<head, slots, push, sent>>

\* commit_peek loads tail again and stores it plus one.
CommitPeek(c) ==
    /\ pop[c].pc = "release"
    /\ tail' = WrappingInc(tail)
    /\ rcvd' = Append(rcvd, Delivered(c))
    /\ pop' = [pop EXCEPT ![c].pc = "idle"]
    /\ UNCHANGED <<head, slots, push, sent>>

\* A peek that is never committed leaves the message in the ring.
DropPeek(c) ==
    /\ pop[c].pc \in {"data", "release"}
    /\ pop' = [pop EXCEPT ![c].pc = "idle"]
    /\ UNCHANGED <<head, tail, slots, push, sent, rcvd>>

-----------------------------------------------------------------------------
PushStep(p) ==
    \/ \E m \in Msg : PushBegin(p, m)
    \/ PushCheck(p) \/ PushHeader(p) \/ PushData(p) \/ PushPublish(p)

PopStep(c) ==
    \/ PopBegin(c) \/ PopCheck(c) \/ PopHeader(c) \/ PopData(c)
    \/ PopRelease(c) \/ CommitPeek(c) \/ DropPeek(c)

Next ==
    \/ \E p \in Producers : PushStep(p)
    \/ \E c \in Consumers : PopStep(c)

Spec == Init /\ [][Next]_vars

-----------------------------------------------------------------------------
(* Properties *)

\* The indices stay within their width, every slot and register holds messages.
TypeOK ==
    /\ head \in Index
    /\ tail \in Index
    /\ slots \in [Slot -> Cell]
    /\ push \in [Producers ->
                   [pc : PushPc, head : Index, msg : Msg \cup {NoMsg}]]
    /\ pop \in [Consumers ->
                  [pc : PopPc, tail : Index,
                   hdr : Msg \cup {NoMsg}, data : Msg \cup {NoMsg}]]
    /\ sent \in Seq(Cell)
    /\ rcvd \in Seq(Cell)

Writing(p) == push[p].pc \in {"header", "data", "publish"}
Reading(c) == pop[c].pc \in {"header", "data", "release"}

\* No slot is ever accessed by a writer and by anyone else at the same time:
\* a slot being filled by try_push is neither read by try_pop or a borrowed
\* peek nor filled by another try_push.  This is what makes the unsynchronised
\* ptr::read / ptr::write of ring.rs free of data races.
NoDataRace ==
    /\ \A p \in Producers, c \in Consumers :
          Writing(p) /\ Reading(c) => SlotOf(push[p].head) # SlotOf(pop[c].tail)
    /\ \A p, q \in Producers :
          p # q /\ Writing(p) /\ Writing(q) =>
              SlotOf(push[p].head) # SlotOf(push[q].head)

FifoQueue == INSTANCE Fifo WITH Msg <- Cell, Capacity <- SlotCount

\* The ring is a bounded FIFO queue: nothing try_push published is lost,
\* duplicated, torn or overtaken, and at most SlotCount messages are pending.
IsFifo == FifoQueue!Spec

-----------------------------------------------------------------------------
(* The inductive invariant behind them, for one producer and one consumer *)

OnePerSide ==
    /\ \A p, q \in Producers : p = q
    /\ \A c, d \in Consumers : c = d

IndicesCount ==
    /\ head = Pushed % IndexSpace
    /\ tail = Popped % IndexSpace
    /\ Popped <= Pushed
    /\ Pushed - Popped <= SlotCount

ProducerOwnsNext ==
    \A p \in Producers :
        /\ push[p].pc # "idle" => push[p].head = head
        /\ Writing(p) => Pushed - Popped < SlotCount
        /\ push[p].pc \in {"data", "publish"} =>
              slots[SlotOf(Pushed)].hdr = push[p].msg
        /\ push[p].pc = "publish" => slots[SlotOf(Pushed)].data = push[p].msg

ConsumerOwnsOldest ==
    \A c \in Consumers :
        /\ pop[c].pc # "idle" => pop[c].tail = tail
        /\ Reading(c) => Popped < Pushed
        /\ pop[c].pc \in {"data", "release"} => pop[c].hdr = sent[Popped + 1].hdr
        /\ pop[c].pc = "release" => pop[c].data = sent[Popped + 1].data

\* The messages between tail and head are intact in their slots, although the
\* indices wrap at other points than the slot numbers.
PendingInSlots ==
    \A k \in Popped .. Pushed - 1 : slots[SlotOf(k)] = sent[k + 1]

\* Everything the consumer has is what the producer sent, in that order.
DeliveredInOrder == \A k \in 1 .. Popped : rcvd[k] = sent[k]

\* What try_push published stays readable, whole and in order, until try_pop
\* or commit_peek has released it, across the wrap of indices and slots; each
\* side owns the slot it works on.
RingInv ==
    /\ TypeOK
    /\ IndicesCount
    /\ ProducerOwnsNext
    /\ ConsumerOwnsOldest
    /\ PendingInSlots
    /\ DeliveredInOrder
=============================================================================
