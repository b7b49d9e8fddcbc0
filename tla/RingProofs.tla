----------------------------- MODULE RingProofs -----------------------------
(***************************************************************************)
(* With one producer and one consumer, the ring of ring.rs is a bounded    *)
(* FIFO queue and its slot accesses never race, for every slot count,      *)
(* every index width that is a multiple of it, and any number of messages. *)
(***************************************************************************)
EXTENDS Ring, TLAPS

-----------------------------------------------------------------------------
(* Arithmetic of wrapping indices *)

\* Quotient and remainder of a natural number.
LEMMA DivMod ==
    ASSUME NEW x \in Int, NEW d \in Nat, d > 0
    PROVE  /\ x \div d \in Int
           /\ x % d \in 0 .. d - 1
           /\ x = d * (x \div d) + (x % d)
  OBVIOUS

\* A multiple of d smaller than d in absolute value is 0.
LEMMA SmallMultiple ==
    ASSUME NEW d \in Nat, d > 0, NEW z \in Int, d * z < d, -d < d * z
    PROVE  z = 0
  <1>1. CASE z >= 1
    <2>1. d * z >= d * 1
      BY <1>1, SMT
    <2> QED
      BY <2>1, SMT
  <1>2. CASE z <= -1
    <2>1. d * z <= d * (-1)
      BY <1>2, SMT
    <2> QED
      BY <2>1, SMT
  <1> QED
    BY <1>1, <1>2

\* The remainder is the only number in 0 .. d-1 that differs from x by a
\* multiple of d.
LEMMA ModUnique ==
    ASSUME NEW x \in Int, NEW d \in Nat, d > 0,
           NEW q \in Int, NEW r \in 0 .. d - 1, x = d * q + r
    PROVE  x % d = r
  <1> DEFINE z == x \div d - q
  <1>1. /\ x \div d \in Int
        /\ x % d \in 0 .. d - 1
        /\ x = d * (x \div d) + (x % d)
    BY DivMod
  <1>2. z \in Int
    BY <1>1
  <1>3. d * z = r - (x % d)
    BY <1>1, SMT
  <1>4. d * z < d /\ -d < d * z
    BY <1>1, <1>3
  <1>5. z = 0
    BY <1>2, <1>4, SmallMultiple
  <1> QED
    BY <1>1, <1>3, <1>5, SMT

\* Numbers at a distance below d have different remainders.
LEMMA ModDistinct ==
    ASSUME NEW x \in Int, NEW y \in Int, NEW d \in Nat, d > 0,
           x < y, y - x < d
    PROVE  x % d # y % d
  <1> SUFFICES ASSUME x % d = y % d
               PROVE  FALSE
    OBVIOUS
  <1> DEFINE z == y \div d - x \div d
  <1>1. /\ x \div d \in Int /\ y \div d \in Int
        /\ x = d * (x \div d) + (x % d)
        /\ y = d * (y \div d) + (y % d)
        /\ x % d \in Int
    BY DivMod
  <1>2. z \in Int /\ d * z = y - x
    BY <1>1, SMT
  <1>3. z = 0
    BY <1>2, SmallMultiple, SMT
  <1> QED
    BY <1>2, <1>3, SMT

\* Incrementing commutes with taking the remainder.
LEMMA ModInc ==
    ASSUME NEW x \in Int, NEW d \in Nat, d > 0
    PROVE  ((x % d) + 1) % d = (x + 1) % d
  <1> DEFINE q == x \div d
             r == (x + 1) % d
             s == (x + 1) \div d
  <1>1. q \in Int /\ x % d \in Int /\ x = d * q + (x % d)
    BY DivMod
  <1>2. s \in Int /\ r \in 0 .. d - 1 /\ x + 1 = d * s + r
    BY DivMod
  <1> DEFINE y == (x % d) + 1
             t == s - q
  <1>3. y \in Int /\ t \in Int /\ y = d * t + r
    BY <1>1, <1>2, SMT
  <1> HIDE DEF q, r, s, t, y
  <1>4. y % d = r
    BY <1>2, <1>3, ModUnique
  <1> QED
    BY <1>4 DEF r, y

\* The wrapping difference of two wrapped numbers is their difference, as
\* long as that is smaller than the index space.
LEMMA ModSub ==
    ASSUME NEW x \in Int, NEW y \in Int, NEW d \in Nat, d > 0,
           x - y \in 0 .. d - 1
    PROVE  ((x % d) - (y % d)) % d = x - y
  <1> DEFINE q == x \div d
             s == y \div d
  <1>1. /\ q \in Int /\ x % d \in Int /\ x = d * q + (x % d)
        /\ s \in Int /\ y % d \in Int /\ y = d * s + (y % d)
    BY DivMod
  <1> DEFINE u == (x % d) - (y % d)
             t == s - q
             r == x - y
  <1>2. u \in Int /\ t \in Int /\ r \in 0 .. d - 1 /\ u = d * t + r
    BY <1>1, SMT
  <1> HIDE DEF q, s, u, t, r
  <1>3. u % d = r
    BY <1>2, ModUnique
  <1> QED
    BY <1>3 DEF u, r

\* Taking the remainder by a multiple of d first does not change the
\* remainder by d.
LEMMA ModMod ==
    ASSUME NEW x \in Int, NEW d \in Nat, d > 0,
           NEW m \in Nat, m > 0, m % d = 0
    PROVE  (x % m) % d = x % d
  <1> DEFINE k == m \div d
             q == x \div m
             s == x \div d
             r == x % d
  <1>1. k \in Int /\ m = d * k
    BY DivMod
  <1>2. q \in Int /\ x % m \in Int /\ x = m * q + (x % m)
    BY DivMod
  <1>3. s \in Int /\ r \in 0 .. d - 1 /\ x = d * s + r
    BY DivMod
  <1> HIDE DEF k, q, s, r
  <1>4. x % m = d * (s - k * q) + r
    <2>1. m * q = d * (k * q)
      BY <1>1, <1>2, SMT
    <2>2. d * (s - k * q) = d * s - d * (k * q)
      BY <1>1, <1>2, <1>3, SMT
    <2> QED
      BY <1>2, <1>3, <2>1, <2>2, SMT
  <1> DEFINE y == x % m
             t == s - k * q
  <1>5. y \in Int /\ t \in Int /\ y = d * t + r
    BY <1>1, <1>2, <1>3, <1>4
  <1> HIDE DEF y, t
  <1>6. y % d = r
    BY <1>3, <1>5, ModUnique
  <1> QED
    BY <1>6 DEF r, y

-----------------------------------------------------------------------------
(* The invariant *)

\* What the wrapped indices of the code stand for, in terms of the counts.
LEMMA IndexFacts ==
    ASSUME TypeOK, IndicesCount
    PROVE  /\ Pushed \in Nat /\ Popped \in Nat
           /\ SlotOf(head) = SlotOf(Pushed) /\ SlotOf(Pushed) \in Slot
           /\ SlotOf(tail) = SlotOf(Popped) /\ SlotOf(Popped) \in Slot
           /\ WrappingInc(head) = (Pushed + 1) % IndexSpace
           /\ WrappingInc(tail) = (Popped + 1) % IndexSpace
           /\ WrappingInc(head) \in Index /\ WrappingInc(tail) \in Index
           /\ WrappingSub(head, tail) = Pushed - Popped
  <1>1. Pushed \in Nat /\ Popped \in Nat
    BY DEF TypeOK, Pushed, Popped
  <1>2. SlotOf(head) = SlotOf(Pushed) /\ SlotOf(Pushed) \in Slot
    BY <1>1, RingAssumption, ModMod, DivMod DEF IndicesCount, SlotOf, Slot
  <1>3. SlotOf(tail) = SlotOf(Popped) /\ SlotOf(Popped) \in Slot
    BY <1>1, RingAssumption, ModMod, DivMod DEF IndicesCount, SlotOf, Slot
  <1>4. /\ WrappingInc(head) = (Pushed + 1) % IndexSpace
        /\ WrappingInc(tail) = (Popped + 1) % IndexSpace
    BY <1>1, RingAssumption, ModInc DEF IndicesCount, WrappingInc
  <1>5. WrappingInc(head) \in Index /\ WrappingInc(tail) \in Index
    <2>1. head + 1 \in Int /\ tail + 1 \in Int
      BY RingAssumption DEF TypeOK, Index
    <2> QED
      BY <2>1, RingAssumption, DivMod DEF WrappingInc, Index
  <1>6. WrappingSub(head, tail) = Pushed - Popped
    <2>1. Pushed - Popped \in 0 .. IndexSpace - 1
      BY <1>1, RingAssumption DEF IndicesCount
    <2>2. IndexSpace > 0 /\ IndexSpace \in Nat
      BY RingAssumption
    <2>3. ((Pushed % IndexSpace) - (Popped % IndexSpace)) % IndexSpace
             = Pushed - Popped
      BY <1>1, <2>1, <2>2, ModSub
    <2> QED
      BY <2>3 DEF IndicesCount, WrappingSub
  <1> QED
    BY <1>1, <1>2, <1>3, <1>4, <1>5, <1>6

\* The slot the producer fills is not one of the pending ones.
LEMMA NextSlotFree ==
    ASSUME TypeOK, IndicesCount, Pushed - Popped < SlotCount,
           NEW k \in Popped .. Pushed - 1
    PROVE  SlotOf(k) # SlotOf(Pushed)
  <1>1. Pushed \in Nat /\ Popped \in Nat
    BY DEF TypeOK, Pushed, Popped
  <1>2. k \in Int /\ k < Pushed /\ Pushed - k < SlotCount
    BY <1>1, RingAssumption
  <1> QED
    BY <1>1, <1>2, RingAssumption, ModDistinct DEF SlotOf

\* The empty ring.
LEMMA InitInv == Init => RingInv
  <1> SUFFICES ASSUME Init PROVE RingInv
    OBVIOUS
  <1> USE RingAssumption DEF Init, Pushed, Popped
  <1>1. TypeOK
    BY DEF TypeOK, Index, Slot, Cell, PushPc, PopPc, Whole
  <1>2. IndicesCount
    <2>1. 0 % IndexSpace = 0
      BY SMT
    <2> QED
      BY <2>1 DEF IndicesCount
  <1>3. ProducerOwnsNext /\ ConsumerOwnsOldest
    BY DEF ProducerOwnsNext, ConsumerOwnsOldest, Writing, Reading
  <1>4. PendingInSlots /\ DeliveredInOrder
    BY DEF PendingInSlots, DeliveredInOrder
  <1> QED
    BY <1>1, <1>2, <1>3, <1>4 DEF RingInv

\* Every step of the producer keeps the invariant.
LEMMA PushKeepsInv ==
    ASSUME RingInv, OnePerSide, NEW p \in Producers, PushStep(p)
    PROVE  RingInv'
  <1> USE DEF RingInv
  <1>0. /\ Pushed \in Nat /\ Popped \in Nat
        /\ SlotOf(head) = SlotOf(Pushed) /\ SlotOf(Pushed) \in Slot
        /\ WrappingInc(head) = (Pushed + 1) % IndexSpace
        /\ WrappingInc(head) \in Index
        /\ WrappingSub(head, tail) = Pushed - Popped
    BY IndexFacts
  <1>sole. \A q \in Producers : q = p
    BY DEF OnePerSide
  <1>1. CASE \E m \in Msg : PushBegin(p, m)
    <2> PICK m \in Msg : PushBegin(p, m)
      BY <1>1
    <2> USE DEF PushBegin, Pushed, Popped
    <2>1. TypeOK'
      BY DEF TypeOK, PushPc
    <2>2. IndicesCount' /\ PendingInSlots' /\ DeliveredInOrder'
      BY DEF IndicesCount, PendingInSlots, DeliveredInOrder
    <2>3. ProducerOwnsNext'
      BY <1>sole DEF TypeOK, ProducerOwnsNext, Writing
    <2>4. ConsumerOwnsOldest'
      BY DEF ConsumerOwnsOldest, Reading
    <2> QED
      BY <2>1, <2>2, <2>3, <2>4
  <1>2. CASE PushCheck(p)
    <2> USE <1>2 DEF PushCheck, Pushed, Popped
    <2>1. TypeOK'
      BY DEF TypeOK, PushPc
    <2>2. IndicesCount' /\ PendingInSlots' /\ DeliveredInOrder'
      BY DEF IndicesCount, PendingInSlots, DeliveredInOrder
    <2>3. ProducerOwnsNext'
      <3>1. push[p].head = head
        BY DEF ProducerOwnsNext
      <3>2. RoomAt(push[p].head) => Pushed - Popped < SlotCount
        BY <1>0, <3>1 DEF RoomAt
      <3> QED
        BY <1>sole, <3>1, <3>2 DEF TypeOK, ProducerOwnsNext, Writing
    <2>4. ConsumerOwnsOldest'
      BY DEF ConsumerOwnsOldest, Reading
    <2> QED
      BY <2>1, <2>2, <2>3, <2>4
  <1>3. CASE PushHeader(p) \/ PushData(p)
    <2> DEFINE s == SlotOf(Pushed)
    <2>own. /\ push[p].head = head /\ Pushed - Popped < SlotCount
            /\ SlotOf(push[p].head) = s /\ s \in Slot
      BY <1>0, <1>3 DEF ProducerOwnsNext, Writing, PushHeader, PushData
    <2>eff. /\ UNCHANGED <<head, tail, pop, sent, rcvd>>
            /\ UNCHANGED <<Pushed, Popped>>
      BY <1>3 DEF PushHeader, PushData, Pushed, Popped
    <2>cell. /\ slots' \in [Slot -> Cell]
             /\ \A t \in Slot \ {s} : slots'[t] = slots[t]
             /\ PushHeader(p) => slots'[s].hdr = push[p].msg
             /\ PushData(p) => /\ slots'[s].hdr = slots[s].hdr
                               /\ slots'[s].data = push[p].msg
      <3>1. slots \in [Slot -> Cell] /\ push[p].msg \in Msg \cup {NoMsg}
        BY DEF TypeOK
      <3>2. CASE PushHeader(p)
        <4>1. slots' = [slots EXCEPT ![s] = [slots[s] EXCEPT !.hdr = push[p].msg]]
          BY <3>2, <2>own DEF PushHeader
        <4> HIDE DEF s
        <4>2. [slots[s] EXCEPT !.hdr = push[p].msg] \in Cell
          BY <3>1, <2>own DEF Cell
        <4>3. PushData(p) => FALSE
          BY <3>2 DEF PushHeader, PushData
        <4> QED
          BY <3>1, <2>own, <4>1, <4>2, <4>3 DEF Cell
      <3>3. CASE PushData(p)
        <4>1. slots' = [slots EXCEPT ![s] = [slots[s] EXCEPT !.data = push[p].msg]]
          BY <3>3, <2>own DEF PushData
        <4> HIDE DEF s
        <4>2. [slots[s] EXCEPT !.data = push[p].msg] \in Cell
          BY <3>1, <2>own DEF Cell
        <4>3. PushHeader(p) => FALSE
          BY <3>3 DEF PushHeader, PushData
        <4> QED
          BY <3>1, <2>own, <4>1, <4>2, <4>3 DEF Cell
      <3> QED
        BY <1>3, <3>2, <3>3
    <2>pc. /\ push' \in [Producers ->
                 [pc : PushPc, head : Index, msg : Msg \cup {NoMsg}]]
           /\ push'[p].head = push[p].head /\ push'[p].msg = push[p].msg
           /\ PushHeader(p) => push'[p].pc = "data"
           /\ PushData(p) => push[p].pc = "data" /\ push'[p].pc = "publish"
      <3>1. CASE PushHeader(p)
        BY <3>1 DEF TypeOK, PushPc, PushHeader, PushData
      <3>2. CASE PushData(p)
        BY <3>2 DEF TypeOK, PushPc, PushHeader, PushData
      <3> QED
        BY <1>3, <3>1, <3>2
    <2>1. TypeOK'
      BY <2>eff, <2>cell, <2>pc DEF TypeOK
    <2>2. IndicesCount' /\ DeliveredInOrder'
      BY <2>eff DEF IndicesCount, DeliveredInOrder
    <2>3. PendingInSlots'
      <3> SUFFICES ASSUME NEW k \in Popped .. Pushed - 1
                   PROVE  slots'[SlotOf(k)] = sent[k + 1]
        BY <2>eff DEF PendingInSlots
      <3>1. SlotOf(k) # s
        BY <2>own, NextSlotFree
      <3>2. SlotOf(k) \in Slot
        BY <1>0, RingAssumption, DivMod DEF SlotOf, Slot
      <3>3. slots'[SlotOf(k)] = slots[SlotOf(k)]
        BY <2>cell, <3>1, <3>2
      <3> QED
        BY <3>3 DEF PendingInSlots
    <2>4. ProducerOwnsNext'
      <3> SUFFICES ProducerOwnsNext!(p)'
        BY <1>sole DEF ProducerOwnsNext
      <3>1. ProducerOwnsNext!(p)
        BY DEF ProducerOwnsNext
      <3>2. (SlotOf(Pushed))' = s
        BY <2>eff DEF SlotOf
      <3> HIDE DEF s
      <3> QED
        BY <1>3, <2>own, <2>eff, <2>cell, <2>pc, <3>1, <3>2 DEF Writing, s
    <2>5. ConsumerOwnsOldest'
      BY <2>eff DEF ConsumerOwnsOldest, Reading
    <2> QED
      BY <2>1, <2>2, <2>3, <2>4, <2>5
  <1>4. CASE PushPublish(p)
    <2>own. /\ push[p].head = head /\ Pushed - Popped < SlotCount
            /\ slots[SlotOf(Pushed)].hdr = push[p].msg
            /\ slots[SlotOf(Pushed)].data = push[p].msg
      BY <1>4 DEF PushPublish, ProducerOwnsNext, Writing
    <2>eff. /\ head' = WrappingInc(head)
            /\ push' = [push EXCEPT ![p].pc = "idle"]
            /\ UNCHANGED <<tail, slots, pop, rcvd>>
      BY <1>4, <2>own DEF PushPublish
    <2>whole. Whole(push[p].msg) \in Cell
      BY DEF TypeOK, Whole, Cell
    <2>len. /\ sent' \in Seq(Cell)
            /\ Pushed' = Pushed + 1 /\ Popped' = Popped
            /\ sent'[Pushed + 1] = Whole(push[p].msg)
            /\ \A k \in 1 .. Pushed : sent'[k] = sent[k]
      BY <1>4, <2>whole DEF PushPublish, TypeOK, Pushed, Popped
    <2>1. TypeOK'
      BY <1>0, <2>eff, <2>len DEF TypeOK, PushPc
    <2>2. IndicesCount'
      BY <1>0, <2>own, <2>eff, <2>len, RingAssumption DEF IndicesCount
    <2>3. PendingInSlots'
      <3>1. ASSUME NEW k \in Popped .. Pushed
            PROVE  slots[SlotOf(k)] = sent'[k + 1]
        <4>1. CASE k = Pushed
          <5>1. slots[SlotOf(Pushed)] \in Cell
            BY <1>0 DEF TypeOK
          <5>2. slots[SlotOf(Pushed)] = Whole(push[p].msg)
            BY <2>own, <5>1 DEF Cell, Whole
          <5> QED
            BY <4>1, <5>2, <2>len
        <4>2. CASE k # Pushed
          <5>1. k \in Popped .. Pushed - 1 /\ k + 1 \in 1 .. Pushed
            BY <1>0, <4>2
          <5> QED
            BY <5>1, <2>len DEF PendingInSlots
        <4> QED
          BY <4>1, <4>2
      <3>2. (Popped .. Pushed - 1)' = Popped .. Pushed
        BY <1>0, <2>len
      <3> QED
        BY <2>eff, <3>1, <3>2 DEF PendingInSlots, SlotOf
    <2>4. ProducerOwnsNext'
      BY <1>sole, <2>eff DEF TypeOK, ProducerOwnsNext, Writing
    <2>5. ConsumerOwnsOldest'
      <3>1. ASSUME NEW c \in Consumers
            PROVE  ConsumerOwnsOldest!(c)'
        <4>1. ConsumerOwnsOldest!(c)
          BY DEF ConsumerOwnsOldest
        <4>2. Popped < Pushed => sent'[Popped + 1] = sent[Popped + 1]
          BY <1>0, <2>len
        <4> QED
          BY <1>0, <2>eff, <2>len, <4>1, <4>2 DEF Reading
      <3> QED
        BY <3>1 DEF ConsumerOwnsOldest
    <2>6. DeliveredInOrder'
      <3>1. \A k \in 1 .. Popped : k \in 1 .. Pushed
        BY <1>0 DEF IndicesCount
      <3> QED
        BY <2>eff, <2>len, <3>1 DEF DeliveredInOrder
    <2> QED
      BY <2>1, <2>2, <2>3, <2>4, <2>5, <2>6
  <1> QED
    BY <1>1, <1>2, <1>3, <1>4 DEF PushStep

\* Every step of the consumer keeps the invariant.
LEMMA PopKeepsInv ==
    ASSUME RingInv, OnePerSide, NEW c \in Consumers, PopStep(c)
    PROVE  RingInv'
  <1> USE DEF RingInv
  <1>0. /\ Pushed \in Nat /\ Popped \in Nat
        /\ SlotOf(tail) = SlotOf(Popped) /\ SlotOf(Popped) \in Slot
        /\ WrappingInc(tail) = (Popped + 1) % IndexSpace
        /\ WrappingInc(tail) \in Index
        /\ WrappingSub(head, tail) = Pushed - Popped
    BY IndexFacts
  <1>sole. \A d \in Consumers : d = c
    BY DEF OnePerSide
  <1>mine. ConsumerOwnsOldest!(c)
    BY DEF ConsumerOwnsOldest
  \* Steps that only move the consumer's registers.
  <1>1. CASE PopBegin(c) \/ PopCheck(c) \/ PopHeader(c) \/ PopData(c) \/ DropPeek(c)
    <2>eff. /\ UNCHANGED <<head, tail, slots, push, sent, rcvd>>
            /\ UNCHANGED <<Pushed, Popped>>
      BY <1>1 DEF PopBegin, PopCheck, PopHeader, PopData, DropPeek, Pushed, Popped
    <2>cell. Popped < Pushed =>
               /\ slots[SlotOf(Popped)] = sent[Popped + 1]
               /\ slots[SlotOf(Popped)] \in Cell
      BY <1>0 DEF PendingInSlots, TypeOK
    <2>reg. /\ pop' \in [Consumers ->
                  [pc : PopPc, tail : Index,
                   hdr : Msg \cup {NoMsg}, data : Msg \cup {NoMsg}]]
            /\ ConsumerOwnsOldest!(c)'
      <3>1. CASE PopBegin(c)
        BY <3>1, <2>eff DEF TypeOK, PopBegin, PopPc, Reading
      <3>2. CASE PopCheck(c)
        <4>1. head # tail => Popped < Pushed
          BY <1>0, RingAssumption DEF IndicesCount
        <4> QED
          BY <3>2, <4>1, <1>mine, <2>eff DEF TypeOK, PopCheck, PopPc, Reading, Available
      <3>3. CASE PopHeader(c)
        <4>1. pop[c].tail = tail /\ Popped < Pushed
          BY <3>3, <1>mine DEF PopHeader, Reading
        <4>2. slots[SlotOf(pop[c].tail)] = sent[Popped + 1]
          BY <1>0, <4>1, <2>cell
        <4>3. slots[SlotOf(pop[c].tail)].hdr \in Msg \cup {NoMsg}
          BY <1>0, <4>1, <2>cell DEF Cell
        <4> QED
          BY <3>3, <4>1, <4>2, <4>3, <2>eff DEF TypeOK, PopHeader, PopPc, Reading
      <3>4. CASE PopData(c)
        <4>1. pop[c].tail = tail /\ Popped < Pushed
          BY <3>4, <1>mine DEF PopData, Reading
        <4>2. slots[SlotOf(pop[c].tail)] = sent[Popped + 1]
          BY <1>0, <4>1, <2>cell
        <4>3. slots[SlotOf(pop[c].tail)].data \in Msg \cup {NoMsg}
          BY <1>0, <4>1, <2>cell DEF Cell
        <4> QED
          BY <3>4, <4>1, <4>2, <4>3, <1>mine, <2>eff DEF TypeOK, PopData, PopPc, Reading
      <3>5. CASE DropPeek(c)
        BY <3>5, <2>eff DEF TypeOK, DropPeek, PopPc, Reading
      <3> QED
        BY <1>1, <3>1, <3>2, <3>3, <3>4, <3>5
    <2>1. TypeOK'
      BY <2>eff, <2>reg DEF TypeOK
    <2>2. IndicesCount' /\ PendingInSlots' /\ DeliveredInOrder'
      BY <2>eff DEF IndicesCount, PendingInSlots, DeliveredInOrder
    <2>3. ProducerOwnsNext'
      BY <2>eff DEF ProducerOwnsNext, Writing
    <2>4. ConsumerOwnsOldest'
      BY <1>sole, <2>reg DEF ConsumerOwnsOldest
    <2> QED
      BY <2>1, <2>2, <2>3, <2>4
  \* Steps that give the slot back.
  <1>2. CASE PopRelease(c) \/ CommitPeek(c)
    <2>own. /\ pop[c].pc = "release" /\ pop[c].tail = tail /\ Popped < Pushed
            /\ pop[c].hdr = sent[Popped + 1].hdr
            /\ pop[c].data = sent[Popped + 1].data
      BY <1>2, <1>mine DEF PopRelease, CommitPeek, Reading
    <2>eff. /\ tail' = WrappingInc(tail)
            /\ rcvd' = Append(rcvd, Delivered(c))
            /\ pop' = [pop EXCEPT ![c].pc = "idle"]
            /\ UNCHANGED <<head, slots, push, sent>>
      BY <1>2, <2>own DEF PopRelease, CommitPeek
    <2>whole. Delivered(c) = sent[Popped + 1] /\ Delivered(c) \in Cell
      <3>1. sent[Popped + 1] \in Cell
        BY <1>0, <2>own DEF TypeOK, Pushed
      <3> QED
        BY <2>own, <3>1 DEF Delivered, Cell
    <2>len. /\ rcvd' \in Seq(Cell)
            /\ Popped' = Popped + 1 /\ Pushed' = Pushed
            /\ rcvd'[Popped + 1] = sent[Popped + 1]
            /\ \A k \in 1 .. Popped : rcvd'[k] = rcvd[k]
      BY <2>eff, <2>whole DEF TypeOK, Pushed, Popped
    <2>1. TypeOK'
      BY <1>0, <2>eff, <2>len DEF TypeOK, PopPc
    <2>2. IndicesCount'
      BY <1>0, <2>own, <2>eff, <2>len, RingAssumption DEF IndicesCount
    <2>3. PendingInSlots'
      <3>1. (Popped .. Pushed - 1)' = Popped + 1 .. Pushed - 1
        BY <2>len
      <3>2. \A k \in Popped + 1 .. Pushed - 1 : k \in Popped .. Pushed - 1
        BY <1>0
      <3> QED
        BY <2>eff, <3>1, <3>2 DEF PendingInSlots, SlotOf
    <2>4. ProducerOwnsNext'
      <3>1. ASSUME NEW p \in Producers
            PROVE  ProducerOwnsNext!(p)'
        <4>1. ProducerOwnsNext!(p)
          BY DEF ProducerOwnsNext
        <4>2. (SlotOf(Pushed))' = SlotOf(Pushed)
          BY <2>len DEF SlotOf
        <4> QED
          BY <1>0, <2>own, <2>eff, <2>len, <4>1, <4>2, RingAssumption DEF Writing
      <3> QED
        BY <3>1 DEF ProducerOwnsNext
    <2>5. ConsumerOwnsOldest'
      BY <1>sole, <2>eff DEF TypeOK, ConsumerOwnsOldest, Reading
    <2>6. DeliveredInOrder'
      <3>1. \A k \in 1 .. Popped + 1 : k = Popped + 1 \/ k \in 1 .. Popped
        BY <1>0
      <3> QED
        BY <2>eff, <2>len, <3>1 DEF DeliveredInOrder
    <2> QED
      BY <2>1, <2>2, <2>3, <2>4, <2>5, <2>6
  <1> QED
    BY <1>1, <1>2 DEF PopStep

-----------------------------------------------------------------------------
(* What follows from it *)

\* The invariant of the ring holds in every state, for every slot count and
\* index width, when each side has one thread (try_push, try_pop, try_peek).
THEOREM RingCorrect ==
    ASSUME OnePerSide
    PROVE  Spec => []RingInv
  <1>1. RingInv /\ [Next]_vars => RingInv'
    <2> SUFFICES ASSUME RingInv, [Next]_vars
                 PROVE  RingInv'
      OBVIOUS
    <2>1. CASE Next
      BY <2>1, PushKeepsInv, PopKeepsInv DEF Next
    <2>2. CASE UNCHANGED vars
      BY <2>2 DEF vars, RingInv, TypeOK, IndicesCount, ProducerOwnsNext,
                  ConsumerOwnsOldest, PendingInSlots, DeliveredInOrder,
                  Pushed, Popped, Writing, Reading
    <2> QED
      BY <2>1, <2>2
  <1> QED
    BY <1>1, InitInv, PTL DEF Spec

\* Type correctness of the indices, slots and registers of ring.rs.
THEOREM RingTypes ==
    ASSUME OnePerSide
    PROVE  Spec => []TypeOK
  <1>1. RingInv => TypeOK
    BY DEF RingInv
  <1> QED
    BY <1>1, RingCorrect, PTL

\* The raw slot accesses of try_push and of try_pop / try_peek never touch
\* the same slot at the same time.
THEOREM RingRaceFree ==
    ASSUME OnePerSide
    PROVE  Spec => []NoDataRace
  <1>1. RingInv => NoDataRace
    <2> SUFFICES ASSUME RingInv
                 PROVE  NoDataRace
      OBVIOUS
    <2> USE DEF RingInv
    <2>1. ASSUME NEW p \in Producers, NEW c \in Consumers,
                 Writing(p), Reading(c)
          PROVE  SlotOf(push[p].head) # SlotOf(pop[c].tail)
      <3>1. /\ push[p].head = head /\ Pushed - Popped < SlotCount
            /\ pop[c].tail = tail /\ Popped < Pushed
        BY <2>1 DEF ProducerOwnsNext, ConsumerOwnsOldest, Writing, Reading
      <3>2. /\ SlotOf(head) = SlotOf(Pushed) /\ SlotOf(tail) = SlotOf(Popped)
            /\ Pushed \in Nat /\ Popped \in Nat
        BY IndexFacts
      <3>3. Popped \in Popped .. Pushed - 1
        BY <3>1, <3>2
      <3>4. SlotOf(Popped) # SlotOf(Pushed)
        BY <3>1, <3>3, NextSlotFree
      <3> QED
        BY <3>1, <3>2, <3>4
    <2>2. \A p, q \in Producers : p = q
      BY DEF OnePerSide
    <2> QED
      BY <2>1, <2>2 DEF NoDataRace
  <1> QED
    BY <1>1, RingCorrect, PTL

\* The ring implements a bounded FIFO queue: publishing is a Put, releasing a
\* slot is a Get, and every other access is invisible.
THEOREM RingIsFifo ==
    ASSUME OnePerSide
    PROVE  Spec => IsFifo
  <1>1. Init => FifoQueue!Init
    BY DEF Init, FifoQueue!Init
  <1>2. RingInv /\ [Next]_vars => [FifoQueue!Next]_FifoQueue!vars
    <2> SUFFICES ASSUME RingInv, [Next]_vars
                 PROVE  [FifoQueue!Next]_FifoQueue!vars
      OBVIOUS
    <2> USE DEF RingInv
    <2>0. Pushed \in Nat /\ Popped \in Nat /\ FifoQueue!Pending = Pushed - Popped
      BY IndexFacts DEF FifoQueue!Pending, Pushed, Popped
    <2>1. ASSUME NEW p \in Producers, PushPublish(p)
          PROVE  FifoQueue!Put(Whole(push[p].msg)) /\ Whole(push[p].msg) \in Cell
      <3>1. Pushed - Popped < SlotCount
        BY <2>1 DEF PushPublish, ProducerOwnsNext, Writing
      <3>2. Whole(push[p].msg) \in Cell
        BY DEF TypeOK, Whole, Cell
      <3> QED
        BY <2>0, <2>1, <3>1, <3>2 DEF PushPublish, FifoQueue!Put
    <2>2. ASSUME NEW c \in Consumers, PopRelease(c) \/ CommitPeek(c)
          PROVE  FifoQueue!Get
      <3>1. /\ Popped < Pushed
            /\ pop[c].hdr = sent[Popped + 1].hdr
            /\ pop[c].data = sent[Popped + 1].data
        BY <2>2 DEF PopRelease, CommitPeek, ConsumerOwnsOldest, Reading
      <3>2. sent[Popped + 1] \in Cell
        BY <2>0, <3>1 DEF TypeOK, Pushed
      <3>3. Delivered(c) = sent[Len(rcvd) + 1]
        BY <3>1, <3>2 DEF Delivered, Cell, Popped
      <3> QED
        BY <2>0, <2>2, <3>1, <3>3 DEF PopRelease, CommitPeek, FifoQueue!Get
    <2>3. ASSUME NEW p \in Producers, PushStep(p), ~PushPublish(p)
          PROVE  UNCHANGED <<sent, rcvd>>
      BY <2>3 DEF PushStep, PushBegin, PushCheck, PushHeader, PushData
    <2>4. ASSUME NEW c \in Consumers, PopStep(c), ~PopRelease(c), ~CommitPeek(c)
          PROVE  UNCHANGED <<sent, rcvd>>
      BY <2>4 DEF PopStep, PopBegin, PopCheck, PopHeader, PopData, DropPeek
    <2>5. CASE Next
      BY <2>1, <2>2, <2>3, <2>4, <2>5 DEF Next, FifoQueue!Next, FifoQueue!vars
    <2>6. CASE UNCHANGED vars
      BY <2>6 DEF vars, FifoQueue!vars
    <2> QED
      BY <2>5, <2>6
  <1> QED
    BY <1>1, <1>2, RingCorrect, PTL DEF Spec, IsFifo, FifoQueue!Spec
=============================================================================
