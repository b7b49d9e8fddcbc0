--------------------------- MODULE ChannelProofs ---------------------------
(* No wake-up is lost, for every ring size and number of messages.         *)
EXTENDS Channel, TLAPS

\* The wake-up invariant of post and park holds in every state.
THEOREM WakeCorrect == Spec => []WakeInv
  <1> USE ChannelAssumption DEF WakeInv, TypeOK, NoLostWake, PostIsSeen,
                                Pending, TxPc, RxPc
  <1>1. Init => WakeInv
    BY DEF Init
  <1>2. WakeInv /\ [Next]_vars => WakeInv'
    <2> SUFFICES ASSUME WakeInv, [Next]_vars
                 PROVE  WakeInv'
      OBVIOUS
    <2>1. CASE Push
      BY <2>1 DEF Push
    <2>2. CASE Post
      BY <2>2 DEF Post
    <2>3. CASE Wake
      BY <2>3 DEF Wake
    <2>4. CASE TryRecv
      BY <2>4 DEF TryRecv
    <2>5. CASE Park
      BY <2>5 DEF Park
    <2>6. CASE WaitOnAddress
      BY <2>6 DEF WaitOnAddress
    <2>7. CASE WaitTimeout \/ SpuriousWake \/ WaitError \/ LeaveLoop
      BY <2>7 DEF WaitTimeout, SpuriousWake, WaitError, LeaveLoop
    <2>8. CASE Reset
      BY <2>8 DEF Reset
    <2>9. CASE Retry
      BY <2>9 DEF Retry
    <2>10. CASE UNCHANGED vars
      BY <2>10 DEF vars
    <2> QED
      BY <2>1, <2>2, <2>3, <2>4, <2>5, <2>6, <2>7, <2>8, <2>9, <2>10
         DEF Next, Receiver
  <1> QED
    BY <1>1, <1>2, PTL DEF Spec

\* The receiver never sleeps over a message that nobody is about to announce.
THEOREM WakeNotLost == Spec => []NoLostWake
  <1>1. WakeInv => NoLostWake
    BY DEF WakeInv
  <1> QED
    BY <1>1, WakeCorrect, PTL
=============================================================================
