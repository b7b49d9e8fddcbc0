-------------------------------- MODULE Fifo --------------------------------
(***************************************************************************)
(* What one direction of the netstack channel promises its users: a        *)
(* bounded queue that hands every message to the other side exactly once,  *)
(* whole and in the order it was sent.  The queue is described by the two  *)
(* histories at its ends; its content is the part of sent beyond rcvd.     *)
(***************************************************************************)
EXTENDS Naturals, Sequences

CONSTANTS Msg,       \* the messages that can be sent
          Capacity   \* how many messages may be pending

VARIABLES sent,      \* every message accepted so far, in order
          rcvd       \* every message delivered so far, in order

vars == <<sent, rcvd>>

Pending == Len(sent) - Len(rcvd)

Init == sent = <<>> /\ rcvd = <<>>

\* A message is accepted while there is room.
Put(m) ==
    /\ Pending < Capacity
    /\ sent' = Append(sent, m)
    /\ UNCHANGED rcvd

\* The oldest message that was not delivered yet is delivered.
Get ==
    /\ Pending > 0
    /\ rcvd' = Append(rcvd, sent[Len(rcvd) + 1])
    /\ UNCHANGED sent

Next == Get \/ \E m \in Msg : Put(m)

Spec == Init /\ [][Next]_vars
=============================================================================
