\* Two slots and four messages: the ring fills, empties and wraps.  The system
\* may stop: the receive loop was left and the messages are used up.
CONSTANTS
    SlotCount = 2
    MaxSend = 4
SPECIFICATION FairSpec
INVARIANT WakeInv
PROPERTY EveryMessageReceived
CHECK_DEADLOCK FALSE
