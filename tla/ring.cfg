\* Two slots, indices modulo 4: both the slot number and the index wrap.
CONSTANTS
    Producers = {p1}
    Consumers = {c1}
    Msg = {a, b}
    NoMsg = NoMsg
    SlotCount = 2
    IndexSpace = 4
    MaxPush = 5
SPECIFICATION Spec
INVARIANT TypeOK
INVARIANT NoDataRace
INVARIANT RingInv
PROPERTY IsFifo
