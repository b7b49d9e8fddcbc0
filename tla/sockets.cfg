\* Five calls of one thread, rings of two slots.  The system may stop: the calls
\* are used up.
CONSTANTS
    SlotCount = 2
    MaxCalls = 5
    None = None
SPECIFICATION Spec
INVARIANT TableInv
INVARIANT HandleReachesOwn
INVARIANT LeakOnlyByFailure
PROPERTY RequestReachesOwn
CHECK_DEADLOCK FALSE
