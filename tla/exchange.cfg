\* One calling thread, four calls, rings of two slots, replies of up to two
\* fragments.  The system may stop: the daemon has exited, the calls are used up.
CONSTANTS
    Threads = {t1}
    SlotCount = 2
    CorrSpace = 8
    MaxFrag = 2
    MaxCalls = 4
SPECIFICATION FairSpec
INVARIANT OwnWholeAnswer
INVARIANT OwnStatus
PROPERTY StopEndsDaemon
CHECK_DEADLOCK FALSE
