\* One calling thread, two calls: the reply to the first comes after its deadline.
CONSTANTS
    Threads = {t1}
    SlotCount = 2
    CorrSpace = 8
    MaxFrag = 2
    MaxCalls = 2
SPECIFICATION FairSpec
INVARIANT MatchingReply
CHECK_DEADLOCK FALSE
