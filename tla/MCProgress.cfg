SPECIFICATION PartsSpec
CONSTANTS
    t1 = t1
    t2 = t2
    t3 = t3
    t4 = t4
    Threads <- MCThreads
    Ids <- MCThreads
    IdOf <- MCIdOf
    MaxCalls = 6
INVARIANTS MutualExclusion FirstComeFirstServed
PROPERTY EverythingEnds
CHECK_DEADLOCK FALSE
