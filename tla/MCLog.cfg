\* Three blocks for a log of two slots: groups, absorption, waits for space, crashes.
CONSTANTS
    Proc = {p1, p2}
    Block = {a, b, c}
    Val = {v, w}
    NotCached = NotCached
    MAXOPBLOCKS = 1
    LOGSIZE = 2
    nlog = 3
    AfterLog = a
    OpBlocks = 1
SPECIFICATION FairSpec
INVARIANTS LogFits SleepersHaveWaker
PROPERTIES CrashAtomic SleepersWake
