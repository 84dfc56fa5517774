\* Four slots, two processors, slots and channels reused. The bounds of the other
\* parts are in MCUser.
CONSTANTS
    NPROC = 4
    NCPU = 2
    MaxPid = 5
    KillZero = FALSE
SPECIFICATION MCSpec
INVARIANTS FamiliesSound HeapSound Wired Ordered NoStandoff InputInOrder  SessionRestores
PROPERTY StartsUnmarked
