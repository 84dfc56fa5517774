\* The shipped proportions (LOGSIZE = 3 * MAXOPBLOCKS, nlog = LOGSIZE), scaled down.
CONSTANTS
    Proc = {p1, p2, p3}
    Block = {a, b, c}
    Val = {v}
    NotCached = NotCached
    MAXOPBLOCKS = 1
    LOGSIZE = 3
    nlog = 3
    AfterLog = a
    OpBlocks = 1
SPECIFICATION Spec
INVARIANT LogWithinRegion
SYMMETRY Symmetry
