\* What filewrite() lets one operation write, against what begin_op() reserves:
\* 17 blocks for 10, of a log of 30, scaled down to 2 for 1, of a log of 3.
CONSTANTS
    Proc = {p1, p2}
    Block = {a, b, c, d}
    Val = {v}
    NotCached = NotCached
    MAXOPBLOCKS = 1
    LOGSIZE = 3
    nlog = 4
    AfterLog = a
    OpBlocks = 2
SPECIFICATION Spec
INVARIANT SlotForEveryBlock
SYMMETRY Symmetry
