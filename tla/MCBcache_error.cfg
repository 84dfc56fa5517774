\* The drive may report a read error.
CONSTANTS
    Proc = {p1}
    NBUF = 2
    Block = {x, y}
    Val = {v, w}
    None = None
    MaxPinned = 0
    DiskFails = TRUE
SPECIFICATION Spec
INVARIANT ValidMeansRead
