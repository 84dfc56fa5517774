\* Two processes, three buffers for four blocks, one pinned buffer at a time.
CONSTANTS
    Proc = {p1, p2}
    NBUF = 3
    Block = {x, y, z, t}
    Val = {v, w}
    None = None
    MaxPinned = 1
    DiskFails = FALSE
SPECIFICATION Spec
INVARIANTS BufferIsBlock WaitersKept
PROPERTY CacheIsStore
SYMMETRY Symmetry
