\* Two writers of up to three bytes, a reader and counters that wrap around. The
\* bounds of the file system are in MCFiles.
CONSTANTS
    Writer = {p1, p2}
    Reader = {r}
    PIPESIZE = 2
    Wrap = 4
    Byte = {0, 1}
    MaxN = 3
    MaxCalls = 1
    Nobody = nobody
SPECIFICATION MCSpec
INVARIANTS RefsCounted LinksCounted HeldNotFreed BlocksOwned EndsServed
PROPERTY IsQueue
SYMMETRY Symmetry
