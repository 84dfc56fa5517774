\* Two processors, each with a thread and a handler, and two locks. The bounds of
\* the cache are in MCLocks.
CONSTANTS
    Cpu = {c1, c2}
    NLOCK = 2
    Nobody = nobody
SPECIFICATION MCSpec
INVARIANT LockDiscipline
PROPERTY RequestsEnd
