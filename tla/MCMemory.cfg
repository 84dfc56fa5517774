\* Three processes, pages of four words and thirty of them, four calls. The bounds
\* of the process table are in MCMemory.
CONSTANTS
    NPages = 30
    NPROC = 3
    PGSIZE = 4
    SPAN = 4
    KERNBASE = 48
    ADDRS = 64
    Programs <- MCPrograms
    Strings <- MCStrings
    Grow <- MCGrow
    MaxCalls = 4
SPECIFICATION MCSpec
INVARIANTS PagesOwnedOnce ImageMapped StackGuarded 
PROPERTIES KilledExits OrphansFreed
