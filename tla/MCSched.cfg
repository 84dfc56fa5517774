\* Two processors and three processes, any number of yields, sleeps and wakeups.
CONSTANTS
    Cpu = {c1, c2}
    NPROC = 3
    Nobody = nobody
SPECIFICATION FairSpec
INVARIANTS StackUnshared SleeperWillBeWoken FlagsRight
PROPERTY RunnableRuns
