------------------------------ MODULE Spinlock ------------------------------
(***************************************************************************)
(* The spinlocks of spinlock.c: acquire() and release() instruction by     *)
(* instruction where their order matters, with pushcli()/popcli() and an   *)
(* interrupt handler that takes locks too.                                 *)
(*                                                                         *)
(* A processor has a thread (level 0) and, while an interrupt is served,   *)
(* its handler (level 1), which runs with interrupts off.  Locks are taken *)
(* in the order of their numbers, as the kernel does.  Memory accesses are *)
(* sequentially consistent, which __sync_synchronize() stands for.         *)
(***************************************************************************)
EXTENDS Integers, FiniteSets

CONSTANTS
    Cpu,           \* processors
    NLOCK,         \* number of locks
    Nobody         \* no processor

SpinlockAssumption == Nobody \notin Cpu /\ NLOCK \in Nat

Lock == 1..NLOCK
Level == {0, 1}

VARIABLES
    locked,        \* lk->locked
    lkcpu,         \* lk->cpu
    fl_if,         \* processors with interrupts enabled
    ncli,          \* cpu->ncli
    intena,        \* cpu->intena
    level,         \* what the processor executes: 0 its thread, 1 the handler
    pc,            \* pc[c][v]: where level v of processor c is
    lk,            \* lk[c][v]: the lock it is working on
    eflags,        \* eflags[c][v]: the local variable of pushcli()
    held,          \* held[c][v]: the locks it has acquired
    panicked

vars == <<locked, lkcpu, fl_if, ncli, intena, level, pc, lk, eflags, held, panicked>>
cpuVars == <<fl_if, ncli, intena>>

Each(x) == [c \in Cpu |-> [v \in Level |-> x]]

Init ==
    /\ locked = [l \in Lock |-> FALSE]
    /\ lkcpu = [l \in Lock |-> Nobody]
    /\ fl_if = Cpu
    /\ ncli = [c \in Cpu |-> 0]
    /\ intena = [c \in Cpu |-> FALSE]
    /\ level = [c \in Cpu |-> 0]
    /\ pc = Each("run") /\ lk = Each(0) /\ eflags = Each(FALSE) /\ held = Each({})
    /\ panicked = FALSE

\* Level v of c is executing and is at l.
At(c, v, l) == ~panicked /\ level[c] = v /\ pc[c][v] = l
Goto(c, v, l) == pc' = [pc EXCEPT ![c][v] = l]
holding(c, l) == locked[l] /\ lkcpu[l] = c
-----------------------------------------------------------------------------
(* acquire(lk)                                                             *)

\* The caller asks for a lock above all it has; pushcli() reads eflags.
pushcli_read(c, v, l) ==
    /\ At(c, v, "run")
    /\ \A h \in held[c][v] : h < l
    /\ lk' = [lk EXCEPT ![c][v] = l]
    /\ eflags' = [eflags EXCEPT ![c][v] = c \in fl_if]
    /\ Goto(c, v, "pushcli")
    /\ UNCHANGED <<locked, lkcpu, cpuVars, level, held, panicked>>

\* Mutant: interrupts stay on.
cli_missing(c) == fl_if

\* cli()
cli(c) == fl_if \ {c}

SaveIntena(c, v) == IF ncli[c] = 0 THEN eflags[c][v] ELSE intena[c]

\* The rest of pushcli(), and the test that the lock is not held already.
pushcli(c, v) ==
    /\ At(c, v, "pushcli")
    /\ fl_if' = cli(c)
    /\ intena' = [intena EXCEPT ![c] = SaveIntena(c, v)]
    /\ ncli' = [ncli EXCEPT ![c] = @ + 1]
    /\ panicked' = holding(c, lk[c][v])
    /\ Goto(c, v, "xchg")
    /\ UNCHANGED <<locked, lkcpu, level, lk, eflags, held>>

\* The exchange that finds the lock free; until then acquire() spins.
xchg(c, v) ==
    /\ At(c, v, "xchg")
    /\ ~locked[lk[c][v]]
    /\ locked' = [locked EXCEPT ![lk[c][v]] = TRUE]
    /\ Goto(c, v, "setcpu")
    /\ UNCHANGED <<lkcpu, cpuVars, level, lk, eflags, held, panicked>>

acquired(c, v) ==
    /\ At(c, v, "setcpu")
    /\ lkcpu' = [lkcpu EXCEPT ![lk[c][v]] = c]
    /\ held' = [held EXCEPT ![c][v] = @ \cup {lk[c][v]}]
    /\ Goto(c, v, "run")
    /\ UNCHANGED <<locked, cpuVars, level, lk, eflags, panicked>>
-----------------------------------------------------------------------------
(* release(lk), in any order of the locks.                                 *)

release(c, v, l) ==
    /\ At(c, v, "run")
    /\ l \in held[c][v]
    /\ panicked' = ~holding(c, l)
    /\ lk' = [lk EXCEPT ![c][v] = l]
    /\ held' = [held EXCEPT ![c][v] = @ \ {l}]
    /\ Goto(c, v, "clearcpu")
    /\ UNCHANGED <<locked, lkcpu, cpuVars, level, eflags>>

\* lk->cpu = 0
release_clear(c, v) ==
    /\ At(c, v, "clearcpu")
    /\ lkcpu' = [lkcpu EXCEPT ![lk[c][v]] = Nobody]
    /\ Goto(c, v, "unlock")
    /\ UNCHANGED <<locked, cpuVars, level, lk, eflags, held, panicked>>

\* and only then lk->locked = 0
release_unlock(c, v) ==
    /\ At(c, v, "unlock")
    /\ locked' = [locked EXCEPT ![lk[c][v]] = FALSE]
    /\ Goto(c, v, "popcli")
    /\ UNCHANGED <<lkcpu, cpuVars, level, lk, eflags, held, panicked>>

NcliDown(c) == ncli[c] - 1

popcli(c, v) ==
    /\ At(c, v, "popcli")
    /\ panicked' = (c \in fl_if \/ NcliDown(c) < 0)
    /\ ncli' = [ncli EXCEPT ![c] = NcliDown(c)]
    /\ fl_if' = IF NcliDown(c) = 0 /\ intena[c] THEN fl_if \cup {c} ELSE fl_if
    /\ lk' = [lk EXCEPT ![c][v] = 0]
    /\ eflags' = [eflags EXCEPT ![c][v] = FALSE]
    /\ Goto(c, v, "run")
    /\ UNCHANGED <<locked, lkcpu, intena, level, held>>
-----------------------------------------------------------------------------
(* Interrupts.                                                             *)

interrupt(c) ==
    /\ ~panicked
    /\ c \in fl_if
    /\ level[c] = 0
    /\ level' = [level EXCEPT ![c] = 1]
    /\ fl_if' = fl_if \ {c}
    /\ UNCHANGED <<locked, lkcpu, ncli, intena, pc, lk, eflags, held, panicked>>

\* The handler has released its locks; iret restores the interrupt flag.
iret(c) ==
    /\ At(c, 1, "run")
    /\ held[c][1] = {}
    /\ level' = [level EXCEPT ![c] = 0]
    /\ fl_if' = fl_if \cup {c}
    /\ UNCHANGED <<locked, lkcpu, ncli, intena, pc, lk, eflags, held, panicked>>

Step(c, v) ==
    \/ \E l \in Lock : pushcli_read(c, v, l) \/ release(c, v, l)
    \/ pushcli(c, v) \/ xchg(c, v) \/ acquired(c, v)
    \/ release_clear(c, v) \/ release_unlock(c, v) \/ popcli(c, v)

Next == \E c \in Cpu : interrupt(c) \/ iret(c) \/ \E v \in Level : Step(c, v)

Spec == Init /\ [][Next]_vars
-----------------------------------------------------------------------------
(* Properties.                                                             *)

\* A lock is in one pair of hands: no two threads or handlers hold it.
MutualExclusion ==
    \A c, d \in Cpu, v, w \in Level :
        held[c][v] \cap held[d][w] # {} => c = d /\ v = w

\* A processor takes no interrupt while its thread holds a lock or is between
\* the exchange and the end of release(), so that no handler spins for a lock
\* of the thread it has interrupted.
UninterruptedWithLock ==
    \A c \in Cpu :
        held[c][0] # {} \/ pc[c][0] \in {"xchg", "setcpu", "clearcpu", "unlock"} =>
            level[c] = 0 /\ c \notin fl_if

\* Matched pushcli() and popcli() put the interrupt flag back: a thread without
\* locks runs with interrupts on, as it started, a handler with interrupts off.
FlagRestored ==
    \A c \in Cpu :
        At(c, level[c], "run") /\ held[c][level[c]] = {} =>
            ncli[c] = 0 /\ (c \in fl_if <=> level[c] = 0)

\* No assertion of acquire(), release() or popcli() fails: holding() is never
\* true for a processor that does not hold the lock, whatever stale lk->cpu it
\* may read, nor false for the one that does.
NoPanic == ~panicked

\* What the rest of the kernel takes a spinlock to give it: one holder, no
\* handler against its own thread, the interrupt flag as it was, no panic.
LockDiscipline == MutualExclusion /\ UninterruptedWithLock /\ FlagRestored /\ NoPanic
=============================================================================
