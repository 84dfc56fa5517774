------------------------------- MODULE Sched --------------------------------
(***************************************************************************)
(* The context switch of proc.c at the grain of its locks: scheduler(),    *)
(* sched(), yield(), forkret(), sleep() and wakeup(), with ptable.lock     *)
(* handed across swtch(), and the interrupt flag, ncli and intena of       *)
(* pushcli()/popcli().                                                     *)
(*                                                                         *)
(* System calls and traps run with interrupts off (MSR_SFMASK, interrupt   *)
(* gates).  The processes wait for a condition that is guarded by lk, as   *)
(* every caller of sleep() does.  Spinlock models acquire() and release(). *)
(***************************************************************************)
EXTENDS Naturals, FiniteSets

CONSTANTS
    Cpu,           \* processors
    NPROC,         \* slots of the process table, all in use here
    Nobody         \* no processor

SchedAssumption == Nobody \notin Cpu /\ NPROC \in Nat \ {0}

Slot == 1..NPROC

VARIABLES
    ptable,        \* the processor that holds ptable.lock
    lk,            \* the processor that holds the lock of the condition
    eflags,        \* processors with FL_IF set
    ncli,          \* cpu->ncli
    intena,        \* processors with cpu->intena set
    proc,          \* the process that each processor runs, 0 in the scheduler
    at,            \* where each scheduler is
    scan,          \* p of the scheduler's loop
    skipped,
    state,         \* p->state
    pc,            \* where each process is
    saved,         \* processes whose context swtch() has saved
    mine,          \* processes for which sched() saved an intena of 1
    cond,          \* the condition the processes wait for
    panicked

lockVars == <<ptable, lk, eflags, ncli, intena>>
schedVars == <<at, scan, skipped>>
vars == <<ptable, lk, eflags, ncli, intena, proc, at, scan, skipped, state, pc, saved,
          mine, cond, panicked>>

Init ==
    /\ ptable = Nobody /\ lk = Nobody
    /\ eflags = {} /\ intena = {}
    /\ ncli = [c \in Cpu |-> 0]
    /\ proc = [c \in Cpu |-> 0]
    /\ at = [c \in Cpu |-> "sti"]
    /\ scan = [c \in Cpu |-> 1]
    /\ skipped = [c \in Cpu |-> 0]
    /\ state = [p \in Slot |-> "RUNNABLE"]
    /\ pc = [p \in Slot |-> "forkret"]
    /\ saved = Slot
    /\ mine = {}
    /\ cond = FALSE
    /\ panicked = FALSE
-----------------------------------------------------------------------------
(* pushcli() and popcli() as parts of acquire() and release().             *)

pushcli(c) ==
    /\ ncli' = [ncli EXCEPT ![c] = @ + 1]
    /\ intena' = IF ncli[c] > 0 THEN intena
                 ELSE IF c \in eflags THEN intena \cup {c} ELSE intena \ {c}
    /\ eflags' = eflags \ {c}

popcli(c) ==
    /\ ncli' = [ncli EXCEPT ![c] = @ - 1]
    /\ eflags' = IF ncli[c] = 1 /\ c \in intena THEN eflags \cup {c} ELSE eflags
    /\ UNCHANGED intena
-----------------------------------------------------------------------------
(* scheduler() of processor c.                                             *)

InScheduler(c, l) == ~panicked /\ proc[c] = 0 /\ at[c] = l

sti(c) ==
    /\ InScheduler(c, "sti")
    /\ eflags' = eflags \cup {c}
    /\ at' = [at EXCEPT ![c] = "acquire"]
    /\ UNCHANGED <<ptable, lk, ncli, intena, proc, scan, skipped, state, pc, saved, mine,
                   cond, panicked>>

scheduler_acquire(c) ==
    /\ InScheduler(c, "acquire")
    /\ ptable = Nobody
    /\ ptable' = c /\ pushcli(c)
    /\ at' = [at EXCEPT ![c] = "scan"]
    /\ scan' = [scan EXCEPT ![c] = 1]
    /\ UNCHANGED <<lk, proc, skipped, state, pc, saved, mine, cond, panicked>>

scheduler_skip(c) ==
    /\ InScheduler(c, "scan")
    /\ scan[c] <= NPROC
    /\ state[scan[c]] # "RUNNABLE"
    /\ skipped' = [skipped EXCEPT ![c] = @ + 1]
    /\ scan' = [scan EXCEPT ![c] = @ + 1]
    /\ UNCHANGED <<lockVars, proc, at, state, pc, saved, mine, cond, panicked>>

\* Mutant: the thread goes on with the intena of the processor.
RestoreIntena_cpu(c, p) == intena

\* cpu->intena = intena at the end of sched(); forkret() does not pass there.
RestoreIntena(c, p) ==
    IF pc[p] = "forkret" THEN intena
    ELSE IF p \in mine THEN intena \cup {c} ELSE intena \ {c}

\* Mutant: after a switch the scan starts again with the first slot.
ScanOn_restart(c) == 1

\* ++p of the scheduler's loop.
ScanOn(c) == scan[c] + 1

\* swtch() to the process, which goes on in sched() or starts in forkret().
scheduler_run(c) ==
    /\ InScheduler(c, "scan")
    /\ scan[c] <= NPROC
    /\ LET p == scan[c] IN
       /\ state[p] = "RUNNABLE"
       /\ state' = [state EXCEPT ![p] = "RUNNING"]
       /\ proc' = [proc EXCEPT ![c] = p]
       /\ saved' = saved \ {p}
       /\ intena' = RestoreIntena(c, p)
    /\ skipped' = [skipped EXCEPT ![c] = 0]
    /\ UNCHANGED <<ptable, lk, eflags, ncli, at, scan, pc, mine, cond, panicked>>

HaltNow(c) == skipped[c] > NPROC

scheduler_release(c) ==
    /\ InScheduler(c, "scan")
    /\ scan[c] > NPROC
    /\ ptable' = Nobody /\ popcli(c)
    /\ at' = [at EXCEPT ![c] = IF HaltNow(c) THEN "hlt" ELSE "sti"]
    /\ skipped' = [skipped EXCEPT ![c] = IF HaltNow(c) THEN 0 ELSE @]
    /\ UNCHANGED <<lk, proc, scan, state, pc, saved, mine, cond, panicked>>

\* hlt() ends with the next interrupt, if interrupts are on.
hlt(c) ==
    /\ InScheduler(c, "hlt")
    /\ c \in eflags
    /\ at' = [at EXCEPT ![c] = "sti"]
    /\ UNCHANGED <<lockVars, proc, scan, skipped, state, pc, saved, mine, cond, panicked>>
-----------------------------------------------------------------------------
(* The process p on processor c.                                           *)

Running(c, p, l) == ~panicked /\ proc[c] = p /\ pc[p] = l

Goto(p, l) == pc' = [pc EXCEPT ![p] = l]

acquire_ptable(c) == ptable = Nobody /\ ptable' = c /\ pushcli(c) /\ UNCHANGED lk
release_ptable(c) == ptable' = Nobody /\ popcli(c) /\ UNCHANGED lk
acquire_lk(c) == lk = Nobody /\ lk' = c /\ pushcli(c) /\ UNCHANGED ptable
release_lk(c) == lk' = Nobody /\ popcli(c) /\ UNCHANGED ptable

\* A trap or a system call turns interrupts off: the timer, or a process that
\* waits for the condition or makes it true.
enter(c, p, l) ==
    /\ Running(c, p, "user")
    /\ eflags' = eflags \ {c}
    /\ Goto(p, l)
    /\ UNCHANGED <<ptable, lk, ncli, intena, proc, schedVars, state, saved, mine, cond, panicked>>

\* The end of the trap or of the system call: user code has interrupts on.
leave(c, p) ==
    /\ Running(c, p, "leave")
    /\ eflags' = eflags \cup {c}
    /\ Goto(p, "user")
    /\ UNCHANGED <<ptable, lk, ncli, intena, proc, schedVars, state, saved, mine, cond, panicked>>

\* Mutant: yield() marks the process runnable without ptable.lock.
yield_unlocked(c, p) ==
    /\ Running(c, p, "yield")
    /\ state[p] = "RUNNABLE" => acquire_ptable(c) /\ Goto(p, "sched_yield")
    /\ state[p] # "RUNNABLE" => UNCHANGED <<lockVars, pc>>
    /\ state' = [state EXCEPT ![p] = "RUNNABLE"]
    /\ UNCHANGED <<proc, schedVars, saved, mine, cond, panicked>>

yield(c, p) ==
    /\ Running(c, p, "yield")
    /\ acquire_ptable(c)
    /\ state' = [state EXCEPT ![p] = "RUNNABLE"]
    /\ Goto(p, "sched_yield")
    /\ UNCHANGED <<proc, schedVars, saved, mine, cond, panicked>>

\* sched(): its tests, and swtch() back to the scheduler of this processor.
sched(c, p, from, to) ==
    /\ Running(c, p, from)
    /\ IF ptable # c \/ ncli[c] # 1 \/ state[p] = "RUNNING" \/ c \in eflags
       THEN panicked' = TRUE /\ UNCHANGED <<proc, scan, pc, saved, mine>>
       ELSE /\ mine' = IF c \in intena THEN mine \cup {p} ELSE mine \ {p}
            /\ saved' = saved \cup {p}
            /\ proc' = [proc EXCEPT ![c] = 0]
            /\ scan' = [scan EXCEPT ![c] = ScanOn(c)]
            /\ Goto(p, to)
            /\ UNCHANGED panicked
    /\ UNCHANGED <<lockVars, at, skipped, state, cond>>

\* Back from sched() in yield(), or first run in forkret(): release(&ptable.lock).
switched_in(c, p) ==
    /\ Running(c, p, "yielded") \/ Running(c, p, "forkret")
    /\ release_ptable(c)
    /\ Goto(p, "leave")
    /\ UNCHANGED <<proc, schedVars, state, saved, mine, cond, panicked>>

\* The caller of sleep(): acquire(lk) and the test of the condition.
wait_lock(c, p) ==
    /\ Running(c, p, "wait")
    /\ acquire_lk(c)
    /\ Goto(p, "test")
    /\ UNCHANGED <<proc, schedVars, state, saved, mine, cond, panicked>>

wait_test(c, p) ==
    /\ Running(c, p, "test")
    /\ IF cond
       THEN release_lk(c) /\ cond' = FALSE /\ Goto(p, "leave")
       ELSE Goto(p, "sleep") /\ UNCHANGED <<lockVars, cond>>
    /\ UNCHANGED <<proc, schedVars, state, saved, mine, panicked>>

\* Mutant: lk is released before ptable.lock is taken.
sleep_acquire_late(c, p) ==
    /\ Running(c, p, "sleep")
    /\ IF lk = c
       THEN release_lk(c) /\ UNCHANGED pc
       ELSE acquire_ptable(c) /\ Goto(p, "sleep_mark")
    /\ UNCHANGED <<proc, schedVars, state, saved, mine, cond, panicked>>

\* sleep(): ptable.lock is taken before lk is released.
sleep_acquire(c, p) ==
    /\ Running(c, p, "sleep")
    /\ acquire_ptable(c)
    /\ Goto(p, "sleep_release")
    /\ UNCHANGED <<proc, schedVars, state, saved, mine, cond, panicked>>

sleep_release(c, p) ==
    /\ Running(c, p, "sleep_release")
    /\ release_lk(c)
    /\ Goto(p, "sleep_mark")
    /\ UNCHANGED <<proc, schedVars, state, saved, mine, cond, panicked>>

sleep_mark(c, p) ==
    /\ Running(c, p, "sleep_mark")
    /\ state' = [state EXCEPT ![p] = "SLEEPING"]
    /\ Goto(p, "sched_sleep")
    /\ UNCHANGED <<lockVars, proc, schedVars, saved, mine, cond, panicked>>

sleep_wake(c, p) ==
    /\ Running(c, p, "slept")
    /\ release_ptable(c)
    /\ Goto(p, "wait")
    /\ UNCHANGED <<proc, schedVars, state, saved, mine, cond, panicked>>

\* The caller of wakeup(): makes the condition true under lk.
signal(c, p) ==
    /\ Running(c, p, "signal")
    /\ acquire_lk(c)
    /\ cond' = TRUE
    /\ Goto(p, "wakeup")
    /\ UNCHANGED <<proc, schedVars, state, saved, mine, panicked>>

wakeup(c, p) ==
    /\ Running(c, p, "wakeup")
    /\ acquire_ptable(c)
    /\ state' = [q \in Slot |-> IF state[q] = "SLEEPING" THEN "RUNNABLE" ELSE state[q]]
    /\ Goto(p, "wakeup_release")
    /\ UNCHANGED <<proc, schedVars, saved, mine, cond, panicked>>

wakeup_release(c, p) ==
    /\ Running(c, p, "wakeup_release")
    /\ release_ptable(c)
    /\ Goto(p, "signal_release")
    /\ UNCHANGED <<proc, schedVars, state, saved, mine, cond, panicked>>

signal_release(c, p) ==
    /\ Running(c, p, "signal_release")
    /\ release_lk(c)
    /\ Goto(p, "leave")
    /\ UNCHANGED <<proc, schedVars, state, saved, mine, cond, panicked>>
-----------------------------------------------------------------------------
SchedulerStep(c) ==
    \/ sti(c) \/ scheduler_acquire(c) \/ scheduler_skip(c) \/ scheduler_run(c)
    \/ scheduler_release(c) \/ hlt(c)

KernelStep(c, p) ==
    \/ leave(c, p) \/ yield(c, p) \/ switched_in(c, p)
    \/ sched(c, p, "sched_yield", "yielded") \/ sched(c, p, "sched_sleep", "slept")
    \/ wait_lock(c, p) \/ wait_test(c, p)
    \/ sleep_acquire(c, p) \/ sleep_release(c, p) \/ sleep_mark(c, p) \/ sleep_wake(c, p)
    \/ signal(c, p) \/ wakeup(c, p) \/ wakeup_release(c, p) \/ signal_release(c, p)

Next ==
    \E c \in Cpu :
        \/ SchedulerStep(c)
        \/ \E p \in Slot : KernelStep(c, p)
        \/ \E p \in Slot, l \in {"yield", "wait", "signal"} : enter(c, p, l)

Spec == Init /\ [][Next]_vars

\* Every processor goes on, in the scheduler and in the kernel, and its timer
\* keeps interrupting user code.  Nothing makes the spinlocks fair.
Fairness ==
    \A c \in Cpu : /\ WF_vars(SchedulerStep(c) \/ \E p \in Slot : KernelStep(c, p))
                   /\ SF_vars(\E p \in Slot : enter(c, p, "yield"))

FairSpec == Spec /\ Fairness
-----------------------------------------------------------------------------
(* Properties.                                                             *)

\* None of sched()'s assertions fails: whoever switches holds ptable.lock and no
\* other lock, has interrupts off and has given up RUNNING.
NoPanic == ~panicked

\* No two processors ever run on one kernel stack: yield() and sleep() mark the
\* process runnable before its context is saved, and only ptable.lock, handed
\* over by swtch(), keeps other schedulers away until it is.
StackUnshared ==
    /\ \A c, d \in Cpu : proc[c] = proc[d] /\ proc[c] # 0 => c = d
    /\ \A p \in Slot : p \in saved <=> \A c \in Cpu : proc[c] # p

\* No lost wakeup: while a process sleeps and the condition holds, the process
\* that made it true has not called wakeup() yet.
SleeperWillBeWoken ==
    \A p \in Slot : state[p] = "SLEEPING" /\ p \in saved /\ cond =>
        \E q \in Slot : pc[q] = "wakeup"

\* A processor in hlt() has interrupts on, although popcli() restores the intena
\* of whatever thread ran last: otherwise it would never wake again.
HaltsInterruptible == \A c \in Cpu : proc[c] = 0 /\ at[c] = "hlt" => c \in eflags

\* The kernel is never interrupted inside a trap or a system call, also not
\* after a sleep on another processor: sched() keeps intena with the thread.
KernelUninterrupted ==
    \A c \in Cpu : proc[c] # 0 /\ pc[proc[c]] \notin {"user", "leave"} => c \notin eflags

\* Across pushcli(), popcli() and switches between processors the interrupt flag
\* and the lock count are what the code at hand needs.
FlagsRight == NoPanic /\ HaltsInterruptible /\ KernelUninterrupted

\* Every runnable process gets a processor, although the scheduler's scan
\* starts over with the first slot and the spinlocks are not fair.
RunnableRuns == \A p \in Slot : state[p] = "RUNNABLE" ~> state[p] = "RUNNING"
=============================================================================
