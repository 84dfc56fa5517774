-------------------------------- MODULE Proc --------------------------------
(***************************************************************************)
(* The process table of proc.c: fork(), exit(), wait(), kill(), sleep()    *)
(* and wakeup() with the reparenting of orphans, and sys_sleep() as the    *)
(* caller that sleeps on something other than a child.                     *)
(*                                                                         *)
(* A step is what one process does under ptable.lock; fork() writes its    *)
(* child's slot without the lock, in steps of its own.  Sched models the   *)
(* lock and the context switch.  kalloc() panics rather than return 0, so  *)
(* allocproc() fails only for want of a slot.                              *)
(***************************************************************************)
EXTENDS Naturals, FiniteSets, FiniteSetsExt

CONSTANTS
    NPROC,         \* slots of ptable.proc
    NCPU,          \* processors
    MaxPid,        \* bound on nextpid
    KillZero       \* whether somebody calls kill(0)

ASSUME ProcAssumption ==
    /\ NPROC \in Nat \ {0} /\ NCPU \in Nat \ {0} /\ MaxPid \in Nat \ {0}
    /\ KillZero \in BOOLEAN

Slot == 1..NPROC
initproc == 1
ticks == NPROC + 1     \* the channel &ticks; a process's own address is its slot

VARIABLES
    state,         \* p->state
    pid,           \* p->pid
    parent,        \* p->parent, 0 for none
    killed,        \* slots with p->killed set
    chan,          \* p->chan
    nextpid,
    pc,            \* where the process is: user code, fork(), wait(), sys_sleep()
    child,         \* np of a process in fork()
    panicked       \* the kernel stopped in panic()

vars == <<state, pid, parent, killed, chan, nextpid, pc, child, panicked>>
table == <<pid, parent, killed, nextpid>>

Init ==
    /\ state = [s \in Slot |-> IF s = initproc THEN "RUNNABLE" ELSE "UNUSED"]
    /\ pid = [s \in Slot |-> IF s = initproc THEN 1 ELSE 0]
    /\ parent = [s \in Slot |-> 0]
    /\ killed = {}
    /\ chan = [s \in Slot |-> 0]
    /\ nextpid = 2
    /\ pc = [s \in Slot |-> "user"]
    /\ child = [s \in Slot |-> 0]
    /\ panicked = FALSE

At(p, l) == state[p] = "RUNNING" /\ pc[p] = l /\ ~panicked
-----------------------------------------------------------------------------
(* Scheduling.                                                             *)

\* The scheduler of an idle processor runs a process.
scheduler(p) ==
    /\ ~panicked
    /\ state[p] = "RUNNABLE"
    /\ Cardinality({q \in Slot : state[q] = "RUNNING"}) < NCPU
    /\ state' = [state EXCEPT ![p] = "RUNNING"]
    /\ chan' = [chan EXCEPT ![p] = 0]
    /\ UNCHANGED <<table, pc, child, panicked>>

\* The timer interrupt takes the processor away.
yield(p) ==
    /\ At(p, "user")
    /\ state' = [state EXCEPT ![p] = "RUNNABLE"]
    /\ UNCHANGED <<table, chan, pc, child, panicked>>

\* wakeup1(c) on the states st.
wakeup1(st, c) == [p \in Slot |-> IF st[p] = "SLEEPING" /\ chan[p] = c THEN "RUNNABLE"
                                  ELSE st[p]]
-----------------------------------------------------------------------------
(* fork()                                                                  *)

Unused == {s \in Slot : state[s] = "UNUSED"}

\* allocproc(): the first unused slot becomes an EMBRYO; with none, fork() fails.
allocproc(p) ==
    /\ At(p, "user")
    /\ nextpid <= MaxPid
    /\ Unused # {}
    /\ LET np == Min(Unused) IN
       /\ state' = [state EXCEPT ![np] = "EMBRYO"]
       /\ pid' = [pid EXCEPT ![np] = nextpid]
       /\ child' = [child EXCEPT ![p] = np]
    /\ nextpid' = nextpid + 1
    /\ pc' = [pc EXCEPT ![p] = "fork"]
    /\ UNCHANGED <<parent, killed, chan, panicked>>

\* np->parent = proc, without ptable.lock.
fork_parent(p) ==
    /\ At(p, "fork")
    /\ parent' = [parent EXCEPT ![child[p]] = p]
    /\ pc' = [pc EXCEPT ![p] = "forked"]
    /\ UNCHANGED <<state, pid, killed, chan, nextpid, child, panicked>>

\* np->state = RUNNABLE, without ptable.lock.
fork_return(p) ==
    /\ At(p, "forked")
    /\ state' = [state EXCEPT ![child[p]] = "RUNNABLE"]
    /\ pc' = [pc EXCEPT ![p] = "user", ![child[p]] = "user"]
    /\ child' = [child EXCEPT ![p] = 0]
    /\ UNCHANGED <<table, chan, panicked>>
-----------------------------------------------------------------------------
(* exit() and wait()                                                       *)

Children(p) == {s \in Slot : parent[s] = p}

\* Mutant: init is not told of the zombies it inherits.
ExitWakes_parent(p) == {parent[p]}

\* Mutant: exit() wakes nobody.
ExitWakes_nobody(p) == {}

\* Whom exit() wakes: its parent, and init if it passes a zombie on to it.
ExitWakes(p) ==
    {parent[p]} \cup (IF \E s \in Children(p) : state[s] = "ZOMBIE" THEN {initproc} ELSE {})

\* exit() passes its children to init.
Reparent(p) == [s \in Slot |-> IF parent[s] = p THEN initproc ELSE parent[s]]

\* exit(), called by the process or by trap() for a killed one.
exit(p) ==
    /\ At(p, "user")
    /\ IF p = initproc
       THEN panicked' = TRUE /\ UNCHANGED <<state, parent>>
       ELSE /\ state' = [s \in Slot |-> IF s = p THEN "ZOMBIE"
                          ELSE IF state[s] = "SLEEPING" /\ chan[s] \in ExitWakes(p)
                          THEN "RUNNABLE" ELSE state[s]]
            /\ parent' = Reparent(p)
            /\ UNCHANGED panicked
    /\ UNCHANGED <<pid, killed, chan, nextpid, pc, child>>

\* sleep(c, lk) from place l; the condition was tested under lk.
sleep(p, c, l) ==
    /\ state' = [state EXCEPT ![p] = "SLEEPING"]
    /\ chan' = [chan EXCEPT ![p] = c]
    /\ pc' = [pc EXCEPT ![p] = l]

return(p) == pc' = [pc EXCEPT ![p] = "user"] /\ UNCHANGED chan
\* Mutant: p->killed is kept.
FreeSlot_keeps_killed(z) ==
    /\ state' = [state EXCEPT ![z] = "UNUSED"]
    /\ pid' = [pid EXCEPT ![z] = 0]
    /\ parent' = [parent EXCEPT ![z] = 0]
    /\ UNCHANGED killed

\* wait() frees the slot of a zombie.
FreeSlot(z) ==
    /\ state' = [state EXCEPT ![z] = "UNUSED"]
    /\ pid' = [pid EXCEPT ![z] = 0]
    /\ parent' = [parent EXCEPT ![z] = 0]
    /\ killed' = killed \ {z}

\* One scan of wait(): frees the first zombie child, fails, or sleeps.
wait(p) ==
    /\ At(p, "user") \/ At(p, "wait")
    /\ LET zombies == {s \in Children(p) : state[s] = "ZOMBIE"} IN
       IF zombies # {}
       THEN FreeSlot(Min(zombies)) /\ return(p)
       ELSE /\ IF Children(p) = {} \/ p \in killed
               THEN return(p) /\ UNCHANGED state
               ELSE sleep(p, p, "wait")
            /\ UNCHANGED <<pid, parent, killed>>
    /\ UNCHANGED <<nextpid, child, panicked>>
-----------------------------------------------------------------------------
(* kill(), sys_sleep() and the clock                                       *)

\* The pids a caller may pass: those of processes, and 0 if KillZero.
KillArgs == ({pid[s] : s \in Slot} \ {0}) \cup (IF KillZero THEN {0} ELSE {})

\* Mutant: kill() lets its victim sleep on.
KillWakes_nobody(s) == state[s]

\* kill() gets a sleeping victim going.
KillWakes(s) == IF state[s] = "SLEEPING" THEN "RUNNABLE" ELSE state[s]

\* kill(n) marks the first slot whose pid is n.
kill(p, n) ==
    /\ At(p, "user")
    /\ n \in KillArgs
    /\ \E s \in {t \in Slot : pid[t] = n /\ \A u \in Slot : pid[u] = n => t <= u} :
       /\ killed' = killed \cup {s}
       /\ state' = [state EXCEPT ![s] = KillWakes(s)]
    /\ UNCHANGED <<pid, parent, chan, nextpid, pc, child, panicked>>

\* sys_sleep() tests the time and proc->killed under tickslock ...
sys_sleep_test(p, over) ==
    /\ At(p, "user") \/ At(p, "sleep")
    /\ pc' = [pc EXCEPT ![p] = IF over \/ p \in killed THEN "user" ELSE "tosleep"]
    /\ UNCHANGED <<state, table, chan, child, panicked>>

\* ... and sleeps; kill(), which needs only ptable.lock, may come in between.
sys_sleep(p) ==
    /\ At(p, "tosleep")
    /\ sleep(p, ticks, "sleep")
    /\ UNCHANGED <<table, child, panicked>>

\* The clock interrupt, under tickslock: wakeup(&ticks).
tick ==
    /\ ~panicked
    /\ \A p \in Slot : ~At(p, "tosleep")
    /\ state' = wakeup1(state, ticks)
    /\ state' # state
    /\ UNCHANGED <<table, chan, pc, child, panicked>>
-----------------------------------------------------------------------------
ProcStep(p) ==
    \/ scheduler(p) \/ yield(p)
    \/ allocproc(p) \/ fork_parent(p) \/ fork_return(p)
    \/ exit(p) \/ wait(p)
    \/ \E n \in 0..MaxPid : kill(p, n)
    \/ sys_sleep(p) \/ \E over \in BOOLEAN : sys_sleep_test(p, over)

Next == tick \/ \E p \in Slot : ProcStep(p)

Spec == Init /\ [][Next]_vars

\* trap() or syscall() finds p->killed set on the way to user space.
trap_exit(p) == p \in killed /\ exit(p)

\* The scheduler serves every runnable process again and again and the timer
\* takes the processor back, a system call goes on while it has the processor,
\* the clock ticks until a sleep is over, a killed process passes through trap()
\* again and again, and init.c calls wait() for ever.
Fairness ==
    /\ WF_vars(tick)
    /\ \A p \in Slot : /\ SF_vars(scheduler(p))
                       /\ WF_vars(yield(p))
                       /\ WF_vars(fork_parent(p) \/ fork_return(p) \/ sys_sleep(p))
                       /\ WF_vars(pc[p] = "wait" /\ wait(p))
                       /\ SF_vars(pc[p] = "sleep" /\ sys_sleep_test(p, TRUE))
    /\ \A p \in Slot \ {initproc} : SF_vars(trap_exit(p))
    /\ SF_vars(wait(initproc))

FairSpec == Spec /\ Fairness
-----------------------------------------------------------------------------
(* Properties.                                                             *)

Live == {s \in Slot : state[s] \in {"RUNNABLE", "RUNNING", "SLEEPING"}}

\* exit() leaves no process with a dead parent: whoever is alive or a zombie has
\* a live parent, which is the one that will free its slot, or is init.
ParentsLive ==
    \A s \in Slot : state[s] \in {"RUNNABLE", "RUNNING", "SLEEPING", "ZOMBIE"} =>
        s = initproc \/ parent[s] \in Live

\* No lost wakeup between exit() and wait(): a process asleep in wait() has
\* children, none of them a zombie, and has not been killed.
WaitersNeeded ==
    \A p \in Slot : state[p] = "SLEEPING" /\ pc[p] = "wait" =>
        /\ Children(p) # {}
        /\ \A s \in Children(p) : state[s] # "ZOMBIE"
        /\ p \notin killed

\* Whatever the order of exits and waits, somebody will free every slot, and
\* nobody waits in vain.
FamiliesSound == ParentsLive /\ WaitersNeeded

\* A process starts its life unmarked: no kill() of the past counts against it.
StartsUnmarked == [][\A s \in Slot : state[s] = "UNUSED" /\ state'[s] = "EMBRYO" =>
                                     s \notin killed']_vars

\* A killed process exits, wherever kill() met it: in fork() as parent or as
\* child, asleep in wait() or sys_sleep(), or on its way to sleep.
KilledExits ==
    \A p \in Slot \ {initproc} :
        p \in killed ~> state[p] \in {"ZOMBIE", "UNUSED"} \/ panicked

\* An orphan that has exited is freed: exit() hands it to init and wakes init.
OrphansFreed ==
    \A p \in Slot :
        state[p] = "ZOMBIE" /\ parent[p] = initproc ~> state[p] = "UNUSED" \/ panicked
=============================================================================
