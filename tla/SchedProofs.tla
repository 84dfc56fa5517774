---------------------------- MODULE SchedProofs -----------------------------
(***************************************************************************)
(* Proofs about Sched, for any number of processors and processes.         *)
(***************************************************************************)
EXTENDS Sched, Integers, TLAPS

\* Where a process holds ptable.lock, and where it holds lk.
WithPtable == {"forkret", "sched_yield", "yielded", "sleep_release", "sleep_mark",
               "sched_sleep", "slept", "wakeup_release"}
WithLk == {"test", "sleep", "sleep_release", "wakeup", "wakeup_release", "signal_release"}
Places == {"user", "leave", "yield", "wait", "signal"} \cup WithPtable \cup WithLk
SwitchedOut == {"forkret", "yielded", "slept"}

Types ==
  /\ ptable \in Cpu \cup {Nobody} /\ lk \in Cpu \cup {Nobody}
  /\ eflags \in SUBSET Cpu /\ intena \in SUBSET Cpu
  /\ ncli \in [Cpu -> Int]
  /\ proc \in [Cpu -> Slot \cup {0}]
  /\ at \in [Cpu -> {"sti", "acquire", "scan", "hlt"}]
  /\ scan \in [Cpu -> 1..(NPROC + 1)]
  /\ skipped \in [Cpu -> Nat]
  /\ state \in [Slot -> {"RUNNABLE", "RUNNING", "SLEEPING"}]
  /\ pc \in [Slot -> Places]
  /\ saved \in SUBSET Slot /\ mine \in SUBSET Slot
  /\ cond \in BOOLEAN

\* A process is on one processor or saved.  One that is on a processor is
\* RUNNING but for the last steps before sched(), one that is saved is not.
RunInv ==
  /\ \A c, d \in Cpu : proc[c] = proc[d] /\ proc[c] # 0 => c = d
  /\ \A p \in Slot : p \in saved <=> \A c \in Cpu : proc[c] # p
  /\ \A p \in saved : pc[p] \in SwitchedOut /\ (state[p] = "SLEEPING" => pc[p] = "slept")
  /\ \A p \in Slot \ saved :
       /\ state[p] = "RUNNABLE" <=> pc[p] = "sched_yield"
       /\ state[p] = "SLEEPING" <=> pc[p] = "sched_sleep"
  /\ \A c \in Cpu : proc[c] # 0 => at[c] = "scan" /\ scan[c] <= NPROC

HasPtable(c) == IF proc[c] = 0 THEN at[c] = "scan" ELSE pc[proc[c]] \in WithPtable
HasLk(c) == proc[c] # 0 /\ pc[proc[c]] \in WithLk

\* Who holds the two locks is told by where the processors are, also across
\* swtch(), and ncli counts them.
LockInv ==
  \A c \in Cpu :
    /\ ptable = c <=> HasPtable(c)
    /\ lk = c <=> HasLk(c)
    /\ ncli[c] = (IF HasPtable(c) THEN 1 ELSE 0) + (IF HasLk(c) THEN 1 ELSE 0)

\* FL_IF, cpu->intena and the intena that sched() keeps for a process.
FlagInv ==
  /\ \A c \in Cpu :
       /\ proc[c] # 0 /\ pc[proc[c]] \notin {"user", "leave"} => c \notin eflags
       /\ proc[c] # 0 /\ ncli[c] > 0 /\ pc[proc[c]] # "forkret" => c \notin intena
       /\ proc[c] # 0 => skipped[c] = 0
       /\ proc[c] = 0 /\ at[c] \in {"acquire", "hlt"} => c \in eflags
       /\ proc[c] = 0 /\ at[c] = "scan" =>
            c \notin eflags /\ (c \in intena \/ skipped[c] < scan[c])
  /\ \A p \in Slot : pc[p] \in {"yielded", "slept"} => p \notin mine

\* While a process is on its way to sleep the condition does not hold, or its
\* wakeup() is still to come.
WakeInv ==
  \A p \in Slot :
    /\ pc[p] \in {"sleep", "sleep_release"} => ~cond
    /\ (pc[p] = "sleep_mark" \/ state[p] = "SLEEPING") /\ cond => \E q \in Slot : pc[q] = "wakeup"

IInv == Types /\ RunInv /\ LockInv /\ FlagInv /\ WakeInv /\ ~panicked

\* Slots are positive.
LEMMA SlotFacts == SchedAssumption => NPROC \in Nat \ {0} /\ \A p \in Slot : p \in Nat /\ p # 0 /\ p <= NPROC
BY DEF SchedAssumption, Slot

\* A process at a place where it holds ptable.lock holds it.
LEMMA PtableHeld ==
  ASSUME SchedAssumption, RunInv, LockInv, NEW p \in Slot \ saved, pc[p] \in WithPtable
  PROVE  \E d \in Cpu : proc[d] = p /\ ptable = d
<1>1. PICK d \in Cpu : proc[d] = p
  BY DEF RunInv
<1>2. HasPtable(d)
  BY <1>1, SlotFacts DEF HasPtable
<1> QED
  BY <1>1, <1>2 DEF LockInv

\* Who holds the lock of the condition.
LEMMA LkHeld ==
  ASSUME SchedAssumption, RunInv, LockInv, NEW p \in Slot, pc[p] \in WithLk
  PROVE  \E d \in Cpu : proc[d] = p /\ lk = d
<1>1. PICK d \in Cpu : proc[d] = p
  BY DEF RunInv, WithLk, SwitchedOut
<1>2. HasLk(d)
  BY <1>1, SlotFacts DEF HasLk
<1> QED
  BY <1>1, <1>2 DEF LockInv

\* What a scheduler finds RUNNABLE under ptable.lock is saved: no processor is
\* between yield() and swtch().
LEMMA RunnableSaved ==
  ASSUME SchedAssumption, Types, RunInv, LockInv, NEW c \in Cpu, proc[c] = 0, at[c] = "scan",
         scan[c] <= NPROC, state[scan[c]] = "RUNNABLE"
  PROVE  scan[c] \in saved
<1>1. ptable = c /\ scan[c] \in Slot
  BY DEF LockInv, HasPtable, Types, Slot
<1>2. SUFFICES ASSUME scan[c] \notin saved PROVE FALSE
  OBVIOUS
<1>3. pc[scan[c]] = "sched_yield"
  BY <1>1, <1>2 DEF RunInv
<1>4. PICK d \in Cpu : proc[d] = scan[c] /\ ptable = d
  BY <1>1, <1>2, <1>3, PtableHeld DEF WithPtable
<1> QED
  BY <1>1, <1>4, SlotFacts

\* LockInv holds after a step in which only processor c may have taken or
\* released the locks, and says so.
LEMMA Moved ==
  ASSUME SchedAssumption, LockInv, NEW c \in Cpu,
         \A d \in Cpu \ {c} : /\ HasPtable(d)' <=> HasPtable(d)
                              /\ HasLk(d)' <=> HasLk(d)
                              /\ ncli'[d] = ncli[d],
         \/ ptable' = ptable /\ (HasPtable(c)' <=> HasPtable(c))
         \/ ptable = Nobody /\ ptable' = c /\ HasPtable(c)'
         \/ ptable = c /\ ptable' = Nobody /\ ~HasPtable(c)',
         \/ lk' = lk /\ (HasLk(c)' <=> HasLk(c))
         \/ lk = Nobody /\ lk' = c /\ HasLk(c)'
         \/ lk = c /\ lk' = Nobody /\ ~HasLk(c)',
         ncli'[c] = (IF HasPtable(c)' THEN 1 ELSE 0) + (IF HasLk(c)' THEN 1 ELSE 0)
  PROVE  LockInv'
<1>1. \A d \in Cpu : (ptable' = d <=> HasPtable(d)') /\ (lk' = d <=> HasLk(d)')
  BY DEF LockInv, SchedAssumption
<1>2. \A d \in Cpu : ncli'[d] = (IF HasPtable(d)' THEN 1 ELSE 0) + (IF HasLk(d)' THEN 1 ELSE 0)
  BY DEF LockInv
<1> QED
  BY <1>1, <1>2 DEF LockInv

\* A process goes from one place to another: nothing changes for the others.
LEMMA OnlyHere ==
  ASSUME SchedAssumption, Types, RunInv, NEW c \in Cpu, NEW p \in Slot, NEW l,
         proc[c] = p, UNCHANGED <<proc, at>>, pc' = [pc EXCEPT ![p] = l]
  PROVE  /\ \A d \in Cpu \ {c} : (HasPtable(d)' <=> HasPtable(d)) /\ (HasLk(d)' <=> HasLk(d))
         /\ HasPtable(c) <=> pc[p] \in WithPtable
         /\ HasPtable(c)' <=> l \in WithPtable
         /\ HasLk(c) <=> pc[p] \in WithLk
         /\ HasLk(c)' <=> l \in WithLk
<1>1. p # 0 /\ pc'[p] = l
  BY SlotFacts DEF Types
<1>2. \A d \in Cpu \ {c} : proc[d] # 0 => proc[d] \in Slot /\ proc[d] # p /\ pc'[proc[d]] = pc[proc[d]]
  BY <1>1 DEF RunInv, Types
<1> QED
  BY <1>1, <1>2 DEF HasPtable, HasLk

\* What the four lock operations of a process and a step without any do.
LEMMA TakePtable ==
  ASSUME SchedAssumption, Types, RunInv, LockInv, NEW c \in Cpu, NEW p \in Slot, NEW l,
         proc[c] = p, UNCHANGED <<proc, at>>, pc' = [pc EXCEPT ![p] = l], acquire_ptable(c),
         pc[p] \notin WithPtable, l \in WithPtable, l \in WithLk <=> pc[p] \in WithLk
  PROVE  LockInv'
<1>1. ncli'[c] = ncli[c] + 1 /\ \A d \in Cpu \ {c} : ncli'[d] = ncli[d]
  BY DEF acquire_ptable, pushcli, Types
<1>2. ncli[c] = 0 + (IF HasLk(c) THEN 1 ELSE 0)
  BY OnlyHere DEF LockInv
<1>3. HasPtable(c)' /\ (HasLk(c)' <=> HasLk(c))
  BY OnlyHere
<1>4. ncli'[c] = (IF HasPtable(c)' THEN 1 ELSE 0) + (IF HasLk(c)' THEN 1 ELSE 0)
  BY <1>1, <1>2, <1>3
<1> QED
  BY <1>1, <1>4, OnlyHere, Moved DEF acquire_ptable

\* Letting go of ptable.lock.
LEMMA DropPtable ==
  ASSUME SchedAssumption, Types, RunInv, LockInv, NEW c \in Cpu, NEW p \in Slot, NEW l,
         proc[c] = p, UNCHANGED <<proc, at>>, pc' = [pc EXCEPT ![p] = l], release_ptable(c),
         pc[p] \in WithPtable, l \notin WithPtable, l \in WithLk <=> pc[p] \in WithLk
  PROVE  LockInv'
<1>1. ncli'[c] = ncli[c] - 1 /\ \A d \in Cpu \ {c} : ncli'[d] = ncli[d]
  BY DEF release_ptable, popcli, Types
<1>2. ptable = c /\ ncli[c] = 1 + (IF HasLk(c) THEN 1 ELSE 0)
  BY OnlyHere DEF LockInv
<1>3. ~HasPtable(c)' /\ (HasLk(c)' <=> HasLk(c))
  BY OnlyHere
<1>4. ncli'[c] = (IF HasPtable(c)' THEN 1 ELSE 0) + (IF HasLk(c)' THEN 1 ELSE 0)
  BY <1>1, <1>2, <1>3
<1> QED
  BY <1>1, <1>2, <1>4, OnlyHere, Moved DEF release_ptable

\* Taking the lock of the condition.
LEMMA TakeLk ==
  ASSUME SchedAssumption, Types, RunInv, LockInv, NEW c \in Cpu, NEW p \in Slot, NEW l,
         proc[c] = p, UNCHANGED <<proc, at>>, pc' = [pc EXCEPT ![p] = l], acquire_lk(c),
         pc[p] \notin WithLk, l \in WithLk, l \in WithPtable <=> pc[p] \in WithPtable
  PROVE  LockInv'
<1>1. ncli'[c] = ncli[c] + 1 /\ \A d \in Cpu \ {c} : ncli'[d] = ncli[d]
  BY DEF acquire_lk, pushcli, Types
<1>2. ncli[c] = (IF HasPtable(c) THEN 1 ELSE 0) + 0
  BY OnlyHere DEF LockInv
<1>3. HasLk(c)' /\ (HasPtable(c)' <=> HasPtable(c))
  BY OnlyHere
<1>4. ncli'[c] = (IF HasPtable(c)' THEN 1 ELSE 0) + (IF HasLk(c)' THEN 1 ELSE 0)
  BY <1>1, <1>2, <1>3
<1> QED
  BY <1>1, <1>4, OnlyHere, Moved DEF acquire_lk

\* Letting go of the lock of the condition.
LEMMA DropLk ==
  ASSUME SchedAssumption, Types, RunInv, LockInv, NEW c \in Cpu, NEW p \in Slot, NEW l,
         proc[c] = p, UNCHANGED <<proc, at>>, pc' = [pc EXCEPT ![p] = l], release_lk(c),
         pc[p] \in WithLk, l \notin WithLk, l \in WithPtable <=> pc[p] \in WithPtable
  PROVE  LockInv'
<1>1. ncli'[c] = ncli[c] - 1 /\ \A d \in Cpu \ {c} : ncli'[d] = ncli[d]
  BY DEF release_lk, popcli, Types
<1>2. lk = c /\ ncli[c] = (IF HasPtable(c) THEN 1 ELSE 0) + 1
  BY OnlyHere DEF LockInv
<1>3. ~HasLk(c)' /\ (HasPtable(c)' <=> HasPtable(c))
  BY OnlyHere
<1>4. ncli'[c] = (IF HasPtable(c)' THEN 1 ELSE 0) + (IF HasLk(c)' THEN 1 ELSE 0)
  BY <1>1, <1>2, <1>3
<1> QED
  BY <1>1, <1>2, <1>4, OnlyHere, Moved DEF release_lk

\* At the start every processor is in its scheduler and no lock is held.
LEMMA InitIInv == SchedAssumption /\ Init => IInv
<1> SUFFICES ASSUME SchedAssumption, Init PROVE IInv
  OBVIOUS
<1> USE SlotFacts DEF Init, WithPtable, WithLk, Places, SwitchedOut
<1>1. Types
  <2>1. 1 \in 1..(NPROC + 1) /\ 0 \in Nat /\ 0 \in Int
    OBVIOUS
  <2> QED
    BY <2>1 DEF Types, SchedAssumption
<1>2. RunInv
  BY DEF RunInv
<1>3. LockInv
  BY DEF LockInv, HasPtable, HasLk, SchedAssumption
<1>4. FlagInv /\ WakeInv
  BY DEF FlagInv, WakeInv
<1> QED
  BY <1>1, <1>2, <1>3, <1>4 DEF IInv

\* Every step keeps the types.
LEMMA TypesStep == SchedAssumption /\ IInv /\ [Next]_vars => Types'
<1> SUFFICES ASSUME SchedAssumption, Types, RunInv, ~panicked, [Next]_vars PROVE Types'
  BY DEF IInv
<1> USE SlotFacts DEF Types, WithPtable, WithLk, Places, SwitchedOut, lockVars, schedVars
<1>1. ASSUME NEW c \in Cpu, sti(c) PROVE Types'
  BY <1>1 DEF sti, InScheduler
<1>2. ASSUME NEW c \in Cpu, scheduler_acquire(c) PROVE Types'
  BY <1>2 DEF scheduler_acquire, pushcli, InScheduler
<1>3. ASSUME NEW c \in Cpu, scheduler_skip(c) PROVE Types'
  BY <1>3 DEF scheduler_skip, InScheduler
<1>4. ASSUME NEW c \in Cpu, scheduler_run(c) PROVE Types'
  <2>1. scan[c] \in Slot
    BY <1>4 DEF scheduler_run, InScheduler, Slot
  <2> QED
    BY <1>4, <2>1 DEF scheduler_run, RestoreIntena
<1>5. ASSUME NEW c \in Cpu, scheduler_release(c) PROVE Types'
  BY <1>5 DEF scheduler_release, popcli, HaltNow, InScheduler
<1>6. ASSUME NEW c \in Cpu, hlt(c) PROVE Types'
  BY <1>6 DEF hlt, InScheduler
<1>7. ASSUME NEW c \in Cpu, NEW p \in Slot, leave(c, p) PROVE Types'
  BY <1>7 DEF leave, Running, Goto
<1>8. ASSUME NEW c \in Cpu, NEW p \in Slot, yield(c, p) PROVE Types'
  BY <1>8 DEF yield, acquire_ptable, pushcli, Running, Goto
<1>9. ASSUME NEW c \in Cpu, NEW p \in Slot, switched_in(c, p) PROVE Types'
  BY <1>9 DEF switched_in, release_ptable, popcli, Running, Goto
<1>10. ASSUME NEW c \in Cpu, NEW p \in Slot, wait_lock(c, p) PROVE Types'
  BY <1>10 DEF wait_lock, acquire_lk, pushcli, Running, Goto
<1>11. ASSUME NEW c \in Cpu, NEW p \in Slot, wait_test(c, p) PROVE Types'
  <2>1. cond' \in BOOLEAN
    BY <1>11 DEF wait_test
  <2>2. Types!1' /\ Types!2' /\ Types!3'
    BY <1>11 DEF wait_test, release_lk, popcli
  <2>3. pc' \in [Slot -> Places]
    BY <1>11 DEF wait_test, Running, Goto
  <2> QED
    BY <1>11, <2>1, <2>2, <2>3 DEF wait_test
<1>12. ASSUME NEW c \in Cpu, NEW p \in Slot, sleep_acquire(c, p) PROVE Types'
  BY <1>12 DEF sleep_acquire, acquire_ptable, pushcli, Running, Goto
<1>13. ASSUME NEW c \in Cpu, NEW p \in Slot, sleep_release(c, p) PROVE Types'
  BY <1>13 DEF sleep_release, release_lk, popcli, Running, Goto
<1>14. ASSUME NEW c \in Cpu, NEW p \in Slot, sleep_mark(c, p) PROVE Types'
  BY <1>14 DEF sleep_mark, Running, Goto
<1>15. ASSUME NEW c \in Cpu, NEW p \in Slot, sleep_wake(c, p) PROVE Types'
  BY <1>15 DEF sleep_wake, release_ptable, popcli, Running, Goto
<1>16. ASSUME NEW c \in Cpu, NEW p \in Slot, signal(c, p) PROVE Types'
  BY <1>16 DEF signal, acquire_lk, pushcli, Running, Goto
<1>17. ASSUME NEW c \in Cpu, NEW p \in Slot, wakeup(c, p) PROVE Types'
  BY <1>17 DEF wakeup, acquire_ptable, pushcli, Running, Goto
<1>18. ASSUME NEW c \in Cpu, NEW p \in Slot, wakeup_release(c, p) PROVE Types'
  BY <1>18 DEF wakeup_release, release_ptable, popcli, Running, Goto
<1>19. ASSUME NEW c \in Cpu, NEW p \in Slot, signal_release(c, p) PROVE Types'
  BY <1>19 DEF signal_release, release_lk, popcli, Running, Goto
<1>20. ASSUME NEW c \in Cpu, NEW p \in Slot, sched(c, p, "sched_yield", "yielded") PROVE Types'
  BY <1>20 DEF sched, Running, Goto, ScanOn, RunInv
<1>21. ASSUME NEW c \in Cpu, NEW p \in Slot, sched(c, p, "sched_sleep", "slept") PROVE Types'
  BY <1>21 DEF sched, Running, Goto, ScanOn, RunInv
<1>22. ASSUME NEW c \in Cpu, NEW p \in Slot, NEW l \in {"yield", "wait", "signal"}, enter(c, p, l)
      PROVE  Types'
  BY <1>22 DEF enter, Running, Goto
<1>23. CASE UNCHANGED vars
  BY <1>23 DEF vars
<1> HIDE DEF Types, WithPtable, WithLk, Places, SwitchedOut, lockVars, schedVars
<1> QED
  BY <1>1, <1>2, <1>3, <1>4, <1>5, <1>6, <1>7, <1>8, <1>9, <1>10, <1>11, <1>12, <1>13, <1>14, <1>15, <1>16, <1>17, <1>18, <1>19, <1>20, <1>21, <1>22, <1>23
  DEF Next, SchedulerStep, KernelStep

\* Every step keeps a process on one processor or saved: when a scheduler picks a
\* RUNNABLE process under ptable.lock no processor is between yield() and swtch().
LEMMA RunStep == SchedAssumption /\ IInv /\ [Next]_vars => RunInv'
<1> SUFFICES ASSUME SchedAssumption, Types, RunInv, LockInv, ~panicked, [Next]_vars PROVE RunInv'
  BY DEF IInv
<1> USE SlotFacts DEF RunInv, Types, WithPtable, WithLk, Places, SwitchedOut, lockVars, schedVars
<1>1. ASSUME NEW c \in Cpu, sti(c) PROVE RunInv'
  BY <1>1 DEF sti, InScheduler
<1>2. ASSUME NEW c \in Cpu, scheduler_acquire(c) PROVE RunInv'
  BY <1>2 DEF scheduler_acquire, pushcli, InScheduler
<1>3. ASSUME NEW c \in Cpu, scheduler_skip(c) PROVE RunInv'
  BY <1>3 DEF scheduler_skip, InScheduler
<1>4. ASSUME NEW c \in Cpu, scheduler_run(c) PROVE RunInv'
  <2> DEFINE q == scan[c]
  <2>1. /\ q \in Slot /\ proc[c] = 0 /\ at[c] = "scan" /\ q <= NPROC
        /\ state[q] = "RUNNABLE" /\ state' = [state EXCEPT ![q] = "RUNNING"]
        /\ proc' = [proc EXCEPT ![c] = q] /\ saved' = saved \ {q}
        /\ UNCHANGED <<at, scan, pc>>
    BY <1>4 DEF scheduler_run, InScheduler, Slot
  <2>2. q \in saved
    BY <1>4, RunnableSaved DEF scheduler_run, InScheduler
  <2>3. pc[q] \in SwitchedOut
    BY <2>2
  <2>4. \A d \in Cpu : proc[d] # q
    BY <2>1, <2>2
  <2> HIDE DEF q
  <2>5. \A d, e \in Cpu : proc'[d] = proc'[e] /\ proc'[d] # 0 => d = e
    BY <2>1, <2>4
  <2>6. \A r \in Slot : r \in saved' <=> \A d \in Cpu : proc'[d] # r
    BY <2>1, <2>4
  <2>7. \A d \in Cpu : proc'[d] # 0 => at'[d] = "scan" /\ scan'[d] <= NPROC
    BY <2>1 DEF q
  <2>8. \A r \in saved' : pc'[r] \in SwitchedOut /\ (state'[r] = "SLEEPING" => pc'[r] = "slept")
    BY <2>1
  <2>9. \A r \in Slot \ saved' :
          /\ state'[r] = "RUNNABLE" <=> pc'[r] = "sched_yield"
          /\ state'[r] = "SLEEPING" <=> pc'[r] = "sched_sleep"
    BY <2>1, <2>3
  <2> HIDE DEF Types, WithPtable, WithLk, Places, SwitchedOut
  <2> QED
    BY <2>5, <2>6, <2>7, <2>8, <2>9 DEF RunInv
<1>5. ASSUME NEW c \in Cpu, scheduler_release(c) PROVE RunInv'
  BY <1>5 DEF scheduler_release, popcli, HaltNow, InScheduler
<1>6. ASSUME NEW c \in Cpu, hlt(c) PROVE RunInv'
  BY <1>6 DEF hlt, InScheduler
<1>7. ASSUME NEW c \in Cpu, NEW p \in Slot, leave(c, p) PROVE RunInv'
  BY <1>7 DEF leave, Running, Goto
<1>8. ASSUME NEW c \in Cpu, NEW p \in Slot, yield(c, p) PROVE RunInv'
  BY <1>8 DEF yield, acquire_ptable, pushcli, Running, Goto
<1>9. ASSUME NEW c \in Cpu, NEW p \in Slot, switched_in(c, p) PROVE RunInv'
  BY <1>9 DEF switched_in, release_ptable, popcli, Running, Goto
<1>10. ASSUME NEW c \in Cpu, NEW p \in Slot, wait_lock(c, p) PROVE RunInv'
  BY <1>10 DEF wait_lock, acquire_lk, pushcli, Running, Goto
<1>11. ASSUME NEW c \in Cpu, NEW p \in Slot, wait_test(c, p) PROVE RunInv'
  BY <1>11 DEF wait_test, release_lk, popcli, Running, Goto
<1>12. ASSUME NEW c \in Cpu, NEW p \in Slot, sleep_acquire(c, p) PROVE RunInv'
  BY <1>12 DEF sleep_acquire, acquire_ptable, pushcli, Running, Goto
<1>13. ASSUME NEW c \in Cpu, NEW p \in Slot, sleep_release(c, p) PROVE RunInv'
  BY <1>13 DEF sleep_release, release_lk, popcli, Running, Goto
<1>14. ASSUME NEW c \in Cpu, NEW p \in Slot, sleep_mark(c, p) PROVE RunInv'
  BY <1>14 DEF sleep_mark, Running, Goto
<1>15. ASSUME NEW c \in Cpu, NEW p \in Slot, sleep_wake(c, p) PROVE RunInv'
  BY <1>15 DEF sleep_wake, release_ptable, popcli, Running, Goto
<1>16. ASSUME NEW c \in Cpu, NEW p \in Slot, signal(c, p) PROVE RunInv'
  BY <1>16 DEF signal, acquire_lk, pushcli, Running, Goto
<1>17. ASSUME NEW c \in Cpu, NEW p \in Slot, wakeup(c, p) PROVE RunInv'
  <2>1. ptable = Nobody
    BY <1>17 DEF wakeup, acquire_ptable
  <2>2. \A q \in Slot \ saved : state[q] # "SLEEPING" /\ state[q] # "RUNNABLE"
    BY <2>1, PtableHeld DEF SchedAssumption
  <2>3. proc[c] = p /\ pc[p] = "wakeup" /\ pc' = [pc EXCEPT ![p] = "wakeup_release"]
    BY <1>17 DEF wakeup, Running, Goto
  <2>4. UNCHANGED <<proc, saved, at, scan>>
    BY <1>17 DEF wakeup
  <2>5. \A q \in Slot : state'[q] = IF state[q] = "SLEEPING" THEN "RUNNABLE" ELSE state[q]
    BY <1>17 DEF wakeup
  <2> QED
    BY <2>2, <2>3, <2>4, <2>5
<1>18. ASSUME NEW c \in Cpu, NEW p \in Slot, wakeup_release(c, p) PROVE RunInv'
  BY <1>18 DEF wakeup_release, release_ptable, popcli, Running, Goto
<1>19. ASSUME NEW c \in Cpu, NEW p \in Slot, signal_release(c, p) PROVE RunInv'
  BY <1>19 DEF signal_release, release_lk, popcli, Running, Goto
<1>20. ASSUME NEW c \in Cpu, NEW p \in Slot, sched(c, p, "sched_yield", "yielded") PROVE RunInv'
  BY <1>20 DEF sched, Running, Goto, ScanOn
<1>21. ASSUME NEW c \in Cpu, NEW p \in Slot, sched(c, p, "sched_sleep", "slept") PROVE RunInv'
  BY <1>21 DEF sched, Running, Goto, ScanOn
<1>22. ASSUME NEW c \in Cpu, NEW p \in Slot, NEW l \in {"yield", "wait", "signal"}, enter(c, p, l)
      PROVE  RunInv'
  BY <1>22 DEF enter, Running, Goto
<1>23. CASE UNCHANGED vars
  BY <1>23 DEF vars
<1> HIDE DEF RunInv, Types, WithPtable, WithLk, Places, SwitchedOut, lockVars, schedVars
<1> QED
  BY <1>1, <1>2, <1>3, <1>4, <1>5, <1>6, <1>7, <1>8, <1>9, <1>10, <1>11, <1>12, <1>13, <1>14, <1>15, <1>16, <1>17, <1>18, <1>19, <1>20, <1>21, <1>22, <1>23
  DEF Next, SchedulerStep, KernelStep

\* Every step keeps the locks, and ncli with them.
LEMMA LockStep == SchedAssumption /\ IInv /\ [Next]_vars => LockInv'
<1> SUFFICES ASSUME SchedAssumption, Types, RunInv, LockInv, ~panicked, [Next]_vars PROVE LockInv'
  BY DEF IInv
<1> USE SlotFacts DEF RunInv, LockInv, HasPtable, HasLk, Types, WithPtable, WithLk, Places, SwitchedOut, lockVars, schedVars
<1>1. ASSUME NEW c \in Cpu, sti(c) PROVE LockInv'
  BY <1>1 DEF sti, InScheduler
<1>2. ASSUME NEW c \in Cpu, scheduler_acquire(c) PROVE LockInv'
  <2>1. /\ proc[c] = 0 /\ at[c] = "acquire" /\ ptable = Nobody /\ ptable' = c
        /\ at' = [at EXCEPT ![c] = "scan"] /\ UNCHANGED <<lk, proc, pc>>
        /\ ncli' = [ncli EXCEPT ![c] = ncli[c] + 1]
    BY <1>2 DEF scheduler_acquire, InScheduler, pushcli
  <2>2. \A d \in Cpu \ {c} : (HasPtable(d)' <=> HasPtable(d)) /\ (HasLk(d)' <=> HasLk(d)) /\ ncli'[d] = ncli[d]
    BY <2>1
  <2>3. HasPtable(c)' /\ ~HasLk(c)' /\ ~HasLk(c) /\ ~HasPtable(c) /\ ncli[c] = 0 /\ ncli'[c] = 1
    BY <2>1
  <2> HIDE DEF Types, RunInv, LockInv, HasPtable, HasLk
  <2> QED
    BY <2>1, <2>2, <2>3, Moved
<1>3. ASSUME NEW c \in Cpu, scheduler_skip(c) PROVE LockInv'
  BY <1>3 DEF scheduler_skip, InScheduler
<1>4. ASSUME NEW c \in Cpu, scheduler_run(c) PROVE LockInv'
  <2> DEFINE q == scan[c]
  <2>1. /\ q \in Slot /\ proc[c] = 0 /\ at[c] = "scan" /\ state[q] = "RUNNABLE"
        /\ proc' = [proc EXCEPT ![c] = q] /\ UNCHANGED <<ptable, lk, ncli, at, pc>>
    BY <1>4 DEF scheduler_run, InScheduler, Slot
  <2>2. q \in saved
    BY <1>4, RunnableSaved DEF scheduler_run, InScheduler
  <2>3. pc[q] \in SwitchedOut /\ proc'[c] = q /\ q # 0
    BY <2>1, <2>2
  <2>4. \A d \in Cpu \ {c} : proc'[d] = proc[d]
    BY <2>1
  <2> HIDE DEF q
  <2>5. \A d \in Cpu \ {c} : (HasPtable(d)' <=> HasPtable(d)) /\ (HasLk(d)' <=> HasLk(d)) /\ ncli'[d] = ncli[d]
    BY <2>1, <2>4
  <2>6. HasPtable(c)' /\ ~HasLk(c)' /\ ~HasLk(c) /\ HasPtable(c) /\ ncli'[c] = 1
    BY <2>1, <2>3
  <2> HIDE DEF Types, RunInv, LockInv, HasPtable, HasLk
  <2> QED
    BY <2>1, <2>5, <2>6, Moved
<1>5. ASSUME NEW c \in Cpu, scheduler_release(c) PROVE LockInv'
  <2>1. /\ proc[c] = 0 /\ at[c] = "scan" /\ ptable' = Nobody
        /\ UNCHANGED <<lk, proc, pc>> /\ ncli' = [ncli EXCEPT ![c] = ncli[c] - 1]
    BY <1>5 DEF scheduler_release, InScheduler, popcli
  <2>2. at'[c] # "scan" /\ \A d \in Cpu \ {c} : at'[d] = at[d]
    BY <1>5 DEF scheduler_release
  <2>3. \A d \in Cpu \ {c} : (HasPtable(d)' <=> HasPtable(d)) /\ (HasLk(d)' <=> HasLk(d)) /\ ncli'[d] = ncli[d]
    BY <2>1, <2>2
  <2>4. ptable = c /\ ~HasPtable(c)' /\ ~HasLk(c)' /\ ~HasLk(c) /\ ncli'[c] = 0
    BY <2>1, <2>2
  <2> HIDE DEF Types, RunInv, LockInv, HasPtable, HasLk
  <2> QED
    BY <2>1, <2>3, <2>4, Moved
<1>6. ASSUME NEW c \in Cpu, hlt(c) PROVE LockInv'
  BY <1>6 DEF hlt, InScheduler
<1>7. ASSUME NEW c \in Cpu, NEW p \in Slot, leave(c, p) PROVE LockInv'
  BY <1>7 DEF leave, Running, Goto
<1>8. ASSUME NEW c \in Cpu, NEW p \in Slot, yield(c, p) PROVE LockInv'
  <2>1. /\ proc[c] = p /\ pc[p] = "yield" /\ pc' = [pc EXCEPT ![p] = "sched_yield"]
        /\ acquire_ptable(c) /\ UNCHANGED <<proc, at>>
    BY <1>8 DEF yield, Running, Goto
  <2> HIDE DEF Types, RunInv, LockInv, HasPtable, HasLk
  <2> QED
    BY <2>1, TakePtable
<1>9. ASSUME NEW c \in Cpu, NEW p \in Slot, switched_in(c, p) PROVE LockInv'
  <2>1. /\ proc[c] = p /\ pc[p] \in {"yielded", "forkret"} /\ pc' = [pc EXCEPT ![p] = "leave"]
        /\ release_ptable(c) /\ UNCHANGED <<proc, at>>
    BY <1>9 DEF switched_in, Running, Goto
  <2> HIDE DEF Types, RunInv, LockInv, HasPtable, HasLk
  <2> QED
    BY <2>1, DropPtable
<1>10. ASSUME NEW c \in Cpu, NEW p \in Slot, wait_lock(c, p) PROVE LockInv'
  <2>1. /\ proc[c] = p /\ pc[p] = "wait" /\ pc' = [pc EXCEPT ![p] = "test"]
        /\ acquire_lk(c) /\ UNCHANGED <<proc, at>>
    BY <1>10 DEF wait_lock, Running, Goto
  <2> HIDE DEF Types, RunInv, LockInv, HasPtable, HasLk
  <2> QED
    BY <2>1, TakeLk
<1>11. ASSUME NEW c \in Cpu, NEW p \in Slot, wait_test(c, p) PROVE LockInv'
  <2>1. CASE cond
    <3>1. /\ proc[c] = p /\ pc[p] = "test" /\ pc' = [pc EXCEPT ![p] = "leave"]
          /\ release_lk(c) /\ UNCHANGED <<proc, at>>
      BY <1>11, <2>1 DEF wait_test, Running, Goto
    <3> HIDE DEF Types, RunInv, LockInv, HasPtable, HasLk
    <3> QED
      BY <3>1, DropLk
  <2>2. CASE ~cond
    BY <1>11, <2>2 DEF wait_test, Running, Goto
  <2> QED
    BY <2>1, <2>2
<1>12. ASSUME NEW c \in Cpu, NEW p \in Slot, sleep_acquire(c, p) PROVE LockInv'
  <2>1. /\ proc[c] = p /\ pc[p] = "sleep" /\ pc' = [pc EXCEPT ![p] = "sleep_release"]
        /\ acquire_ptable(c) /\ UNCHANGED <<proc, at>>
    BY <1>12 DEF sleep_acquire, Running, Goto
  <2> HIDE DEF Types, RunInv, LockInv, HasPtable, HasLk
  <2> QED
    BY <2>1, TakePtable
<1>13. ASSUME NEW c \in Cpu, NEW p \in Slot, sleep_release(c, p) PROVE LockInv'
  <2>1. /\ proc[c] = p /\ pc[p] = "sleep_release" /\ pc' = [pc EXCEPT ![p] = "sleep_mark"]
        /\ release_lk(c) /\ UNCHANGED <<proc, at>>
    BY <1>13 DEF sleep_release, Running, Goto
  <2> HIDE DEF Types, RunInv, LockInv, HasPtable, HasLk
  <2> QED
    BY <2>1, DropLk
<1>14. ASSUME NEW c \in Cpu, NEW p \in Slot, sleep_mark(c, p) PROVE LockInv'
  BY <1>14 DEF sleep_mark, Running, Goto
<1>15. ASSUME NEW c \in Cpu, NEW p \in Slot, sleep_wake(c, p) PROVE LockInv'
  <2>1. /\ proc[c] = p /\ pc[p] = "slept" /\ pc' = [pc EXCEPT ![p] = "wait"]
        /\ release_ptable(c) /\ UNCHANGED <<proc, at>>
    BY <1>15 DEF sleep_wake, Running, Goto
  <2> HIDE DEF Types, RunInv, LockInv, HasPtable, HasLk
  <2> QED
    BY <2>1, DropPtable
<1>16. ASSUME NEW c \in Cpu, NEW p \in Slot, signal(c, p) PROVE LockInv'
  <2>1. /\ proc[c] = p /\ pc[p] = "signal" /\ pc' = [pc EXCEPT ![p] = "wakeup"]
        /\ acquire_lk(c) /\ UNCHANGED <<proc, at>>
    BY <1>16 DEF signal, Running, Goto
  <2> HIDE DEF Types, RunInv, LockInv, HasPtable, HasLk
  <2> QED
    BY <2>1, TakeLk
<1>17. ASSUME NEW c \in Cpu, NEW p \in Slot, wakeup(c, p) PROVE LockInv'
  <2>1. /\ proc[c] = p /\ pc[p] = "wakeup" /\ pc' = [pc EXCEPT ![p] = "wakeup_release"]
        /\ acquire_ptable(c) /\ UNCHANGED <<proc, at>>
    BY <1>17 DEF wakeup, Running, Goto
  <2> HIDE DEF Types, RunInv, LockInv, HasPtable, HasLk
  <2> QED
    BY <2>1, TakePtable
<1>18. ASSUME NEW c \in Cpu, NEW p \in Slot, wakeup_release(c, p) PROVE LockInv'
  <2>1. /\ proc[c] = p /\ pc[p] = "wakeup_release" /\ pc' = [pc EXCEPT ![p] = "signal_release"]
        /\ release_ptable(c) /\ UNCHANGED <<proc, at>>
    BY <1>18 DEF wakeup_release, Running, Goto
  <2> HIDE DEF Types, RunInv, LockInv, HasPtable, HasLk
  <2> QED
    BY <2>1, DropPtable
<1>19. ASSUME NEW c \in Cpu, NEW p \in Slot, signal_release(c, p) PROVE LockInv'
  <2>1. /\ proc[c] = p /\ pc[p] = "signal_release" /\ pc' = [pc EXCEPT ![p] = "leave"]
        /\ release_lk(c) /\ UNCHANGED <<proc, at>>
    BY <1>19 DEF signal_release, Running, Goto
  <2> HIDE DEF Types, RunInv, LockInv, HasPtable, HasLk
  <2> QED
    BY <2>1, DropLk
<1>20. ASSUME NEW c \in Cpu, NEW p \in Slot, sched(c, p, "sched_yield", "yielded") PROVE LockInv'
  BY <1>20 DEF sched, Running, Goto, ScanOn
<1>21. ASSUME NEW c \in Cpu, NEW p \in Slot, sched(c, p, "sched_sleep", "slept") PROVE LockInv'
  BY <1>21 DEF sched, Running, Goto, ScanOn
<1>22. ASSUME NEW c \in Cpu, NEW p \in Slot, NEW l \in {"yield", "wait", "signal"}, enter(c, p, l)
      PROVE  LockInv'
  BY <1>22 DEF enter, Running, Goto
<1>23. CASE UNCHANGED vars
  BY <1>23 DEF vars
<1> HIDE DEF RunInv, LockInv, HasPtable, HasLk, Types, WithPtable, WithLk, Places, SwitchedOut, lockVars, schedVars
<1> QED
  BY <1>1, <1>2, <1>3, <1>4, <1>5, <1>6, <1>7, <1>8, <1>9, <1>10, <1>11, <1>12, <1>13, <1>14, <1>15, <1>16, <1>17, <1>18, <1>19, <1>20, <1>21, <1>22, <1>23
  DEF Next, SchedulerStep, KernelStep

\* Every step keeps the interrupt flag and its saved copies right.
LEMMA FlagStep == SchedAssumption /\ IInv /\ [Next]_vars => FlagInv'
<1> SUFFICES ASSUME SchedAssumption, Types, RunInv, LockInv, FlagInv, ~panicked, [Next]_vars PROVE FlagInv'
  BY DEF IInv
<1> USE SlotFacts DEF RunInv, FlagInv, Types, WithPtable, WithLk, Places, SwitchedOut, lockVars, schedVars
<1>1. ASSUME NEW c \in Cpu, sti(c) PROVE FlagInv'
  BY <1>1 DEF sti, InScheduler
<1>2. ASSUME NEW c \in Cpu, scheduler_acquire(c) PROVE FlagInv'
  <2>1. ncli[c] = 0 /\ c \in eflags /\ proc[c] = 0
    BY <1>2 DEF scheduler_acquire, InScheduler, LockInv, HasPtable, HasLk
  <2>2. intena' = intena \cup {c} /\ eflags' = eflags \ {c}
    BY <1>2, <2>1 DEF scheduler_acquire, pushcli
  <2>3. \A d \in Cpu \ {c} : ncli'[d] = ncli[d]
    BY <1>2 DEF scheduler_acquire, pushcli
  <2> QED
    BY <1>2, <2>1, <2>2, <2>3 DEF scheduler_acquire
<1>3. ASSUME NEW c \in Cpu, scheduler_skip(c) PROVE FlagInv'
  BY <1>3 DEF scheduler_skip, InScheduler
<1>4. ASSUME NEW c \in Cpu, scheduler_run(c) PROVE FlagInv'
  <2>1. /\ scan[c] \in Slot /\ proc[c] = 0 /\ at[c] = "scan" /\ proc' = [proc EXCEPT ![c] = scan[c]]
        /\ skipped' = [skipped EXCEPT ![c] = 0] /\ intena' = RestoreIntena(c, scan[c])
        /\ UNCHANGED <<eflags, ncli, at, scan, pc, mine>>
    BY <1>4 DEF scheduler_run, InScheduler, Slot
  <2>2. scan[c] \in saved
    BY <1>4, RunnableSaved DEF scheduler_run, InScheduler
  <2>3. pc[scan[c]] \in SwitchedOut
    BY <2>2
  <2>4. pc[scan[c]] # "forkret" => c \notin intena'
    BY <2>1, <2>3 DEF RestoreIntena
  <2>5. \A d \in Cpu \ {c} : proc'[d] = proc[d] /\ (d \in intena' <=> d \in intena)
    BY <2>1 DEF RestoreIntena
  <2>6. proc'[c] = scan[c] /\ proc'[c] # 0 /\ skipped'[c] = 0 /\ c \notin eflags
    BY <2>1
  <2> QED
    BY <2>1, <2>3, <2>4, <2>5, <2>6
<1>5. ASSUME NEW c \in Cpu, scheduler_release(c) PROVE FlagInv'
  <2>1. ncli[c] = 1 /\ proc[c] = 0 /\ c \notin eflags
    BY <1>5 DEF scheduler_release, InScheduler, LockInv, HasPtable, HasLk
  <2>2. HaltNow(c) => c \in intena
    BY <1>5, <2>1 DEF scheduler_release, InScheduler, HaltNow
  <2>3. HaltNow(c) => c \in eflags'
    BY <1>5, <2>1, <2>2 DEF scheduler_release, popcli
  <2>4. at'[c] = (IF HaltNow(c) THEN "hlt" ELSE "sti") /\ \A d \in Cpu \ {c} : at'[d] = at[d]
    BY <1>5 DEF scheduler_release
  <2>5. \A d \in Cpu \ {c} : ncli'[d] = ncli[d] /\ (d \in eflags' <=> d \in eflags) /\ skipped'[d] = skipped[d]
    BY <1>5 DEF scheduler_release, popcli
  <2>6. UNCHANGED <<proc, pc, mine, scan, intena>>
    BY <1>5 DEF scheduler_release, popcli
  <2> QED
    BY SMTT(40), <2>1, <2>3, <2>4, <2>5, <2>6
<1>6. ASSUME NEW c \in Cpu, hlt(c) PROVE FlagInv'
  BY <1>6 DEF hlt, InScheduler
<1>7. ASSUME NEW c \in Cpu, NEW p \in Slot, leave(c, p) PROVE FlagInv'
  BY <1>7 DEF leave, Running, Goto
<1>8. ASSUME NEW c \in Cpu, NEW p \in Slot, yield(c, p) PROVE FlagInv'
  BY <1>8 DEF yield, acquire_ptable, pushcli, Running, Goto
<1>9. ASSUME NEW c \in Cpu, NEW p \in Slot, switched_in(c, p) PROVE FlagInv'
  <2>1. proc[c] = p /\ pc[p] \in {"yielded", "forkret"}
    BY <1>9 DEF switched_in, Running
  <2>2. ncli[c] = 1
    BY <2>1 DEF LockInv, HasPtable, HasLk
  <2>3. ncli'[c] = 0 /\ \A d \in Cpu \ {c} : ncli'[d] = ncli[d] /\ (d \in eflags' <=> d \in eflags)
    BY <1>9, <2>2 DEF switched_in, release_ptable, popcli
  <2>4. pc' = [pc EXCEPT ![p] = "leave"] /\ UNCHANGED <<proc, at, scan, skipped, mine, intena>>
    BY <1>9 DEF switched_in, release_ptable, popcli, Goto
  <2> QED
    BY <2>1, <2>3, <2>4
<1>10. ASSUME NEW c \in Cpu, NEW p \in Slot, wait_lock(c, p) PROVE FlagInv'
  BY <1>10 DEF wait_lock, acquire_lk, pushcli, Running, Goto
<1>11. ASSUME NEW c \in Cpu, NEW p \in Slot, wait_test(c, p) PROVE FlagInv'
  BY <1>11 DEF wait_test, release_lk, popcli, Running, Goto
<1>12. ASSUME NEW c \in Cpu, NEW p \in Slot, sleep_acquire(c, p) PROVE FlagInv'
  BY <1>12 DEF sleep_acquire, acquire_ptable, pushcli, Running, Goto
<1>13. ASSUME NEW c \in Cpu, NEW p \in Slot, sleep_release(c, p) PROVE FlagInv'
  BY <1>13 DEF sleep_release, release_lk, popcli, Running, Goto
<1>14. ASSUME NEW c \in Cpu, NEW p \in Slot, sleep_mark(c, p) PROVE FlagInv'
  BY <1>14 DEF sleep_mark, Running, Goto
<1>15. ASSUME NEW c \in Cpu, NEW p \in Slot, sleep_wake(c, p) PROVE FlagInv'
  BY <1>15 DEF sleep_wake, release_ptable, popcli, Running, Goto
<1>16. ASSUME NEW c \in Cpu, NEW p \in Slot, signal(c, p) PROVE FlagInv'
  BY <1>16 DEF signal, acquire_lk, pushcli, Running, Goto
<1>17. ASSUME NEW c \in Cpu, NEW p \in Slot, wakeup(c, p) PROVE FlagInv'
  BY <1>17 DEF wakeup, acquire_ptable, pushcli, Running, Goto
<1>18. ASSUME NEW c \in Cpu, NEW p \in Slot, wakeup_release(c, p) PROVE FlagInv'
  BY <1>18 DEF wakeup_release, release_ptable, popcli, Running, Goto
<1>19. ASSUME NEW c \in Cpu, NEW p \in Slot, signal_release(c, p) PROVE FlagInv'
  BY <1>19 DEF signal_release, release_lk, popcli, Running, Goto
<1>20. ASSUME NEW c \in Cpu, NEW p \in Slot, sched(c, p, "sched_yield", "yielded") PROVE FlagInv'
  BY <1>20 DEF sched, Running, Goto, ScanOn
<1>21. ASSUME NEW c \in Cpu, NEW p \in Slot, sched(c, p, "sched_sleep", "slept") PROVE FlagInv'
  BY <1>21 DEF sched, Running, Goto, ScanOn
<1>22. ASSUME NEW c \in Cpu, NEW p \in Slot, NEW l \in {"yield", "wait", "signal"}, enter(c, p, l)
      PROVE  FlagInv'
  BY <1>22 DEF enter, Running, Goto
<1>23. CASE UNCHANGED vars
  BY <1>23 DEF vars
<1> HIDE DEF RunInv, FlagInv, Types, WithPtable, WithLk, Places, SwitchedOut, lockVars, schedVars
<1> QED
  BY <1>1, <1>2, <1>3, <1>4, <1>5, <1>6, <1>7, <1>8, <1>9, <1>10, <1>11, <1>12, <1>13, <1>14, <1>15, <1>16, <1>17, <1>18, <1>19, <1>20, <1>21, <1>22, <1>23
  DEF Next, SchedulerStep, KernelStep

\* No step loses a wakeup: the condition becomes true under lk, and wakeup() finds
\* nobody between the test of the condition and the end of sleep().
LEMMA WakeStep == SchedAssumption /\ IInv /\ [Next]_vars => WakeInv'
<1> SUFFICES ASSUME SchedAssumption, Types, RunInv, LockInv, WakeInv, ~panicked, [Next]_vars PROVE WakeInv'
  BY DEF IInv
<1> USE SlotFacts DEF WakeInv, Types, WithPtable, WithLk, Places, SwitchedOut, lockVars, schedVars
<1>1. ASSUME NEW c \in Cpu, sti(c) PROVE WakeInv'
  BY <1>1 DEF sti, InScheduler
<1>2. ASSUME NEW c \in Cpu, scheduler_acquire(c) PROVE WakeInv'
  BY <1>2 DEF scheduler_acquire, pushcli, InScheduler
<1>3. ASSUME NEW c \in Cpu, scheduler_skip(c) PROVE WakeInv'
  BY <1>3 DEF scheduler_skip, InScheduler
<1>4. ASSUME NEW c \in Cpu, scheduler_run(c) PROVE WakeInv'
  BY <1>4 DEF scheduler_run, RestoreIntena, InScheduler
<1>5. ASSUME NEW c \in Cpu, scheduler_release(c) PROVE WakeInv'
  BY <1>5 DEF scheduler_release, popcli, HaltNow, InScheduler
<1>6. ASSUME NEW c \in Cpu, hlt(c) PROVE WakeInv'
  BY <1>6 DEF hlt, InScheduler
<1>7. ASSUME NEW c \in Cpu, NEW p \in Slot, leave(c, p) PROVE WakeInv'
  BY <1>7 DEF leave, Running, Goto
<1>8. ASSUME NEW c \in Cpu, NEW p \in Slot, yield(c, p) PROVE WakeInv'
  BY <1>8 DEF yield, acquire_ptable, pushcli, Running, Goto
<1>9. ASSUME NEW c \in Cpu, NEW p \in Slot, switched_in(c, p) PROVE WakeInv'
  BY <1>9 DEF switched_in, release_ptable, popcli, Running, Goto
<1>10. ASSUME NEW c \in Cpu, NEW p \in Slot, wait_lock(c, p) PROVE WakeInv'
  BY <1>10 DEF wait_lock, acquire_lk, pushcli, Running, Goto
<1>11. ASSUME NEW c \in Cpu, NEW p \in Slot, wait_test(c, p) PROVE WakeInv'
  BY <1>11 DEF wait_test, release_lk, popcli, Running, Goto
<1>12. ASSUME NEW c \in Cpu, NEW p \in Slot, sleep_acquire(c, p) PROVE WakeInv'
  BY <1>12 DEF sleep_acquire, acquire_ptable, pushcli, Running, Goto
<1>13. ASSUME NEW c \in Cpu, NEW p \in Slot, sleep_release(c, p) PROVE WakeInv'
  BY <1>13 DEF sleep_release, release_lk, popcli, Running, Goto
<1>14. ASSUME NEW c \in Cpu, NEW p \in Slot, sleep_mark(c, p) PROVE WakeInv'
  BY <1>14 DEF sleep_mark, Running, Goto
<1>15. ASSUME NEW c \in Cpu, NEW p \in Slot, sleep_wake(c, p) PROVE WakeInv'
  BY <1>15 DEF sleep_wake, release_ptable, popcli, Running, Goto
<1>16. ASSUME NEW c \in Cpu, NEW p \in Slot, signal(c, p) PROVE WakeInv'
  <2>1. lk = Nobody /\ pc' = [pc EXCEPT ![p] = "wakeup"] /\ state' = state
    BY <1>16 DEF signal, acquire_lk, Goto
  <2>2. \A q \in Slot : pc[q] \notin {"sleep", "sleep_release"}
    BY <2>1, LkHeld DEF SchedAssumption
  <2> QED
    BY <2>1, <2>2
<1>17. ASSUME NEW c \in Cpu, NEW p \in Slot, wakeup(c, p) PROVE WakeInv'
  <2>1. /\ ptable = Nobody /\ pc[p] = "wakeup" /\ pc' = [pc EXCEPT ![p] = "wakeup_release"]
        /\ cond' = cond
    BY <1>17 DEF wakeup, acquire_ptable, Running, Goto
  <2>2. \A q \in Slot : pc[q] # "sleep_mark"
    BY <2>1, PtableHeld DEF SchedAssumption, RunInv
  <2>3. \A q \in Slot : state'[q] # "SLEEPING"
    BY <1>17 DEF wakeup
  <2> QED
    BY <2>1, <2>2, <2>3
<1>18. ASSUME NEW c \in Cpu, NEW p \in Slot, wakeup_release(c, p) PROVE WakeInv'
  BY <1>18 DEF wakeup_release, release_ptable, popcli, Running, Goto
<1>19. ASSUME NEW c \in Cpu, NEW p \in Slot, signal_release(c, p) PROVE WakeInv'
  BY <1>19 DEF signal_release, release_lk, popcli, Running, Goto
<1>20. ASSUME NEW c \in Cpu, NEW p \in Slot, sched(c, p, "sched_yield", "yielded") PROVE WakeInv'
  BY <1>20 DEF sched, Running, Goto, ScanOn
<1>21. ASSUME NEW c \in Cpu, NEW p \in Slot, sched(c, p, "sched_sleep", "slept") PROVE WakeInv'
  BY <1>21 DEF sched, Running, Goto, ScanOn
<1>22. ASSUME NEW c \in Cpu, NEW p \in Slot, NEW l \in {"yield", "wait", "signal"}, enter(c, p, l)
      PROVE  WakeInv'
  BY <1>22 DEF enter, Running, Goto
<1>23. CASE UNCHANGED vars
  BY <1>23 DEF vars
<1> HIDE DEF WakeInv, Types, WithPtable, WithLk, Places, SwitchedOut, lockVars, schedVars
<1> QED
  BY <1>1, <1>2, <1>3, <1>4, <1>5, <1>6, <1>7, <1>8, <1>9, <1>10, <1>11, <1>12, <1>13, <1>14, <1>15, <1>16, <1>17, <1>18, <1>19, <1>20, <1>21, <1>22, <1>23
  DEF Next, SchedulerStep, KernelStep

\* No test of sched() fails.
LEMMA NoPanicStep == SchedAssumption /\ IInv /\ [Next]_vars => ~panicked'
<1> SUFFICES ASSUME SchedAssumption, Types, RunInv, LockInv, FlagInv, ~panicked, [Next]_vars
             PROVE  ~panicked'
  BY DEF IInv
<1>1. ASSUME NEW c \in Cpu, NEW p \in Slot, NEW from \in {"sched_yield", "sched_sleep"}, NEW to,
             sched(c, p, from, to)
      PROVE  ~panicked'
  <2>1. proc[c] = p /\ pc[p] = from /\ p # 0
    BY <1>1, SlotFacts DEF sched, Running
  <2>2. HasPtable(c) /\ ~HasLk(c)
    BY <2>1 DEF HasPtable, HasLk, WithPtable, WithLk
  <2>3. ptable = c /\ ncli[c] = 1
    BY <2>2 DEF LockInv
  <2>4. state[p] # "RUNNING" /\ c \notin eflags
    BY <2>1 DEF RunInv, FlagInv
  <2> QED
    BY <1>1, <2>3, <2>4 DEF sched
<1>2. ASSUME NEW c \in Cpu, SchedulerStep(c) PROVE UNCHANGED panicked
  BY <1>2 DEF SchedulerStep, sti, scheduler_acquire, scheduler_skip, scheduler_run, scheduler_release, hlt
<1>3. ASSUME NEW c \in Cpu, NEW p \in Slot, KernelStep(c, p) PROVE ~panicked'
  BY <1>1, <1>3 DEF KernelStep, leave, yield, switched_in, wait_lock, wait_test, sleep_acquire,
     sleep_release, sleep_mark, sleep_wake, signal, wakeup, wakeup_release, signal_release
<1>4. ASSUME NEW c \in Cpu, NEW p \in Slot, NEW l, enter(c, p, l) PROVE UNCHANGED panicked
  BY <1>4 DEF enter
<1> QED
  BY <1>2, <1>3, <1>4 DEF Next, vars

\* The inductive invariant holds always.
LEMMA Inductive == ASSUME SchedAssumption PROVE Spec => []IInv
<1>1. Init => IInv
  BY InitIInv
<1>2. IInv /\ [Next]_vars => IInv'
  BY TypesStep, RunStep, LockStep, FlagStep, WakeStep, NoPanicStep DEF IInv
<1> QED
  BY <1>1, <1>2, PTL DEF Spec

\* No two processors run on one kernel stack, for any number of processors and
\* processes: a process is RUNNABLE before swtch() has saved its context, and
\* ptable.lock, taken by one thread and released by another, is what keeps the
\* schedulers away.
THEOREM StacksUnshared == ASSUME SchedAssumption PROVE Spec => []StackUnshared
<1>1. IInv => StackUnshared
  BY DEF IInv, RunInv, StackUnshared
<1> QED
  BY <1>1, Inductive, PTL

\* sleep() and wakeup() lose no wakeup, because sleep() takes ptable.lock before
\* it releases the lock of the condition.
THEOREM NoLostWakeup == ASSUME SchedAssumption PROVE Spec => []SleeperWillBeWoken
<1>1. IInv => SleeperWillBeWoken
  BY DEF IInv, WakeInv, SleeperWillBeWoken
<1> QED
  BY <1>1, Inductive, PTL

\* No test of sched() fails, a processor halts only with interrupts on, and
\* kernel code is never interrupted, whatever processors the threads move to.
THEOREM FlagsAreRight == ASSUME SchedAssumption PROVE Spec => []FlagsRight
<1>1. IInv => FlagsRight
  BY DEF IInv, FlagInv, FlagsRight, NoPanic, HaltsInterruptible, KernelUninterrupted
<1> QED
  BY <1>1, Inductive, PTL
=============================================================================
