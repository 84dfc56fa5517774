----------------------------- MODULE ProcProofs -----------------------------
(***************************************************************************)
(* Proofs about Proc, for any number of slots, processors and processes.   *)
(***************************************************************************)
EXTENDS Proc, WellFoundedInduction, TLAPS

States == {"UNUSED", "EMBRYO", "SLEEPING", "RUNNABLE", "RUNNING", "ZOMBIE"}
Forking == {"fork", "forked"}
Places == {"user", "wait", "sleep", "tosleep"} \cup Forking

Types ==
  /\ state \in [Slot -> States]
  /\ pid \in [Slot -> Nat]
  /\ parent \in [Slot -> Slot \cup {0}]
  /\ killed \in SUBSET Slot
  /\ chan \in [Slot -> Nat]
  /\ nextpid \in Nat \ {0}
  /\ pc \in [Slot -> Places]
  /\ child \in [Slot -> Slot \cup {0}]

\* A process in fork() is running and its child is an EMBRYO of its own.
ForkInv ==
  \A p \in Slot : pc[p] \in Forking =>
    /\ state[p] = "RUNNING"
    /\ child[p] \in Slot /\ state[child[p]] = "EMBRYO"
    /\ pc[p] = "forked" => parent[child[p]] = p
    /\ pc[p] = "fork" => parent[child[p]] = 0
    /\ \A q \in Slot : pc[q] \in Forking /\ child[q] = child[p] => q = p

\* The tree of processes: init is its root and never ends, only a live process
\* is a parent, and a slot without a process hangs on nobody.
TreeInv ==
  /\ initproc \in Live /\ parent[initproc] = 0
  /\ \A s \in Slot :
       /\ parent[s] # 0 => parent[s] \in Live /\ parent[s] # s
       /\ parent[s] = 0 => s = initproc \/ state[s] \in {"UNUSED", "EMBRYO"}
       /\ state[s] = "UNUSED" => parent[s] = 0
       /\ state[s] = "EMBRYO" /\ parent[s] # 0 =>
            pc[parent[s]] = "forked" /\ child[parent[s]] = s

\* The channels on which processes sleep.
SleepInv ==
  \A p \in Slot : state[p] = "SLEEPING" =>
    (pc[p] = "wait" /\ chan[p] = p) \/ (pc[p] = "sleep" /\ chan[p] = ticks)

IInv == Types /\ ForkInv /\ TreeInv /\ SleepInv /\ WaitersNeeded

\* Slots are natural numbers, apart from 0 and from the channel &ticks.
LEMMA SlotFacts ==
  /\ \A s \in Slot : s \in Nat /\ s # 0 /\ s # ticks
  /\ initproc \in Slot /\ ticks \in Nat
BY ProcAssumption DEF Slot, initproc, ticks

\* The first of a non-empty set of slots is one of them.
LEMMA MinIn == ASSUME NEW S \in SUBSET Slot, S # {} PROVE Min(S) \in S
<1> DEFINE R == {ss \in Nat \X Nat : ss[1] < ss[2]}
<1>1. S \subseteq Nat
  BY SlotFacts
<1>2. IsWellFoundedOn(R, Nat)
  BY NatLessThanWellFounded, Zenon DEF OpToRel
<1>3. PICK x \in S : \A y \in S : <<y, x>> \notin R
  <2> HIDE DEF R
  <2> QED
    BY <1>1, <1>2, WFMin
<1>4. ASSUME NEW y \in S PROVE x <= y
  <2>1. <<y, x>> \in Nat \X Nat /\ ~(y < x)
    BY <1>1, <1>3
  <2> QED
    BY <2>1
<1> QED
  BY <1>4 DEF Min

\* At the start init is the only process.
LEMMA InitIInv == Init => IInv
<1> SUFFICES ASSUME Init PROVE IInv
  OBVIOUS
<1> USE ProcAssumption DEF Init, Slot, initproc
<1>1. Types
  BY DEF Types, States, Places
<1>2. ForkInv /\ SleepInv /\ WaitersNeeded
  BY DEF ForkInv, SleepInv, WaitersNeeded, Forking
<1>3. TreeInv
  BY DEF TreeInv, Live
<1> QED
  BY <1>1, <1>2, <1>3 DEF IInv

\* Every step keeps the types.
LEMMA TypesStep == IInv /\ [Next]_vars => Types'
<1> SUFFICES ASSUME Types, ForkInv, [Next]_vars PROVE Types'
  BY DEF IInv
<1> USE SlotFacts DEF Types, At, table, States, Places, Forking
<1>1. ASSUME NEW p \in Slot, scheduler(p) PROVE Types'
  BY <1>1 DEF scheduler
<1>2. ASSUME NEW p \in Slot, yield(p) PROVE Types'
  BY <1>2 DEF yield
<1>3. ASSUME NEW p \in Slot, allocproc(p) PROVE Types'
  <2>1. Min(Unused) \in Slot
    BY <1>3, MinIn DEF allocproc, Unused
  <2> QED
    BY <1>3, <2>1 DEF allocproc
<1>4. ASSUME NEW p \in Slot, fork_parent(p) PROVE Types'
  BY <1>4 DEF fork_parent
<1>5. ASSUME NEW p \in Slot, fork_return(p) PROVE Types'
  BY <1>5 DEF fork_return
<1>6. ASSUME NEW p \in Slot, exit(p) PROVE Types'
  <2>1. UNCHANGED <<pid, killed, chan, nextpid, pc, child>>
    BY <1>6 DEF exit
  <2>2. state' \in [Slot -> States]
    BY <1>6 DEF exit
  <2>3. parent' \in [Slot -> Slot \cup {0}]
    BY <1>6 DEF exit, Reparent
  <2> QED
    BY <2>1, <2>2, <2>3
<1>7. ASSUME NEW p \in Slot, wait(p) PROVE Types'
  <2> DEFINE zombies == {s \in Children(p) : state[s] = "ZOMBIE"}
  <2>1. CASE zombies # {}
    <3>1. Min(zombies) \in Slot
      BY <2>1, MinIn DEF Children
    <3>2. FreeSlot(Min(zombies)) /\ return(p) /\ UNCHANGED <<nextpid, child>>
      BY <1>7, <2>1 DEF wait
    <3> HIDE DEF zombies
    <3> QED
      BY <3>1, <3>2 DEF FreeSlot, return
  <2>2. CASE zombies = {}
    BY <1>7, <2>2 DEF wait, return, sleep
  <2> QED
    BY <2>1, <2>2
<1>8. ASSUME NEW p \in Slot, NEW n \in 0..MaxPid, kill(p, n) PROVE Types'
  BY <1>8 DEF kill, KillWakes
<1>9. ASSUME NEW p \in Slot, sys_sleep(p) PROVE Types'
  BY <1>9 DEF sys_sleep, sleep
<1>10. ASSUME NEW p \in Slot, NEW over \in BOOLEAN, sys_sleep_test(p, over) PROVE Types'
  BY <1>10 DEF sys_sleep_test
<1>11. CASE tick
  BY <1>11 DEF tick, wakeup1
<1>12. CASE UNCHANGED vars
  BY <1>12 DEF vars
<1> HIDE DEF Types, At, table, States, Places, Forking
<1> QED
  BY <1>1, <1>2, <1>3, <1>4, <1>5, <1>6, <1>7, <1>8, <1>9, <1>10, <1>11, <1>12
  DEF Next, ProcStep

\* allocproc() takes an unused slot, wait() frees a zombie child, returns or
\* sleeps without one.
LEMMA AllocEffect ==
  ASSUME NEW p \in Slot, allocproc(p)
  PROVE  \E np \in Slot : /\ state[np] = "UNUSED"
                          /\ state' = [state EXCEPT ![np] = "EMBRYO"]
                          /\ pid' = [pid EXCEPT ![np] = nextpid]
                          /\ child' = [child EXCEPT ![p] = np]
<1>1. Min(Unused) \in Unused
  BY MinIn DEF allocproc, Unused
<1> QED
  BY <1>1 DEF allocproc, Unused

\* wait() frees a child, gives up, or goes to sleep with children left.
LEMMA WaitEffect ==
  ASSUME NEW p \in Slot, wait(p)
  PROVE  /\ state[p] = "RUNNING" /\ pc[p] \in {"user", "wait"}
         /\ UNCHANGED <<nextpid, child, panicked>>
         /\ \/ \E z \in Slot : parent[z] = p /\ state[z] = "ZOMBIE" /\ FreeSlot(z) /\ return(p)
            \/ return(p) /\ UNCHANGED <<state, pid, parent, killed>>
            \/ /\ Children(p) # {} /\ p \notin killed
               /\ \A s \in Children(p) : state[s] # "ZOMBIE"
               /\ sleep(p, p, "wait") /\ UNCHANGED <<pid, parent, killed>>
<1> DEFINE zombies == {s \in Children(p) : state[s] = "ZOMBIE"}
<1>1. CASE zombies # {}
  <2>1. Min(zombies) \in zombies
    BY <1>1, MinIn DEF Children
  <2>2. FreeSlot(Min(zombies)) /\ return(p)
    BY <1>1 DEF wait
  <2> QED
    BY <2>1, <2>2 DEF wait, At, Children
<1>2. CASE zombies = {}
  BY <1>2 DEF wait, At
<1> QED
  BY <1>1, <1>2

\* Every step keeps processes in fork() and their children as they must be.
LEMMA ForkStep == IInv /\ [Next]_vars => ForkInv'
<1> SUFFICES ASSUME Types, ForkInv, TreeInv, [Next]_vars PROVE ForkInv'
  BY DEF IInv
<1> USE SlotFacts DEF Types, ForkInv, At, table, States, Places, Forking
<1>1. ASSUME NEW p \in Slot, scheduler(p) PROVE ForkInv'
  BY <1>1 DEF scheduler
<1>2. ASSUME NEW p \in Slot, yield(p) PROVE ForkInv'
  BY <1>2 DEF yield
<1>3. ASSUME NEW p \in Slot, allocproc(p) PROVE ForkInv'
  <2>1. PICK np \in Slot : /\ state[np] = "UNUSED"
                           /\ state' = [state EXCEPT ![np] = "EMBRYO"]
                           /\ child' = [child EXCEPT ![p] = np]
    BY <1>3, AllocEffect
  <2>2. parent[np] = 0
    BY <2>1 DEF TreeInv
  <2> QED
    BY <1>3, <2>1, <2>2 DEF allocproc
<1>4. ASSUME NEW p \in Slot, fork_parent(p) PROVE ForkInv'
  BY <1>4 DEF fork_parent
<1>5. ASSUME NEW p \in Slot, fork_return(p) PROVE ForkInv'
  BY <1>5 DEF fork_return
<1>6. ASSUME NEW p \in Slot, exit(p) PROVE ForkInv'
  <2>1. UNCHANGED <<pc, child>> /\ pc[p] = "user"
    BY <1>6 DEF exit
  <2>2. \A s \in Slot \ {p} : state[s] # "SLEEPING" => state'[s] = state[s]
    BY <1>6 DEF exit
  <2>3. \A s \in Slot : parent[s] # p => parent'[s] = parent[s]
    BY <1>6 DEF exit, Reparent
  <2>4. state[p] = "RUNNING"
    BY <1>6 DEF exit
  <2> QED
    BY <2>1, <2>2, <2>3, <2>4
<1>7. ASSUME NEW p \in Slot, wait(p) PROVE ForkInv'
  BY <1>7, WaitEffect DEF FreeSlot, return, sleep
<1>8. ASSUME NEW p \in Slot, NEW n \in 0..MaxPid, kill(p, n) PROVE ForkInv'
  BY <1>8 DEF kill, KillWakes
<1>9. ASSUME NEW p \in Slot, sys_sleep(p) PROVE ForkInv'
  BY <1>9 DEF sys_sleep, sleep
<1>10. ASSUME NEW p \in Slot, NEW over \in BOOLEAN, sys_sleep_test(p, over) PROVE ForkInv'
  BY <1>10 DEF sys_sleep_test
<1>11. CASE tick
  BY <1>11 DEF tick, wakeup1
<1>12. CASE UNCHANGED vars
  BY <1>12 DEF vars
<1> HIDE DEF Types, ForkInv, At, table, States, Places, Forking
<1> QED
  BY <1>1, <1>2, <1>3, <1>4, <1>5, <1>6, <1>7, <1>8, <1>9, <1>10, <1>11, <1>12
  DEF Next, ProcStep

\* Every step keeps the tree.
LEMMA TreeStep == IInv /\ [Next]_vars => TreeInv'
<1> SUFFICES ASSUME Types, ForkInv, TreeInv, [Next]_vars PROVE TreeInv'
  BY DEF IInv
<1> USE SlotFacts DEF Types, TreeInv, Live, At, table, States, Places, Forking
<1>1. ASSUME NEW p \in Slot, scheduler(p) PROVE TreeInv'
  BY <1>1 DEF scheduler
<1>2. ASSUME NEW p \in Slot, yield(p) PROVE TreeInv'
  BY <1>2 DEF yield
<1>3. ASSUME NEW p \in Slot, allocproc(p) PROVE TreeInv'
  <2>1. PICK np \in Slot : /\ state[np] = "UNUSED"
                           /\ state' = [state EXCEPT ![np] = "EMBRYO"]
                           /\ child' = [child EXCEPT ![p] = np]
    BY <1>3, AllocEffect
  <2> QED
    BY <1>3, <2>1 DEF allocproc, ForkInv
<1>4. ASSUME NEW p \in Slot, fork_parent(p) PROVE TreeInv'
  BY <1>4 DEF fork_parent, ForkInv
<1>5. ASSUME NEW p \in Slot, fork_return(p) PROVE TreeInv'
  BY <1>5 DEF fork_return, ForkInv
<1>6. ASSUME NEW p \in Slot, exit(p) PROVE TreeInv'
  <2>1. CASE p = initproc
    BY <1>6, <2>1 DEF exit
  <2>2. CASE p # initproc
    <3>1. UNCHANGED <<pc, child>> /\ state[p] = "RUNNING" /\ pc[p] = "user"
      BY <1>6 DEF exit
    <3>2. state'[p] = "ZOMBIE" /\ state' \in [Slot -> States]
      BY <1>6, <2>2 DEF exit
    <3>3. \A s \in Slot \ {p} : state'[s] = state[s] \/ (s \in Live /\ state'[s] = "RUNNABLE")
      BY <1>6, <2>2 DEF exit
    <3>4. \A s \in Slot : parent'[s] = IF parent[s] = p THEN initproc ELSE parent[s]
      BY <1>6, <2>2 DEF exit, Reparent
    <3>5. initproc \in Live' /\ parent'[initproc] = 0
      BY <2>2, <3>2, <3>3, <3>4
    <3>6. ASSUME NEW s \in Slot
          PROVE  /\ parent'[s] # 0 => parent'[s] \in Live' /\ parent'[s] # s
                 /\ parent'[s] = 0 => s = initproc \/ state'[s] \in {"UNUSED", "EMBRYO"}
                 /\ state'[s] = "UNUSED" => parent'[s] = 0
                 /\ state'[s] = "EMBRYO" /\ parent'[s] # 0 =>
                      pc'[parent'[s]] = "forked" /\ child'[parent'[s]] = s
      BY <2>2, <3>1, <3>2, <3>3, <3>4, <3>5
    <3> QED
      BY <3>5, <3>6
  <2> QED
    BY <2>1, <2>2
<1>7. ASSUME NEW p \in Slot, wait(p) PROVE TreeInv'
  BY <1>7, WaitEffect DEF FreeSlot, return, sleep
<1>8. ASSUME NEW p \in Slot, NEW n \in 0..MaxPid, kill(p, n) PROVE TreeInv'
  BY <1>8 DEF kill, KillWakes
<1>9. ASSUME NEW p \in Slot, sys_sleep(p) PROVE TreeInv'
  BY <1>9 DEF sys_sleep, sleep
<1>10. ASSUME NEW p \in Slot, NEW over \in BOOLEAN, sys_sleep_test(p, over) PROVE TreeInv'
  BY <1>10 DEF sys_sleep_test
<1>11. CASE tick
  BY <1>11 DEF tick, wakeup1
<1>12. CASE UNCHANGED vars
  BY <1>12 DEF vars
<1> HIDE DEF Types, TreeInv, Live, At, table, States, Places, Forking
<1> QED
  BY <1>1, <1>2, <1>3, <1>4, <1>5, <1>6, <1>7, <1>8, <1>9, <1>10, <1>11, <1>12
  DEF Next, ProcStep

\* Every step keeps the channels.
LEMMA SleepStep == IInv /\ [Next]_vars => SleepInv'
<1> SUFFICES ASSUME Types, ForkInv, SleepInv, [Next]_vars PROVE SleepInv'
  BY DEF IInv
<1> USE SlotFacts DEF Types, SleepInv, At, table, States, Places, Forking
<1>1. ASSUME NEW p \in Slot, scheduler(p) PROVE SleepInv'
  BY <1>1 DEF scheduler
<1>2. ASSUME NEW p \in Slot, yield(p) PROVE SleepInv'
  BY <1>2 DEF yield
<1>3. ASSUME NEW p \in Slot, allocproc(p) PROVE SleepInv'
  BY <1>3, AllocEffect DEF allocproc
<1>4. ASSUME NEW p \in Slot, fork_parent(p) PROVE SleepInv'
  BY <1>4 DEF fork_parent
<1>5. ASSUME NEW p \in Slot, fork_return(p) PROVE SleepInv'
  BY <1>5 DEF fork_return, ForkInv
<1>6. ASSUME NEW p \in Slot, exit(p) PROVE SleepInv'
  BY <1>6 DEF exit
<1>7. ASSUME NEW p \in Slot, wait(p) PROVE SleepInv'
  BY <1>7, WaitEffect DEF FreeSlot, return, sleep
<1>8. ASSUME NEW p \in Slot, NEW n \in 0..MaxPid, kill(p, n) PROVE SleepInv'
  BY <1>8 DEF kill, KillWakes
<1>9. ASSUME NEW p \in Slot, sys_sleep(p) PROVE SleepInv'
  BY <1>9 DEF sys_sleep, sleep
<1>10. ASSUME NEW p \in Slot, NEW over \in BOOLEAN, sys_sleep_test(p, over) PROVE SleepInv'
  BY <1>10 DEF sys_sleep_test
<1>11. CASE tick
  BY <1>11 DEF tick, wakeup1
<1>12. CASE UNCHANGED vars
  BY <1>12 DEF vars
<1> HIDE DEF Types, SleepInv, At, table, States, Places, Forking
<1> QED
  BY <1>1, <1>2, <1>3, <1>4, <1>5, <1>6, <1>7, <1>8, <1>9, <1>10, <1>11, <1>12
  DEF Next, ProcStep

\* No step loses a wakeup: exit() wakes whoever waits for the new zombie, and
\* init when it inherits one.
LEMMA WaitersStep == IInv /\ [Next]_vars => WaitersNeeded'
<1> SUFFICES ASSUME Types, ForkInv, TreeInv, SleepInv, WaitersNeeded, [Next]_vars
             PROVE  WaitersNeeded'
  BY DEF IInv
<1> USE SlotFacts DEF Types, WaitersNeeded, Children, At, table, States, Places, Forking
<1>1. ASSUME NEW p \in Slot, scheduler(p) PROVE WaitersNeeded'
  BY <1>1 DEF scheduler
<1>2. ASSUME NEW p \in Slot, yield(p) PROVE WaitersNeeded'
  BY <1>2 DEF yield
<1>3. ASSUME NEW p \in Slot, allocproc(p) PROVE WaitersNeeded'
  BY <1>3, AllocEffect DEF allocproc
<1>4. ASSUME NEW p \in Slot, fork_parent(p) PROVE WaitersNeeded'
  BY <1>4 DEF fork_parent, ForkInv
<1>5. ASSUME NEW p \in Slot, fork_return(p) PROVE WaitersNeeded'
  BY <1>5 DEF fork_return, ForkInv
<1>6. ASSUME NEW p \in Slot, exit(p) PROVE WaitersNeeded'
  <2>1. CASE p = initproc
    BY <1>6, <2>1 DEF exit
  <2>2. CASE p # initproc
    <3>1. UNCHANGED <<pc, chan, killed>>
      BY <1>6 DEF exit
    <3>2. \A s \in Slot : parent'[s] = IF parent[s] = p THEN initproc ELSE parent[s]
      BY <1>6, <2>2 DEF exit, Reparent
    <3>3. /\ state'[p] = "ZOMBIE"
          /\ \A s \in Slot \ {p} : state[s] = "ZOMBIE" <=> state'[s] = "ZOMBIE"
      BY <1>6, <2>2 DEF exit
    <3>4. \A s \in Slot \ {p} : state'[s] = "SLEEPING" => state[s] = "SLEEPING" /\ chan[s] \notin ExitWakes(p)
      BY <1>6, <2>2 DEF exit
    <3> SUFFICES ASSUME NEW q \in Slot, state'[q] = "SLEEPING", pc'[q] = "wait"
                 PROVE  /\ Children(q)' # {}
                        /\ \A s \in Children(q)' : state'[s] # "ZOMBIE"
                        /\ q \notin killed'
      OBVIOUS
    <3>5. q # p /\ state[q] = "SLEEPING" /\ pc[q] = "wait" /\ q \notin ExitWakes(p)
      BY <3>1, <3>3, <3>4 DEF SleepInv
    <3>6. parent[p] # q
      BY <3>5 DEF ExitWakes
    <3>7. q \notin killed' /\ Children(q)' # {}
      BY <3>1, <3>2, <3>5
    <3>8. ASSUME NEW s \in Slot, parent'[s] = q PROVE state'[s] # "ZOMBIE"
      <4>1. CASE parent[s] = q
        BY <3>3, <3>5, <3>6, <4>1
      <4>2. CASE parent[s] # q
        <5>1. parent[s] = p /\ q = initproc
          BY <3>2, <3>8, <4>2
        <5>2. state[s] # "ZOMBIE" /\ s # p
          BY <3>5, <5>1 DEF ExitWakes, TreeInv
        <5> QED
          BY <3>3, <5>2
      <4> QED
        BY <4>1, <4>2
    <3> QED
      BY <3>7, <3>8
  <2> QED
    BY <2>1, <2>2
<1>7. ASSUME NEW p \in Slot, wait(p) PROVE WaitersNeeded'
  BY <1>7, WaitEffect DEF FreeSlot, return, sleep
<1>8. ASSUME NEW p \in Slot, NEW n \in 0..MaxPid, kill(p, n) PROVE WaitersNeeded'
  BY <1>8 DEF kill, KillWakes
<1>9. ASSUME NEW p \in Slot, sys_sleep(p) PROVE WaitersNeeded'
  BY <1>9 DEF sys_sleep, sleep
<1>10. ASSUME NEW p \in Slot, NEW over \in BOOLEAN, sys_sleep_test(p, over) PROVE WaitersNeeded'
  BY <1>10 DEF sys_sleep_test
<1>11. CASE tick
  BY <1>11 DEF tick, wakeup1
<1>12. CASE UNCHANGED vars
  BY <1>12 DEF vars
<1> HIDE DEF Types, WaitersNeeded, Children, At, table, States, Places, Forking
<1> QED
  BY <1>1, <1>2, <1>3, <1>4, <1>5, <1>6, <1>7, <1>8, <1>9, <1>10, <1>11, <1>12
  DEF Next, ProcStep

\* The inductive invariant holds always.
LEMMA Inductive == Spec => []IInv
<1>1. IInv /\ [Next]_vars => IInv'
  BY TypesStep, ForkStep, TreeStep, SleepStep, WaitersStep DEF IInv
<1> QED
  BY InitIInv, <1>1, PTL DEF Spec

\* Whatever the order of fork(), exit(), wait() and kill(), every process but
\* init has a live parent, and nobody sleeps in wait() who has a zombie child,
\* no child at all, or was killed: for any number of slots and processors.
THEOREM FamiliesAreSound == Spec => []FamiliesSound
<1>1. IInv => FamiliesSound
  BY DEF IInv, FamiliesSound, ParentsLive, TreeInv
<1> QED
  BY Inductive, <1>1, PTL

-----------------------------------------------------------------------------
\* A slot is in use just when its pid is not 0, and nobody but a process is
\* marked killed unless somebody calls kill(0).
MarkInv ==
  \A s \in Slot : /\ pid[s] = 0 <=> state[s] = "UNUSED"
                  /\ state[s] = "UNUSED" => s \notin killed

\* No step marks a slot that is not in use, if nobody kills pid 0.
LEMMA MarkStep == ~KillZero /\ IInv /\ MarkInv /\ [Next]_vars => MarkInv'
<1> SUFFICES ASSUME ~KillZero, Types, ForkInv, MarkInv, [Next]_vars PROVE MarkInv'
  BY DEF IInv
<1> USE SlotFacts DEF Types, MarkInv, At, table, States
<1>1. ASSUME NEW p \in Slot, scheduler(p) PROVE MarkInv'
  BY <1>1 DEF scheduler
<1>2. ASSUME NEW p \in Slot, yield(p) PROVE MarkInv'
  BY <1>2 DEF yield
<1>3. ASSUME NEW p \in Slot, allocproc(p) PROVE MarkInv'
  BY <1>3, AllocEffect DEF allocproc
<1>4. ASSUME NEW p \in Slot, fork_parent(p) PROVE MarkInv'
  BY <1>4 DEF fork_parent
<1>5. ASSUME NEW p \in Slot, fork_return(p) PROVE MarkInv'
  BY <1>5 DEF fork_return, ForkInv, Forking
<1>6. ASSUME NEW p \in Slot, exit(p) PROVE MarkInv'
  BY <1>6 DEF exit
<1>7. ASSUME NEW p \in Slot, wait(p) PROVE MarkInv'
  BY <1>7, WaitEffect DEF FreeSlot, return, sleep
<1>8. ASSUME NEW p \in Slot, NEW n \in 0..MaxPid, kill(p, n) PROVE MarkInv'
  BY <1>8 DEF kill, KillWakes, KillArgs
<1>9. ASSUME NEW p \in Slot, sys_sleep(p) PROVE MarkInv'
  BY <1>9 DEF sys_sleep, sleep
<1>10. ASSUME NEW p \in Slot, NEW over \in BOOLEAN, sys_sleep_test(p, over) PROVE MarkInv'
  BY <1>10 DEF sys_sleep_test
<1>11. CASE tick
  BY <1>11 DEF tick, wakeup1
<1>12. CASE UNCHANGED vars
  BY <1>12 DEF vars
<1> HIDE DEF Types, MarkInv, At, table, States
<1> QED
  BY <1>1, <1>2, <1>3, <1>4, <1>5, <1>6, <1>7, <1>8, <1>9, <1>10, <1>11, <1>12
  DEF Next, ProcStep

\* What a step may do to the mark of a slot it takes into use.
Unmarked == \A s \in Slot : state[s] = "UNUSED" /\ state'[s] = "EMBRYO" => s \notin killed'

\* Only allocproc() makes an EMBRYO, and it marks nobody.
LEMMA UnmarkedStep == Types /\ ForkInv /\ MarkInv /\ [Next]_vars => Unmarked
<1> SUFFICES ASSUME Types, ForkInv, MarkInv, [Next]_vars PROVE Unmarked
  OBVIOUS
<1>1. ASSUME NEW p \in Slot, allocproc(p) PROVE Unmarked
  BY <1>1 DEF allocproc, Unmarked, MarkInv
<1>2. CASE \A s \in Slot : state[s] = "UNUSED" => state'[s] # "EMBRYO"
  BY <1>2 DEF Unmarked
<1>3. ASSUME NEW p \in Slot, ProcStep(p), ~allocproc(p), NEW s \in Slot, state[s] = "UNUSED"
      PROVE  state'[s] # "EMBRYO"
  BY <1>3, WaitEffect DEF ProcStep, Types, scheduler, yield, fork_parent, fork_return, exit, kill,
     KillWakes, sys_sleep, sys_sleep_test, FreeSlot, return, sleep, table, ForkInv, Forking, At
<1>4. ASSUME tick \/ UNCHANGED vars, NEW s \in Slot, state[s] = "UNUSED" PROVE state'[s] # "EMBRYO"
  BY <1>4 DEF tick, wakeup1, vars
<1> QED
  BY <1>1, <1>2, <1>3, <1>4 DEF Next

\* A process starts its life unmarked, provided nobody calls kill(0), which
\* would mark an unused slot.
THEOREM NewcomersUnmarked == ~KillZero /\ Spec => StartsUnmarked
<1> SUFFICES ASSUME ~KillZero PROVE Spec => StartsUnmarked
  OBVIOUS
<1>1. Init => MarkInv
  BY DEF Init, MarkInv
<1>2. IInv /\ MarkInv /\ [Next]_vars => MarkInv'
  BY MarkStep
<1>3. IInv /\ MarkInv /\ [Next]_vars => [Unmarked]_vars
  BY UnmarkedStep DEF IInv
<1>4. StartsUnmarked <=> [][Unmarked]_vars
  BY DEF StartsUnmarked, Unmarked
<1> QED
  BY Inductive, <1>1, <1>2, <1>3, <1>4, PTL DEF Spec
=============================================================================
