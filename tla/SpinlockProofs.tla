--------------------------- MODULE SpinlockProofs ---------------------------
(***************************************************************************)
(* Proofs about Spinlock, for any set of processors and any number of      *)
(* locks, nested to any depth and released in any order.                   *)
(***************************************************************************)
EXTENDS Spinlock, FiniteSetTheorems, TLAPS

\* Places between the increment of ncli in pushcli() and popcli(), and those
\* among them where the exchange is done and lk->locked not yet cleared.
Counted == {"xchg", "setcpu", "clearcpu", "unlock", "popcli"}
InHand == {"setcpu", "clearcpu", "unlock"}
Places == {"run", "pushcli"} \cup Counted

Types ==
  /\ locked \in [Lock -> BOOLEAN]
  /\ lkcpu \in [Lock -> Cpu \cup {Nobody}]
  /\ fl_if \in SUBSET Cpu
  /\ ncli \in [Cpu -> Int]
  /\ intena \in [Cpu -> BOOLEAN]
  /\ level \in [Cpu -> Level]
  /\ pc \in [Cpu -> [Level -> Places]]
  /\ lk \in [Cpu -> [Level -> Lock \cup {0}]]
  /\ eflags \in [Cpu -> [Level -> BOOLEAN]]
  /\ held \in [Cpu -> [Level -> SUBSET Lock]]

\* Only the level that executes is inside acquire() or release() with interrupts
\* off, and ncli counts its locks.
LevelInv ==
  \A c \in Cpu :
    /\ level[c] = 0 => pc[c][1] = "run" /\ held[c][1] = {}
    /\ level[c] = 1 => pc[c][0] \in {"run", "pushcli"} /\ held[c][0] = {}
    /\ ncli[c] = Cardinality(held[c][level[c]]) + (IF pc[c][level[c]] \in Counted THEN 1 ELSE 0)

\* FL_IF, intena and eflags all remember that the thread runs with interrupts
\* on and the handler does not.
FlagInv ==
  \A c \in Cpu :
    /\ c \in fl_if <=> level[c] = 0 /\ ncli[c] = 0
    /\ ncli[c] # 0 => (intena[c] <=> level[c] = 0)
    /\ \A v \in Level : pc[c][v] = "pushcli" => (eflags[c][v] <=> v = 0 /\ held[c][v] = {})

\* The lock a level works on, against the locks it has.
OrderInv ==
  \A c \in Cpu, v \in Level :
    /\ pc[c][v] # "run" => lk[c][v] \in Lock
    /\ pc[c][v] \in {"pushcli", "xchg", "setcpu"} => \A h \in held[c][v] : h < lk[c][v]
    /\ pc[c][v] \in InHand => lk[c][v] \notin held[c][v]

Owns(c, v, l) == l \in held[c][v] \/ (pc[c][v] \in InHand /\ lk[c][v] = l)
Marked(c, v, l) == l \in held[c][v] \/ (pc[c][v] = "clearcpu" /\ lk[c][v] = l)

\* lk->locked and lk->cpu against who owns the lock.
OwnerInv ==
  \A l \in Lock :
    /\ \A c, d \in Cpu, v, w \in Level : Owns(c, v, l) /\ Owns(d, w, l) => c = d /\ v = w
    /\ \A c \in Cpu, v \in Level : Owns(c, v, l) => locked[l]
    /\ \A c \in Cpu, v \in Level : Marked(c, v, l) => lkcpu[l] = c
    /\ \A c \in Cpu : lkcpu[l] = c => \E v \in Level : Marked(c, v, l)

IInv == Types /\ LevelInv /\ FlagInv /\ OrderInv /\ OwnerInv /\ ~panicked

\* At the start no lock is held and interrupts are on.
LEMMA InitIInv == SpinlockAssumption /\ Init => IInv
<1> SUFFICES ASSUME SpinlockAssumption, Init PROVE IInv
  OBVIOUS
<1> USE DEF Init, Each, Level, Lock, SpinlockAssumption
<1>1. Types
  BY DEF Types, Places
<1>2. LevelInv
  BY FS_EmptySet DEF LevelInv, Counted
<1>3. FlagInv
  BY DEF FlagInv
<1>4. OrderInv
  BY DEF OrderInv, InHand
<1>5. OwnerInv
  BY DEF OwnerInv, Owns, Marked, InHand
<1> QED
  BY <1>1, <1>2, <1>3, <1>4, <1>5 DEF IInv

\* Every step keeps the types.
LEMMA TypesStep == SpinlockAssumption /\ IInv /\ [Next]_vars => Types'
<1> SUFFICES ASSUME SpinlockAssumption, Types, OrderInv, [Next]_vars PROVE Types'
  BY DEF IInv
<1> USE DEF Types, At, Goto, cpuVars, Places, Counted, Level, Lock, SpinlockAssumption
<1>1. ASSUME NEW c \in Cpu, NEW v \in Level, NEW l \in Lock, pushcli_read(c, v, l) PROVE Types'
  BY <1>1 DEF pushcli_read
<1>2. ASSUME NEW c \in Cpu, NEW v \in Level, NEW l \in Lock, release(c, v, l) PROVE Types'
  BY <1>2 DEF release
<1>3. ASSUME NEW c \in Cpu, NEW v \in Level, pushcli(c, v) PROVE Types'
  BY <1>3 DEF pushcli, cli, SaveIntena
<1>4. ASSUME NEW c \in Cpu, NEW v \in Level, xchg(c, v) PROVE Types'
  BY <1>4 DEF xchg
<1>5. ASSUME NEW c \in Cpu, NEW v \in Level, acquired(c, v) PROVE Types'
  <2>1. lk[c][v] \in Lock
    BY <1>5 DEF acquired, OrderInv
  <2> QED
    BY <1>5, <2>1 DEF acquired
<1>6. ASSUME NEW c \in Cpu, NEW v \in Level, release_clear(c, v) PROVE Types'
  BY <1>6 DEF release_clear
<1>11. ASSUME NEW c \in Cpu, NEW v \in Level, release_unlock(c, v) PROVE Types'
  BY <1>11 DEF release_unlock
<1>7. ASSUME NEW c \in Cpu, NEW v \in Level, popcli(c, v) PROVE Types'
  BY <1>7 DEF popcli, NcliDown
<1>8. ASSUME NEW c \in Cpu, interrupt(c) PROVE Types'
  BY <1>8 DEF interrupt
<1>9. ASSUME NEW c \in Cpu, iret(c) PROVE Types'
  BY <1>9 DEF iret
<1>10. CASE UNCHANGED vars
  BY <1>10 DEF vars
<1> HIDE DEF Types, At, Goto, cpuVars, Places, Counted, Level, Lock, SpinlockAssumption
<1> QED
  BY <1>1, <1>2, <1>3, <1>4, <1>5, <1>6, <1>7, <1>8, <1>9, <1>10, <1>11 DEF Next, Step

\* The locks of a level are finitely many.
LEMMA HeldFinite ==
  ASSUME SpinlockAssumption, Types, NEW c \in Cpu, NEW v \in Level
  PROVE  /\ IsFiniteSet(held[c][v]) /\ Cardinality(held[c][v]) \in Nat
         /\ Cardinality(held[c][v]) = 0 <=> held[c][v] = {}
<1>1. IsFiniteSet(Lock)
  BY FS_Interval DEF Lock, SpinlockAssumption
<1>2. IsFiniteSet(held[c][v])
  BY <1>1, FS_Subset DEF Types
<1> QED
  BY <1>2, FS_CardinalityType, FS_EmptySet

\* Releasing a lock leaves one less.
LEMMA OneLess == ASSUME NEW S, NEW x \in S, IsFiniteSet(S)
                 PROVE  Cardinality(S \ {x}) = Cardinality(S) - 1
BY FS_RemoveElement

\* Every step keeps ncli the number of locks of the level that executes.
LEMMA LevelStep == SpinlockAssumption /\ IInv /\ [Next]_vars => LevelInv'
<1> SUFFICES ASSUME SpinlockAssumption, Types, LevelInv, FlagInv, OrderInv, [Next]_vars
             PROVE  LevelInv'
  BY DEF IInv
<1> USE DEF LevelInv, Types, At, Goto, cpuVars, Places, Counted, Level
<1>1. ASSUME NEW c \in Cpu, NEW v \in Level, NEW l \in Lock, pushcli_read(c, v, l) PROVE LevelInv'
  BY <1>1 DEF pushcli_read
<1>2. ASSUME NEW c \in Cpu, NEW v \in Level, NEW l \in Lock, release(c, v, l) PROVE LevelInv'
  <2>1. Cardinality(held[c][v] \ {l}) = Cardinality(held[c][v]) - 1
    <3>1. l \in held[c][v] /\ IsFiniteSet(held[c][v])
      BY <1>2, HeldFinite DEF release
    <3> QED
      BY <3>1, OneLess
  <2> QED
    BY <1>2, <2>1, HeldFinite DEF release
<1>3. ASSUME NEW c \in Cpu, NEW v \in Level, pushcli(c, v) PROVE LevelInv'
  BY <1>3, HeldFinite DEF pushcli
<1>4. ASSUME NEW c \in Cpu, NEW v \in Level, xchg(c, v) PROVE LevelInv'
  BY <1>4 DEF xchg
<1>5. ASSUME NEW c \in Cpu, NEW v \in Level, acquired(c, v) PROVE LevelInv'
  <2>1. lk[c][v] \notin held[c][v]
    BY <1>5 DEF acquired, OrderInv, InHand
  <2>2. Cardinality(held[c][v] \cup {lk[c][v]}) = Cardinality(held[c][v]) + 1
    BY <2>1, HeldFinite, FS_AddElement
  <2> QED
    BY <1>5, <2>2, HeldFinite DEF acquired
<1>6. ASSUME NEW c \in Cpu, NEW v \in Level, release_clear(c, v) PROVE LevelInv'
  BY <1>6 DEF release_clear
<1>7. ASSUME NEW c \in Cpu, NEW v \in Level, release_unlock(c, v) PROVE LevelInv'
  BY <1>7 DEF release_unlock
<1>8. ASSUME NEW c \in Cpu, NEW v \in Level, popcli(c, v) PROVE LevelInv'
  BY <1>8, HeldFinite DEF popcli, NcliDown
<1>9. ASSUME NEW c \in Cpu, interrupt(c) PROVE LevelInv'
  <2>1. ncli[c] = 0 /\ pc[c][0] \notin Counted /\ held[c][0] = {}
    BY <1>9, HeldFinite DEF interrupt, FlagInv
  <2> QED
    <3>1. held[c][1] = {} /\ pc[c][1] = "run" /\ Cardinality(held[c][1]) = 0
      BY <1>9, FS_EmptySet DEF interrupt
    <3>2. level'[c] = 1 /\ \A d \in Cpu \ {c} : level'[d] = level[d]
      BY <1>9 DEF interrupt
    <3>3. UNCHANGED <<ncli, pc, held>>
      BY <1>9 DEF interrupt
    <3>4. pc[c][0] \in {"run", "pushcli"}
      BY <2>1
    <3>5. ncli'[c] = Cardinality(held'[c][level'[c]]) + (IF pc'[c][level'[c]] \in Counted THEN 1 ELSE 0)
      <4>1. ncli'[c] = 0 /\ level'[c] = 1 /\ held'[c][1] = {} /\ pc'[c][1] = "run"
        BY <2>1, <3>1, <3>2, <3>3
      <4>2. Cardinality(held'[c][level'[c]]) = 0 /\ pc'[c][level'[c]] \notin Counted
        BY <4>1, FS_EmptySet
      <4> QED
        BY <4>1, <4>2
    <3>6. \A d \in Cpu \ {c} : UNCHANGED <<ncli[d], level[d], pc[d], held[d]>>
      BY <3>2, <3>3
    <3> QED
      BY <2>1, <3>2, <3>3, <3>4, <3>5, <3>6
<1>10. ASSUME NEW c \in Cpu, iret(c) PROVE LevelInv'
  <2>1. /\ level[c] = 1 /\ held[c][0] = {} /\ held[c][1] = {}
        /\ pc[c][1] = "run" /\ pc[c][0] \in {"run", "pushcli"}
    BY <1>10 DEF iret
  <2>2. Cardinality(held[c][0]) = 0 /\ Cardinality(held[c][1]) = 0
    BY <2>1, FS_EmptySet
  <2> QED
    BY <1>10, <2>1, <2>2 DEF iret
<1>11. CASE UNCHANGED vars
  BY <1>11 DEF vars
<1> HIDE DEF LevelInv, Types, At, Goto, cpuVars, Places, Counted, Level
<1> QED
  BY <1>1, <1>2, <1>3, <1>4, <1>5, <1>6, <1>7, <1>8, <1>9, <1>10, <1>11 DEF Next, Step

\* Outside acquire() and release() ncli is zero just when no lock is held.
LEMMA NcliZero ==
  ASSUME SpinlockAssumption, Types, LevelInv, NEW c \in Cpu, pc[c][level[c]] \notin Counted
  PROVE  ncli[c] \in Nat /\ (ncli[c] = 0 <=> held[c][level[c]] = {})
<1>1. level[c] \in Level
  BY DEF Types
<1>2. ncli[c] = Cardinality(held[c][level[c]]) + 0
  BY DEF LevelInv
<1> QED
  BY <1>1, <1>2, HeldFinite

\* Every step keeps the interrupt flag and its saved copies right.
LEMMA FlagStep == SpinlockAssumption /\ IInv /\ [Next]_vars => FlagInv'
<1> SUFFICES ASSUME SpinlockAssumption, Types, LevelInv, FlagInv, OrderInv, [Next]_vars
             PROVE  FlagInv'
  BY DEF IInv
<1> USE DEF FlagInv, Types, At, Goto, cpuVars, Places, Counted, Level
<1>1. ASSUME NEW c \in Cpu, NEW v \in Level, NEW l \in Lock, pushcli_read(c, v, l) PROVE FlagInv'
  <2>1. v = level[c] /\ pc[c][level[c]] \notin Counted
    BY <1>1 DEF pushcli_read
  <2>2. c \in fl_if <=> v = 0 /\ held[c][v] = {}
    BY <2>1, NcliZero
  <2>3. UNCHANGED <<fl_if, ncli, intena, level, held>>
    BY <1>1 DEF pushcli_read
  <2>4. ASSUME NEW d \in Cpu, NEW w \in Level, pc'[d][w] = "pushcli"
        PROVE  eflags'[d][w] <=> w = 0 /\ held'[d][w] = {}
    <3>1. CASE d = c /\ w = v
      <4>1. eflags'[c][v] = (c \in fl_if)
        BY <1>1 DEF pushcli_read
      <4> QED
        BY <2>2, <2>3, <3>1, <4>1
    <3>2. CASE ~(d = c /\ w = v)
      <4>1. eflags'[d][w] = eflags[d][w] /\ pc'[d][w] = pc[d][w]
        BY <1>1, <3>2 DEF pushcli_read
      <4> QED
        BY <2>3, <2>4, <4>1
    <3> QED
      BY <3>1, <3>2
  <2> QED
    BY <2>3, <2>4
<1>2. ASSUME NEW c \in Cpu, NEW v \in Level, NEW l \in Lock, release(c, v, l) PROVE FlagInv'
  BY <1>2 DEF release
<1>3. ASSUME NEW c \in Cpu, NEW v \in Level, pushcli(c, v) PROVE FlagInv'
  <2>1. ncli[c] \in Nat /\ (ncli[c] = 0 <=> held[c][v] = {})
    BY <1>3, NcliZero DEF pushcli
  <2> QED
    BY <1>3, <2>1 DEF pushcli, cli, SaveIntena
<1>4. ASSUME NEW c \in Cpu, NEW v \in Level, xchg(c, v) PROVE FlagInv'
  BY <1>4 DEF xchg
<1>5. ASSUME NEW c \in Cpu, NEW v \in Level, acquired(c, v) PROVE FlagInv'
  BY <1>5 DEF acquired
<1>6. ASSUME NEW c \in Cpu, NEW v \in Level, release_clear(c, v) PROVE FlagInv'
  BY <1>6 DEF release_clear
<1>7. ASSUME NEW c \in Cpu, NEW v \in Level, release_unlock(c, v) PROVE FlagInv'
  BY <1>7 DEF release_unlock
<1>8. ASSUME NEW c \in Cpu, NEW v \in Level, popcli(c, v) PROVE FlagInv'
  <2>1. ncli[c] # 0
    BY <1>8, HeldFinite DEF popcli, LevelInv
  <2> QED
    BY <1>8, <2>1 DEF popcli, NcliDown
<1>9. ASSUME NEW c \in Cpu, interrupt(c) PROVE FlagInv'
  BY <1>9 DEF interrupt
<1>10. ASSUME NEW c \in Cpu, iret(c) PROVE FlagInv'
  <2>1. ncli[c] = 0
    BY <1>10, NcliZero DEF iret
  <2> QED
    BY <1>10, <2>1 DEF iret
<1>11. CASE UNCHANGED vars
  BY <1>11 DEF vars
<1> HIDE DEF FlagInv, Types, At, Goto, cpuVars, Places, Counted, Level
<1> QED
  BY <1>1, <1>2, <1>3, <1>4, <1>5, <1>6, <1>7, <1>8, <1>9, <1>10, <1>11 DEF Next, Step

\* Every step keeps locks ordered and the lock in hand apart from those held.
LEMMA OrderStep == SpinlockAssumption /\ IInv /\ [Next]_vars => OrderInv'
<1> SUFFICES ASSUME SpinlockAssumption, Types, OrderInv, [Next]_vars PROVE OrderInv'
  BY DEF IInv
<1> USE DEF OrderInv, Types, At, Goto, cpuVars, Places, Counted, InHand, Level
<1>1. ASSUME NEW c \in Cpu, NEW v \in Level, NEW l \in Lock, pushcli_read(c, v, l) PROVE OrderInv'
  BY <1>1 DEF pushcli_read
<1>2. ASSUME NEW c \in Cpu, NEW v \in Level, NEW l \in Lock, release(c, v, l) PROVE OrderInv'
  BY <1>2 DEF release
<1>3. ASSUME NEW c \in Cpu, NEW v \in Level, pushcli(c, v) PROVE OrderInv'
  BY <1>3 DEF pushcli
<1>4. ASSUME NEW c \in Cpu, NEW v \in Level, xchg(c, v) PROVE OrderInv'
  <2>1. lk[c][v] \notin held[c][v]
    BY <1>4 DEF xchg, Lock, SpinlockAssumption
  <2> QED
    BY <1>4, <2>1 DEF xchg
<1>5. ASSUME NEW c \in Cpu, NEW v \in Level, acquired(c, v) PROVE OrderInv'
  BY <1>5 DEF acquired
<1>6. ASSUME NEW c \in Cpu, NEW v \in Level, release_clear(c, v) PROVE OrderInv'
  BY <1>6 DEF release_clear
<1>7. ASSUME NEW c \in Cpu, NEW v \in Level, release_unlock(c, v) PROVE OrderInv'
  BY <1>7 DEF release_unlock
<1>8. ASSUME NEW c \in Cpu, NEW v \in Level, popcli(c, v) PROVE OrderInv'
  BY <1>8 DEF popcli
<1>9. ASSUME NEW c \in Cpu, interrupt(c) PROVE OrderInv'
  BY <1>9 DEF interrupt
<1>10. ASSUME NEW c \in Cpu, iret(c) PROVE OrderInv'
  BY <1>10 DEF iret
<1>11. CASE UNCHANGED vars
  BY <1>11 DEF vars
<1> HIDE DEF OrderInv, Types, At, Goto, cpuVars, Places, Counted, InHand, Level
<1> QED
  BY <1>1, <1>2, <1>3, <1>4, <1>5, <1>6, <1>7, <1>8, <1>9, <1>10, <1>11 DEF Next, Step

\* A step that changes neither who owns a lock nor its fields keeps OwnerInv.
LEMMA SameOwners ==
  ASSUME OwnerInv, UNCHANGED <<locked, lkcpu>>,
         \A c \in Cpu, v \in Level, l \in Lock : Owns(c, v, l)' <=> Owns(c, v, l),
         \A c \in Cpu, v \in Level, l \in Lock : Marked(c, v, l)' <=> Marked(c, v, l)
  PROVE  OwnerInv'
BY DEF OwnerInv

\* lk->cpu is set only by an owner.
LEMMA MarkedOwns ==
  ASSUME NEW c \in Cpu, NEW v \in Level, NEW l \in Lock, Marked(c, v, l)
  PROVE  Owns(c, v, l)
BY DEF Marked, Owns, InHand

\* Every step keeps lk->locked and lk->cpu in agreement with the owner.
LEMMA OwnerStep == SpinlockAssumption /\ IInv /\ [Next]_vars => OwnerInv'
<1> SUFFICES ASSUME SpinlockAssumption, Types, OrderInv, OwnerInv, [Next]_vars PROVE OwnerInv'
  BY DEF IInv
<1> DEFINE OwnsSame == \A c \in Cpu, v \in Level, l \in Lock : Owns(c, v, l)' <=> Owns(c, v, l)
           MarkedSame == \A c \in Cpu, v \in Level, l \in Lock : Marked(c, v, l)' <=> Marked(c, v, l)
<1> USE DEF Types, At, Goto, cpuVars, Places, Counted, InHand, Level
<1>1. ASSUME NEW c \in Cpu, NEW v \in Level, NEW l \in Lock, pushcli_read(c, v, l) PROVE OwnerInv'
  <2>1. OwnsSame /\ MarkedSame /\ UNCHANGED <<locked, lkcpu>>
    BY <1>1 DEF pushcli_read, Owns, Marked
  <2> QED
    BY <2>1, SameOwners
<1>2. ASSUME NEW c \in Cpu, NEW v \in Level, NEW l \in Lock, release(c, v, l) PROVE OwnerInv'
  <2>1. OwnsSame /\ MarkedSame /\ UNCHANGED <<locked, lkcpu>>
    BY <1>2 DEF release, Owns, Marked
  <2> QED
    BY <2>1, SameOwners
<1>3. ASSUME NEW c \in Cpu, NEW v \in Level, pushcli(c, v) PROVE OwnerInv'
  <2>1. OwnsSame /\ MarkedSame /\ UNCHANGED <<locked, lkcpu>>
    BY <1>3 DEF pushcli, Owns, Marked
  <2> QED
    BY <2>1, SameOwners
<1>4. ASSUME NEW c \in Cpu, NEW v \in Level, xchg(c, v) PROVE OwnerInv'
  <2> DEFINE m == lk[c][v]
  <2>1. m \in Lock /\ ~locked[m] /\ locked' = [locked EXCEPT ![m] = TRUE] /\ lkcpu' = lkcpu
    BY <1>4 DEF xchg, OrderInv
  <2>2. MarkedSame
    BY <1>4 DEF xchg, Marked
  <2>3. \A d \in Cpu, w \in Level, l \in Lock :
          Owns(d, w, l)' <=> Owns(d, w, l) \/ (d = c /\ w = v /\ l = m)
    BY <1>4 DEF xchg, Owns
  <2>4. \A d \in Cpu, w \in Level : ~Owns(d, w, m)
    BY <2>1 DEF OwnerInv
  <2> HIDE DEF m
  <2> QED
    BY <2>1, <2>2, <2>3, <2>4 DEF OwnerInv
<1>5. ASSUME NEW c \in Cpu, NEW v \in Level, acquired(c, v) PROVE OwnerInv'
  <2> DEFINE m == lk[c][v]
  <2>1. m \in Lock /\ Owns(c, v, m) /\ locked' = locked /\ lkcpu' = [lkcpu EXCEPT ![m] = c]
    BY <1>5 DEF acquired, OrderInv, Owns
  <2>2. OwnsSame
    BY <1>5 DEF acquired, Owns
  <2>3. \A d \in Cpu, w \in Level, l \in Lock :
          Marked(d, w, l)' <=> Marked(d, w, l) \/ (d = c /\ w = v /\ l = m)
    BY <1>5 DEF acquired, Marked
  <2>4. \A d \in Cpu, w \in Level : Marked(d, w, m) => d = c
    BY <2>1, MarkedOwns DEF OwnerInv
  <2> HIDE DEF m
  <2> QED
    BY <2>1, <2>2, <2>3, <2>4 DEF OwnerInv
<1>6. ASSUME NEW c \in Cpu, NEW v \in Level, release_clear(c, v) PROVE OwnerInv'
  <2> DEFINE m == lk[c][v]
  <2>1. /\ m \in Lock /\ Owns(c, v, m) /\ m \notin held[c][v]
        /\ locked' = locked /\ lkcpu' = [lkcpu EXCEPT ![m] = Nobody]
    BY <1>6 DEF release_clear, OrderInv, Owns
  <2>2. OwnsSame
    BY <1>6 DEF release_clear, Owns
  <2>3. \A d \in Cpu, w \in Level, l \in Lock :
          Marked(d, w, l)' <=> Marked(d, w, l) /\ ~(d = c /\ w = v /\ l = m)
    BY <1>6, <2>1 DEF release_clear, Marked
  <2>4. \A d \in Cpu, w \in Level : Marked(d, w, m) => d = c /\ w = v
    BY <2>1, MarkedOwns DEF OwnerInv
  <2>5. \A l \in Lock, d \in Cpu, w \in Level : Marked(d, w, l)' => l # m
    BY <2>3, <2>4
  <2> HIDE DEF m
  <2> QED
    BY <2>1, <2>2, <2>3, <2>5 DEF OwnerInv, SpinlockAssumption
<1>7. ASSUME NEW c \in Cpu, NEW v \in Level, release_unlock(c, v) PROVE OwnerInv'
  <2> DEFINE m == lk[c][v]
  <2>1. /\ m \in Lock /\ Owns(c, v, m) /\ m \notin held[c][v]
        /\ lkcpu' = lkcpu /\ locked' = [locked EXCEPT ![m] = FALSE]
    BY <1>7 DEF release_unlock, OrderInv, Owns
  <2>2. MarkedSame
    BY <1>7 DEF release_unlock, Marked
  <2>3. \A d \in Cpu, w \in Level, l \in Lock :
          Owns(d, w, l)' <=> Owns(d, w, l) /\ ~(d = c /\ w = v /\ l = m)
    BY <1>7, <2>1 DEF release_unlock, Owns
  <2>4. \A d \in Cpu, w \in Level : Owns(d, w, m) => d = c /\ w = v
    BY <2>1 DEF OwnerInv
  <2> HIDE DEF m
  <2> QED
    BY <2>1, <2>2, <2>3, <2>4 DEF OwnerInv
<1>8. ASSUME NEW c \in Cpu, NEW v \in Level, popcli(c, v) PROVE OwnerInv'
  <2>1. OwnsSame /\ MarkedSame /\ UNCHANGED <<locked, lkcpu>>
    BY <1>8 DEF popcli, Owns, Marked
  <2> QED
    BY <2>1, SameOwners
<1>9. ASSUME NEW c \in Cpu, interrupt(c) \/ iret(c) PROVE OwnerInv'
  <2>1. OwnsSame /\ MarkedSame /\ UNCHANGED <<locked, lkcpu>>
    BY <1>9 DEF interrupt, iret, Owns, Marked
  <2> QED
    BY <2>1, SameOwners
<1>10. CASE UNCHANGED vars
  <2>1. OwnsSame /\ MarkedSame /\ UNCHANGED <<locked, lkcpu>>
    BY <1>10 DEF vars, Owns, Marked
  <2> QED
    BY <2>1, SameOwners
<1> HIDE DEF Types, At, Goto, cpuVars, Places, Counted, InHand, Level
<1> QED
  BY <1>1, <1>2, <1>3, <1>4, <1>5, <1>6, <1>7, <1>8, <1>9, <1>10 DEF Next, Step

\* No assertion fails: at pushcli() nothing of this processor has the lock
\* marked, at release() its holder has, and popcli() finds ncli above zero.
LEMMA NoPanicStep == SpinlockAssumption /\ IInv /\ [Next]_vars => ~panicked'
<1> SUFFICES ASSUME SpinlockAssumption, Types, LevelInv, FlagInv, OrderInv, OwnerInv, ~panicked,
                    [Next]_vars
             PROVE  ~panicked'
  BY DEF IInv
<1>1. ASSUME NEW c \in Cpu, NEW v \in Level, pushcli(c, v) PROVE ~panicked'
  <2>1. /\ level[c] = v /\ pc[c][v] = "pushcli" /\ lk[c][v] \in Lock
        /\ panicked' = holding(c, lk[c][v])
    BY <1>1 DEF pushcli, At, OrderInv
  <2>2. ~Marked(c, v, lk[c][v])
    BY <2>1 DEF Marked, OrderInv, Lock, SpinlockAssumption
  <2>3. \A w \in Level \ {v} : ~Marked(c, w, lk[c][v])
    BY <2>1 DEF Marked, LevelInv, Level
  <2>4. lkcpu[lk[c][v]] # c
    BY <2>1, <2>2, <2>3 DEF OwnerInv
  <2> QED
    BY <2>1, <2>4 DEF holding
<1>2. ASSUME NEW c \in Cpu, NEW v \in Level, NEW l \in Lock, release(c, v, l) PROVE ~panicked'
  <2>1. Owns(c, v, l) /\ Marked(c, v, l)
    BY <1>2 DEF release, Owns, Marked
  <2> QED
    BY <1>2, <2>1 DEF release, holding, OwnerInv
<1>3. ASSUME NEW c \in Cpu, NEW v \in Level, popcli(c, v) PROVE ~panicked'
  <2>1. level[c] = v /\ pc[c][level[c]] \in Counted
    BY <1>3 DEF popcli, At, Counted
  <2>2. ncli[c] = Cardinality(held[c][v]) + 1
    BY <2>1 DEF LevelInv
  <2>3. ncli[c] # 0
    BY <2>2, HeldFinite
  <2>4. c \notin fl_if
    BY <2>3 DEF FlagInv
  <2>5. ~(NcliDown(c) < 0)
    BY <2>2, HeldFinite DEF NcliDown
  <2> QED
    BY <1>3, <2>4, <2>5 DEF popcli
<1>4. CASE UNCHANGED panicked
  BY <1>4
<1>5. ASSUME NEW c \in Cpu, interrupt(c) \/ iret(c) PROVE UNCHANGED panicked
  BY <1>5 DEF interrupt, iret
<1>6. ASSUME NEW c \in Cpu, NEW v \in Level, NEW l \in Lock, pushcli_read(c, v, l)
      PROVE  UNCHANGED panicked
  BY <1>6 DEF pushcli_read
<1>7. ASSUME NEW c \in Cpu, NEW v \in Level,
             xchg(c, v) \/ acquired(c, v) \/ release_clear(c, v) \/ release_unlock(c, v)
      PROVE  UNCHANGED panicked
  BY <1>7 DEF xchg, acquired, release_clear, release_unlock
<1> QED
  BY <1>1, <1>2, <1>3, <1>4, <1>5, <1>6, <1>7 DEF Next, Step, vars

\* The inductive invariant gives what the kernel relies on.
LEMMA IInvImplies == SpinlockAssumption /\ IInv => LockDiscipline
<1> SUFFICES ASSUME SpinlockAssumption, IInv PROVE LockDiscipline
  OBVIOUS
<1> USE DEF IInv
<1>1. MutualExclusion
  <2> SUFFICES ASSUME NEW c \in Cpu, NEW d \in Cpu, NEW v \in Level, NEW w \in Level,
                      held[c][v] \cap held[d][w] # {}
               PROVE  c = d /\ v = w
    BY DEF MutualExclusion
  <2>1. PICK l \in Lock : l \in held[c][v] /\ l \in held[d][w]
    BY DEF Types
  <2> QED
    BY <2>1 DEF Owns, OwnerInv
<1>2. UninterruptedWithLock
  <2> SUFFICES ASSUME NEW c \in Cpu,
                      held[c][0] # {} \/ pc[c][0] \in {"xchg", "setcpu", "clearcpu", "unlock"}
               PROVE  level[c] = 0 /\ c \notin fl_if
    BY DEF UninterruptedWithLock
  <2>1. level[c] = 0
    BY DEF LevelInv, Types, Level
  <2>2. 0 \in Level /\ ncli[c] # 0
    BY <2>1, HeldFinite DEF LevelInv, Level, Counted
  <2> QED
    BY <2>1, <2>2 DEF FlagInv
<1>3. FlagRestored
  BY NcliZero DEF FlagRestored, FlagInv, At, Counted
<1> QED
  BY <1>1, <1>2, <1>3 DEF LockDiscipline, NoPanic

\* acquire() and release(), with pushcli() and popcli() and an interrupt handler
\* that takes locks too, give mutual exclusion, never let a handler interrupt a
\* thread with a lock, restore the interrupt flag and fail none of their
\* assertions: for any number of processors and locks.
THEOREM LocksAreSound == SpinlockAssumption /\ Spec => []LockDiscipline
<1>1. SpinlockAssumption /\ IInv /\ [Next]_vars => IInv'
  BY TypesStep, LevelStep, FlagStep, OrderStep, OwnerStep, NoPanicStep DEF IInv
<1>2. ASSUME SpinlockAssumption PROVE Spec => []LockDiscipline
  <2>1. Init => IInv
    BY <1>2, InitIInv
  <2>2. IInv /\ [Next]_vars => IInv'
    BY <1>1, <1>2
  <2>3. IInv => LockDiscipline
    BY <1>2, IInvImplies
  <2> QED
    BY <2>1, <2>2, <2>3, PTL DEF Spec
<1> QED
  BY <1>2
=============================================================================
