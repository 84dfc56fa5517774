---------------------------- MODULE BcacheProofs ----------------------------
(***************************************************************************)
(* The buffer cache keeps its promises for any number of processes,        *)
(* buffers and blocks: proofs about module Bcache.                         *)
(***************************************************************************)
EXTENDS Bcache, FiniteSetTheorems, WellFoundedInduction, TLAPS

Places == Holding \cup {"idle", "acquiresleep", "locksleep", "brelse"}

TypeOK ==
  /\ mru \in [1..NBUF -> Buf] /\ blockno \in [Buf -> Block \cup {None}]
  /\ valid \in SUBSET Buf /\ dirty \in SUBSET Buf /\ locked \in SUBSET Buf
  /\ refcnt \in [Buf -> Nat] /\ data \in [Buf -> Val]
  /\ idequeue \in Seq(Buf) /\ irq \in BOOLEAN /\ disk \in [Block -> Val]
  /\ pc \in [Proc -> Places] /\ buf \in [Proc -> Buf \cup {0}]
  /\ want \in [Proc -> Block \cup {None}] /\ panicked \in BOOLEAN

\* Every buffer is on the list of the cache, where bget() looks for it.
Listed == \A b \in Buf : \E i \in 1..NBUF : mru[i] = b

\* A buffer's refcnt counts the processes between bget() and brelse().
Users(b) == {p \in Proc : buf[p] = b}
RefInv ==
  /\ \A p \in Proc : (pc[p] = "idle" <=> buf[p] = 0) /\ (pc[p] # "idle" => want[p] \in Block)
  /\ \A b \in Buf : refcnt[b] = Cardinality(Users(b))

BlockInv ==
  /\ OneBufferPerBlock /\ NotRecycledInUse
  /\ \A b \in valid : blockno[b] \in Block

\* A sleep lock that is taken has one owner, and sleepers wait for a taken one.
LockInv ==
  /\ \A p \in Proc : pc[p] \in Holding => buf[p] \in locked
  /\ \A b \in locked : \E p \in Proc : pc[p] \in Holding /\ buf[p] = b
  /\ \A p, q \in Proc : pc[p] \in Holding /\ pc[q] \in Holding /\ buf[p] = buf[q] => p = q
  /\ LockSleepersHaveOwner

\* What the flags of a buffer say about its owner's request.
FlagInv ==
  /\ dirty \subseteq valid
  /\ \A p \in Proc :
       /\ pc[p] \in {"hold", "changed", "iderwWoken"} => buf[p] \in valid
       /\ pc[p] = "iderwWoken" => buf[p] \notin dirty
       /\ pc[p] \in {"iderw", "iderwSleep"} => buf[p] \notin valid \ dirty

QueueInv == QueueMatchesSleepers /\ (irq => idequeue # <<>>)

\* The buffers that wait for a commit: dirty, and not on their way to the disk.
Writing == {b \in Buf : \E p \in Proc : buf[p] = b /\ pc[p] \in {"iderw", "iderwSleep"}}
PinInv == Cardinality(dirty \ Writing) <= MaxPinned

IInv ==
  /\ TypeOK /\ Listed /\ RefInv /\ BlockInv /\ LockInv /\ FlagInv /\ QueueInv /\ PinInv

\* A clean buffer holds what the disk does, unless its owner has just changed it;
\* when the drive has finished a write, the disk has it.
DataInv ==
  /\ \A b \in valid \ dirty :
       (\A p \in Proc : pc[p] = "changed" => buf[p] # b) => data[b] = disk[blockno[b]]
  /\ irq /\ Head(idequeue) \in dirty => disk[blockno[Head(idequeue)]] = data[Head(idequeue)]
-----------------------------------------------------------------------------
(* Facts about numbers and about the list of buffers.                      *)

\* A set of natural numbers has a least element.
LEMMA NatMin ==
  ASSUME NEW T \in SUBSET Nat, T # {}
  PROVE  \E x \in T : \A y \in T : x <= y
<1> DEFINE R == {ss \in Nat \X Nat : ss[1] < ss[2]}
<1>1. IsWellFoundedOn(R, Nat)
  BY NatLessThanWellFounded DEF OpToRel
<1> HIDE DEF R
<1>2. PICK x \in T : \A y \in T : ~(<<y, x>> \in R)
  BY <1>1, WFMin
<1>3. ASSUME NEW y \in T PROVE x <= y
  <2>1. x \in Nat /\ y \in Nat
    OBVIOUS
  <2>2. ~(y < x)
    BY <1>2, <2>1 DEF R
  <2> QED
    BY <2>1, <2>2
<1> QED
  BY <1>3

\* A set of indices has a least and a greatest element.
LEMMA MinMax ==
  ASSUME NEW n \in Nat, NEW I \in SUBSET (1..n), I # {}
  PROVE  (\E x \in I : \A y \in I : x <= y) /\ (\E x \in I : \A y \in I : x >= y)
<1>1. \E x \in I : \A y \in I : x <= y
  BY NatMin
<1>2. \E x \in I : \A y \in I : x >= y
  <2> DEFINE T == {k \in Nat : n - k \in I}
  <2>1. T \in SUBSET Nat /\ T # {}
    <3>1. PICK i \in I : TRUE
      OBVIOUS
    <3>2. i \in Nat /\ n - i \in Nat /\ n - (n - i) = i
      BY <3>1
    <3> QED
      BY <3>1, <3>2
  <2>2. PICK k \in T : \A j \in T : k <= j
    BY <2>1, NatMin
  <2>3. ASSUME NEW y \in I PROVE n - k >= y
    <3>1. y \in Nat /\ n - y \in Nat /\ n - (n - y) = y
      OBVIOUS
    <3>2. k <= n - y
      BY <2>2, <3>1
    <3> QED
      BY <3>1, <3>2
  <2> QED
    BY <2>2, <2>3
<1> QED
  BY <1>1, <1>2

\* The scans of the list find a buffer of B if there is one.
LEMMA ScansFind ==
  ASSUME TypeOK, Listed, NEW B \in SUBSET Buf, B # {}
  PROVE  /\ FirstOf(B) \in 1..NBUF /\ mru[FirstOf(B)] \in B
         /\ LastOf(B) \in 1..NBUF /\ mru[LastOf(B)] \in B
<1> DEFINE I == {i \in 1..NBUF : mru[i] \in B}
<1>1. NBUF \in Nat /\ Len(mru) = NBUF
  BY BcacheAssumption DEF TypeOK
<1>2. I \in SUBSET (1..NBUF) /\ I # {}
  BY DEF Listed
<1>3. \E i \in 1..NBUF : mru[i] \in B /\ \A j \in 1..(i - 1) : mru[j] \notin B
  <2>1. PICK i \in I : \A j \in I : i <= j
    BY <1>1, <1>2, MinMax
  <2>2. \A j \in 1..(i - 1) : j \in 1..NBUF /\ ~(i <= j)
    BY <1>1, <2>1
  <2> QED
    BY <2>1, <2>2
<1>4. \E i \in 1..NBUF : mru[i] \in B /\ \A j \in (i + 1)..NBUF : mru[j] \notin B
  <2>1. PICK i \in I : \A j \in I : i >= j
    BY <1>1, <1>2, MinMax
  <2>2. \A j \in (i + 1)..NBUF : j \in 1..NBUF /\ ~(i >= j)
    BY <1>1, <2>1
  <2> QED
    BY <2>1, <2>2
<1> QED
  BY <1>1, <1>3, <1>4 DEF FirstOf, LastOf

\* bget() finds a cached block's buffer.
LEMMA HitCached ==
  ASSUME TypeOK, Listed, NEW blk \in Block, Cached(blk) # {}
  PROVE  Hit(blk) \in Buf /\ blockno[Hit(blk)] = blk
<1>1. Cached(blk) \in SUBSET Buf
  BY DEF Cached
<1>2. Hit(blk) \in Cached(blk)
  BY <1>1, ScansFind DEF Hit
<1> QED
  BY <1>2 DEF Cached

\* The buffer that bget() recycles is free to be recycled.
LEMMA VictimRecyclable ==
  ASSUME TypeOK, Listed, Recyclable # {}
  PROVE  Victim \in Recyclable
<1>1. Recyclable \in SUBSET Buf
  BY DEF Recyclable
<1> QED
  BY <1>1, ScansFind DEF Victim

\* brelse() moves a buffer to the front of the list, which loses none.
LEMMA MovedToFront ==
  ASSUME TypeOK, Listed, NEW b \in Buf
  PROVE  LET m == ToFront(b)
         IN  m \in [1..NBUF -> Buf] /\ \A c \in Buf : \E i \in 1..NBUF : m[i] = c
<1> DEFINE k == FirstOf({b})
           m == ToFront(b)
<1>1. NBUF \in Nat \ {0} /\ Len(mru) = NBUF /\ mru \in Seq(Buf)
  BY BcacheAssumption DEF TypeOK
<1>3. k \in 1..NBUF /\ mru[k] = b
  BY ScansFind
<1>4. m = <<b>> \o (SubSeq(mru, 1, k - 1) \o SubSeq(mru, k + 1, NBUF))
  BY <1>1 DEF ToFront
<1> HIDE DEF k
<1>5. /\ m \in Seq(Buf) /\ Len(m) = NBUF /\ m[1] = b
      /\ \A i \in 2..NBUF : m[i] = IF i <= k THEN mru[i - 1] ELSE mru[i]
  <2> DEFINE s == SubSeq(mru, 1, k - 1)
             t == SubSeq(mru, k + 1, NBUF)
  <2>1. /\ s \in Seq(Buf) /\ Len(s) = k - 1
        /\ \A i \in 1..(k - 1) : s[i] = mru[i]
    BY <1>1, <1>3
  <2>2. /\ t \in Seq(Buf) /\ Len(t) = NBUF - k
        /\ \A i \in 1..(NBUF - k) : t[i] = mru[i + k]
    BY <1>1, <1>3
  <2> HIDE DEF s, t
  <2>3. /\ s \o t \in Seq(Buf) /\ Len(s \o t) = NBUF - 1
        /\ \A i \in 1..(NBUF - 1) : (s \o t)[i] = IF i < k THEN mru[i] ELSE mru[i + 1]
    <3>1. /\ s \o t \in Seq(Buf) /\ Len(s \o t) = NBUF - 1
          /\ \A i \in 1..(NBUF - 1) : (s \o t)[i] = IF i <= k - 1 THEN s[i] ELSE t[i - (k - 1)]
      <4>1. Len(s) + Len(t) = NBUF - 1
        BY <1>1, <1>3, <2>1, <2>2
      <4> QED
        BY <2>1, <2>2, <4>1
    <3>2. ASSUME NEW i \in 1..(NBUF - 1)
          PROVE  (s \o t)[i] = IF i < k THEN mru[i] ELSE mru[i + 1]
      <4>1. CASE i < k
        BY <1>1, <1>3, <2>1, <3>1, <4>1
      <4>2. CASE ~(i < k)
        <5>1. i - (k - 1) \in 1..(NBUF - k) /\ (i - (k - 1)) + k = i + 1 /\ ~(i <= k - 1)
          BY <1>1, <1>3, <4>2
        <5> QED
          BY <2>2, <3>1, <4>2, <5>1
      <4> QED
        BY <4>1, <4>2
    <3> QED
      BY <3>1, <3>2
  <2> DEFINE r == s \o t
  <2>4. m = <<b>> \o r
    BY <1>4 DEF s, t
  <2> HIDE DEF r, m
  <2>5. /\ r \in Seq(Buf) /\ Len(r) = NBUF - 1
        /\ \A i \in 1..(NBUF - 1) : r[i] = IF i < k THEN mru[i] ELSE mru[i + 1]
    BY <2>3 DEF r
  <2> QED
    BY <1>1, <1>3, <2>4, <2>5
<1> HIDE DEF m
<1>6. ASSUME NEW c \in Buf PROVE \E i \in 1..NBUF : m[i] = c
  <2>1. PICK j \in 1..NBUF : mru[j] = c
    BY DEF Listed
  <2>2. CASE j < k
    <3>1. j + 1 \in 2..NBUF /\ m[j + 1] = c
      BY <1>1, <1>3, <1>5, <2>1, <2>2
    <3> QED
      BY <3>1
  <2>3. CASE j > k
    BY <1>1, <1>3, <1>5, <2>1, <2>3
  <2>4. CASE j = k
    BY <1>1, <1>3, <1>5, <2>1, <2>4
  <2> QED
    BY <1>3, <2>2, <2>3, <2>4
<1>7. m \in [1..NBUF -> Buf]
  BY <1>1, <1>5
<1> QED
  BY <1>6, <1>7 DEF m
-----------------------------------------------------------------------------
(* The invariant holds initially, and every step keeps it.                 *)

\* A process between bget() and brelse() has a buffer.
LEMMA HasBuf ==
  ASSUME IInv, NEW p \in Proc, pc[p] # "idle"
  PROVE  buf[p] \in Buf /\ want[p] \in Block
BY DEF IInv, RefInv, TypeOK

\* The active request is that of a process asleep in iderw().
LEMMA HasHead ==
  ASSUME IInv, idequeue # <<>>
  PROVE  /\ Head(idequeue) \in Buf /\ Head(idequeue) = idequeue[1] /\ Tail(idequeue) \in Seq(Buf)
         /\ Len(idequeue) \in Nat \ {0}
         /\ cmd = idestart(Head(idequeue))
         /\ blockno[Head(idequeue)] \in Block
         /\ Head(idequeue) \notin valid \ dirty
         /\ \E p \in Proc : pc[p] = "iderwSleep" /\ buf[p] = Head(idequeue)
<1>1. /\ Head(idequeue) \in Buf /\ Head(idequeue) = idequeue[1] /\ Tail(idequeue) \in Seq(Buf)
      /\ Len(idequeue) \in Nat \ {0}
  BY DEF IInv, TypeOK
<1>2. Head(idequeue) \in Range(idequeue)
  BY <1>1 DEF Range, IInv, TypeOK
<1>3. PICK p \in Proc : pc[p] = "iderwSleep" /\ buf[p] = Head(idequeue)
  BY <1>2 DEF IInv, QueueInv, QueueMatchesSleepers
<1>4. blockno[Head(idequeue)] \in Block /\ Head(idequeue) \notin valid \ dirty
  <2>1. buf[p] # 0 /\ want[p] \in Block
    BY <1>3, HasBuf, BcacheAssumption DEF Buf
  <2> QED
    BY <1>3, <2>1 DEF IInv, BlockInv, NotRecycledInUse, FlagInv
<1> QED
  BY <1>1, <1>3, <1>4 DEF IInv, QueueInv, QueueMatchesSleepers

\* The effect of bget() when the block is cached, and when it is not.
HitEffect(p, blk) ==
  /\ Hit(blk) \in Buf /\ blockno[Hit(blk)] = blk
  /\ pc[p] = "idle" /\ pc' = [pc EXCEPT ![p] = "acquiresleep"]
  /\ buf' = [buf EXCEPT ![p] = Hit(blk)] /\ want' = [want EXCEPT ![p] = blk]
  /\ refcnt' = [refcnt EXCEPT ![Hit(blk)] = refcnt[Hit(blk)] + 1]
  /\ UNCHANGED <<mru, blockno, valid, dirty, data, locked, idequeue, cmd, irq, disk, panicked>>

MissEffect(p, blk) ==
  /\ Victim \in Buf /\ refcnt[Victim] = 0 /\ Victim \notin dirty
  /\ Users(Victim) = {} /\ \A b \in Buf : blockno[b] # blk
  /\ pc[p] = "idle" /\ pc' = [pc EXCEPT ![p] = "acquiresleep"]
  /\ buf' = [buf EXCEPT ![p] = Victim] /\ want' = [want EXCEPT ![p] = blk]
  /\ refcnt' = [refcnt EXCEPT ![Victim] = 1]
  /\ blockno' = [blockno EXCEPT ![Victim] = blk] /\ valid' = valid \ {Victim}
  /\ UNCHANGED <<mru, dirty, data, locked, idequeue, cmd, irq, disk, panicked>>

\* bget() of a cached block takes the buffer that has it.
LEMMA BgetHit ==
  ASSUME IInv, NEW p \in Proc, NEW blk \in Block, bget(p, blk), Cached(blk) # {}
  PROVE  HitEffect(p, blk)
<1>1. Hit(blk) \in Buf /\ blockno[Hit(blk)] = blk
  BY HitCached DEF IInv
<1> QED
  BY <1>1 DEF bget, ideVars, HitEffect

\* bget() of any other block recycles a clean buffer that nobody uses.
LEMMA BgetMiss ==
  ASSUME IInv, NEW p \in Proc, NEW blk \in Block, bget(p, blk), Cached(blk) = {}, Recyclable # {}
  PROVE  MissEffect(p, blk)
<1>1. Victim \in Buf /\ refcnt[Victim] = 0 /\ Victim \notin dirty
  BY VictimRecyclable DEF IInv, Recyclable
<1>2. Users(Victim) = {}
  <2>1. IsFiniteSet(Users(Victim)) /\ Cardinality(Users(Victim)) = 0
    BY <1>1, BcacheAssumption, FS_Subset DEF Users, IInv, RefInv
  <2> QED
    BY <2>1, FS_EmptySet
<1>3. \A b \in Buf : blockno[b] # blk
  BY DEF Cached
<1> QED
  BY <1>1, <1>2, <1>3 DEF bget, Recycle, ideVars, MissEffect

\* binit() establishes the invariant.
LEMMA InitInv == Init => IInv /\ DataInv
<1> SUFFICES ASSUME Init PROVE IInv /\ DataInv
  OBVIOUS
<1> USE DEF Init
<1>1. TypeOK
  <2>1. /\ mru \in [1..NBUF -> Buf] /\ blockno \in [Buf -> Block \cup {None}]
        /\ refcnt \in [Buf -> Nat] /\ data \in [Buf -> Val]
    BY BcacheAssumption DEF Buf
  <2>2. valid \in SUBSET Buf /\ dirty \in SUBSET Buf /\ locked \in SUBSET Buf /\ idequeue \in Seq(Buf)
    OBVIOUS
  <2>3. pc \in [Proc -> Places] /\ buf \in [Proc -> Buf \cup {0}] /\ want \in [Proc -> Block \cup {None}]
    BY DEF Places
  <2> QED
    BY <2>1, <2>2, <2>3 DEF TypeOK
<1>2. Listed
  <2> SUFFICES ASSUME NEW b \in Buf PROVE \E i \in 1..NBUF : mru[i] = b
    BY DEF Listed
  <2>1. NBUF + 1 - b \in Buf /\ NBUF + 1 - (NBUF + 1 - b) = b
    BY BcacheAssumption DEF Buf
  <2> QED
    BY <2>1 DEF Buf
<1>3. RefInv
  <2>1. ASSUME NEW b \in Buf PROVE Users(b) = {}
    BY BcacheAssumption DEF Users, Buf
  <2> QED
    BY <2>1, FS_EmptySet DEF RefInv
<1>4. BlockInv /\ LockInv /\ FlagInv
  BY DEF BlockInv, OneBufferPerBlock, NotRecycledInUse, LockInv, LockSleepersHaveOwner, FlagInv, Holding
<1>5. QueueInv
  BY DEF QueueInv, QueueMatchesSleepers, IsInjective, Range
<1>6. PinInv
  BY BcacheAssumption, FS_EmptySet DEF PinInv
<1>7. DataInv
  BY DEF DataInv
<1> QED
  BY <1>1, <1>2, <1>3, <1>4, <1>5, <1>6, <1>7 DEF IInv

\* brelse() reorders the list and loses no buffer of it.
LEMMA TypeStep == IInv /\ [Next]_vars => TypeOK' /\ Listed'
<1> SUFFICES ASSUME IInv, [Next]_vars PROVE TypeOK' /\ Listed'
  OBVIOUS
<1>0. TypeOK /\ Listed
  BY DEF IInv
<1>p. panic => TypeOK' /\ Listed'
  BY <1>0 DEF panic, listVars, bufVars, ideVars, TypeOK, Listed
<1>1. ASSUME NEW p \in Proc, NEW blk \in Block, bget(p, blk) PROVE TypeOK' /\ Listed'
  <2>1. CASE Cached(blk) = {} /\ Recyclable = {}
    BY <1>1, <1>p, <2>1 DEF bget
  <2>2. CASE Cached(blk) # {}
    <3>1. HitEffect(p, blk)
      BY <1>1, <2>2, BgetHit
    <3> QED
      BY <1>0, <3>1 DEF HitEffect, TypeOK, Listed, Places
  <2>3. CASE Cached(blk) = {} /\ Recyclable # {}
    <3>1. MissEffect(p, blk)
      BY <1>1, <2>3, BgetMiss
    <3> QED
      BY <1>0, <3>1 DEF MissEffect, TypeOK, Listed, Places
  <2> QED
    BY <2>1, <2>2, <2>3
<1>2. ASSUME NEW p \in Proc, acquiresleep(p) PROVE TypeOK' /\ Listed'
  <2>1. buf[p] \in Buf
    BY <1>2, HasBuf DEF acquiresleep
  <2> QED
    BY <1>0, <1>2, <2>1 DEF acquiresleep, TypeOK, Listed, Places, Holding, listVars, bufVars, ideVars
<1>3. ASSUME NEW p \in Proc, releasesleep(p) PROVE TypeOK' /\ Listed'
  <2>1. CASE buf[p] \notin locked
    BY <1>3, <1>p, <2>1 DEF releasesleep
  <2>2. CASE buf[p] \in locked
    BY <1>0, <1>3, <2>2
       DEF releasesleep, TypeOK, Listed, Places, WakeLock, Wakeup, listVars, bufVars, ideVars
  <2> QED
    BY <2>1, <2>2
<1>4. ASSUME NEW p \in Proc, brelse(p) PROVE TypeOK' /\ Listed'
  <2>1. buf[p] \in Buf
    BY <1>4, HasBuf DEF brelse
  <2>2. refcnt[buf[p]] # 0
    <3>1. p \in Users(buf[p]) /\ IsFiniteSet(Users(buf[p]))
      BY <2>1, BcacheAssumption, FS_Subset DEF Users
    <3> QED
      BY <2>1, <3>1, FS_EmptySet DEF IInv, RefInv
  <2>3. /\ refcnt' = [refcnt EXCEPT ![buf[p]] = refcnt[buf[p]] - 1]
        /\ mru' = mru \/ mru' = ToFront(buf[p])
        /\ pc' = [pc EXCEPT ![p] = "idle"] /\ buf' = [buf EXCEPT ![p] = 0]
        /\ want' = [want EXCEPT ![p] = None]
        /\ UNCHANGED <<blockno, valid, dirty, data, locked, idequeue, irq, disk, panicked>>
    BY <1>4 DEF brelse, Unref, bufVars, ideVars
  <2>4. mru' \in [1..NBUF -> Buf] /\ Listed'
    <3>1. CASE mru' = mru
      BY <1>0, <3>1 DEF Listed, TypeOK
    <3>2. CASE mru' = ToFront(buf[p])
      BY <1>0, <2>1, <3>2, MovedToFront DEF Listed
    <3> QED
      BY <2>3, <3>1, <3>2
  <2>5. refcnt' \in [Buf -> Nat]
    BY <1>0, <2>1, <2>2, <2>3 DEF TypeOK
  <2> QED
    BY <1>0, <2>3, <2>4, <2>5 DEF TypeOK, Places
<1>5. ASSUME NEW p \in Proc, NEW v \in Val, modify(p, v) PROVE TypeOK' /\ Listed'
  BY <1>0, <1>5 DEF modify, TypeOK, Listed, Places, Holding, listVars, bufVars, ideVars
<1>6. ASSUME NEW p \in Proc, log_write(p) PROVE TypeOK' /\ Listed'
  <2>1. buf[p] \in Buf
    BY <1>6, HasBuf DEF log_write
  <2> QED
    BY <1>0, <1>6, <2>1 DEF log_write, TypeOK, Listed, Places, Holding, listVars, bufVars, ideVars
<1>7. ASSUME NEW p \in Proc, bwrite(p) PROVE TypeOK' /\ Listed'
  <2>1. buf[p] \in Buf
    BY <1>7, HasBuf DEF bwrite
  <2>2. CASE buf[p] \notin locked
    BY <1>7, <1>p, <2>2 DEF bwrite
  <2>3. CASE buf[p] \in locked
    <3>1. /\ dirty' = dirty \cup {buf[p]} /\ pc' = [pc EXCEPT ![p] = "iderw"]
          /\ UNCHANGED <<mru, blockno, refcnt, valid, data, locked, ideVars, buf, want, panicked>>
      BY <1>7, <2>3 DEF bwrite, listVars
    <3> QED
      BY <1>0, <2>1, <3>1 DEF TypeOK, Listed, Places, Holding, ideVars
  <2> QED
    BY <2>2, <2>3
<1>8. ASSUME NEW p \in Proc, iderw(p) PROVE TypeOK' /\ Listed'
  <2>1. buf[p] \in Buf
    BY <1>8, HasBuf DEF iderw
  <2>2. CASE buf[p] \notin locked \/ (buf[p] \in valid /\ buf[p] \notin dirty)
    BY <1>8, <1>p, <2>2 DEF iderw
  <2>3. CASE ~(buf[p] \notin locked \/ (buf[p] \in valid /\ buf[p] \notin dirty))
    <3>1. /\ idequeue' = Append(idequeue, buf[p]) /\ pc' = [pc EXCEPT ![p] = "iderwSleep"]
          /\ UNCHANGED <<mru, blockno, refcnt, valid, dirty, data, locked, irq, disk, buf, want, panicked>>
      BY <1>8, <2>3 DEF iderw, Enqueue, listVars, bufVars
    <3> QED
      BY <1>0, <2>1, <3>1 DEF TypeOK, Listed, Places, Holding
  <2> QED
    BY <2>2, <2>3
<1>9. ASSUME NEW p \in Proc, iderw_return(p) PROVE TypeOK' /\ Listed'
  BY <1>0, <1>9 DEF iderw_return, TypeOK, Listed, Places, Holding, listVars, bufVars, ideVars
<1>10. ASSUME disk_done PROVE TypeOK' /\ Listed'
  <2>1. PICK c \in cmd : disk' = IF c.write THEN [disk EXCEPT ![c.block] = c.val] ELSE disk
    BY <1>10 DEF disk_done
  <2>2. c.val \in Val
    <3>1. idequeue # <<>>
      BY <2>1 DEF IInv, QueueInv, QueueMatchesSleepers
    <3> QED
      BY <1>0, <2>1, <3>1, HasHead DEF idestart, TypeOK
  <2> QED
    BY <1>0, <1>10, <2>1, <2>2 DEF disk_done, TypeOK, Listed, listVars, bufVars
<1>11. ASSUME ideintr PROVE TypeOK' /\ Listed'
  <2>1. idequeue # <<>>
    BY <1>11 DEF IInv, QueueInv, ideintr
  <2>2. Head(idequeue) \in Buf /\ Tail(idequeue) \in Seq(Buf)
    BY <2>1, HasHead
  <2>3. data' \in [Buf -> Val]
    <3>1. PICK c \in cmd : data' = data \/ data' = [data EXCEPT ![Head(idequeue)] = disk[c.block]]
      BY <1>11 DEF ideintr
    <3>2. CASE data' = data
      BY <1>0, <3>2 DEF TypeOK
    <3>3. CASE data' # data
      <4>3. c.block \in Block
        BY <2>1, <3>1, HasHead DEF idestart
      <4> QED
        BY <1>0, <3>1, <3>3, <4>3 DEF TypeOK
    <3> QED
      BY <3>2, <3>3
  <2> QED
    BY <1>0, <1>11, <2>2, <2>3 DEF ideintr, TypeOK, Listed, Places, Holding, Wakeup, listVars
<1>12. ASSUME UNCHANGED vars PROVE TypeOK' /\ Listed'
  BY <1>0, <1>12 DEF vars, TypeOK, Listed
<1> QED
  BY <1>1, <1>2, <1>3, <1>4, <1>5, <1>6, <1>7, <1>8, <1>9, <1>10, <1>11, <1>12 DEF Next, ProcStep

\* Taking and dropping a reference, in the sets of users.
LEMMA UsersStep ==
  ASSUME TypeOK, NEW p \in Proc, NEW c \in Buf \cup {0}, buf' = [buf EXCEPT ![p] = c]
  PROVE  \A b \in Buf : Users(b)' = IF b = c THEN Users(b) \cup {p} ELSE Users(b) \ {p}
BY DEF TypeOK, Users

\* Only bget() and brelse() change which process refers to which buffer.
LEMMA RefKept ==
  ASSUME IInv, UNCHANGED <<buf, want, refcnt>>,
         \A q \in Proc : pc'[q] = "idle" <=> pc[q] = "idle"
  PROVE  RefInv'
<1>1. \A b \in Buf : Users(b)' = Users(b)
  BY DEF Users
<1> QED
  BY <1>1 DEF IInv, RefInv

\* refcnt counts the users through every bget() and brelse().
LEMMA RefStep == IInv /\ [Next]_vars => RefInv'
<1> SUFFICES ASSUME IInv, [Next]_vars PROVE RefInv'
  OBVIOUS
<1>0. TypeOK /\ RefInv /\ 0 \notin Buf
  BY BcacheAssumption DEF IInv, Buf
<1>f. \A b \in Buf : IsFiniteSet(Users(b))
  BY BcacheAssumption, FS_Subset DEF Users
<1>p. panic => RefInv'
  <2> SUFFICES ASSUME panic PROVE RefInv'
    OBVIOUS
  <2>1. UNCHANGED <<buf, want, refcnt, pc>>
    BY DEF panic, listVars
  <2> QED
    BY <2>1, RefKept
<1>1. ASSUME NEW p \in Proc, NEW blk \in Block, bget(p, blk) PROVE RefInv'
  <2>0. \A b \in Buf : p \notin Users(b)
    BY <1>0, <1>1 DEF bget, RefInv, Users
  <2>1. CASE Cached(blk) = {} /\ Recyclable = {}
    BY <1>1, <1>p, <2>1 DEF bget
  <2>2. CASE Cached(blk) # {}
    <3>1. HitEffect(p, blk)
      BY <1>1, <2>2, BgetHit
    <3>2. \A b \in Buf : Users(b)' = IF b = Hit(blk) THEN Users(b) \cup {p} ELSE Users(b)
      <4>1. \A b \in Buf : Users(b)' = IF b = Hit(blk) THEN Users(b) \cup {p} ELSE Users(b) \ {p}
        BY <1>0, <3>1, UsersStep DEF HitEffect
      <4> QED
        BY <2>0, <4>1
    <3>3. ASSUME NEW b \in Buf PROVE refcnt'[b] = Cardinality(Users(b)')
      <4>1. refcnt'[b] = IF b = Hit(blk) THEN refcnt[b] + 1 ELSE refcnt[b]
        BY <1>0, <3>1 DEF HitEffect, TypeOK
      <4>2. Cardinality(Users(b) \cup {p}) = Cardinality(Users(b)) + 1
        BY <1>f, <2>0, FS_AddElement
      <4> QED
        BY <1>0, <3>2, <4>1, <4>2 DEF RefInv
    <3>4. \A q \in Proc : (pc'[q] = "idle" <=> buf'[q] = 0) /\ (pc'[q] # "idle" => want'[q] \in Block)
      BY <1>0, <3>1 DEF HitEffect, RefInv, TypeOK
    <3> QED
      BY <3>3, <3>4 DEF RefInv
  <2>3. CASE Cached(blk) = {} /\ Recyclable # {}
    <3>1. MissEffect(p, blk)
      BY <1>1, <2>3, BgetMiss
    <3>2. \A b \in Buf : Users(b)' = IF b = Victim THEN {p} ELSE Users(b)
      <4>1. \A b \in Buf : Users(b)' = IF b = Victim THEN Users(b) \cup {p} ELSE Users(b) \ {p}
        BY <1>0, <3>1, UsersStep DEF MissEffect
      <4>2. Users(Victim) = {}
        BY <3>1 DEF MissEffect
      <4> QED
        BY <2>0, <4>1, <4>2
    <3>3. ASSUME NEW b \in Buf PROVE refcnt'[b] = Cardinality(Users(b)')
      BY <1>0, <3>1, <3>2, FS_Singleton DEF MissEffect, RefInv, TypeOK
    <3>4. \A q \in Proc : (pc'[q] = "idle" <=> buf'[q] = 0) /\ (pc'[q] # "idle" => want'[q] \in Block)
      BY <1>0, <3>1 DEF MissEffect, RefInv, TypeOK
    <3> QED
      BY <3>3, <3>4 DEF RefInv
  <2> QED
    BY <2>1, <2>2, <2>3
<1>2. ASSUME NEW p \in Proc, brelse(p) PROVE RefInv'
  <2>1. buf[p] \in Buf
    BY <1>2, HasBuf DEF brelse
  <2>2. /\ refcnt' = [refcnt EXCEPT ![buf[p]] = refcnt[buf[p]] - 1]
        /\ pc' = [pc EXCEPT ![p] = "idle"] /\ buf' = [buf EXCEPT ![p] = 0]
        /\ want' = [want EXCEPT ![p] = None]
    BY <1>2 DEF brelse, Unref
  <2>3. \A b \in Buf : Users(b)' = Users(b) \ {p}
    BY <1>0, <2>2, UsersStep
  <2>4. p \in Users(buf[p]) /\ \A b \in Buf : b # buf[p] => p \notin Users(b)
    BY DEF Users
  <2>5. ASSUME NEW b \in Buf PROVE refcnt'[b] = Cardinality(Users(b)')
    <3>1. refcnt'[b] = IF b = buf[p] THEN refcnt[b] - 1 ELSE refcnt[b]
      BY <1>0, <2>1, <2>2 DEF TypeOK
    <3>2. CASE b = buf[p]
      <4>1. Cardinality(Users(b) \ {p}) = Cardinality(Users(b)) - 1
        BY <1>f, <2>4, <3>2, FS_RemoveElement
      <4> QED
        BY <1>0, <2>3, <3>1, <3>2, <4>1 DEF RefInv
    <3>3. CASE b # buf[p]
      <4>1. Users(b) \ {p} = Users(b)
        BY <2>4, <3>3
      <4> QED
        BY <1>0, <2>3, <3>1, <3>3, <4>1 DEF RefInv
    <3> QED
      BY <3>2, <3>3
  <2>6. \A q \in Proc : (pc'[q] = "idle" <=> buf'[q] = 0) /\ (pc'[q] # "idle" => want'[q] \in Block)
    BY <1>0, <2>2 DEF RefInv, TypeOK
  <2> QED
    BY <2>5, <2>6 DEF RefInv
<1>3. ASSUME NEW p \in Proc, acquiresleep(p) \/ log_write(p) \/ iderw_return(p) PROVE RefInv'
  <2>1. UNCHANGED <<buf, want, refcnt>> /\ \A q \in Proc : pc'[q] = "idle" <=> pc[q] = "idle"
    BY <1>0, <1>3 DEF acquiresleep, log_write, iderw_return, listVars, TypeOK
  <2> QED
    BY <2>1, RefKept
<1>4. ASSUME NEW p \in Proc, releasesleep(p) PROVE RefInv'
  <2>1. CASE buf[p] \notin locked
    BY <1>4, <1>p, <2>1 DEF releasesleep
  <2>2. CASE buf[p] \in locked
    <3>1. UNCHANGED <<buf, want, refcnt>> /\ \A q \in Proc : pc'[q] = "idle" <=> pc[q] = "idle"
      BY <1>0, <1>4, <2>2 DEF releasesleep, WakeLock, Wakeup, listVars, TypeOK
    <3> QED
      BY <3>1, RefKept
  <2> QED
    BY <2>1, <2>2
<1>5. ASSUME NEW p \in Proc, NEW v \in Val, modify(p, v) PROVE RefInv'
  <2>1. UNCHANGED <<buf, want, refcnt>> /\ \A q \in Proc : pc'[q] = "idle" <=> pc[q] = "idle"
    BY <1>0, <1>5 DEF modify, listVars, TypeOK
  <2> QED
    BY <2>1, RefKept
<1>6. ASSUME NEW p \in Proc, bwrite(p) \/ iderw(p) PROVE RefInv'
  <2>1. panic \/ (UNCHANGED <<buf, want, refcnt>> /\ \A q \in Proc : pc'[q] = "idle" <=> pc[q] = "idle")
    BY <1>0, <1>6 DEF bwrite, iderw, listVars, TypeOK
  <2> QED
    BY <1>p, <2>1, RefKept
<1>7. ASSUME disk_done \/ ideintr \/ UNCHANGED vars PROVE RefInv'
  <2>1. UNCHANGED <<buf, want, refcnt>> /\ \A q \in Proc : pc'[q] = "idle" <=> pc[q] = "idle"
    BY <1>0, <1>7 DEF disk_done, ideintr, vars, Wakeup, listVars, TypeOK
  <2> QED
    BY <2>1, RefKept
<1> QED
  BY <1>1, <1>2, <1>3, <1>4, <1>5, <1>6, <1>7 DEF Next, ProcStep

\* No step leaves two buffers with one block or recycles one in use.
LEMMA BlockStep == IInv /\ [Next]_vars => BlockInv'
<1> SUFFICES ASSUME IInv, [Next]_vars PROVE BlockInv'
  OBVIOUS
<1> USE DEF BlockInv, OneBufferPerBlock, NotRecycledInUse
<1>0. TypeOK /\ RefInv /\ BlockInv /\ 0 \notin Buf
  BY BcacheAssumption DEF IInv, Buf
<1>k. ASSUME UNCHANGED <<buf, want, blockno, valid>> PROVE BlockInv'
  BY <1>0, <1>k
<1>p. panic => BlockInv'
  BY <1>k DEF panic, listVars, bufVars
<1>1. ASSUME NEW p \in Proc, NEW blk \in Block, bget(p, blk) PROVE BlockInv'
  <2>1. CASE Cached(blk) = {} /\ Recyclable = {}
    BY <1>1, <1>p, <2>1 DEF bget
  <2>2. CASE Cached(blk) # {}
    <3>1. HitEffect(p, blk)
      BY <1>1, <2>2, BgetHit
    <3> QED
      BY <1>0, <3>1 DEF HitEffect, TypeOK
  <2>3. CASE Cached(blk) = {} /\ Recyclable # {}
    <3>1. MissEffect(p, blk)
      BY <1>1, <2>3, BgetMiss
    <3>2. OneBufferPerBlock'
      BY <1>0, <3>1 DEF MissEffect, TypeOK
    <3>3. NotRecycledInUse'
      BY <1>0, <3>1 DEF MissEffect, TypeOK, Users
    <3>4. \A b \in valid' : blockno'[b] \in Block
      BY <1>0, <3>1 DEF MissEffect, TypeOK
    <3> QED
      BY <3>2, <3>3, <3>4
  <2> QED
    BY <2>1, <2>2, <2>3
<1>2. ASSUME NEW p \in Proc, brelse(p) PROVE BlockInv'
  BY <1>0, <1>2 DEF brelse, bufVars, TypeOK
<1>3. ASSUME NEW p \in Proc, acquiresleep(p) \/ releasesleep(p) \/ log_write(p) \/ iderw_return(p)
      PROVE  BlockInv'
  <2>1. panic \/ UNCHANGED <<buf, want, blockno, valid>>
    BY <1>3 DEF acquiresleep, releasesleep, log_write, iderw_return, listVars, bufVars
  <2> QED
    BY <1>p, <1>k, <2>1
<1>4. ASSUME NEW p \in Proc, bwrite(p) \/ iderw(p) PROVE BlockInv'
  <2>1. panic \/ UNCHANGED <<buf, want, blockno, valid>>
    BY <1>4 DEF bwrite, iderw, listVars, bufVars
  <2> QED
    BY <1>p, <1>k, <2>1
<1>5. ASSUME disk_done \/ UNCHANGED vars PROVE BlockInv'
  BY <1>k, <1>5 DEF disk_done, vars, listVars, bufVars
<1>6. ASSUME ideintr PROVE BlockInv'
  <2>1. idequeue # <<>>
    BY <1>6 DEF IInv, QueueInv, ideintr
  <2>2. blockno[Head(idequeue)] \in Block
    BY <2>1, HasHead
  <2> QED
    BY <1>0, <1>6, <2>2 DEF ideintr, listVars
<1>7. ASSUME NEW p \in Proc, NEW v \in Val, modify(p, v) PROVE BlockInv'
  BY <1>k, <1>7 DEF modify, listVars
<1> QED
  BY <1>1, <1>2, <1>3, <1>4, <1>5, <1>6, <1>7 DEF Next, ProcStep

\* A step that moves a process only among the places of an owner, or among the
\* others, leaves the locks alone.
LEMMA LockKept ==
  ASSUME IInv, UNCHANGED <<buf, locked>>,
         \A q \in Proc : /\ pc'[q] \in Holding <=> pc[q] \in Holding
                         /\ pc'[q] = "locksleep" => pc[q] = "locksleep"
  PROVE  LockInv'
BY DEF IInv, LockInv, LockSleepersHaveOwner

\* A sleep lock passes from owner to owner.
LEMMA LockStep == IInv /\ [Next]_vars => LockInv'
<1> SUFFICES ASSUME IInv, [Next]_vars PROVE LockInv'
  OBVIOUS
<1>0. TypeOK /\ LockInv
  BY DEF IInv
<1>p. panic => LockInv'
  <2> SUFFICES ASSUME panic PROVE LockInv'
    OBVIOUS
  <2>1. UNCHANGED <<buf, locked, pc>>
    BY DEF panic
  <2> QED
    BY <2>1, LockKept
<1>1. ASSUME NEW p \in Proc, NEW blk \in Block, bget(p, blk) PROVE LockInv'
  <2>1. CASE Cached(blk) = {} /\ Recyclable = {}
    BY <1>1, <1>p, <2>1 DEF bget
  <2>2. CASE ~(Cached(blk) = {} /\ Recyclable = {})
    <3>1. HitEffect(p, blk) \/ MissEffect(p, blk)
      BY <1>1, <2>2, BgetHit, BgetMiss
    <3>2. /\ locked' = locked /\ pc[p] = "idle" /\ pc' = [pc EXCEPT ![p] = "acquiresleep"]
          /\ \A q \in Proc : q # p => buf'[q] = buf[q]
      BY <1>0, <3>1 DEF HitEffect, MissEffect, TypeOK
    <3>3. \A q \in Proc : /\ pc'[q] \in Holding <=> pc[q] \in Holding
                          /\ pc'[q] = "locksleep" => pc[q] = "locksleep"
                          /\ pc'[q] \in Holding \cup {"locksleep"} => q # p
      BY <1>0, <3>2 DEF TypeOK, Holding
    <3> QED
      BY <1>0, <3>2, <3>3 DEF LockInv, LockSleepersHaveOwner, Holding
  <2> QED
    BY <2>1, <2>2
<1>2. ASSUME NEW p \in Proc, brelse(p) PROVE LockInv'
  <2>1. /\ locked' = locked /\ pc[p] = "brelse" /\ pc' = [pc EXCEPT ![p] = "idle"]
        /\ buf' = [buf EXCEPT ![p] = 0]
    BY <1>2 DEF brelse
  <2>2. \A q \in Proc : /\ pc'[q] \in Holding <=> pc[q] \in Holding
                        /\ pc'[q] = "locksleep" => pc[q] = "locksleep"
                        /\ pc'[q] \in Holding \cup {"locksleep"} => q # p
    BY <1>0, <2>1 DEF TypeOK, Holding
  <2>3. \A q \in Proc : q # p => buf'[q] = buf[q]
    BY <1>0, <2>1 DEF TypeOK
  <2> QED
    BY <1>0, <2>1, <2>2, <2>3 DEF LockInv, LockSleepersHaveOwner, Holding
<1>3. ASSUME NEW p \in Proc, acquiresleep(p) PROVE LockInv'
  <2>1. CASE buf[p] \in locked
    <3>1. /\ locked' = locked /\ buf' = buf /\ pc[p] = "acquiresleep"
          /\ \A q \in Proc : pc'[q] = IF q = p THEN "locksleep" ELSE pc[q]
      BY <1>0, <1>3, <2>1 DEF acquiresleep, TypeOK
    <3> QED
      BY <1>0, <2>1, <3>1 DEF LockInv, LockSleepersHaveOwner, Holding
  <2>2. CASE buf[p] \notin locked
    <3>1. /\ locked' = locked \cup {buf[p]} /\ buf' = buf /\ pc[p] = "acquiresleep"
          /\ \A q \in Proc : pc'[q] = IF q = p THEN (IF buf[p] \in valid THEN "hold" ELSE "iderw") ELSE pc[q]
      BY <1>0, <1>3, <2>2 DEF acquiresleep, TypeOK
    <3> QED
      BY <1>0, <2>2, <3>1 DEF LockInv, LockSleepersHaveOwner, Holding
  <2> QED
    BY <2>1, <2>2
<1>4. ASSUME NEW p \in Proc, releasesleep(p) PROVE LockInv'
  <2>1. CASE buf[p] \notin locked
    BY <1>4, <1>p, <2>1 DEF releasesleep
  <2>2. CASE buf[p] \in locked
    <3>1. /\ locked' = locked \ {buf[p]} /\ buf' = buf /\ pc[p] = "hold"
          /\ \A q \in Proc : pc'[q] = IF q = p THEN "brelse"
                                      ELSE IF pc[q] = "locksleep" /\ buf[q] = buf[p] THEN "acquiresleep"
                                      ELSE pc[q]
      BY <1>0, <1>4, <2>2 DEF releasesleep, WakeLock, Wakeup, TypeOK
    <3> QED
      BY <1>0, <3>1 DEF LockInv, LockSleepersHaveOwner, Holding
  <2> QED
    BY <2>1, <2>2
<1>5. ASSUME NEW p \in Proc, log_write(p) \/ iderw_return(p) PROVE LockInv'
  <2>1. /\ UNCHANGED <<buf, locked>>
        /\ \A q \in Proc : /\ pc'[q] \in Holding <=> pc[q] \in Holding
                           /\ pc'[q] = "locksleep" => pc[q] = "locksleep"
    BY <1>0, <1>5 DEF log_write, iderw_return, TypeOK, Holding
  <2> QED
    BY <2>1, LockKept
<1>6. ASSUME NEW p \in Proc, bwrite(p) \/ iderw(p) PROVE LockInv'
  <2>1. \/ panic
        \/ /\ UNCHANGED <<buf, locked>>
           /\ \A q \in Proc : /\ pc'[q] \in Holding <=> pc[q] \in Holding
                              /\ pc'[q] = "locksleep" => pc[q] = "locksleep"
    BY <1>0, <1>6 DEF bwrite, iderw, TypeOK, Holding
  <2> QED
    BY <1>p, <2>1, LockKept
<1>7. ASSUME NEW p \in Proc, NEW v \in Val, modify(p, v) PROVE LockInv'
  <2>1. /\ UNCHANGED <<buf, locked>>
        /\ \A q \in Proc : /\ pc'[q] \in Holding <=> pc[q] \in Holding
                           /\ pc'[q] = "locksleep" => pc[q] = "locksleep"
    BY <1>0, <1>7 DEF modify, TypeOK, Holding
  <2> QED
    BY <2>1, LockKept
<1>8. ASSUME disk_done \/ ideintr \/ UNCHANGED vars PROVE LockInv'
  <2>1. /\ UNCHANGED <<buf, locked>>
        /\ \A q \in Proc : /\ pc'[q] \in Holding <=> pc[q] \in Holding
                           /\ pc'[q] = "locksleep" => pc[q] = "locksleep"
    BY <1>0, <1>8 DEF disk_done, ideintr, vars, Wakeup, TypeOK, Holding
  <2> QED
    BY <2>1, LockKept
<1> QED
  BY <1>1, <1>2, <1>3, <1>4, <1>5, <1>6, <1>7, <1>8 DEF Next, ProcStep

\* The flags follow the request: read, changed, written, done.
LEMMA FlagStep == IInv /\ [Next]_vars => FlagInv'
<1> SUFFICES ASSUME IInv, [Next]_vars PROVE FlagInv'
  OBVIOUS
<1>0. TypeOK /\ LockInv /\ FlagInv
  BY DEF IInv
<1>p. panic => FlagInv'
  BY <1>0 DEF panic, bufVars, FlagInv
<1>1. ASSUME NEW p \in Proc, NEW blk \in Block, bget(p, blk) PROVE FlagInv'
  <2>1. CASE Cached(blk) = {} /\ Recyclable = {}
    BY <1>1, <1>p, <2>1 DEF bget
  <2>2. CASE Cached(blk) # {}
    <3>1. HitEffect(p, blk)
      BY <1>1, <2>2, BgetHit
    <3> QED
      BY <1>0, <3>1 DEF HitEffect, FlagInv, TypeOK
  <2>3. CASE Cached(blk) = {} /\ Recyclable # {}
    <3>1. MissEffect(p, blk)
      BY <1>1, <2>3, BgetMiss
    <3>2. \A q \in Proc : q # p => buf'[q] = buf[q] /\ pc'[q] = pc[q] /\ buf[q] # Victim
      BY <1>0, <3>1 DEF MissEffect, TypeOK, Users
    <3>3. pc'[p] = "acquiresleep" /\ dirty' = dirty /\ valid' = valid \ {Victim} /\ Victim \notin dirty
      BY <1>0, <3>1 DEF MissEffect, TypeOK
    <3> QED
      BY <1>0, <3>2, <3>3 DEF FlagInv
  <2> QED
    BY <2>1, <2>2, <2>3
<1>2. ASSUME NEW p \in Proc, brelse(p) PROVE FlagInv'
  BY <1>0, <1>2 DEF brelse, bufVars, FlagInv, TypeOK
<1>3. ASSUME NEW p \in Proc, acquiresleep(p) \/ iderw_return(p) PROVE FlagInv'
  BY <1>0, <1>3 DEF acquiresleep, iderw_return, bufVars, FlagInv, TypeOK
<1>4. ASSUME NEW p \in Proc, releasesleep(p) PROVE FlagInv'
  <2>1. CASE buf[p] \notin locked
    BY <1>4, <1>p, <2>1 DEF releasesleep
  <2>2. CASE buf[p] \in locked
    BY <1>0, <1>4, <2>2 DEF releasesleep, WakeLock, Wakeup, bufVars, FlagInv, TypeOK
  <2> QED
    BY <2>1, <2>2
<1>5. ASSUME NEW p \in Proc, log_write(p) PROVE FlagInv'
  <2>1. /\ buf' = buf /\ valid' = valid /\ dirty' = dirty \cup {buf[p]} /\ pc[p] = "changed"
        /\ \A q \in Proc : pc'[q] = IF q = p THEN "hold" ELSE pc[q]
    BY <1>0, <1>5 DEF log_write, TypeOK
  <2>2. \A q \in Proc : pc[q] \in Holding /\ buf[q] = buf[p] => q = p
    BY <1>0, <2>1 DEF LockInv, Holding
  <2> QED
    BY <1>0, <2>1, <2>2 DEF FlagInv, Holding
<1>6. ASSUME NEW p \in Proc, bwrite(p) PROVE FlagInv'
  <2>1. CASE buf[p] \notin locked
    BY <1>6, <1>p, <2>1 DEF bwrite
  <2>2. CASE buf[p] \in locked
    <3>1. /\ buf' = buf /\ valid' = valid /\ dirty' = dirty \cup {buf[p]} /\ pc[p] \in {"hold", "changed"}
          /\ \A q \in Proc : pc'[q] = IF q = p THEN "iderw" ELSE pc[q]
      BY <1>0, <1>6, <2>2 DEF bwrite, TypeOK
    <3>2. \A q \in Proc : pc[q] \in Holding /\ buf[q] = buf[p] => q = p
      BY <1>0, <3>1 DEF LockInv, Holding
    <3> QED
      BY <1>0, <3>1, <3>2 DEF FlagInv, Holding
  <2> QED
    BY <2>1, <2>2
<1>7. ASSUME NEW p \in Proc, iderw(p) PROVE FlagInv'
  <2>1. panic \/ (pc[p] = "iderw" /\ pc' = [pc EXCEPT ![p] = "iderwSleep"] /\ UNCHANGED <<buf, valid, dirty>>)
    BY <1>7 DEF iderw, bufVars
  <2> QED
    BY <1>0, <1>p, <2>1 DEF FlagInv, TypeOK
<1>8. ASSUME NEW p \in Proc, NEW v \in Val, modify(p, v) PROVE FlagInv'
  BY <1>0, <1>8 DEF modify, FlagInv, TypeOK
<1>9. ASSUME disk_done \/ UNCHANGED vars PROVE FlagInv'
  BY <1>0, <1>9 DEF disk_done, bufVars, vars, FlagInv
<1>10. ASSUME ideintr PROVE FlagInv'
  <2> DEFINE b == Head(idequeue)
  <2>1. PICK p \in Proc : pc[p] = "iderwSleep" /\ buf[p] = b
    BY <1>10, HasHead DEF ideintr, IInv, QueueInv
  <2>2. /\ buf' = buf /\ valid' = valid \cup {b} /\ dirty' = dirty \ {b}
        /\ \A q \in Proc : pc'[q] = IF pc[q] = "iderwSleep" /\ buf[q] = b THEN "iderwWoken" ELSE pc[q]
    BY <1>10 DEF ideintr, Wakeup
  <2>3. \A q \in Proc : pc[q] \in Holding /\ buf[q] = b => q = p
    BY <1>0, <2>1 DEF LockInv, Holding
  <2> HIDE DEF b
  <2> QED
    BY <1>0, <2>1, <2>2, <2>3 DEF FlagInv, Holding
<1> QED
  BY <1>1, <1>2, <1>3, <1>4, <1>5, <1>6, <1>7, <1>8, <1>9, <1>10 DEF Next, ProcStep

\* The buffer of an owner that is not asleep in iderw() is not in the queue of
\* the driver, nor is one that nobody refers to.
LEMMA NotQueued ==
  ASSUME IInv
  PROVE  /\ \A p \in Proc : pc[p] \in Holding \ {"iderwSleep"} => buf[p] \notin Range(idequeue)
         /\ \A b \in Range(idequeue) : b \in Buf /\ Users(b) # {}
<1>1. \A b \in Range(idequeue) : \E q \in Proc : pc[q] = "iderwSleep" /\ buf[q] = b
  BY DEF IInv, QueueInv, QueueMatchesSleepers
<1>2. \A b \in Range(idequeue) : b \in Buf /\ Users(b) # {}
  BY <1>1, HasBuf DEF Users
<1>3. ASSUME NEW p \in Proc, pc[p] \in Holding \ {"iderwSleep"}, buf[p] \in Range(idequeue) PROVE FALSE
  <2>1. PICK q \in Proc : pc[q] = "iderwSleep" /\ buf[q] = buf[p]
    BY <1>1, <1>3
  <2> QED
    BY <1>3, <2>1 DEF IInv, LockInv, Holding
<1> QED
  BY <1>2, <1>3

\* A request joins the queue at its end, and leaves it at its head.
LEMMA Appended ==
  ASSUME NEW S, NEW s \in Seq(S), NEW b \in S, IsInjective(s), b \notin Range(s)
  PROVE  /\ IsInjective(Append(s, b)) /\ Range(Append(s, b)) = Range(s) \cup {b}
         /\ Append(s, b) # <<>> /\ Head(Append(s, b)) = IF s = <<>> THEN b ELSE Head(s)
<1> DEFINE t == Append(s, b)
<1>1. /\ Len(s) \in Nat /\ DOMAIN s = 1..Len(s) /\ DOMAIN t = 1..(Len(s) + 1)
      /\ t[Len(s) + 1] = b /\ \A i \in 1..Len(s) : t[i] = s[i]
  OBVIOUS
<1>2. t # <<>> /\ Head(t) = t[1] /\ (s = <<>> => Len(s) = 0) /\ (s # <<>> => Head(s) = s[1] /\ Len(s) >= 1)
  OBVIOUS
<1> HIDE DEF t
<1>3. Range(t) = Range(s) \cup {b}
  BY <1>1 DEF Range
<1>4. IsInjective(t)
  BY <1>1 DEF IsInjective, Range
<1>5. Head(t) = IF s = <<>> THEN b ELSE Head(s)
  BY <1>1, <1>2
<1> QED
  BY <1>2, <1>3, <1>4, <1>5 DEF t

\* ideintr() takes the head of the queue off it.
LEMMA Removed ==
  ASSUME NEW S, NEW s \in Seq(S), s # <<>>, IsInjective(s)
  PROVE  /\ IsInjective(Tail(s)) /\ Range(Tail(s)) = Range(s) \ {Head(s)}
         /\ IF Len(s) > 1 THEN Tail(s) # <<>> /\ Head(Tail(s)) = s[2] /\ s[2] \in Range(s) ELSE Tail(s) = <<>>
<1> DEFINE t == Tail(s)
<1>1. /\ Len(s) \in Nat \ {0} /\ DOMAIN s = 1..Len(s) /\ DOMAIN t = 1..(Len(s) - 1) /\ Head(s) = s[1]
      /\ t \in Seq(S) /\ Len(t) = Len(s) - 1 /\ \A i \in 1..(Len(s) - 1) : t[i] = s[i + 1]
  OBVIOUS
<1> HIDE DEF t
<1>2. IsInjective(t)
  BY <1>1 DEF IsInjective
<1>3. Range(t) = Range(s) \ {Head(s)}
  <2>1. ASSUME NEW x \in Range(t) PROVE x \in Range(s) \ {Head(s)}
    <3>1. PICK i \in 1..(Len(s) - 1) : x = s[i + 1]
      BY <1>1 DEF Range
    <3>2. i + 1 \in 1..Len(s) /\ i + 1 # 1 /\ 1 \in 1..Len(s)
      BY <1>1
    <3> QED
      BY <1>1, <3>1, <3>2 DEF Range, IsInjective
  <2>2. ASSUME NEW x \in Range(s) \ {Head(s)} PROVE x \in Range(t)
    <3>1. PICK i \in 1..Len(s) : x = s[i]
      BY <1>1 DEF Range
    <3>2. i - 1 \in 1..(Len(s) - 1) /\ (i - 1) + 1 = i
      BY <1>1, <3>1
    <3> QED
      BY <1>1, <3>1, <3>2 DEF Range
  <2> QED
    BY <2>1, <2>2
<1>4. IF Len(s) > 1 THEN t # <<>> /\ Head(t) = s[2] /\ s[2] \in Range(s) ELSE t = <<>>
  BY <1>1 DEF Range
<1> QED
  BY <1>2, <1>3, <1>4 DEF t

\* A step that leaves the queue, its sleepers and its buffers alone.
LEMMA QueueKept ==
  ASSUME IInv, UNCHANGED <<idequeue, cmd, irq>>,
         \A b \in Range(idequeue) : /\ blockno'[b] = blockno[b] /\ data'[b] = data[b]
                                    /\ (b \in dirty' <=> b \in dirty) /\ b \in locked',
         \A q \in Proc : /\ pc'[q] = "iderwSleep" <=> pc[q] = "iderwSleep"
                         /\ pc[q] = "iderwSleep" => buf'[q] = buf[q]
  PROVE  QueueInv'
<1>1. QueueInv
  BY DEF IInv
<1>2. {buf[p] : p \in {q \in Proc : pc[q] = "iderwSleep"}}' = {buf[p] : p \in {q \in Proc : pc[q] = "iderwSleep"}}
  <2>1. \A q \in Proc : (pc'[q] = "iderwSleep" <=> pc[q] = "iderwSleep") /\ (pc[q] = "iderwSleep" => buf'[q] = buf[q])
    OBVIOUS
  <2> QED
    BY ONLY <2>1
<1>3. idequeue # <<>> => idestart(Head(idequeue))' = idestart(Head(idequeue))
  <2> SUFFICES ASSUME idequeue # <<>> PROVE idestart(Head(idequeue))' = idestart(Head(idequeue))
    OBVIOUS
  <2>1. Head(idequeue) \in Range(idequeue)
    BY HasHead DEF Range
  <2>2. Head(idequeue)' = Head(idequeue)
    OBVIOUS
  <2> QED
    BY <2>1, <2>2 DEF idestart
<1> QED
  BY <1>1, <1>2, <1>3 DEF QueueInv, QueueMatchesSleepers

\* The drive's queue holds the buffers of those who sleep in iderw().
LEMMA QueueStep == IInv /\ [Next]_vars => QueueInv'
<1> SUFFICES ASSUME IInv, [Next]_vars PROVE QueueInv'
  OBVIOUS
<1>0. TypeOK /\ LockInv /\ FlagInv /\ QueueInv
  BY DEF IInv
<1>r. Range(idequeue) \subseteq locked
  BY <1>0 DEF QueueInv, QueueMatchesSleepers
<1>p. panic => QueueInv'
  BY <1>0, <1>r, QueueKept DEF panic, listVars, bufVars, ideVars
<1>1. ASSUME NEW p \in Proc, NEW blk \in Block, bget(p, blk) PROVE QueueInv'
  <2>1. CASE Cached(blk) = {} /\ Recyclable = {}
    BY <1>1, <1>p, <2>1 DEF bget
  <2>2. CASE Cached(blk) # {}
    <3>1. HitEffect(p, blk)
      BY <1>1, <2>2, BgetHit
    <3>2. \A q \in Proc : /\ pc'[q] = "iderwSleep" <=> pc[q] = "iderwSleep"
                          /\ pc[q] = "iderwSleep" => buf'[q] = buf[q]
      BY <1>0, <3>1 DEF HitEffect, TypeOK
    <3>3. UNCHANGED <<idequeue, cmd, irq, blockno, data, dirty, locked>>
      BY <3>1 DEF HitEffect
    <3> QED
      BY <1>r, <3>2, <3>3, QueueKept
  <2>3. CASE Cached(blk) = {} /\ Recyclable # {}
    <3>1. MissEffect(p, blk)
      BY <1>1, <2>3, BgetMiss
    <3>2. \A q \in Proc : /\ pc'[q] = "iderwSleep" <=> pc[q] = "iderwSleep"
                          /\ pc[q] = "iderwSleep" => buf'[q] = buf[q]
      BY <1>0, <3>1 DEF MissEffect, TypeOK
    <3>3. UNCHANGED <<idequeue, cmd, irq, data, dirty, locked>>
      BY <3>1 DEF MissEffect
    <3>4. \A b \in Range(idequeue) : blockno'[b] = blockno[b]
      BY <1>0, <3>1, NotQueued DEF MissEffect, TypeOK
    <3> QED
      BY <1>r, <3>2, <3>3, <3>4, QueueKept
  <2> QED
    BY <2>1, <2>2, <2>3
<1>2. ASSUME NEW p \in Proc, brelse(p) PROVE QueueInv'
  <2>1. \A q \in Proc : /\ pc'[q] = "iderwSleep" <=> pc[q] = "iderwSleep"
                        /\ pc[q] = "iderwSleep" => buf'[q] = buf[q]
    BY <1>0, <1>2 DEF brelse, TypeOK
  <2>2. UNCHANGED <<idequeue, cmd, irq, blockno, data, dirty, locked>>
    BY <1>2 DEF brelse, bufVars, ideVars
  <2> QED
    BY <1>r, <2>1, <2>2, QueueKept
<1>3. ASSUME NEW p \in Proc, acquiresleep(p) PROVE QueueInv'
  <2>1. \A q \in Proc : pc'[q] = "iderwSleep" <=> pc[q] = "iderwSleep"
    BY <1>0, <1>3 DEF acquiresleep, TypeOK
  <2>2. UNCHANGED <<idequeue, cmd, irq, blockno, data, dirty, buf>> /\ locked \subseteq locked'
    BY <1>3 DEF acquiresleep, bufVars, ideVars, listVars
  <2> QED
    BY <1>r, <2>1, <2>2, QueueKept
<1>4. ASSUME NEW p \in Proc, releasesleep(p) PROVE QueueInv'
  <2>1. CASE buf[p] \notin locked
    BY <1>4, <1>p, <2>1 DEF releasesleep
  <2>2. CASE buf[p] \in locked
    <3>1. \A q \in Proc : pc'[q] = "iderwSleep" <=> pc[q] = "iderwSleep"
      BY <1>0, <1>4, <2>2 DEF releasesleep, WakeLock, Wakeup, TypeOK
    <3>2. /\ UNCHANGED <<idequeue, cmd, irq, blockno, data, dirty, buf>>
          /\ locked' = locked \ {buf[p]} /\ pc[p] = "hold"
      BY <1>4, <2>2 DEF releasesleep, bufVars, ideVars, listVars
    <3>3. \A b \in Range(idequeue) : b \in locked'
      BY <1>r, <3>2, NotQueued DEF Holding
    <3> QED
      BY <3>1, <3>2, <3>3, QueueKept
  <2> QED
    BY <2>1, <2>2
<1>5. ASSUME NEW p \in Proc, log_write(p) \/ bwrite(p) \/ iderw_return(p) PROVE QueueInv'
  <2>1. CASE panic
    BY <1>p, <2>1
  <2>2. CASE ~panic
    <3>1. \A q \in Proc : pc'[q] = "iderwSleep" <=> pc[q] = "iderwSleep"
      BY <1>0, <1>5, <2>2 DEF log_write, bwrite, iderw_return, TypeOK, FlagInv
    <3>2. /\ UNCHANGED <<idequeue, cmd, irq, blockno, data, locked, buf>>
          /\ dirty' = dirty \/ dirty' = dirty \cup {buf[p]}
          /\ pc[p] \in {"hold", "changed", "iderwWoken"}
      BY <1>5, <2>2 DEF log_write, bwrite, iderw_return, bufVars, ideVars, listVars
    <3>3. \A b \in Range(idequeue) : b # buf[p]
      BY <3>2, NotQueued DEF Holding
    <3> QED
      BY <1>r, <3>1, <3>2, <3>3, QueueKept
  <2> QED
    BY <2>1, <2>2
<1>6. ASSUME NEW p \in Proc, NEW v \in Val, modify(p, v) PROVE QueueInv'
  <2>1. \A q \in Proc : pc'[q] = "iderwSleep" <=> pc[q] = "iderwSleep"
    BY <1>0, <1>6 DEF modify, TypeOK
  <2>2. UNCHANGED <<idequeue, cmd, irq, blockno, dirty, locked, buf>> /\ pc[p] = "hold"
    BY <1>6 DEF modify, ideVars, listVars
  <2>3. \A b \in Range(idequeue) : b # buf[p] /\ b \in Buf
    BY <2>2, NotQueued DEF Holding
  <2>4. \A b \in Range(idequeue) : data'[b] = data[b]
    BY <1>0, <1>6, <2>3 DEF modify, TypeOK
  <2> QED
    BY <1>r, <2>1, <2>2, <2>4, QueueKept
<1>7. ASSUME UNCHANGED vars PROVE QueueInv'
  BY <1>0, <1>r, <1>7, QueueKept DEF vars
<1>8. ASSUME disk_done PROVE QueueInv'
  <2>1. UNCHANGED <<idequeue, cmd, locked, pc, buf, blockno, data, dirty>> /\ cmd # {}
    BY <1>8 DEF disk_done, listVars, bufVars
  <2>2. idequeue # <<>>
    BY <1>0, <2>1 DEF QueueInv, QueueMatchesSleepers
  <2>3. idestart(Head(idequeue))' = idestart(Head(idequeue))
    BY <2>1 DEF idestart
  <2>4. {buf[p] : p \in {q \in Proc : pc[q] = "iderwSleep"}}' = {buf[p] : p \in {q \in Proc : pc[q] = "iderwSleep"}}
    BY <2>1
  <2> QED
    BY <1>0, <2>1, <2>2, <2>3, <2>4 DEF QueueInv, QueueMatchesSleepers
<1>9. ASSUME NEW p \in Proc, iderw(p) PROVE QueueInv'
  <2>1. CASE panic
    BY <1>p, <2>1
  <2>2. CASE ~panic
    <3> DEFINE b == buf[p]
    <3>1. /\ pc[p] = "iderw" /\ b \in locked /\ idequeue' = Append(idequeue, b)
          /\ cmd' = IF idequeue = <<>> THEN idestart(b) ELSE cmd
          /\ pc' = [pc EXCEPT ![p] = "iderwSleep"]
          /\ UNCHANGED <<buf, locked, irq, blockno, dirty, data>>
      BY <1>9, <2>2 DEF iderw, Enqueue, StartIfIdle, listVars, bufVars
    <3>2. b \in Buf /\ b \notin Range(idequeue) /\ idequeue \in Seq(Buf) /\ IsInjective(idequeue)
      BY <1>0, <3>1, HasBuf, NotQueued DEF Holding, QueueInv, QueueMatchesSleepers, TypeOK
    <3>3. /\ IsInjective(idequeue)' /\ Range(idequeue)' = Range(idequeue) \cup {b}
          /\ idequeue' # <<>> /\ Head(idequeue)' = IF idequeue = <<>> THEN b ELSE Head(idequeue)
      BY <3>1, <3>2, Appended
    <3>4. {buf[q] : q \in {r \in Proc : pc[r] = "iderwSleep"}}'
             = {buf[q] : q \in {r \in Proc : pc[r] = "iderwSleep"}} \cup {b}
      BY <1>0, <3>1 DEF TypeOK
    <3>5. cmd' = idestart(Head(idequeue))'
      <4>1. \A c : idestart(c)' = idestart(c)
        BY <3>1 DEF idestart
      <4>2. idestart(Head(idequeue))' = idestart(Head(idequeue)')
        BY <3>1 DEF idestart
      <4> QED
        BY <1>0, <3>1, <3>3, <4>2 DEF QueueInv, QueueMatchesSleepers
    <3> HIDE DEF b
    <3>6. Range(idequeue)' \subseteq locked'
      BY <1>r, <3>1, <3>3
    <3> QED
      BY <1>0, <3>3, <3>4, <3>5, <3>6 DEF QueueInv, QueueMatchesSleepers
  <2> QED
    BY <2>1, <2>2
<1>10. ASSUME ideintr PROVE QueueInv'
  <2> DEFINE b == Head(idequeue)
  <2>1. idequeue \in Seq(Buf) /\ idequeue # <<>> /\ IsInjective(idequeue)
    BY <1>0, <1>10 DEF ideintr, QueueInv, QueueMatchesSleepers, TypeOK
  <2>2. /\ idequeue' = Tail(idequeue) /\ cmd' = StartNext /\ irq' = FALSE
        /\ UNCHANGED <<locked, buf, blockno>> /\ dirty' = dirty \ {b}
        /\ \A q \in Proc : pc'[q] = IF pc[q] = "iderwSleep" /\ buf[q] = b THEN "iderwWoken" ELSE pc[q]
    BY <1>10 DEF ideintr, Wakeup, listVars
  <2>3. \A c \in Buf : c # b => data'[c] = data[c]
    BY <1>0, <1>10 DEF ideintr, TypeOK
  <2>4. /\ IsInjective(idequeue)' /\ Range(idequeue)' = Range(idequeue) \ {b}
        /\ IF Len(idequeue) > 1 THEN /\ idequeue' # <<>> /\ Head(idequeue)' = idequeue[2]
                                     /\ idequeue[2] \in Range(idequeue)
           ELSE idequeue' = <<>>
    BY <2>1, <2>2, Removed
  <2>5. {buf[q] : q \in {r \in Proc : pc[r] = "iderwSleep"}}'
           = {buf[q] : q \in {r \in Proc : pc[r] = "iderwSleep"}} \ {b}
    BY <2>2
  <2>6. IF idequeue' = <<>> THEN cmd' = {} ELSE cmd' = idestart(Head(idequeue))'
    <3>1. CASE Len(idequeue) > 1
      <4> DEFINE c == idequeue[2]
      <4>1. c \in Buf /\ c # b
        BY <2>1, <3>1 DEF IsInjective
      <4>2. blockno'[c] = blockno[c] /\ data'[c] = data[c] /\ (c \in dirty' <=> c \in dirty)
        BY <2>2, <2>3, <4>1
      <4>3. cmd' = idestart(c)
        BY <2>2, <3>1 DEF StartNext
      <4>4. idestart(Head(idequeue))' = {[block |-> blockno'[c], write |-> c \in dirty', val |-> data'[c]]}
        BY <2>4, <3>1 DEF idestart
      <4> QED
        BY <2>4, <3>1, <4>2, <4>3, <4>4 DEF idestart
    <3>2. CASE ~(Len(idequeue) > 1)
      BY <2>2, <2>4, <3>2 DEF StartNext
    <3> QED
      BY <3>1, <3>2
  <2> HIDE DEF b
  <2>7. Range(idequeue)' \subseteq locked'
    BY <1>r, <2>2, <2>4
  <2> QED
    BY <1>0, <2>2, <2>4, <2>5, <2>6, <2>7 DEF QueueInv, QueueMatchesSleepers
<1> QED
  BY <1>1, <1>2, <1>3, <1>4, <1>5, <1>6, <1>7, <1>8, <1>9, <1>10 DEF Next, ProcStep

\* There are NBUF buffers.
LEMMA BufFinite == IsFiniteSet(Buf) /\ Cardinality(Buf) = NBUF
<1>1. NBUF \in Nat /\ 1 \in Int /\ NBUF \in Int /\ NBUF >= 1 /\ NBUF - 1 + 1 = NBUF
  BY BcacheAssumption
<1> QED
  BY <1>1, FS_Interval DEF Buf

\* Dirty buffers that are not being written are those log_write() pinned.
LEMMA PinKept ==
  ASSUME IInv, dirty' \ Writing' \subseteq dirty \ Writing
  PROVE  PinInv'
<1>1. IsFiniteSet(dirty \ Writing)
  BY BufFinite, FS_Subset DEF IInv, TypeOK
<1>2. Cardinality(dirty' \ Writing') <= Cardinality(dirty \ Writing)
  BY <1>1, FS_Subset
<1>3. Cardinality(dirty' \ Writing') \in Nat /\ Cardinality(dirty \ Writing) \in Nat
  BY <1>1, FS_Subset, FS_CardinalityType
<1> QED
  BY <1>2, <1>3, BcacheAssumption DEF IInv, PinInv

\* The number of buffers pinned for a commit stays within its bound.
LEMMA PinStep == IInv /\ [Next]_vars => PinInv'
<1> SUFFICES ASSUME IInv, [Next]_vars PROVE PinInv'
  OBVIOUS
<1>0. TypeOK /\ LockInv /\ FlagInv /\ PinInv
  BY DEF IInv
<1>k. ASSUME dirty' \subseteq dirty,
             \A q \in Proc : pc[q] \in {"iderw", "iderwSleep"} =>
                               pc'[q] \in {"iderw", "iderwSleep"} /\ buf'[q] = buf[q]
      PROVE  PinInv'
  <2>1. dirty' \ Writing' \subseteq dirty \ Writing
    BY <1>k DEF Writing
  <2> QED
    BY <2>1, PinKept
<1>p. panic => PinInv'
  BY <1>k DEF panic, bufVars
<1>1. ASSUME NEW p \in Proc, NEW blk \in Block, bget(p, blk) PROVE PinInv'
  <2>1. CASE Cached(blk) = {} /\ Recyclable = {}
    BY <1>1, <1>p, <2>1 DEF bget
  <2>2. CASE ~(Cached(blk) = {} /\ Recyclable = {})
    <3>1. HitEffect(p, blk) \/ MissEffect(p, blk)
      BY <1>1, <2>2, BgetHit, BgetMiss
    <3>2. /\ dirty' = dirty
          /\ \A q \in Proc : pc[q] \in {"iderw", "iderwSleep"} => pc'[q] = pc[q] /\ buf'[q] = buf[q]
      BY <1>0, <3>1 DEF HitEffect, MissEffect, TypeOK
    <3> QED
      BY <1>k, <3>2
  <2> QED
    BY <2>1, <2>2
<1>2. ASSUME NEW p \in Proc, brelse(p) \/ acquiresleep(p) \/ iderw_return(p) PROVE PinInv'
  <2>1. /\ dirty' = dirty
        /\ \A q \in Proc : pc[q] \in {"iderw", "iderwSleep"} => pc'[q] = pc[q] /\ buf'[q] = buf[q]
    BY <1>0, <1>2 DEF brelse, acquiresleep, iderw_return, TypeOK, bufVars
  <2> QED
    BY <1>k, <2>1
<1>3. ASSUME NEW p \in Proc, releasesleep(p) PROVE PinInv'
  <2>1. CASE buf[p] \notin locked
    BY <1>3, <1>p, <2>1 DEF releasesleep
  <2>2. CASE buf[p] \in locked
    <3>1. /\ dirty' = dirty
          /\ \A q \in Proc : pc[q] \in {"iderw", "iderwSleep"} => pc'[q] = pc[q] /\ buf'[q] = buf[q]
      BY <1>0, <1>3, <2>2 DEF releasesleep, WakeLock, Wakeup, TypeOK, bufVars
    <3> QED
      BY <1>k, <3>1
  <2> QED
    BY <2>1, <2>2
<1>4. ASSUME NEW p \in Proc, NEW v \in Val, modify(p, v) PROVE PinInv'
  <2>1. /\ dirty' = dirty
        /\ \A q \in Proc : pc[q] \in {"iderw", "iderwSleep"} => pc'[q] = pc[q] /\ buf'[q] = buf[q]
    BY <1>0, <1>4 DEF modify, TypeOK
  <2> QED
    BY <1>k, <2>1
<1>5. ASSUME NEW p \in Proc, iderw(p) PROVE PinInv'
  <2>1. \/ panic
        \/ /\ dirty' = dirty
           /\ \A q \in Proc : pc[q] \in {"iderw", "iderwSleep"} =>
                                pc'[q] \in {"iderw", "iderwSleep"} /\ buf'[q] = buf[q]
    BY <1>0, <1>5 DEF iderw, TypeOK, bufVars
  <2> QED
    BY <1>k, <1>p, <2>1
<1>6. ASSUME disk_done \/ UNCHANGED vars PROVE PinInv'
  BY <1>k, <1>6 DEF disk_done, vars, bufVars
<1>7. ASSUME NEW p \in Proc, bwrite(p) PROVE PinInv'
  <2>1. CASE buf[p] \notin locked
    BY <1>7, <1>p, <2>1 DEF bwrite
  <2>2. CASE buf[p] \in locked
    <3>1. /\ dirty' = dirty \cup {buf[p]} /\ buf' = buf
          /\ \A q \in Proc : pc'[q] = IF q = p THEN "iderw" ELSE pc[q]
      BY <1>0, <1>7, <2>2 DEF bwrite, TypeOK
    <3>2. buf[p] \in Writing'
      BY <1>0, <2>2, <3>1 DEF Writing, TypeOK
    <3>3. dirty' \ Writing' \subseteq dirty \ Writing
      BY <3>1, <3>2 DEF Writing
    <3> QED
      BY <3>3, PinKept
  <2> QED
    BY <2>1, <2>2
<1>8. ASSUME ideintr PROVE PinInv'
  <2> DEFINE b == Head(idequeue)
  <2>1. /\ buf' = buf /\ dirty' = dirty \ {b}
        /\ \A q \in Proc : pc'[q] = IF pc[q] = "iderwSleep" /\ buf[q] = b THEN "iderwWoken" ELSE pc[q]
    BY <1>8 DEF ideintr, Wakeup
  <2> HIDE DEF b
  <2>2. dirty' \ Writing' \subseteq dirty \ Writing
    BY <2>1 DEF Writing
  <2> QED
    BY <2>2, PinKept
<1>9. ASSUME NEW p \in Proc, log_write(p) PROVE PinInv'
  <2>1. /\ dirty' = dirty \cup {buf[p]} /\ buf' = buf /\ pc[p] = "changed"
        /\ buf[p] \in dirty \/ Cardinality(dirty) < MaxPinned
        /\ \A q \in Proc : pc'[q] = IF q = p THEN "hold" ELSE pc[q]
    BY <1>0, <1>9 DEF log_write, TypeOK
  <2>2. Writing' = Writing
    BY <2>1 DEF Writing
  <2>3. CASE buf[p] \in dirty
    <3>1. dirty' \ Writing' \subseteq dirty \ Writing
      BY <2>1, <2>2, <2>3
    <3> QED
      BY <3>1, PinKept
  <2>4. CASE buf[p] \notin dirty
    <3>1. IsFiniteSet(dirty)
      BY <1>0, BufFinite, FS_Subset DEF TypeOK
    <3>2. IsFiniteSet(dirty') /\ Cardinality(dirty') = Cardinality(dirty) + 1
      BY <2>1, <2>4, <3>1, FS_AddElement
    <3>3. Cardinality(dirty' \ Writing') <= Cardinality(dirty')
      BY <3>2, FS_Subset
    <3>4. Cardinality(dirty' \ Writing') \in Nat /\ Cardinality(dirty) \in Nat
      BY <3>1, <3>2, FS_Subset, FS_CardinalityType
    <3> QED
      BY <2>1, <2>4, <3>2, <3>3, <3>4, BcacheAssumption DEF PinInv
  <2> QED
    BY <2>3, <2>4
<1> QED
  BY <1>1, <1>2, <1>3, <1>4, <1>5, <1>6, <1>7, <1>8, <1>9 DEF Next, ProcStep

\* Together.
LEMMA InvStep == IInv /\ [Next]_vars => IInv'
BY TypeStep, RefStep, BlockStep, LockStep, FlagStep, QueueStep, PinStep DEF IInv
-----------------------------------------------------------------------------
(* What a buffer holds, on a drive that reports no errors.                 *)

\* A step that leaves the disk, the queue's head and the buffers' blocks alone,
\* and the data of the clean buffers.
LEMMA DataKept ==
  ASSUME IInv, DataInv, UNCHANGED <<disk, irq>>,
         \A b \in valid' \ dirty' : /\ b \in valid \ dirty \/ (\E p \in Proc : pc[p] = "changed" /\ buf[p] = b)
                                    /\ blockno'[b] = blockno[b],
         \A b \in valid' \ dirty' : (\A p \in Proc : pc'[p] = "changed" => buf'[p] # b) =>
                       data'[b] = data[b] /\ \A p \in Proc : pc[p] = "changed" => buf[p] # b,
         irq => /\ Head(idequeue)' = Head(idequeue)
                /\ LET h == Head(idequeue)
                   IN  h \in dirty' => h \in dirty /\ data'[h] = data[h] /\ blockno'[h] = blockno[h]
  PROVE  DataInv'
<1>1. ASSUME NEW b \in valid' \ dirty', \A p \in Proc : pc'[p] = "changed" => buf'[p] # b
      PROVE  data'[b] = disk'[blockno'[b]]
  <2>1. b \in valid \ dirty /\ data'[b] = data[b] /\ \A p \in Proc : pc[p] = "changed" => buf[p] # b
    BY <1>1
  <2> QED
    BY <2>1 DEF DataInv
<1>2. irq' /\ Head(idequeue)' \in dirty' => disk'[blockno'[Head(idequeue)']] = data'[Head(idequeue)']
  BY DEF DataInv
<1> QED
  BY <1>1, <1>2 DEF DataInv

\* Buffers and disk agree while the drive reports no error.
LEMMA DataStep ==
  ASSUME ~DiskFails, IInv, DataInv, [Next]_vars
  PROVE  DataInv'
<1>0. TypeOK /\ BlockInv /\ LockInv /\ FlagInv /\ QueueInv
  BY DEF IInv
<1>h. irq => /\ Head(idequeue) \in Buf /\ Users(Head(idequeue)) # {}
             /\ \A p \in Proc : pc[p] \in Holding \ {"iderwSleep"} => buf[p] # Head(idequeue)
  <2>1. irq => Head(idequeue) \in Range(idequeue)
    BY <1>0, HasHead DEF QueueInv, Range
  <2> QED
    BY <2>1, NotQueued
<1>p. panic => DataInv'
  BY DEF panic, listVars, bufVars, ideVars, DataInv
<1>1. ASSUME NEW p \in Proc, NEW blk \in Block, bget(p, blk) PROVE DataInv'
  <2>1. CASE Cached(blk) = {} /\ Recyclable = {}
    BY <1>1, <1>p, <2>1 DEF bget
  <2>2. CASE Cached(blk) # {}
    <3>1. HitEffect(p, blk)
      BY <1>1, <2>2, BgetHit
    <3>2. \A q \in Proc : (pc'[q] = "changed" <=> pc[q] = "changed") /\ (pc[q] = "changed" => buf'[q] = buf[q])
      BY <1>0, <3>1 DEF HitEffect, TypeOK
    <3>3. UNCHANGED <<disk, irq, valid, dirty, blockno, data, idequeue>>
      BY <3>1 DEF HitEffect
    <3> QED
      BY <3>2, <3>3, DataKept
  <2>3. CASE Cached(blk) = {} /\ Recyclable # {}
    <3>1. MissEffect(p, blk)
      BY <1>1, <2>3, BgetMiss
    <3>2. \A q \in Proc : (pc'[q] = "changed" <=> pc[q] = "changed") /\ (pc[q] = "changed" => buf'[q] = buf[q])
      BY <1>0, <3>1 DEF MissEffect, TypeOK
    <3>3. UNCHANGED <<disk, irq, dirty, data, idequeue>> /\ valid' = valid \ {Victim}
      BY <3>1 DEF MissEffect
    <3>4. \A b \in Buf : b # Victim => blockno'[b] = blockno[b]
      BY <1>0, <3>1 DEF MissEffect, TypeOK
    <3>5. irq => Head(idequeue) # Victim
      BY <1>h, <3>1 DEF MissEffect
    <3>6. valid \subseteq Buf
      BY <1>0 DEF TypeOK
    <3> QED
      BY <1>h, <3>2, <3>3, <3>4, <3>5, <3>6, DataKept
  <2> QED
    BY <2>1, <2>2, <2>3
<1>2. ASSUME NEW p \in Proc, brelse(p) \/ acquiresleep(p) \/ iderw_return(p) PROVE DataInv'
  <2>1. \A q \in Proc : (pc'[q] = "changed" <=> pc[q] = "changed") /\ (pc[q] = "changed" => buf'[q] = buf[q])
    BY <1>0, <1>2 DEF brelse, acquiresleep, iderw_return, TypeOK
  <2>2. UNCHANGED <<disk, irq, valid, dirty, blockno, data, idequeue>>
    BY <1>2 DEF brelse, acquiresleep, iderw_return, bufVars, ideVars, listVars
  <2> QED
    BY <2>1, <2>2, DataKept
<1>3. ASSUME NEW p \in Proc, releasesleep(p) PROVE DataInv'
  <2>1. CASE buf[p] \notin locked
    BY <1>3, <1>p, <2>1 DEF releasesleep
  <2>2. CASE buf[p] \in locked
    <3>1. \A q \in Proc : (pc'[q] = "changed" <=> pc[q] = "changed") /\ buf'[q] = buf[q]
      BY <1>0, <1>3, <2>2 DEF releasesleep, WakeLock, Wakeup, TypeOK
    <3>2. UNCHANGED <<disk, irq, valid, dirty, blockno, data, idequeue>>
      BY <1>3, <2>2 DEF releasesleep, bufVars, ideVars, listVars
    <3> QED
      BY <3>1, <3>2, DataKept
  <2> QED
    BY <2>1, <2>2
<1>4. ASSUME NEW p \in Proc, NEW v \in Val, modify(p, v) PROVE DataInv'
  <2>1. /\ UNCHANGED <<disk, irq, valid, dirty, blockno, idequeue, buf>> /\ pc[p] = "hold"
        /\ \A q \in Proc : pc'[q] = IF q = p THEN "changed" ELSE pc[q]
        /\ \A b \in Buf : b # buf[p] => data'[b] = data[b]
    BY <1>0, <1>4 DEF modify, ideVars, listVars, TypeOK
  <2>2. valid \subseteq Buf
    BY <1>0 DEF TypeOK
  <2>3. irq => Head(idequeue) # buf[p]
    BY <1>h, <2>1 DEF Holding
  <2> QED
    BY <1>h, <2>1, <2>2, <2>3, DataKept
<1>5. ASSUME NEW p \in Proc, log_write(p) \/ bwrite(p) PROVE DataInv'
  <2>1. CASE panic
    BY <1>p, <2>1
  <2>2. CASE ~panic
    <3>1. /\ UNCHANGED <<disk, irq, valid, data, blockno, idequeue, buf>> /\ pc[p] \in {"hold", "changed"}
          /\ \A q \in Proc : q # p => pc'[q] = pc[q]
          /\ dirty' = dirty \cup {buf[p]}
      BY <1>0, <1>5, <2>2 DEF log_write, bwrite, ideVars, listVars, TypeOK
    <3>2. irq => Head(idequeue) # buf[p]
      BY <1>h, <3>1 DEF Holding
    <3> QED
      BY <1>h, <3>1, <3>2, DataKept
  <2> QED
    BY <2>1, <2>2
<1>6. ASSUME NEW p \in Proc, iderw(p) PROVE DataInv'
  <2>1. CASE panic
    BY <1>p, <2>1
  <2>2. CASE ~panic
    <3>1. /\ UNCHANGED <<disk, irq, valid, dirty, data, blockno, buf>>
          /\ idequeue' = Append(idequeue, buf[p]) /\ pc[p] = "iderw"
      BY <1>6, <2>2 DEF iderw, Enqueue, bufVars, listVars
    <3>2. \A q \in Proc : pc'[q] = "changed" <=> pc[q] = "changed"
      BY <1>0, <1>6, <2>2 DEF iderw, TypeOK
    <3>3. irq => Head(idequeue)' = Head(idequeue)
      <4>1. buf[p] \in Buf /\ idequeue \in Seq(Buf) /\ (irq => idequeue # <<>>)
        BY <1>0, <3>1, HasBuf DEF TypeOK, QueueInv
      <4> QED
        BY <3>1, <4>1
    <3> QED
      BY <3>1, <3>2, <3>3, DataKept
  <2> QED
    BY <2>1, <2>2
<1>7. ASSUME UNCHANGED vars PROVE DataInv'
  BY <1>7 DEF vars, DataInv
<1>8. ASSUME disk_done PROVE DataInv'
  <2> DEFINE h == Head(idequeue)
  <2>1. UNCHANGED <<valid, dirty, data, blockno, idequeue, pc, buf>> /\ cmd # {}
    BY <1>8 DEF disk_done, listVars, bufVars
  <2>2. idequeue # <<>>
    BY <1>0, <2>1 DEF QueueInv, QueueMatchesSleepers
  <2>3. /\ h \in Buf /\ blockno[h] \in Block
        /\ cmd = {[block |-> blockno[h], write |-> h \in dirty, val |-> data[h]]}
    BY <2>2, HasHead DEF idestart
  <2>4. disk' = IF h \in dirty THEN [disk EXCEPT ![blockno[h]] = data[h]] ELSE disk
    <3>1. PICK c \in cmd : disk' = IF c.write THEN [disk EXCEPT ![c.block] = c.val] ELSE disk
      BY <1>8 DEF disk_done
    <3>2. c = [block |-> blockno[h], write |-> h \in dirty, val |-> data[h]]
      BY <2>3, <3>1
    <3>3. c.block = blockno[h] /\ c.val = data[h] /\ (c.write <=> h \in dirty)
      BY <3>2
    <3> QED
      BY <3>1, <3>3
  <2>5. h \in dirty => disk'[blockno[h]] = data[h]
    BY <1>0, <2>3, <2>4 DEF TypeOK
  <2>6. ASSUME NEW b \in valid \ dirty PROVE disk'[blockno[b]] = disk[blockno[b]]
    <3>1. b \in Buf /\ blockno[b] \in Block
      BY <1>0 DEF TypeOK, BlockInv
    <3>2. h \in dirty => blockno[b] # blockno[h]
      BY <1>0, <2>3, <3>1, BcacheAssumption DEF BlockInv, OneBufferPerBlock
    <3> QED
      BY <1>0, <2>3, <2>4, <3>1, <3>2 DEF TypeOK
  <2> QED
    BY <2>1, <2>5, <2>6 DEF DataInv
<1>9. ASSUME ideintr PROVE DataInv'
  <2> DEFINE h == Head(idequeue)
  <2>1. idequeue # <<>> /\ irq
    BY <1>0, <1>9 DEF ideintr, QueueInv
  <2>2. /\ h \in Buf /\ blockno[h] \in Block
        /\ cmd = {[block |-> blockno[h], write |-> h \in dirty, val |-> data[h]]}
    BY <2>1, HasHead DEF idestart
  <2>3. /\ UNCHANGED <<blockno, buf, disk>> /\ irq' = FALSE
        /\ valid' = valid \cup {h} /\ dirty' = dirty \ {h}
        /\ data' = IF h \notin dirty THEN [data EXCEPT ![h] = disk[blockno[h]]] ELSE data
        /\ \A q \in Proc : pc'[q] = "changed" <=> pc[q] = "changed"
    <3>1. /\ UNCHANGED <<blockno, buf, disk>> /\ irq' = FALSE
          /\ valid' = valid \cup {h} /\ dirty' = dirty \ {h}
          /\ pc' = Wakeup(h, "iderwSleep", "iderwWoken")
      BY <1>9 DEF ideintr, listVars
    <3>2. PICK c \in cmd : data' = IF h \notin dirty THEN [data EXCEPT ![h] = disk[c.block]] ELSE data
      BY <1>9, BcacheAssumption DEF ideintr
    <3>3. c.block = blockno[h]
      BY <2>2, <3>2
    <3> QED
      BY <3>1, <3>2, <3>3 DEF Wakeup
  <2>4. data'[h] = disk[blockno[h]]
    BY <1>0, <2>1, <2>2, <2>3 DEF TypeOK, DataInv
  <2>5. \A b \in Buf : b # h => data'[b] = data[b]
    BY <1>0, <2>2, <2>3 DEF TypeOK
  <2>6. valid \subseteq Buf
    BY <1>0 DEF TypeOK
  <2> HIDE DEF h
  <2>7. ASSUME NEW b \in valid' \ dirty', \A p \in Proc : pc'[p] = "changed" => buf'[p] # b
        PROVE  data'[b] = disk'[blockno'[b]]
    BY <2>3, <2>4, <2>5, <2>6, <2>7 DEF DataInv
  <2> QED
    BY <2>3, <2>7 DEF DataInv
<1> QED
  BY <1>1, <1>2, <1>3, <1>4, <1>5, <1>6, <1>7, <1>8, <1>9 DEF Next, ProcStep
-----------------------------------------------------------------------------
(* The theorems.                                                           *)

\* The inductive invariant: the list has every buffer, refcnt counts the users,
\* every taken lock has one owner, the flags agree with the owner's request, the
\* queue with its sleepers, and no more than MaxPinned buffers wait for a commit.
THEOREM Invariance == Spec => []IInv
BY InitInv, InvStep, PTL DEF Spec

\* A process that has a buffer has the one buffer of its block, and what bread()
\* gives it is that block: bget(), brelse(), the sleep locks and ideintr() keep
\* it so for any number of processes, buffers and blocks, when the drive reports
\* no error (with errors ideintr() marks a buffer valid that it has not read).
THEOREM BuffersAreBlocks ==
  ASSUME ~DiskFails
  PROVE  Spec => []BufferIsBlock
<1>1. IInv /\ DataInv => BufferIsBlock
  <2> SUFFICES ASSUME IInv, DataInv PROVE ValidMeansRead
    BY DEF BufferIsBlock, IInv, BlockInv
  <2> SUFFICES ASSUME NEW b \in valid \ (dirty \cup locked) PROVE data[b] = disk[blockno[b]]
    BY DEF ValidMeansRead
  <2>1. \A p \in Proc : pc[p] = "changed" => buf[p] # b
    BY DEF IInv, LockInv, Holding
  <2> QED
    BY <2>1 DEF DataInv
<1>2. IInv /\ DataInv /\ [Next]_vars => IInv' /\ DataInv'
  BY InvStep, DataStep
<1> QED
  BY <1>1, <1>2, InitInv, PTL DEF Spec

\* With a buffer to spare for every process beside those pinned by the log,
\* bget() finds one to recycle.
LEMMA BufferToRecycle ==
  ASSUME IInv, NBUF >= Cardinality(Proc) + MaxPinned, NEW p \in Proc, pc[p] = "idle"
  PROVE  Recyclable # {}
<1> SUFFICES ASSUME Recyclable = {} PROVE FALSE
  OBVIOUS
<1> DEFINE others == Proc \ {p}
           used == {buf[q] : q \in others}
           pinned == dirty \ Writing
<1>1. IsFiniteSet(Proc) /\ Cardinality(Proc) \in Nat /\ MaxPinned \in Nat /\ NBUF \in Nat
  BY BcacheAssumption, FS_CardinalityType
<1>2. IsFiniteSet(others) /\ Cardinality(others) = Cardinality(Proc) - 1
  BY <1>1, FS_RemoveElement
<1>3. IsFiniteSet(used) /\ Cardinality(used) <= Cardinality(others)
  <2> DEFINE f == [q \in others |-> buf[q]]
  <2>1. f \in Surjection(others, used)
    BY DEF Surjection
  <2> QED
    BY <1>2, <2>1, FS_Surjection
<1>4. IsFiniteSet(pinned) /\ Cardinality(pinned) <= MaxPinned
  BY BufFinite, FS_Subset DEF IInv, TypeOK, PinInv
<1>5. Buf \subseteq used \cup pinned
  <2> SUFFICES ASSUME NEW b \in Buf, b \notin pinned PROVE b \in used
    OBVIOUS
  <2>1. PICK q \in Proc : buf[q] = b
    <3>1. CASE b \in dirty
      BY <3>1 DEF Writing
    <3>2. CASE refcnt[b] # 0
      BY <3>2, FS_EmptySet DEF IInv, RefInv, Users
    <3> QED
      BY <3>1, <3>2 DEF Recyclable
  <2>2. q # p
    BY <2>1, BcacheAssumption DEF IInv, RefInv, Buf
  <2> QED
    BY <2>1, <2>2
<1> HIDE DEF others, used, pinned
<1>6. /\ IsFiniteSet(used \cup pinned)
      /\ Cardinality(used \cup pinned) <= Cardinality(used) + Cardinality(pinned)
  <2>1. /\ IsFiniteSet(used \cup pinned) /\ IsFiniteSet(used \cap pinned)
        /\ Cardinality(used \cup pinned) = Cardinality(used) + Cardinality(pinned) - Cardinality(used \cap pinned)
    BY <1>3, <1>4, FS_Union, FS_Intersection
  <2>2. /\ Cardinality(used \cap pinned) \in Nat /\ Cardinality(used) \in Nat
        /\ Cardinality(pinned) \in Nat
    BY <1>3, <1>4, <2>1, FS_CardinalityType
  <2> QED
    BY <2>1, <2>2
<1>7. NBUF <= Cardinality(used \cup pinned)
  BY <1>5, <1>6, BufFinite, FS_Subset
<1>8. /\ Cardinality(used \cup pinned) \in Nat /\ Cardinality(used) \in Nat
      /\ Cardinality(pinned) \in Nat /\ Cardinality(others) \in Nat
  BY <1>2, <1>3, <1>4, <1>6, FS_CardinalityType
<1> QED
  BY <1>1, <1>2, <1>3, <1>4, <1>6, <1>7, <1>8

\* With a buffer for every process beside the pinned ones bget() finds one.
LEMMA PanicStep ==
  ASSUME NBUF >= Cardinality(Proc) + MaxPinned, IInv, NoPanic, [Next]_vars
  PROVE  NoPanic'
<1> USE DEF NoPanic
<1>0. LockInv /\ FlagInv
  BY DEF IInv
<1>1. ASSUME NEW p \in Proc, NEW blk \in Block, bget(p, blk) PROVE NoPanic'
  <2>1. Recyclable # {}
    BY <1>1, BufferToRecycle DEF bget
  <2> QED
    BY <1>1, <2>1 DEF bget
<1>2. ASSUME NEW p \in Proc, ProcStep(p) PROVE NoPanic'
  <2>1. CASE releasesleep(p) \/ bwrite(p)
    BY <1>0, <2>1 DEF releasesleep, bwrite, LockInv, Holding
  <2>2. CASE iderw(p)
    BY <1>0, <2>2 DEF iderw, LockInv, FlagInv, Holding
  <2>3. CASE acquiresleep(p) \/ brelse(p) \/ log_write(p) \/ iderw_return(p)
    BY <2>3 DEF acquiresleep, brelse, log_write, iderw_return
  <2> QED
    BY <1>2, <2>1, <2>2, <2>3 DEF ProcStep
<1>3. ASSUME NEW p \in Proc, NEW v \in Val, modify(p, v) PROVE NoPanic'
  BY <1>3 DEF modify
<1>4. ASSUME disk_done \/ ideintr \/ UNCHANGED vars PROVE NoPanic'
  BY <1>4 DEF disk_done, ideintr, vars
<1> QED
  BY <1>1, <1>2, <1>3, <1>4 DEF Next

\* Nobody who waits for the disk or a sleep lock is forgotten, and no panic() of
\* bio.c or ide.c ends the waiting: the queue of the driver is that of the
\* processes asleep in iderw(), the active command that of its head, and a sleeper
\* for a sleep lock waits for one that is taken.  The panics need a buffer for
\* every process beside those the log pins.
THEOREM NobodyForgotten ==
  ASSUME NBUF >= Cardinality(Proc) + MaxPinned
  PROVE  Spec => []WaitersKept
<1>1. Init => IInv /\ NoPanic
  BY InitInv DEF Init, NoPanic
<1>2. IInv /\ NoPanic /\ [Next]_vars => IInv' /\ NoPanic'
  BY InvStep, PanicStep
<1>3. IInv /\ NoPanic => WaitersKept
  BY DEF IInv, QueueInv, LockInv, WaitersKept
<1> QED
  BY <1>1, <1>2, <1>3, PTL DEF Spec
-----------------------------------------------------------------------------
(* The cache implements the block store.                                   *)

\* What Owner and Content are, in terms of the owner's lock and of the buffer.
MappedOwner ==
  /\ Owner = [blk \in Block |-> Owner[blk]]
  /\ \A p \in Proc : pc[p] \in Holding => want[p] \in Block /\ Owner[want[p]] = p
  /\ \A blk \in Block : (\A p \in Proc : pc[p] \in Holding => want[p] # blk) => Owner[blk] = None

MappedContent ==
  /\ Content = [blk \in Block |-> Content[blk]]
  /\ \A b \in valid : blockno[b] \in Block /\ Content[blockno[b]] = data[b]
  /\ \A blk \in Block : (\A b \in valid : blockno[b] # blk) => Content[blk] = disk[blk]

\* Two owners never want the same block: it has one buffer, and that one lock.
LEMMA OneOwner ==
  ASSUME IInv, NEW p \in Proc, NEW q \in Proc, buf[q] \in Buf, pc[q] # "idle",
         pc[p] \in Holding, want[p] = want[q]
  PROVE  buf[p] = buf[q] /\ (pc[q] \in Holding => p = q)
<1>1. buf[p] \in Buf /\ want[p] \in Block
  BY HasBuf DEF Holding
<1>2. blockno[buf[p]] = want[p] /\ blockno[buf[q]] = want[p]
  BY SMTT(40), <1>1, BcacheAssumption DEF IInv, BlockInv, NotRecycledInUse, Buf
<1>3. buf[p] = buf[q]
  BY <1>1, <1>2, BcacheAssumption DEF IInv, BlockInv, OneBufferPerBlock
<1> QED
  BY <1>3 DEF IInv, LockInv

\* What the refinement mapping makes of a state.
LEMMA Mapped == IInv => MappedOwner /\ MappedContent
<1> SUFFICES ASSUME IInv PROVE MappedOwner /\ MappedContent
  OBVIOUS
<1>1. MappedOwner
  <2>1. Owner = [blk \in Block |-> Owner[blk]]
    BY DEF Owner
  <2>2. ASSUME NEW p \in Proc, pc[p] \in Holding PROVE want[p] \in Block /\ Owner[want[p]] = p
    <3>1. want[p] \in Block
      BY <2>2, HasBuf DEF Holding
    <3>2. \A q \in Proc : pc[q] \in Holding /\ want[q] = want[p] => q = p
      BY <2>2, OneOwner, HasBuf DEF Holding
    <3>3. Owner[want[p]] = CHOOSE q \in Proc : pc[q] \in Holding /\ want[q] = want[p]
      BY <2>2, <3>1 DEF Owner
    <3> QED
      BY <2>2, <3>1, <3>2, <3>3
  <2>3. \A blk \in Block : (\A p \in Proc : pc[p] \in Holding => want[p] # blk) => Owner[blk] = None
    BY DEF Owner
  <2> QED
    BY <2>1, <2>2, <2>3 DEF MappedOwner
<1>2. MappedContent
  <2>1. Content = [blk \in Block |-> Content[blk]]
    BY DEF Content
  <2>2. ASSUME NEW b \in valid PROVE blockno[b] \in Block /\ Content[blockno[b]] = data[b]
    <3>1. blockno[b] \in Block
      BY DEF IInv, BlockInv
    <3>2. \A c \in valid : blockno[c] = blockno[b] => c = b
      BY <3>1, BcacheAssumption DEF IInv, TypeOK, BlockInv, OneBufferPerBlock
    <3>3. Content[blockno[b]] = data[CHOOSE c \in valid : blockno[c] = blockno[b]]
      BY <3>1 DEF Content
    <3>4. (CHOOSE c \in valid : blockno[c] = blockno[b]) = b
      BY <3>2
    <3> QED
      BY <3>1, <3>3, <3>4
  <2>3. \A blk \in Block : (\A b \in valid : blockno[b] # blk) => Content[blk] = disk[blk]
    BY DEF Content
  <2> QED
    BY <2>1, <2>2, <2>3 DEF MappedContent
<1> QED
  BY <1>1, <1>2

\* A step that neither makes nor ends an owner.
LEMMA OwnerKept ==
  ASSUME MappedOwner, MappedOwner',
         \A p \in Proc : /\ pc'[p] \in Holding <=> pc[p] \in Holding
                         /\ pc[p] \in Holding => want'[p] = want[p]
  PROVE  Owner' = Owner
<1>1. ASSUME NEW blk \in Block PROVE Owner'[blk] = Owner[blk]
  <2>1. CASE \E p \in Proc : pc[p] \in Holding /\ want[p] = blk
    BY <2>1 DEF MappedOwner
  <2>2. CASE ~\E p \in Proc : pc[p] \in Holding /\ want[p] = blk
    BY <2>2 DEF MappedOwner
  <2> QED
    BY <2>1, <2>2
<1> QED
  BY <1>1 DEF MappedOwner

\* A step that leaves every block where it was.
LEMMA ContentKept ==
  ASSUME MappedContent, MappedContent', UNCHANGED <<valid, blockno, data, disk>>
  PROVE  Content' = Content
<1>1. ASSUME NEW blk \in Block PROVE Content'[blk] = Content[blk]
  <2>1. CASE \E b \in valid : blockno[b] = blk
    BY <2>1 DEF MappedContent
  <2>2. CASE ~\E b \in valid : blockno[b] = blk
    BY <2>2 DEF MappedContent
  <2> QED
    BY <2>1, <2>2
<1> QED
  BY <1>1 DEF MappedContent

\* bget() may recycle a buffer: what it held is then on the disk.
LEMMA RecycleKeepsContent ==
  ASSUME IInv, DataInv, IInv', MappedContent, MappedContent',
         NEW p \in Proc, NEW blk \in Block, MissEffect(p, blk)
  PROVE  Content' = Content
<1> DEFINE v == Victim
<1>1. /\ v \in Buf /\ v \notin dirty /\ \A q \in Proc : buf[q] # v
      /\ \A b \in Buf : blockno[b] # blk
      /\ \A b \in Buf : blockno'[b] = IF b = v THEN blk ELSE blockno[b]
      /\ valid' = valid \ {v} /\ data' = data /\ disk' = disk /\ valid \subseteq Buf
  BY DEF MissEffect, Users, IInv, TypeOK
<1> HIDE DEF v
<1>2. v \in valid => data[v] = disk[blockno[v]]
  BY <1>1 DEF DataInv
<1>3. ASSUME NEW x \in Block PROVE Content'[x] = Content[x]
  <2>1. CASE \E b \in valid' : blockno'[b] = x
    BY <1>1, <2>1 DEF MappedContent
  <2>2. CASE ~\E b \in valid' : blockno'[b] = x
    <3>1. Content'[x] = disk[x]
      BY <1>1, <2>2 DEF MappedContent
    <3>2. CASE v \in valid /\ blockno[v] = x
      BY <1>2, <3>1, <3>2 DEF MappedContent
    <3>3. CASE ~(v \in valid /\ blockno[v] = x)
      BY <1>1, <2>2, <3>1, <3>3 DEF MappedContent
    <3> QED
      BY <3>2, <3>3
  <2> QED
    BY <2>1, <2>2
<1> QED
  BY <1>3 DEF MappedContent

\* Neither the end of a disk command nor its interrupt changes what a block holds.
LEMMA DiskKeepsContent ==
  ASSUME ~DiskFails, IInv, DataInv, IInv', MappedContent, MappedContent', disk_done \/ ideintr
  PROVE  Content' = Content
<1> DEFINE h == Head(idequeue)
<1>0. TypeOK /\ valid \subseteq Buf /\ dirty \subseteq valid /\ BlockInv
  BY DEF IInv, TypeOK, FlagInv
<1>1. idequeue # <<>>
  BY DEF disk_done, ideintr, IInv, QueueInv, QueueMatchesSleepers
<1>2. /\ h \in Buf /\ blockno[h] \in Block /\ h \notin valid \ dirty
      /\ cmd = {[block |-> blockno[h], write |-> h \in dirty, val |-> data[h]]}
  BY <1>1, HasHead DEF idestart
<1>3. \A b \in valid : blockno[b] = blockno[h] => b = h
  BY <1>0, <1>2, BcacheAssumption DEF BlockInv, OneBufferPerBlock
<1>4. CASE disk_done
  <2>1. UNCHANGED <<valid, data, blockno>>
    BY <1>4 DEF disk_done, listVars, bufVars
  <2>2. PICK c \in cmd : disk' = IF c.write THEN [disk EXCEPT ![c.block] = c.val] ELSE disk
    BY <1>4 DEF disk_done
  <2>3. c = [block |-> blockno[h], write |-> h \in dirty, val |-> data[h]]
    BY <1>2, <2>2
  <2>4. c.block = blockno[h] /\ c.val = data[h] /\ (c.write <=> h \in dirty)
    BY <2>3
  <2>5. CASE h \notin dirty
    BY <2>1, <2>2, <2>4, <2>5, ContentKept
  <2>6. CASE h \in dirty
    <3>1. h \in valid /\ \A x \in Block : x # blockno[h] => disk'[x] = disk[x]
      BY <1>0, <2>2, <2>4, <2>6 DEF TypeOK
    <3> HIDE DEF h
    <3>2. ASSUME NEW x \in Block PROVE Content'[x] = Content[x]
      <4>1. CASE \E b \in valid : blockno[b] = x
        BY <2>1, <4>1 DEF MappedContent
      <4>2. CASE ~\E b \in valid : blockno[b] = x
        BY <2>1, <3>1, <4>2 DEF MappedContent
      <4> QED
        BY <4>1, <4>2
    <3> QED
      BY <3>2 DEF MappedContent
  <2> QED
    BY <2>5, <2>6
<1>5. CASE ideintr
  <2>1. /\ UNCHANGED <<blockno, disk>> /\ valid' = valid \cup {h}
    BY <1>5 DEF ideintr, listVars
  <2>2. PICK c \in cmd : data' = IF h \notin dirty THEN [data EXCEPT ![h] = disk[c.block]] ELSE data
    BY <1>5, BcacheAssumption DEF ideintr
  <2>3. c.block = blockno[h]
    BY SMTT(40), <1>2, <2>2
  <2>4. /\ data'[h] = IF h \in valid THEN data[h] ELSE disk[blockno[h]]
        /\ \A b \in Buf : b # h => data'[b] = data[b]
    BY <1>0, <1>2, <2>2, <2>3 DEF TypeOK
  <2> HIDE DEF h
  <2>5. ASSUME NEW x \in Block PROVE Content'[x] = Content[x]
    <3>1. CASE x = blockno[h]
      <4>1. Content'[x] = data'[h]
        BY <2>1, <3>1 DEF MappedContent
      <4>2. Content[x] = IF h \in valid THEN data[h] ELSE disk[blockno[h]]
        BY <1>3, <3>1 DEF MappedContent
      <4> QED
        BY <2>4, <4>1, <4>2
    <3>2. CASE x # blockno[h]
      <4>1. CASE \E b \in valid : blockno[b] = x
        <5>1. PICK b \in valid : blockno[b] = x
          BY <4>1
        <5>2. b # h /\ b \in Buf /\ b \in valid' /\ blockno'[b] = x
          BY <1>0, <2>1, <3>2, <5>1
        <5> QED
          BY <2>4, <5>1, <5>2 DEF MappedContent
      <4>2. CASE ~\E b \in valid : blockno[b] = x
        BY <2>1, <3>2, <4>2 DEF MappedContent
      <4> QED
        BY <4>1, <4>2
    <3> QED
      BY <3>1, <3>2
  <2> QED
    BY <2>5 DEF MappedContent
<1> QED
  BY <1>4, <1>5

\* Every step is one of the abstract store, or none.
LEMMA StoreStep ==
  ASSUME ~DiskFails, IInv, DataInv, IInv', [Next]_vars
  PROVE  [Store!Next]_(Store!vars)
<1>0. TypeOK /\ MappedOwner /\ MappedContent
  BY Mapped DEF IInv
<1>1. MappedOwner' /\ MappedContent'
  BY Mapped, PTL
<1>p. panic => [Store!Next]_(Store!vars)
  <2> SUFFICES ASSUME panic PROVE [Store!Next]_(Store!vars)
    OBVIOUS
  <2>1. UNCHANGED <<valid, blockno, data, disk, pc, want>>
    BY DEF panic, listVars, bufVars, ideVars
  <2>2. Owner' = Owner
    BY <1>0, <1>1, <2>1, OwnerKept
  <2>3. Content' = Content
    BY <1>0, <1>1, <2>1, ContentKept
  <2> QED
    BY <2>2, <2>3 DEF Store!vars
<1>2. ASSUME NEW p \in Proc, NEW blk \in Block, bget(p, blk) PROVE [Store!Next]_(Store!vars)
  <2>1. CASE Cached(blk) = {} /\ Recyclable = {}
    BY <1>2, <1>p, <2>1 DEF bget
  <2>2. CASE Cached(blk) # {}
    <3>1. HitEffect(p, blk)
      BY <1>2, <2>2, BgetHit
    <3>2. \A q \in Proc : /\ pc'[q] \in Holding <=> pc[q] \in Holding
                          /\ pc[q] \in Holding => want'[q] = want[q]
      BY <1>0, <3>1 DEF HitEffect, Holding, TypeOK
    <3>3. Owner' = Owner
      BY <1>0, <1>1, <3>2, OwnerKept
    <3>4. Content' = Content
      BY <1>0, <1>1, <3>1, ContentKept DEF HitEffect
    <3> QED
      BY <3>3, <3>4 DEF Store!vars
  <2>3. CASE Cached(blk) = {} /\ Recyclable # {}
    <3>1. MissEffect(p, blk)
      BY <1>2, <2>3, BgetMiss
    <3>2. \A q \in Proc : /\ pc'[q] \in Holding <=> pc[q] \in Holding
                          /\ pc[q] \in Holding => want'[q] = want[q]
      BY <1>0, <3>1 DEF MissEffect, Holding, TypeOK
    <3>3. Owner' = Owner
      BY <1>0, <1>1, <3>2, OwnerKept
    <3>4. Content' = Content
      BY <1>0, <1>1, <3>1, RecycleKeepsContent
    <3> QED
      BY <3>3, <3>4 DEF Store!vars
  <2> QED
    BY <2>1, <2>2, <2>3
<1>3. ASSUME NEW p \in Proc, acquiresleep(p) PROVE [Store!Next]_(Store!vars)
  <2>0. UNCHANGED <<valid, blockno, data, disk, want>>
    BY <1>3 DEF acquiresleep, listVars, bufVars, ideVars
  <2>1. Content' = Content
    BY <1>0, <1>1, <2>0, ContentKept
  <2>2. CASE buf[p] \in locked
    <3>1. \A q \in Proc : pc'[q] \in Holding <=> pc[q] \in Holding
      BY <1>0, <1>3, <2>2 DEF acquiresleep, Holding, TypeOK
    <3>2. Owner' = Owner
      BY <1>0, <1>1, <2>0, <3>1, OwnerKept
    <3> QED
      BY <2>1, <3>2 DEF Store!vars
  <2>3. CASE buf[p] \notin locked
    <3>1. /\ pc[p] = "acquiresleep" /\ pc'[p] \in Holding
          /\ \A q \in Proc : q # p => pc'[q] = pc[q]
      BY <1>0, <1>3, <2>3 DEF acquiresleep, Holding, TypeOK
    <3>2. buf[p] \in Buf /\ want[p] \in Block
      BY <3>1, HasBuf
    <3>3. \A q \in Proc : pc[q] \in Holding => want[q] # want[p]
      BY <2>3, <3>1, <3>2, OneOwner DEF IInv, LockInv
    <3>4. Owner[want[p]] = None
      BY <1>0, <3>2, <3>3 DEF MappedOwner
    <3>5. ASSUME NEW blk \in Block PROVE Owner'[blk] = IF blk = want[p] THEN p ELSE Owner[blk]
      <4>1. CASE blk = want[p]
        BY <1>1, <2>0, <3>1, <4>1 DEF MappedOwner
      <4>2. CASE blk # want[p] /\ \E q \in Proc : pc[q] \in Holding /\ want[q] = blk
        BY <1>0, <1>1, <2>0, <3>1, <4>2 DEF MappedOwner
      <4>3. CASE blk # want[p] /\ ~\E q \in Proc : pc[q] \in Holding /\ want[q] = blk
        BY <1>0, <1>1, <2>0, <3>1, <4>3 DEF MappedOwner
      <4> QED
        BY <4>1, <4>2, <4>3
    <3>6. Owner' = [Owner EXCEPT ![want[p]] = p]
      BY <1>0, <1>1, <3>2, <3>5 DEF MappedOwner
    <3>7. Store!Acquire(p, want[p])
      BY <2>1, <3>4, <3>6 DEF Store!Acquire
    <3> QED
      BY <3>2, <3>7 DEF Store!Next
  <2> QED
    BY <2>2, <2>3
<1>4. ASSUME NEW p \in Proc, releasesleep(p) PROVE [Store!Next]_(Store!vars)
  <2>1. CASE buf[p] \notin locked
    BY <1>4, <1>p, <2>1 DEF releasesleep
  <2>2. CASE buf[p] \in locked
    <3>0. UNCHANGED <<valid, blockno, data, disk, want>>
      BY <1>4, <2>2 DEF releasesleep, listVars, bufVars, ideVars
    <3>1. /\ pc[p] \in Holding /\ pc'[p] \notin Holding
          /\ \A q \in Proc : q # p => (pc'[q] \in Holding <=> pc[q] \in Holding)
      BY <1>0, <1>4, <2>2 DEF releasesleep, WakeLock, Wakeup, Holding, TypeOK
    <3>2. want[p] \in Block /\ Owner[want[p]] = p
      BY <1>0, <3>1 DEF MappedOwner
    <3>3. \A q \in Proc : q # p /\ pc[q] \in Holding => want[q] # want[p]
      BY <1>0, <3>1, <3>2 DEF MappedOwner
    <3>4. Content' = Content
      BY <1>0, <1>1, <3>0, ContentKept
    <3>5. ASSUME NEW blk \in Block PROVE Owner'[blk] = IF blk = want[p] THEN None ELSE Owner[blk]
      <4>1. CASE blk = want[p]
        BY <1>1, <3>0, <3>1, <3>3, <4>1 DEF MappedOwner
      <4>2. CASE blk # want[p] /\ \E q \in Proc : pc[q] \in Holding /\ want[q] = blk
        BY <1>0, <1>1, <3>0, <3>1, <4>2 DEF MappedOwner
      <4>3. CASE blk # want[p] /\ ~\E q \in Proc : pc[q] \in Holding /\ want[q] = blk
        BY <1>0, <1>1, <3>0, <3>1, <4>3 DEF MappedOwner
      <4> QED
        BY <4>1, <4>2, <4>3
    <3>6. Owner' = [Owner EXCEPT ![want[p]] = None]
      BY <1>0, <1>1, <3>2, <3>5 DEF MappedOwner
    <3>7. Store!Release(p, want[p])
      BY <3>2, <3>4, <3>6 DEF Store!Release
    <3> QED
      BY <3>2, <3>7 DEF Store!Next
  <2> QED
    BY <2>1, <2>2
<1>5. ASSUME NEW p \in Proc, NEW v \in Val, modify(p, v) PROVE [Store!Next]_(Store!vars)
  <2>1. /\ UNCHANGED <<valid, blockno, disk, want, buf>> /\ pc[p] = "hold"
        /\ \A q \in Proc : pc'[q] \in Holding <=> pc[q] \in Holding
    BY <1>0, <1>5 DEF modify, listVars, ideVars, Holding, TypeOK
  <2>2. /\ buf[p] \in Buf /\ want[p] \in Block /\ Owner[want[p]] = p
        /\ buf[p] \in valid /\ blockno[buf[p]] = want[p] /\ valid \subseteq Buf
    <3>1. buf[p] \in Buf /\ want[p] \in Block
      BY <2>1, HasBuf
    <3>2. Owner[want[p]] = p
      BY <1>0, <2>1 DEF MappedOwner, Holding
    <3>3. buf[p] \in valid /\ valid \subseteq Buf
      BY <2>1 DEF IInv, FlagInv, TypeOK
    <3>4. blockno[buf[p]] = want[p]
      BY <3>1, BcacheAssumption DEF IInv, BlockInv, NotRecycledInUse, Buf
    <3> QED
      BY <3>1, <3>2, <3>3, <3>4
  <2>3. Owner' = Owner
    BY <1>0, <1>1, <2>1, OwnerKept
  <2>4. \A b \in Buf : data'[b] = IF b = buf[p] THEN v ELSE data[b]
    BY <1>0, <1>5 DEF modify, TypeOK
  <2>5. ASSUME NEW blk \in Block PROVE Content'[blk] = IF blk = want[p] THEN v ELSE Content[blk]
    <3>1. CASE blk = want[p]
      BY <1>1, <2>1, <2>2, <2>4, <3>1 DEF MappedContent
    <3>2. CASE blk # want[p] /\ \E b \in valid : blockno[b] = blk
      <4>1. PICK b \in valid : blockno[b] = blk
        BY <3>2
      <4>2. data'[b] = data[b]
        BY <2>2, <2>4, <3>2, <4>1
      <4> QED
        BY <1>0, <1>1, <2>1, <3>2, <4>1, <4>2 DEF MappedContent
    <3>3. CASE blk # want[p] /\ ~\E b \in valid : blockno[b] = blk
      BY <1>0, <1>1, <2>1, <3>3 DEF MappedContent
    <3> QED
      BY <3>1, <3>2, <3>3
  <2>6. Content' = [Content EXCEPT ![want[p]] = v]
    BY <1>0, <1>1, <2>2, <2>5 DEF MappedContent
  <2>7. Store!Write(p, want[p], v)
    BY <2>2, <2>3, <2>6 DEF Store!Write
  <2> QED
    BY <2>2, <2>7 DEF Store!Next
<1>6. ASSUME NEW p \in Proc, brelse(p) \/ log_write(p) \/ bwrite(p) \/ iderw(p) \/ iderw_return(p)
      PROVE  [Store!Next]_(Store!vars)
  <2>1. CASE panic
    BY <1>p, <2>1
  <2>2. CASE ~panic
    <3>1. UNCHANGED <<valid, blockno, data, disk>>
      BY <1>6, <2>2 DEF brelse, log_write, bwrite, iderw, iderw_return, listVars, bufVars, ideVars
    <3>2. \A q \in Proc : pc'[q] \in Holding <=> pc[q] \in Holding
      BY <1>0, <1>6, <2>2 DEF brelse, log_write, bwrite, iderw, iderw_return, Holding, TypeOK
    <3>3. \A q \in Proc : pc[q] \in Holding => want'[q] = want[q]
      BY <1>0, <1>6, <2>2 DEF brelse, log_write, bwrite, iderw, iderw_return, Holding, TypeOK
    <3>4. Owner' = Owner
      BY <1>0, <1>1, <3>2, <3>3, OwnerKept
    <3>5. Content' = Content
      BY <1>0, <1>1, <3>1, ContentKept
    <3> QED
      BY <3>4, <3>5 DEF Store!vars
  <2> QED
    BY <2>1, <2>2
<1>7. ASSUME disk_done \/ ideintr PROVE [Store!Next]_(Store!vars)
  <2>1. \A q \in Proc : (pc'[q] \in Holding <=> pc[q] \in Holding) /\ want'[q] = want[q]
    BY <1>0, <1>7 DEF disk_done, ideintr, Wakeup, Holding, TypeOK
  <2>2. Owner' = Owner
    BY <1>0, <1>1, <2>1, OwnerKept
  <2>3. Content' = Content
    BY <1>0, <1>1, <1>7, DiskKeepsContent
  <2> QED
    BY <2>2, <2>3 DEF Store!vars
<1>8. ASSUME UNCHANGED vars PROVE [Store!Next]_(Store!vars)
  <2>1. UNCHANGED <<valid, blockno, data, disk, pc, want>>
    BY <1>8 DEF vars
  <2>2. Owner' = Owner
    BY <1>0, <1>1, <2>1, OwnerKept
  <2>3. Content' = Content
    BY <1>0, <1>1, <2>1, ContentKept
  <2> QED
    BY <2>2, <2>3 DEF Store!vars
<1> QED
  BY <1>2, <1>3, <1>4, <1>5, <1>6, <1>7, <1>8 DEF Next, ProcStep

\* The cache implements the block store, on a drive that reports no errors: a
\* block has one owner at a time, from acquiresleep() to releasesleep(), and
\* through recycling, pinning, the disk queue and its interrupts the next owner
\* finds what the last one wrote.
THEOREM CacheImplementsStore ==
  ASSUME ~DiskFails
  PROVE  Spec => CacheIsStore
<1>1. Init => Store!Init
  <2> SUFFICES ASSUME Init PROVE Store!Init
    OBVIOUS
  <2>1. Content = disk
    BY DEF Init, Content
  <2>2. Owner = [blk \in Block |-> None]
    BY DEF Init, Owner, Holding
  <2> QED
    BY <2>1, <2>2 DEF Init, Store!Init
<1>2. IInv /\ DataInv /\ [Next]_vars => IInv' /\ DataInv'
  BY InvStep, DataStep
<1>3. IInv /\ DataInv /\ IInv' /\ [Next]_vars => [Store!Next]_(Store!vars)
  BY StoreStep
<1> QED
  BY <1>1, <1>2, <1>3, InitInv, PTL DEF Spec, CacheIsStore, Store!Spec
=============================================================================
