------------------------------- MODULE Bcache -------------------------------
(***************************************************************************)
(* The buffer cache of bio.c with the sleep lock of each buffer            *)
(* (sleeplock.c) and the request queue and interrupt handler of the IDE    *)
(* driver (ide.c).                                                         *)
(*                                                                         *)
(* A step is what one process, or the interrupt handler, does under one    *)
(* spinlock.  Blocks are blocks of the root device.  The callers are the   *)
(* file system, which changes a block and logs it (log_write() pins the    *)
(* buffer with B_DIRTY), and the log, which writes it out with bwrite().   *)
(***************************************************************************)
EXTENDS Naturals, Sequences, FiniteSets, Functions

CONSTANTS
    Proc,          \* processes
    NBUF,          \* number of buffers
    Block,         \* blocks in use on the disk
    Val,           \* block contents
    None,          \* no block, no process
    MaxPinned,     \* most buffers that wait in the log for their commit
    DiskFails      \* whether the drive may report an error for a read

ASSUME BcacheAssumption ==
    /\ IsFiniteSet(Proc) /\ NBUF \in Nat \ {0}
    /\ None \notin Block /\ None \notin Proc
    /\ MaxPinned \in Nat
    /\ DiskFails \in BOOLEAN

Buf == 1..NBUF

VARIABLES
    mru,           \* bcache.head.next, its next, ...: most recently used first
    blockno,       \* b->blockno
    valid,         \* buffers with B_VALID
    dirty,         \* buffers with B_DIRTY
    refcnt,        \* b->refcnt
    locked,        \* buffers whose b->lock.locked is set
    data,          \* b->data
    idequeue,      \* the request queue, the active request first
    cmd,           \* the command that the drive executes, if any
    irq,           \* the drive has raised its interrupt
    disk,          \* the blocks on the disk
    pc,            \* where each process is
    buf,           \* the buffer that the process refers to, or 0
    want,          \* the block that the process asked for
    panicked       \* the kernel stopped in panic()

listVars == <<mru, blockno, refcnt>>
bufVars == <<valid, dirty, data>>
ideVars == <<idequeue, cmd, irq, disk>>
vars == <<mru, blockno, valid, dirty, refcnt, locked, data, idequeue, cmd, irq,
          disk, pc, buf, want, panicked>>

\* A process in one of these places owns the sleep lock of buf[p].
Holding == {"iderw", "iderwSleep", "iderwWoken", "hold", "changed"}

Init ==
    /\ mru = [i \in Buf |-> NBUF + 1 - i]
    /\ blockno = [b \in Buf |-> None]
    /\ valid = {} /\ dirty = {} /\ locked = {}
    /\ refcnt = [b \in Buf |-> 0]
    /\ data \in {[b \in Buf |-> v] : v \in Val}
    /\ idequeue = <<>>
    /\ cmd = {} /\ irq = FALSE
    /\ disk \in [Block -> Val]
    /\ pc = [p \in Proc |-> "idle"]
    /\ buf = [p \in Proc |-> 0]
    /\ want = [p \in Proc |-> None]
    /\ panicked = FALSE

panic == panicked' = TRUE /\ UNCHANGED <<listVars, bufVars, locked, ideVars, pc, buf, want>>
-----------------------------------------------------------------------------
(* bget(), under bcache.lock.                                              *)

\* Mutant: a buffer that a process refers to may be recycled.
Recyclable_in_use == {b \in Buf : b \notin dirty}

\* Mutant: a pinned buffer may be recycled.
Recyclable_pinned == {b \in Buf : refcnt[b] = 0}

Cached(blk) == {b \in Buf : blockno[b] = blk}
Recyclable == {b \in Buf : refcnt[b] = 0 /\ b \notin dirty}

\* Where the scan of the list, forwards or backwards, first meets a buffer of B.
FirstOf(B) == CHOOSE i \in 1..Len(mru) : mru[i] \in B /\ \A j \in 1..(i - 1) : mru[j] \notin B
LastOf(B) == CHOOSE i \in 1..Len(mru) : mru[i] \in B /\ \A j \in (i + 1)..Len(mru) : mru[j] \notin B

\* The least recently used of the recyclable buffers: the scan runs backwards.
Victim == mru[LastOf(Recyclable)]

\* The first buffer of the list that caches blk.
Hit(blk) == mru[FirstOf(Cached(blk))]

\* b->flags = 0, b->refcnt = 1 for a recycled buffer.
Recycle(b) ==
    /\ valid' = valid \ {b}
    /\ refcnt' = [refcnt EXCEPT ![b] = 1]

bget(p, blk) ==
    /\ pc[p] = "idle"
    /\ IF Cached(blk) = {} /\ Recyclable = {} THEN panic
       ELSE /\ IF Cached(blk) # {}
               THEN /\ buf' = [buf EXCEPT ![p] = Hit(blk)]
                    /\ refcnt' = [refcnt EXCEPT ![Hit(blk)] = @ + 1]
                    /\ UNCHANGED <<blockno, valid>>
               ELSE /\ buf' = [buf EXCEPT ![p] = Victim]
                    /\ blockno' = [blockno EXCEPT ![Victim] = blk]
                    /\ Recycle(Victim)
            /\ want' = [want EXCEPT ![p] = blk]
            /\ pc' = [pc EXCEPT ![p] = "acquiresleep"]
            /\ UNCHANGED <<mru, dirty, data, locked, ideVars, panicked>>
-----------------------------------------------------------------------------
(* sleeplock.c                                                             *)

\* Every process that sleeps at place s on buffer b runs again from place t.
Wakeup(b, s, t) == [p \in Proc |-> IF pc[p] = s /\ buf[p] = b THEN t ELSE pc[p]]

\* Mutant: releasesleep() wakes nobody.
WakeLock_none(b) == pc

\* wakeup(lk) in releasesleep().
WakeLock(b) == Wakeup(b, "locksleep", "acquiresleep")

\* acquiresleep(), and bread()'s test of B_VALID under the lock.
acquiresleep(p) ==
    /\ pc[p] = "acquiresleep"
    /\ \/ /\ buf[p] \in locked
          /\ pc' = [pc EXCEPT ![p] = "locksleep"]
          /\ UNCHANGED locked
       \/ /\ buf[p] \notin locked
          /\ locked' = locked \cup {buf[p]}
          /\ pc' = [pc EXCEPT ![p] = IF buf[p] \in valid THEN "hold" ELSE "iderw"]
    /\ UNCHANGED <<listVars, bufVars, ideVars, buf, want, panicked>>

\* brelse() up to the end of releasesleep().
releasesleep(p) ==
    /\ pc[p] = "hold"
    /\ IF buf[p] \notin locked THEN panic
       ELSE /\ locked' = locked \ {buf[p]}
            /\ pc' = [WakeLock(buf[p]) EXCEPT ![p] = "brelse"]
            /\ UNCHANGED <<listVars, bufVars, ideVars, buf, want, panicked>>

Unref(b) == refcnt[b] - 1

\* The list with b moved from where it is to the front.
ToFront(b) ==
    LET i == FirstOf({b}) IN <<b>> \o (SubSeq(mru, 1, i - 1) \o SubSeq(mru, i + 1, Len(mru)))

\* The rest of brelse(), under bcache.lock.
brelse(p) ==
    /\ pc[p] = "brelse"
    /\ LET b == buf[p] IN
       /\ refcnt' = [refcnt EXCEPT ![b] = Unref(b)]
       /\ mru' = IF Unref(b) = 0 THEN ToFront(b) ELSE mru
    /\ pc' = [pc EXCEPT ![p] = "idle"]
    /\ buf' = [buf EXCEPT ![p] = 0]
    /\ want' = [want EXCEPT ![p] = None]
    /\ UNCHANGED <<blockno, bufVars, locked, ideVars, panicked>>
-----------------------------------------------------------------------------
(* The owner of a buffer.                                                  *)

modify(p, v) ==
    /\ pc[p] = "hold"
    /\ data' = [data EXCEPT ![buf[p]] = v]
    /\ pc' = [pc EXCEPT ![p] = "changed"]
    /\ UNCHANGED <<listVars, valid, dirty, locked, ideVars, buf, want, panicked>>

\* log_write() pins the changed buffer until the log has written it.
log_write(p) ==
    /\ pc[p] = "changed"
    /\ buf[p] \in dirty \/ Cardinality(dirty) < MaxPinned
    /\ dirty' = dirty \cup {buf[p]}
    /\ pc' = [pc EXCEPT ![p] = "hold"]
    /\ UNCHANGED <<listVars, valid, data, locked, ideVars, buf, want, panicked>>

\* bwrite() of a changed buffer, or by the log of a pinned one.
bwrite(p) ==
    /\ pc[p] = "changed" \/ (pc[p] = "hold" /\ buf[p] \in dirty)
    /\ IF buf[p] \notin locked THEN panic
       ELSE /\ dirty' = dirty \cup {buf[p]}
            /\ pc' = [pc EXCEPT ![p] = "iderw"]
            /\ UNCHANGED <<listVars, valid, data, locked, ideVars, buf, want, panicked>>
-----------------------------------------------------------------------------
(* ide.c                                                                   *)

\* idestart(): hands the drive a command, and for a write the data with it.
idestart(b) == {[block |-> blockno[b], write |-> b \in dirty, val |-> data[b]]}

\* Mutant: a new request overtakes those that wait.
Enqueue_first(b) ==
    IF idequeue = <<>> THEN <<b>> ELSE <<Head(idequeue), b>> \o Tail(idequeue)

Enqueue(b) == Append(idequeue, b)

\* The drive is started for a request that is alone in the queue.
StartIfIdle(b) == IF idequeue = <<>> THEN idestart(b) ELSE cmd

\* The interrupt handler starts the drive on the next request, if any.
StartNext == IF Len(idequeue) > 1 THEN idestart(idequeue[2]) ELSE {}

\* iderw(), under idelock: queues the buffer and sleeps.
iderw(p) ==
    /\ pc[p] = "iderw"
    /\ IF buf[p] \notin locked \/ (buf[p] \in valid /\ buf[p] \notin dirty) THEN panic
       ELSE /\ idequeue' = Enqueue(buf[p])
            /\ cmd' = StartIfIdle(buf[p])
            /\ pc' = [pc EXCEPT ![p] = "iderwSleep"]
            /\ UNCHANGED <<listVars, bufVars, locked, irq, disk, buf, want, panicked>>

\* iderw()'s loop after a wakeup(b).
iderw_return(p) ==
    /\ pc[p] = "iderwWoken"
    /\ pc' = [pc EXCEPT ![p] = IF buf[p] \in valid \ dirty THEN "hold" ELSE "iderwSleep"]
    /\ UNCHANGED <<listVars, bufVars, locked, ideVars, buf, want, panicked>>

\* The drive ends its command and raises the interrupt.
disk_done ==
    /\ ~irq
    /\ \E c \in cmd : disk' = IF c.write THEN [disk EXCEPT ![c.block] = c.val] ELSE disk
    /\ irq' = TRUE
    /\ UNCHANGED <<listVars, bufVars, locked, idequeue, cmd, pc, buf, want, panicked>>

\* The interrupt handler.  idewait(1) may report an error for a read: the data
\* is then not fetched, and the request ends like any other.
ideintr ==
    /\ irq
    /\ LET b == Head(idequeue) IN
       /\ \E c \in cmd, ok \in (IF DiskFails THEN BOOLEAN ELSE {TRUE}) :
             data' = IF b \notin dirty /\ ok THEN [data EXCEPT ![b] = disk[c.block]]
                     ELSE data
       /\ valid' = valid \cup {b}
       /\ dirty' = dirty \ {b}
       /\ pc' = Wakeup(b, "iderwSleep", "iderwWoken")
       /\ idequeue' = Tail(idequeue)
       /\ cmd' = StartNext
    /\ irq' = FALSE
    /\ UNCHANGED <<listVars, locked, disk, buf, want, panicked>>
-----------------------------------------------------------------------------
ProcStep(p) ==
    \/ acquiresleep(p) \/ releasesleep(p) \/ brelse(p)
    \/ log_write(p) \/ bwrite(p) \/ iderw(p) \/ iderw_return(p)

Next ==
    /\ ~panicked
    /\ \/ \E p \in Proc : ProcStep(p)
       \/ \E p \in Proc, blk \in Block : bget(p, blk)
       \/ \E p \in Proc, v \in Val : modify(p, v)
       \/ disk_done
       \/ ideintr

Spec == Init /\ [][Next]_vars

\* The drive answers every command, its interrupt is taken, and a process that
\* can run is scheduled.  Sleep locks are not fair, so nothing is assumed of
\* acquiresleep() beyond that.
Fairness ==
    /\ WF_vars(~panicked /\ (disk_done \/ ideintr))
    /\ \A p \in Proc : WF_vars(~panicked /\ (iderw(p) \/ iderw_return(p)))

FairSpec == Spec /\ Fairness
-----------------------------------------------------------------------------
(* Properties.                                                             *)

\* bget() never gives two buffers to one block, whatever lookups, recyclings
\* and releases run together.
OneBufferPerBlock ==
    \A b, c \in Buf : blockno[b] = blockno[c] /\ blockno[b] # None => b = c

\* From bget() to brelse() the buffer that a process refers to stays the buffer
\* of the block it asked for: refcnt keeps it from being recycled while the
\* process waits for the sleep lock, and even between releasesleep() and the
\* decrement at the end of brelse().
NotRecycledInUse ==
    \A p \in Proc : buf[p] # 0 => blockno[buf[p]] = want[p]

\* No panic() of bio.c or ide.c is reached: there is a buffer to recycle, and
\* nobody works on a buffer that is not locked or asks the driver for nothing.
NoPanic == ~panicked

\* The queue of the driver holds each buffer once, each with its sleep lock
\* held by the process asleep in iderw(); the active command is that of its
\* first buffer, so the interrupt always completes the right request.
QueueMatchesSleepers ==
    /\ IsInjective(idequeue)
    /\ Range(idequeue) = {buf[p] : p \in {q \in Proc : pc[q] = "iderwSleep"}}
    /\ Range(idequeue) \subseteq locked
    /\ IF idequeue = <<>> THEN cmd = {} ELSE cmd = idestart(Head(idequeue))

\* Nobody sleeps for a buffer's sleep lock while nobody owns it or has just been
\* woken for it: releasesleep() loses no wakeup.
LockSleepersHaveOwner ==
    \A p \in Proc : pc[p] = "locksleep" => buf[p] \in locked

\* The current value of a block: its valid buffer, or the disk.
Content ==
    [blk \in Block |-> IF \E b \in valid : blockno[b] = blk
                       THEN data[CHOOSE b \in valid : blockno[b] = blk]
                       ELSE disk[blk]]

Owner ==
    [blk \in Block |-> IF \E p \in Proc : pc[p] \in Holding /\ want[p] = blk
                       THEN CHOOSE p \in Proc : pc[p] \in Holding /\ want[p] = blk
                       ELSE None]

Store == INSTANCE BlockStore WITH content <- Content, owner <- Owner, Nobody <- None

\* The cache implements the block store: a block has one owner at a time, and
\* through recycling, disk queue and interrupts the next owner finds what the
\* last one wrote.
CacheIsStore == Store!Spec

\* buf.h says that B_VALID means that the buffer has been read from the disk: a
\* valid buffer that is neither owned nor pinned holds its block.
ValidMeansRead ==
    \A b \in valid \ (dirty \cup locked) : data[b] = disk[blockno[b]]

\* A process that has a buffer has the one buffer of its block, and what bread()
\* gives it is that block.
BufferIsBlock == OneBufferPerBlock /\ NotRecycledInUse /\ ValidMeansRead

\* Nobody who waits for the disk or a sleep lock is forgotten, and no panic ends
\* the waiting.
WaitersKept == QueueMatchesSleepers /\ LockSleepersHaveOwner /\ NoPanic

\* Every request to the driver ends: queueing, the drive's interrupts and the
\* wakeups get each process out of iderw().
RequestsEnd == \A p \in Proc : pc[p] = "iderw" ~> pc[p] = "hold"
=============================================================================
