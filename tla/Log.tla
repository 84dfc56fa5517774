-------------------------------- MODULE Log ---------------------------------
(***************************************************************************)
(* The write-ahead log of log.c over the buffer cache of bio.c: group      *)
(* commit of concurrent file-system operations, absorption, the four       *)
(* phases of commit(), a crash between any two disk writes and recovery.   *)
(*                                                                         *)
(* A disk write of one 512-byte sector is atomic.  A block's contents are  *)
(* a member of Val.  The log's own blocks are written through and read     *)
(* back by the committer alone, so only their disk copy is kept.           *)
(***************************************************************************)
EXTENDS Naturals, Sequences, FiniteSets

CONSTANTS
    Proc,          \* processes that make file-system calls
    Block,         \* home blocks
    Val,           \* block contents
    NotCached,     \* no buffer holds the block
    MAXOPBLOCKS,   \* blocks begin_op() reserves for one operation
    LOGSIZE,       \* slots of the in-memory log header
    nlog,          \* blocks of the on-disk log, its header included
    AfterLog,      \* the home block that mkfs places right behind the log
    OpBlocks       \* distinct blocks one operation really writes

ASSUME LogAssumption ==
    /\ IsFiniteSet(Proc)
    /\ NotCached \notin Val
    /\ MAXOPBLOCKS \in Nat /\ LOGSIZE \in Nat /\ nlog \in Nat \ {0}
    /\ MAXOPBLOCKS <= LOGSIZE
    /\ OpBlocks \in Nat
    /\ AfterLog \in Block

VARIABLES
    disk,          \* home blocks on disk
    hdr,           \* the header block on disk: the committed block numbers
    ldata,         \* the log's data blocks on disk
    cache,         \* the cached contents of each block
    dirty,         \* blocks whose buffer has B_DIRTY
    lh,            \* log.lh.block[0 .. log.lh.n-1]
    outstanding,   \* log.outstanding
    committing,    \* log.committing
    pc,            \* where each process is
    held,          \* the block whose buffer the process has locked, if any
    wrote,         \* blocks the process has logged in this operation
    phase,         \* what commit() or recover_from_log() is doing
    tail,          \* loop index of write_log() and install_trans()
    mode           \* "recover", "run" or "panic"

diskVars == <<disk, hdr, ldata>>
memVars == <<cache, dirty>>
logVars == <<lh, outstanding, committing>>
procVars == <<pc, held, wrote>>
commitVars == <<phase, tail, mode>>
vars == <<disk, hdr, ldata, cache, dirty, lh, outstanding, committing,
          pc, held, wrote, phase, tail, mode>>

InOp == {"op", "modified", "checked"}
Locked(b) == \E p \in Proc : b \in held[p]
Logged == {lh[i] : i \in 1..Len(lh)}

Init ==
    /\ disk \in [Block -> Val]
    /\ hdr = <<>>
    /\ ldata \in {[i \in 1..(nlog - 1) |-> v] : v \in Val}
    /\ cache = [b \in Block |-> NotCached]
    /\ dirty = {}
    /\ lh = <<>>
    /\ outstanding = 0
    /\ committing = FALSE
    /\ pc = [p \in Proc |-> "user"]
    /\ held = [p \in Proc |-> {}]
    /\ wrote = [p \in Proc |-> {}]
    /\ phase = "read_head"
    /\ tail = 0
    /\ mode = "recover"
-----------------------------------------------------------------------------
(* The buffer cache, as far as the log depends on it.                      *)

\* bread() of a block that no buffer holds.
bread(b) ==
    /\ mode = "run"
    /\ cache[b] = NotCached
    /\ cache' = [cache EXCEPT ![b] = disk[b]]
    /\ UNCHANGED <<diskVars, dirty, logVars, procVars, commitVars>>

\* bget() recycles only a clean buffer that nobody holds.
bget_recycle(b) ==
    /\ mode = "run"
    /\ cache[b] # NotCached
    /\ b \notin dirty
    /\ ~Locked(b)
    /\ cache' = [cache EXCEPT ![b] = NotCached]
    /\ UNCHANGED <<diskVars, dirty, logVars, procVars, commitVars>>
-----------------------------------------------------------------------------
(* File-system calls.                                                      *)

\* wakeup(&log): every process asleep in begin_op() retries its test.
Wakeup(pcs) == [p \in Proc |-> IF pcs[p] = "sleeping" THEN "woken" ELSE pcs[p]]

begin_op(p) ==
    /\ mode = "run"
    /\ pc[p] \in {"user", "woken"}
    /\ IF committing \/ Len(lh) + (outstanding + 1) * MAXOPBLOCKS > LOGSIZE
       THEN /\ pc' = [pc EXCEPT ![p] = "sleeping"]
            /\ UNCHANGED outstanding
       ELSE /\ pc' = [pc EXCEPT ![p] = "op"]
            /\ outstanding' = outstanding + 1
    /\ UNCHANGED <<diskVars, memVars, lh, committing, held, wrote, commitVars>>

\* The operation reads a block, keeps its buffer locked and changes it.
modify(p, b, v) ==
    /\ mode = "run"
    /\ pc[p] = "op"
    /\ ~Locked(b)
    /\ b \in wrote[p] \/ Cardinality(wrote[p]) < OpBlocks
    /\ cache' = [cache EXCEPT ![b] = v]
    /\ pc' = [pc EXCEPT ![p] = "modified"]
    /\ held' = [held EXCEPT ![p] = {b}]
    /\ UNCHANGED <<diskVars, dirty, logVars, wrote, commitVars>>

\* log_write() tests log.lh.n and log.outstanding before it takes log.lock.
log_write_check(p) ==
    /\ mode = "run"
    /\ pc[p] = "modified"
    /\ IF Len(lh) >= LOGSIZE \/ Len(lh) >= nlog - 1 \/ outstanding < 1
       THEN mode' = "panic" /\ UNCHANGED pc
       ELSE pc' = [pc EXCEPT ![p] = "checked"] /\ UNCHANGED mode
    /\ UNCHANGED <<diskVars, memVars, logVars, held, wrote, phase, tail>>

\* Mutant: without absorption.
log_write_no_absorption(p) ==
    /\ mode = "run"
    /\ pc[p] = "checked"
    /\ \E b \in held[p] :
       /\ lh' = Append(lh, b)
       /\ dirty' = dirty \cup {b}
       /\ wrote' = [wrote EXCEPT ![p] = @ \cup {b}]
    /\ held' = [held EXCEPT ![p] = {}]
    /\ pc' = [pc EXCEPT ![p] = "op"]
    /\ UNCHANGED <<diskVars, cache, outstanding, committing, commitVars>>

\* The rest of log_write(), under log.lock, and the caller's brelse().
log_write(p) ==
    /\ mode = "run"
    /\ pc[p] = "checked"
    /\ \E b \in held[p] :
       /\ lh' = IF b \in Logged THEN lh ELSE Append(lh, b)
       /\ dirty' = dirty \cup {b}
       /\ wrote' = [wrote EXCEPT ![p] = @ \cup {b}]
    /\ held' = [held EXCEPT ![p] = {}]
    /\ pc' = [pc EXCEPT ![p] = "op"]
    /\ UNCHANGED <<diskVars, cache, outstanding, committing, commitVars>>

end_op(p) ==
    /\ mode = "run"
    /\ pc[p] = "op"
    /\ outstanding' = outstanding - 1
    /\ wrote' = [wrote EXCEPT ![p] = {}]
    /\ IF committing
       THEN mode' = "panic" /\ UNCHANGED <<committing, pc, phase, tail>>
       ELSE IF outstanding = 1
       THEN /\ committing' = TRUE
            /\ pc' = [pc EXCEPT ![p] = "commit"]
            /\ phase' = IF lh = <<>> THEN "finish" ELSE "write_log"
            /\ tail' = 0
            /\ UNCHANGED mode
       ELSE /\ pc' = [Wakeup(pc) EXCEPT ![p] = "user"]
            /\ UNCHANGED <<committing, phase, tail, mode>>
    /\ UNCHANGED <<diskVars, memVars, lh, held>>
-----------------------------------------------------------------------------
(* commit(), run by the process whose end_op() was the last.               *)

\* bwrite() of a home block: the buffer ends clean.
bwrite(b, v) ==
    /\ disk' = [disk EXCEPT ![b] = v]
    /\ cache' = [cache EXCEPT ![b] = v]
    /\ dirty' = dirty \ {b}

\* One turn of the loop.  Block log.start + tail + 1 is a block of the log only
\* below log.start + nlog.
write_log ==
    /\ mode = "run"
    /\ phase = "write_log"
    /\ tail < Len(lh)
    /\ IF tail + 1 < nlog
       THEN /\ ldata' = [ldata EXCEPT ![tail + 1] = cache[lh[tail + 1]]]
            /\ UNCHANGED <<disk, memVars>>
       ELSE bwrite(AfterLog, cache[lh[tail + 1]]) /\ UNCHANGED ldata
    /\ tail' = tail + 1
    /\ UNCHANGED <<hdr, logVars, procVars, phase, mode>>

\* Mutant: the header may reach the disk before the last log block.
write_head_early ==
    /\ mode = "run"
    /\ phase = "write_log"
    /\ tail + 1 >= Len(lh)
    /\ hdr' = lh
    /\ phase' = "install"
    /\ tail' = 0
    /\ UNCHANGED <<disk, ldata, memVars, logVars, procVars, mode>>

\* The first write_head() of commit(): the transaction commits here.
write_head ==
    /\ mode = "run"
    /\ phase = "write_log"
    /\ tail = Len(lh)
    /\ hdr' = lh
    /\ phase' = "install"
    /\ tail' = 0
    /\ UNCHANGED <<disk, ldata, memVars, logVars, procVars, mode>>

\* What bread(log.start + i) returns for the i-th data block of the log.
LogBlock(i) ==
    IF i < nlog THEN ldata[i]
    ELSE IF cache[AfterLog] = NotCached THEN disk[AfterLog] ELSE cache[AfterLog]

\* Mutant: the loop does not advance.
install_trans_stuck ==
    /\ mode # "panic"
    /\ phase = "install"
    /\ tail < Len(lh)
    /\ bwrite(lh[tail + 1], LogBlock(tail + 1))
    /\ UNCHANGED <<hdr, ldata, logVars, procVars, phase, mode, tail>>

\* One turn of install_trans(), in commit() and in recover_from_log().
install_trans ==
    /\ mode # "panic"
    /\ phase = "install"
    /\ tail < Len(lh)
    /\ bwrite(lh[tail + 1], LogBlock(tail + 1))
    /\ tail' = tail + 1
    /\ UNCHANGED <<hdr, ldata, logVars, procVars, phase, mode>>

\* log.lh.n = 0; write_head(): erases the transaction from the log.
clear_head ==
    /\ mode # "panic"
    /\ phase = "install"
    /\ tail = Len(lh)
    /\ lh' = <<>>
    /\ hdr' = <<>>
    /\ tail' = 0
    /\ phase' = IF mode = "run" THEN "finish" ELSE "idle"
    /\ mode' = "run"
    /\ UNCHANGED <<disk, ldata, memVars, outstanding, committing, procVars>>

\* Mutant: no wakeup(&log).
end_commit_no_wakeup(p) ==
    /\ mode = "run"
    /\ phase = "finish"
    /\ pc[p] = "commit"
    /\ committing' = FALSE
    /\ pc' = [pc EXCEPT ![p] = "user"]
    /\ phase' = "idle"
    /\ UNCHANGED <<diskVars, memVars, lh, outstanding, held, wrote, tail, mode>>

\* The end of end_op(), after commit().
end_commit(p) ==
    /\ mode = "run"
    /\ phase = "finish"
    /\ pc[p] = "commit"
    /\ committing' = FALSE
    /\ pc' = [Wakeup(pc) EXCEPT ![p] = "user"]
    /\ phase' = "idle"
    /\ UNCHANGED <<diskVars, memVars, lh, outstanding, held, wrote, tail, mode>>
-----------------------------------------------------------------------------
(* Crash and recovery.                                                     *)

\* Power fails, or the machine is restarted after a panic: memory is lost.
crash ==
    /\ cache' = [b \in Block |-> NotCached]
    /\ dirty' = {}
    /\ lh' = <<>>
    /\ outstanding' = 0
    /\ committing' = FALSE
    /\ pc' = [p \in Proc |-> "user"]
    /\ wrote' = [p \in Proc |-> {}]
    /\ phase' = "read_head"
    /\ tail' = 0
    /\ mode' = "recover"
    /\ held' = [p \in Proc |-> {}]
    /\ UNCHANGED diskVars

\* recover_from_log() starts: read_head().
read_head ==
    /\ mode = "recover"
    /\ phase = "read_head"
    /\ lh' = hdr
    /\ phase' = "install"
    /\ tail' = 0
    /\ UNCHANGED <<diskVars, memVars, outstanding, committing, procVars, mode>>

Commit == write_log \/ write_head \/ install_trans \/ clear_head
          \/ \E p \in Proc : end_commit(p)

Next ==
    \/ \E b \in Block : bread(b) \/ bget_recycle(b)
    \/ \E p \in Proc : begin_op(p) \/ log_write_check(p) \/ log_write(p) \/ end_op(p)
    \/ \E p \in Proc, b \in Block, v \in Val : modify(p, b, v)
    \/ Commit
    \/ read_head
    \/ crash

Spec == Init /\ [][Next]_vars

\* Every process that can run is scheduled, and every system call reaches its
\* end_op(): its loop over blocks is finite.
Fairness ==
    /\ WF_vars(read_head) /\ WF_vars(Commit)
    /\ \A p \in Proc : /\ WF_vars(begin_op(p)) /\ WF_vars(log_write_check(p))
                       /\ WF_vars(log_write(p)) /\ SF_vars(end_op(p))

FairSpec == Spec /\ Fairness
-----------------------------------------------------------------------------
(* Properties.                                                             *)

\* Every variable of the log has its type.
TypeOK ==
    /\ disk \in [Block -> Val]
    /\ hdr \in Seq(Block)
    /\ ldata \in [1..(nlog - 1) -> Val]
    /\ cache \in [Block -> Val \cup {NotCached}]
    /\ dirty \subseteq Block
    /\ lh \in Seq(Block)
    /\ outstanding \in Nat
    /\ committing \in BOOLEAN
    /\ pc \in [Proc -> {"user", "sleeping", "woken", "commit"} \cup InOp]
    /\ held \in [Proc -> SUBSET Block]
    /\ wrote \in [Proc -> SUBSET Block]
    /\ phase \in {"read_head", "write_log", "install", "finish", "idle"}
    /\ tail \in Nat
    /\ mode \in {"recover", "run", "panic"}

\* log.lh.n never exceeds the LOGSIZE slots of log.lh.block, although
\* log_write() tests it before it takes log.lock: what begin_op() reserves is
\* enough for every operation that writes at most MAXOPBLOCKS blocks.
LogFits == Len(lh) <= LOGSIZE

\* The transaction fits the on-disk log: a header block and nlog-1 data blocks.
\* Past them, write_log() would write over the inode blocks that mkfs puts
\* right behind the log.
LogWithinRegion == Len(lh) <= nlog - 1

\* log_write() finds a slot for every block that is not in the log yet, which is
\* what begin_op() reserves slots for and why filewrite() writes "a few blocks
\* at a time to avoid exceeding the maximum log transaction size" (file.c:157).
SlotForEveryBlock ==
    \A p \in Proc : pc[p] = "modified" /\ held[p] \cap Logged = {} =>
        Len(lh) < LOGSIZE /\ Len(lh) < nlog - 1

\* No lost wakeup in begin_op(): a process sleeps on &log only while some other
\* process is inside an operation or committing and so will call wakeup(&log).
SleepersHaveWaker ==
    (\E p \in Proc : pc[p] = "sleeping") => committing \/ outstanding > 0

\* The durable image: the home blocks, overlaid by the committed log that
\* recover_from_log() would install.
Durable ==
    [b \in Block |-> IF \E i \in 1..Len(hdr) : hdr[i] = b
                     THEN ldata[CHOOSE i \in 1..Len(hdr) : hdr[i] = b]
                     ELSE disk[b]]

\* The image in memory: what bread() returns; before recovery has finished it
\* is the durable image.
View ==
    [b \in Block |-> IF mode = "recover" THEN Durable[b]
                     ELSE IF cache[b] = NotCached THEN disk[b] ELSE cache[b]]

Active == {p \in Proc : pc[p] \in InOp}

Atomic == INSTANCE AtomicDisk WITH durable <- Durable, view <- View, active <- Active

\* Crash atomicity: begin_op(), log_write(), end_op(), commit() and recovery
\* implement the atomic disk.  Whatever write the machine dies at, a reboot
\* finds every operation of a committed group, and nothing of any other.
CrashAtomic == Atomic!Spec

\* Every process that sleeps in begin_op() is woken again, unless log_write()
\* panics: it does when the log is full and a block is logged a second time,
\* which would need no slot.
SleepersWake ==
    \A p \in Proc : pc[p] = "sleeping" ~> pc[p] # "sleeping" \/ mode = "panic"
=============================================================================
