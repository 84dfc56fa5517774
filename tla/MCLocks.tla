------------------------------- MODULE MCLocks ------------------------------
(***************************************************************************)
(* Spinlocks and the buffer cache for TLC: those who wait by spinning and  *)
(* those who sleep.  They share no state, and a behaviour is of the one    *)
(* that kind names; the other stays as it starts.                          *)
(***************************************************************************)
EXTENDS Spinlock

VARIABLES kind,
  mru, blockno, valid, dirty, refcnt, busy, data, idequeue, cmd, irq, disk, at, buf, want, halted

cacheVars == <<mru, blockno, valid, dirty, refcnt, busy, data, idequeue, cmd, irq, disk, at, buf, want, halted>>

ASSUME SpinlockAssumption

\* Three processes share three blocks.
Cache == INSTANCE Bcache WITH Proc <- {"p1", "p2", "p3"}, NBUF <- 3, Block <- {"x", "y", "z"}, Val <- {"v"},
           None <- Nobody, MaxPinned <- 0, DiskFails <- FALSE, locked <- busy, pc <- at, panicked <- halted

MCInit == Init /\ Cache!Init /\ kind \in {"lock", "cache"}
MCNext ==
  \/ kind = "lock" /\ Next /\ UNCHANGED <<kind, cacheVars>>
  \/ kind = "cache" /\ Cache!Next /\ UNCHANGED <<kind, vars>>
\* The cache never gets stuck, so its fairness asks nothing of a behaviour of the locks.
MCSpec == MCInit /\ [][MCNext]_<<kind, vars, cacheVars>> /\ Cache!Fairness

\* bio.c, ide.c: every request to the driver ends.
RequestsEnd == Cache!RequestsEnd
=============================================================================
