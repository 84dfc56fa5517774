-------------------------------- MODULE Pipe --------------------------------
(***************************************************************************)
(* pipe.c: a ring of PIPESIZE bytes with free-running unsigned counters,   *)
(* between processes that hold its write end and processes that hold its   *)
(* read end.  An action is what a process does between acquire(&p->lock)   *)
(* and the next release() or sleep(); kill() needs no pipe lock and may    *)
(* come between the test of proc->killed and the sleep.                    *)
(***************************************************************************)
EXTENDS Naturals, Sequences, FiniteSets, FiniteSetsExt

CONSTANTS
    Writer, Reader,   \* the processes at each end
    PIPESIZE,
    Wrap,             \* 2^32: where the counters wrap around
    Byte,
    MaxN,             \* bound on the length of one write or read
    MaxCalls,         \* bound on the calls of pipewrite() of one process
    Nobody

PipeAssumption ==
    /\ PIPESIZE \in Nat \ {0} /\ Wrap \in Nat /\ Wrap > PIPESIZE /\ Wrap % PIPESIZE = 0
    /\ MaxN \in Nat \ {0} /\ MaxCalls \in Nat
    /\ Writer # {} /\ Reader # {} /\ Byte # {}
    /\ Writer \cap Reader = {} /\ Nobody \notin Writer \cup Reader

Proc == Writer \cup Reader

VARIABLES
    nread, nwrite, data, readopen, writeopen,
    freed,      \* the page of the pipe was given back
    lock,       \* who holds p->lock across the steps of the model
    holders,    \* processes with a descriptor of their end: f->ref
    pc,         \* idle, enter (about to acquire the lock), tosleep, sleep
    addr,       \* what a writer has still to write
    want,       \* how much a reader asked for
    ret,        \* what the last call of a reader returned
    killed, calls

pipeVars == <<nread, nwrite, data, readopen, writeopen, freed>>
vars == <<nread, nwrite, data, readopen, writeopen, freed,
          lock, holders, pc, addr, want, ret, killed, calls>>

Init ==
    /\ nread = 0 /\ nwrite = 0
    /\ data \in [0..(PIPESIZE - 1) -> {CHOOSE b \in Byte : TRUE}]
    /\ readopen = TRUE /\ writeopen = TRUE /\ freed = FALSE
    /\ lock = Nobody
    /\ holders = Proc
    /\ pc = [p \in Proc |-> "idle"]
    /\ addr = [p \in Proc |-> <<>>]
    /\ want = [p \in Proc |-> 0]
    /\ ret = [p \in Proc |-> <<>>]
    /\ killed = [p \in Proc |-> FALSE]
    /\ calls = [p \in Proc |-> 0]

uint(n) == n % Wrap
Used == uint(nwrite + Wrap - nread)
IsEmpty == nread = nwrite

IsFull == nwrite = uint(nread + PIPESIZE)

\* How far the loop of pipewrite() gets before IsFull.
Room == PIPESIZE - Used

\* Mutant: every write starts at the first slot.
Slot_first(m) == (m - 1) % PIPESIZE

\* Where the m-th byte of a write goes.
Slot(m) == uint(nwrite + m - 1) % PIPESIZE

\* wakeup() of the sleepers of one end, as seen by pc.
Woken(end, f) == [p \in Proc |-> IF p \in end /\ f[p] = "sleep" THEN "enter" ELSE f[p]]
-----------------------------------------------------------------------------
\* A process calls write() or read() on its descriptor.
sys_write(p) ==
    /\ p \in Writer \cap holders
    /\ pc[p] = "idle" /\ ~killed[p]
    /\ calls[p] < MaxCalls
    /\ calls' = [calls EXCEPT ![p] = @ + 1]
    /\ \E s \in UNION {[1..n -> Byte] : n \in 1..MaxN} : addr' = [addr EXCEPT ![p] = s]
    /\ pc' = [pc EXCEPT ![p] = "enter"]
    /\ UNCHANGED <<pipeVars, lock, holders, want, ret, killed>>

sys_read(p) ==
    /\ p \in Reader \cap holders
    /\ pc[p] = "idle" /\ ~killed[p]
    /\ \E n \in 1..MaxN : want' = [want EXCEPT ![p] = n]
    /\ pc' = [pc EXCEPT ![p] = "enter"]
    /\ UNCHANGED <<pipeVars, lock, holders, addr, ret, killed, calls>>

\* The readers are woken when the ring is full ...
WakeFromFull(f) == Woken(Reader, f)

\* Mutant: the write that ends leaves the readers asleep.
WakeFromWrite_nobody(f) == f

\* ... and when the write is over.
WakeFromWrite(f) == Woken(Reader, f)

\* Waiting for room is in vain.
Hopeless(p) == ~readopen \/ killed[p]

\* The loop of pipewrite() until the bytes are out or the ring is full.
pipewrite(p) ==
    /\ p \in Writer
    /\ pc[p] = "enter"
    /\ lock = Nobody
    /\ LET n == Len(addr[p])
           k == Min({n, Room})
       IN /\ data' = [j \in DOMAIN data |->
                         IF \E m \in 1..k : Slot(m) = j
                         THEN addr[p][CHOOSE m \in 1..k : Slot(m) = j]
                         ELSE data[j]]
          /\ nwrite' = uint(nwrite + k)
          /\ IF k = n
             THEN /\ pc' = [WakeFromWrite(pc) EXCEPT ![p] = "idle"]
                  /\ addr' = [addr EXCEPT ![p] = <<>>]
                  /\ UNCHANGED lock
             ELSE IF Hopeless(p)
             THEN /\ pc' = [pc EXCEPT ![p] = "idle"]
                  /\ addr' = [addr EXCEPT ![p] = <<>>]
                  /\ UNCHANGED lock
             ELSE /\ pc' = [WakeFromFull(pc) EXCEPT ![p] = "tosleep"]
                  /\ addr' = [addr EXCEPT ![p] = SubSeq(@, k + 1, n)]
                  /\ lock' = p
    /\ UNCHANGED <<nread, readopen, writeopen, freed, holders, want, ret, killed, calls>>

\* What a reader waits for.
MustWait == IsEmpty /\ writeopen

WakeFromRead(f) == Woken(Writer, f)

\* piperead() finds nothing and gives up or goes to sleep, or takes what is there.
piperead(p) ==
    /\ p \in Reader
    /\ pc[p] = "enter"
    /\ lock = Nobody
    /\ IF MustWait
       THEN /\ IF killed[p]
               THEN pc' = [pc EXCEPT ![p] = "idle"] /\ UNCHANGED lock
               ELSE pc' = [pc EXCEPT ![p] = "tosleep"] /\ lock' = p
            /\ UNCHANGED <<nread, ret>>
       ELSE LET k == Min({want[p], Used}) IN
            /\ ret' = [ret EXCEPT ![p] = [i \in 1..k |-> data[uint(nread + i - 1) % PIPESIZE]]]
            /\ nread' = uint(nread + k)
            /\ pc' = [WakeFromRead(pc) EXCEPT ![p] = "idle"]
            /\ UNCHANGED lock
    /\ UNCHANGED <<nwrite, data, readopen, writeopen, freed, holders, addr, want, killed, calls>>

\* sleep(&p->nread or &p->nwrite, &p->lock)
sleep(p) ==
    /\ pc[p] = "tosleep"
    /\ lock' = Nobody
    /\ pc' = [pc EXCEPT ![p] = "sleep"]
    /\ UNCHANGED <<pipeVars, holders, addr, want, ret, killed, calls>>

\* kill(): a sleeping process is woken.
kill(p) ==
    /\ ~killed[p]
    /\ killed' = [killed EXCEPT ![p] = TRUE]
    /\ pc' = Woken({p}, pc)
    /\ UNCHANGED <<pipeVars, lock, holders, addr, want, ret, calls>>

LastEnd(r, w) == ~r /\ ~w

WakeFromClose(end, f) == Woken(end, f)

\* fileclose(): the last descriptor of an end calls pipeclose().
close(p) ==
    /\ p \in holders
    /\ pc[p] = "idle"
    /\ lock = Nobody
    /\ holders' = holders \ {p}
    /\ IF p \in Writer
       THEN IF Writer \cap holders = {p}
            THEN /\ writeopen' = FALSE
                 /\ pc' = WakeFromClose(Reader, pc)
                 /\ freed' = (freed \/ LastEnd(readopen, FALSE))
                 /\ UNCHANGED readopen
            ELSE UNCHANGED <<readopen, writeopen, pc, freed>>
       ELSE IF Reader \cap holders = {p}
            THEN /\ readopen' = FALSE
                 /\ pc' = WakeFromClose(Writer, pc)
                 /\ freed' = (freed \/ LastEnd(FALSE, writeopen))
                 /\ UNCHANGED writeopen
            ELSE UNCHANGED <<readopen, writeopen, pc, freed>>
    /\ UNCHANGED <<nread, nwrite, data, lock, addr, want, ret, killed, calls>>

Next ==
    \E p \in Proc :
        \/ sys_write(p) \/ pipewrite(p)
        \/ sys_read(p) \/ piperead(p)
        \/ sleep(p) \/ kill(p) \/ close(p)

Spec == Init /\ [][Next]_vars
-----------------------------------------------------------------------------
(* Properties.                                                             *)

\* When p->lock is free a sleeper has something to wait for: a writer sleeps only
\* while there is no room and someone who could read, a reader only while someone
\* could write and there is nothing to read.  The one exception is what pipewrite() does when it
\* has filled the ring and finds its process killed: it returns without a wakeup.
SleepersMustWait ==
    lock = Nobody =>
        /\ \A p \in Writer : pc[p] = "sleep" => IsFull /\ readopen
        /\ \A p \in Reader : pc[p] = "sleep" =>
              writeopen /\ (IsEmpty \/ \E w \in Writer : killed[w])

\* The page of the pipe is given back exactly when no descriptor is left, so
\* no process in a call of the pipe uses a freed page.
FreedAtLastClose == freed <=> (holders = {})

\* Writers and readers never wait for each other: not even a killed writer's
\* silent return leaves both ends asleep, for the next writer wakes the readers.
NoStandoff ==
    ~ \E w \in Writer, r \in Reader : pc[w] = "sleep" /\ pc[r] = "sleep"

\* Nobody is left waiting for what has happened, or on a freed page.
EndsServed == NoStandoff /\ SleepersMustWait /\ FreedAtLastClose

\* The bytes in the ring, oldest first.
Bytes == [i \in 1..Used |-> data[uint(nread + i - 1) % PIPESIZE]]

Queue == INSTANCE ByteQueue WITH Cap <- PIPESIZE, q <- Bytes, todo <- addr, out <- ret

\* The pipe implements a bounded first-in first-out queue of bytes, for any
\* number of writers and readers and across the wrap of the counters.
IsQueue == Queue!Spec
=============================================================================
