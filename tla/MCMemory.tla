------------------------------ MODULE MCMemory ------------------------------
(***************************************************************************)
(* What a process is made of, for TLC: its memory and its entry in the     *)
(* process table.  The two models share no state, and a behaviour is of    *)
(* the one that kind names; the other stays as it starts.                  *)
(***************************************************************************)
EXTENDS Vm

VARIABLES kind, state, pid, parent, killed, chan, nextpid, pc, child, panicked

tableVars == <<state, pid, parent, killed, chan, nextpid, pc, child, panicked>>

\* Programs of one or two segments: good ones, one that is not aligned, one whose
\* file part is longer than its memory, and one with a file that is too short.
Seg(v, m, f) == [vaddr |-> v, memsz |-> m, filesz |-> f, cut |-> FALSE]
MCPrograms == {<<Seg(4, 3, 3)>>, <<Seg(4, 6, 5), Seg(16, 2, 2)>>, <<Seg(4, 3, 3), Seg(9, 2, 2)>>,
               <<Seg(4, 6, 5), Seg(12, 2, 3)>>, <<[Seg(4, 6, 6) EXCEPT !.cut = TRUE]>>}
MCStrings == {<<1>>, <<2>>, <<18>>}
MCGrow == {-9, -6, 3, 30}

\* Three slots on two processors, each reused.
Table == INSTANCE Proc WITH NPROC <- 3, NCPU <- 2, MaxPid <- 4, KillZero <- FALSE

\* No process runs.
NoTable ==
  /\ state = [s \in 1..3 |-> "UNUSED"] /\ pid = [s \in 1..3 |-> 0] /\ parent = [s \in 1..3 |-> 0]
  /\ killed = {} /\ chan = [s \in 1..3 |-> 0] /\ nextpid = 1 /\ pc = [s \in 1..3 |-> "user"]
  /\ child = [s \in 1..3 |-> 0] /\ panicked = FALSE
MCInit ==
  /\ Init
  /\ \/ kind = "memory" /\ NoTable
     \/ kind = "table" /\ Table!Init
\* The table may stop, once it has had MaxPid processes.
Idle == kind = "table" /\ UNCHANGED <<kind, vars, tableVars>>
MCNext ==
  \/ kind = "memory" /\ Next /\ UNCHANGED <<kind, tableVars>>
  \/ kind = "table" /\ Table!Next /\ UNCHANGED <<kind, vars>>
  \/ Idle
MCSpec == MCInit /\ [][MCNext]_<<kind, vars, tableVars>> /\ Table!Fairness

\* proc.c: a killed process exits.
KilledExits == Table!KilledExits

\* proc.c: an orphan that has exited is freed.
OrphansFreed == Table!OrphansFreed
=============================================================================
