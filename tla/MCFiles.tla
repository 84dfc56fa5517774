------------------------------- MODULE MCFiles ------------------------------
(***************************************************************************)
(* What is behind a file descriptor, for TLC: a pipe, or the file system   *)
(* calls and their tables.  The two models share no state, and a behaviour *)
(* is of the one that kind names; the other stays at rest.                 *)
(***************************************************************************)
EXTENDS Pipe, TLC

VARIABLES kind, dinode, dirs, bitmap, icache, ftable, pipes, proc, panic, odd

fsVars == <<dinode, dirs, bitmap, icache, ftable, pipes, proc, panic, odd>>

\* The constants are the pipe's: two writers of up to three bytes and a reader;
\* the counters wrap around.
ASSUME PipeAssumption

\* Two processes and three calls over a disk of five inodes and eight blocks.
A == [abs |-> TRUE, elems |-> <<"a">>]
D == [abs |-> TRUE, elems |-> <<"d">>]
DA == [abs |-> TRUE, elems |-> <<"d", "a">>]
Up == [abs |-> FALSE, elems |-> <<"..", "a">>]
MCMenu == {[op |-> "link", path |-> A, new |-> DA], [op |-> "mkdir", path |-> DA], [op |-> "mknod", path |-> A],
           [op |-> "create", path |-> DA], [op |-> "read", path |-> Up], [op |-> "write", path |-> A],
           [op |-> "chdir", path |-> D]}
            \cup {[op |-> "unlink", path |-> x] : x \in {A, D, DA}}
Fs == INSTANCE Fs WITH Procs <- Writer, data <- dirs, NINODE <- 6, NInodes <- 5, NBlocks <- 8, NFILE <- 3,
        NOFILE <- 2, NDIRECT <- 1, MAXFILE <- 2, Names <- {"a", "d"}, Menu <- MCMenu, MaxCalls <- 3

NoFs == dinode = 0 /\ dirs = 0 /\ bitmap = 0 /\ icache = 0 /\ ftable = 0 /\ pipes = 0 /\ proc = 0 /\ panic = 0 /\ odd = 0
MCInit ==
  /\ Init
  /\ \/ kind = "pipe" /\ NoFs
     \/ kind = "fs" /\ Fs!Init

\* A pipe may stop: a writer or a reader whose peer does nothing sleeps.
Idle == kind = "pipe" /\ UNCHANGED <<kind, vars, fsVars>>

MCNext ==
  \/ kind = "pipe" /\ Next /\ UNCHANGED <<kind, fsVars>>
  \/ kind = "fs" /\ Fs!Next /\ UNCHANGED <<kind, vars>>
  \/ Idle

MCSpec == MCInit /\ [][MCNext]_<<kind, vars, fsVars>>
Symmetry == Permutations(Writer)

\* fs.c, file.c: reference counts of inodes and files count the references.
RefsCounted == kind = "fs" => Fs!RefsCounted

\* sysfile.c: nlink counts the directory entries once no call is under way.
LinksCounted == kind = "fs" => Fs!LinksCounted

\* fs.c: iput() frees no inode that a process still works on, and the kernel does
\* not panic over its own consistency.
HeldNotFreed == kind = "fs" => Fs!HeldNotFreed

\* fs.c: a block has one owner or is free in the bitmap.
BlocksOwned == kind = "fs" => Fs!BlocksOwned
=============================================================================
