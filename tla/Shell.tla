------------------------------- MODULE Shell -------------------------------
(***************************************************************************)
(* The shell (sh.c): a command line is parsed by recursive descent into a  *)
(* tree, and runcmd() carries the tree out with fork, pipe, dup, close,    *)
(* open, exec and wait in several processes.                               *)
(*                                                                         *)
(* A command line is a sequence of tokens, "+" standing for >>; spaces and *)
(* the characters of words are left out.  A process is named after the     *)
(* node of the tree it was forked for: the children of node k are 2k and   *)
(* 2k + 1; the shell is 1.  A descriptor's object is a pair: a file, or an *)
(* end of the pipe of a node.                                              *)
(***************************************************************************)
EXTENDS Integers, Sequences, FiniteSets, SequencesExt, FiniteSetsExt

CONSTANTS Lines,     \* [text |-> tokens, meant |-> the tree the user has in mind]
          MAXARGS,
          NOFILE,    \* descriptors of a process
          Failures   \* whether fork(), pipe(), open() and exec() may fail

VARIABLES line, procs,
          failed     \* history: some fork() failed

vars == <<line, procs, failed>>

Symbols == {"<", "|", ">", "+", "&", ";", "(", ")"}
Exec(argv) == [type |-> "EXEC", argv |-> argv]
Redir(c, file, fd) == [type |-> "REDIR", cmd |-> c, file |-> file, fd |-> fd]
Pipe(l, r) == [type |-> "PIPE", left |-> l, right |-> r]
List(l, r) == [type |-> "LIST", left |-> l, right |-> r]
Back(c) == [type |-> "BACK", cmd |-> c]
Panic == [type |-> "PANIC"]    \* the parser ended the process
-----------------------------------------------------------------------------
(* Parsing.  A parser takes tokens and returns a tree and the tokens left. *)

Res(c, ts) == [cmd |-> c, rest |-> ts]
Dead(r) == r.cmd = Panic
peek(ts, toks) == ts # <<>> /\ Head(ts) \in toks

RECURSIVE parseredirs(_, _)
parseredirs(cmd, ts) ==
  IF ~peek(ts, {"<", ">", "+"}) THEN Res(cmd, ts)
  ELSE IF Len(ts) < 2 \/ ts[2] \in Symbols THEN Res(Panic, ts)
  ELSE parseredirs(Redir(cmd, ts[2], IF ts[1] = "<" THEN 0 ELSE 1), SubSeq(ts, 3, Len(ts)))

\* argv is filled in while redirections already wrap the command.
RECURSIVE WithArg(_, _)
WithArg(c, w) == IF c.type = "EXEC" THEN Exec(Append(c.argv, w)) ELSE Redir(WithArg(c.cmd, w), c.file, c.fd)
RECURSIVE Args(_, _)
Args(r, argc) ==
  IF Dead(r) \/ r.rest = <<>> \/ peek(r.rest, {"|", ")", "&", ";"}) THEN r
  ELSE IF Head(r.rest) \in Symbols \/ argc + 1 >= MAXARGS THEN Res(Panic, r.rest)
  ELSE Args(parseredirs(WithArg(r.cmd, Head(r.rest)), Tail(r.rest)), argc + 1)

RECURSIVE parseline(_), parsepipe(_), parseback(_)
parseexec(ts) ==
  IF ~peek(ts, {"("}) THEN Args(parseredirs(Exec(<<>>), ts), 0)
  ELSE LET r == parseline(Tail(ts))    \* parseblock()
       IN  IF Dead(r) \/ ~peek(r.rest, {")"}) THEN Res(Panic, ts) ELSE parseredirs(r.cmd, Tail(r.rest))
parsepipe(ts) ==
  LET l == parseexec(ts)
  IN  IF Dead(l) \/ ~peek(l.rest, {"|"}) THEN l
      ELSE LET r == parsepipe(Tail(l.rest)) IN IF Dead(r) THEN r ELSE Res(Pipe(l.cmd, r.cmd), r.rest)
parseback(r) == IF ~Dead(r) /\ peek(r.rest, {"&"}) THEN parseback(Res(Back(r.cmd), Tail(r.rest))) ELSE r
parseline(ts) ==
  LET l == parseback(parsepipe(ts))
  IN  IF Dead(l) \/ ~peek(l.rest, {";"}) THEN l
      ELSE LET r == parseline(Tail(l.rest)) IN IF Dead(r) THEN r ELSE Res(List(l.cmd, r.cmd), r.rest)
parsecmd(ts) == LET r == parseline(ts) IN IF r.rest # <<>> THEN Panic ELSE r.cmd
-----------------------------------------------------------------------------
(* runcmd(c) as the system calls it makes, in order; k is the node of c.   *)
(* Descriptors -1 and -2 are p[0] and p[1] of the process's pipe.          *)

Op(o, n) == [op |-> o, n |-> n]
ForkOp(n, code) == [op |-> "fork", n |-> n, code |-> code]
\* Mutant: dup() comes before close().
Onto_late(fd, end) == <<Op("dup", end), Op("close", fd), Op("close", -1), Op("close", -2)>>
Onto(fd, end) == <<Op("close", fd), Op("dup", end), Op("close", -1), Op("close", -2)>>
\* Mutant: the parent keeps the write end.
Hangup_reader == <<Op("close", -1)>>
Hangup == <<Op("close", -1), Op("close", -2)>>
\* Mutant: nobody waits for the first command.
Await_none == <<>>
Await == <<Op("wait", 0)>>

RECURSIVE runcmd(_, _)
runcmd(c, k) ==
  CASE c.type = "PANIC" -> <<Op("exit", 0)>>
    [] c.type = "EXEC" -> IF c.argv = <<>> THEN <<Op("exit", 0)>>
                          ELSE <<[op |-> "exec", n |-> 0, prog |-> c.argv[1]], Op("exit", 0)>>
    [] c.type = "REDIR" -> <<Op("close", c.fd), [op |-> "open", n |-> 0, file |-> c.file]>> \o runcmd(c.cmd, k)
    [] c.type = "LIST" -> <<ForkOp(2 * k, runcmd(c.left, 2 * k))>> \o Await \o runcmd(c.right, 2 * k + 1)
    [] c.type = "PIPE" ->
         <<Op("pipe", k), ForkOp(2 * k, Onto(1, -2) \o runcmd(c.left, 2 * k)),
           ForkOp(2 * k + 1, Onto(0, -1) \o runcmd(c.right, 2 * k + 1))>>
           \o Hangup \o <<Op("wait", 0), Op("wait", 0), Op("exit", 0)>>
    [] c.type = "BACK" -> <<ForkOp(2 * k, runcmd(c.cmd, 2 * k)), Op("exit", 0)>>
-----------------------------------------------------------------------------
(* The processes.                                                          *)

Shut == <<"closed", 0>>
Console == <<"dev", 1>>
\* main(): cd is the shell's own affair; any other line is run by a child.
main(ts) ==
  IF peek(ts, {"cd"}) THEN <<>> ELSE <<ForkOp(2, runcmd(parsecmd(ts), 2)), Op("wait", 0)>>
\* init opens console three times and display once; the shell's first loop finds
\* three descriptors open and closes what it opened.
Init ==
  /\ line \in Lines
  /\ procs = [k \in {1} |-> [code |-> main(line.text),
                             fd |-> [n \in 0..(NOFILE - 1) |-> IF n < 3 THEN Console ELSE IF n = 3 THEN <<"dev", 2>> ELSE Shut],
                             p |-> <<0, 0>>, parent |-> 0, prog |-> ""]]
  /\ failed = FALSE

Zombie(t) == procs[t].prog = "zombie"
Children(t) == {c \in DOMAIN procs : procs[c].parent = t}
Free(f) == {n \in DOMAIN f : f[n] = Shut}
Fd(t, n) == IF n < 0 THEN procs[t].p[-n] ELSE n
Held(o) == \E t \in DOMAIN procs : ~Zombie(t) /\ \E n \in 0..(NOFILE - 1) : procs[t].fd[n] = o

\* exit(): descriptors close, zombies it leaves are reaped by init.
exit(t) ==
  procs' = [u \in DOMAIN procs \ ({c \in Children(t) : Zombie(c)} \cup IF procs[t].parent = 0 THEN {t} ELSE {}) |->
              IF u = t THEN [procs[t] EXCEPT !.prog = "zombie", !.code = <<>>, !.fd = [n \in DOMAIN @ |-> Shut]]
              ELSE IF procs[u].parent = t THEN [procs[u] EXCEPT !.parent = 0] ELSE procs[u]]

Do(t, q) == procs' = [procs EXCEPT ![t] = [q EXCEPT !.code = Tail(@)]]

\* The next call of process t succeeds, or has no way to fail.
Call(t) ==
  LET q == procs[t]
      o == Head(q.code)
      low == Min(Free(q.fd))
  IN /\ q.prog = "" /\ q.code # <<>>
     /\ \/ o.op = "close" /\ Do(t, [q EXCEPT !.fd[Fd(t, o.n)] = Shut])
        \/ o.op = "dup" /\ Do(t, [q EXCEPT !.fd[low] = q.fd[Fd(t, o.n)]])
        \/ o.op = "open" /\ Do(t, [q EXCEPT !.fd[low] = <<"file", o.file>>])
        \/ /\ o.op = "pipe"
           /\ LET high == Min(Free(q.fd) \ {low})
              IN  Do(t, [q EXCEPT !.fd[low] = <<"r", o.n>>, !.fd[high] = <<"w", o.n>>, !.p = <<low, high>>])
        \/ /\ o.op = "fork"
           /\ procs' = [u \in DOMAIN procs \cup {o.n} |->
                          IF u = o.n THEN [q EXCEPT !.code = o.code, !.parent = t]
                          ELSE IF u = t THEN [q EXCEPT !.code = Tail(@)] ELSE procs[u]]
        \/ /\ o.op = "wait"
           /\ \/ Children(t) = {} /\ Do(t, q)
              \/ \E c \in {d \in Children(t) : Zombie(d)} :
                   procs' = [u \in DOMAIN procs \ {c} |-> IF u = t THEN [q EXCEPT !.code = Tail(@)] ELSE procs[u]]
        \/ o.op = "exec" /\ Do(t, [q EXCEPT !.prog = o.prog])
        \/ o.op = "exit" /\ exit(t)
     /\ UNCHANGED <<line, failed>>

\* It fails: a failed exec() goes on, the others end the process.
Fail(t) ==
  /\ Failures
  /\ procs[t].prog = "" /\ procs[t].code # <<>>
  /\ LET o == Head(procs[t].code) IN
       /\ \/ o.op \in {"open", "pipe", "fork"} /\ exit(t)
          \/ o.op = "exec" /\ Do(t, procs[t])
       /\ failed' = (failed \/ o.op = "fork")
  /\ UNCHANGED line

\* A program reads its input to the end and writes more than a pipe holds: it
\* ends when the writers of its input have, and its output is read or unreadable.
Finishes(t) ==
  LET in == procs[t].fd[0]
      out == procs[t].fd[1]
  IN  /\ in[1] = "r" => ~Held(<<"w", in[2]>>)
      /\ out[1] = "w" => \/ ~Held(<<"r", out[2]>>)
                         \/ \E u \in DOMAIN procs : procs[u].prog # "" /\ procs[u].fd[0] = <<"r", out[2]>>
Running(t) == procs[t].prog \notin {"", "zombie"}
End(t) == Running(t) /\ Finishes(t) /\ exit(t) /\ UNCHANGED <<line, failed>>

\* Back at the prompt with nothing left running, or gone after a failed fork().
Quiet == \A t \in DOMAIN procs : t = 1 /\ procs[1].code = <<>>
Stopped == Quiet /\ UNCHANGED vars

Next == (\E t \in DOMAIN procs : Call(t) \/ Fail(t) \/ End(t)) \/ Stopped
Spec == Init /\ [][Next]_vars
-----------------------------------------------------------------------------
(* What the command line means.                                            *)

\* The programs of a tree with their input and output.  Of two redirections of
\* the same descriptor the first on the line counts.
RECURSIVE Wiring(_, _, _, _)
Wiring(c, k, in, out) ==
  CASE c.type = "PANIC" \/ (c.type = "EXEC" /\ c.argv = <<>>) -> {}
    [] c.type = "EXEC" /\ c.argv # <<>> -> {<<c.argv[1], in, out>>}
    [] c.type = "REDIR" -> IF c.fd = 0 THEN Wiring(c.cmd, k, <<"file", c.file>>, out)
                           ELSE Wiring(c.cmd, k, in, <<"file", c.file>>)
    [] c.type = "BACK" -> Wiring(c.cmd, 2 * k, in, out)
    [] c.type = "LIST" -> Wiring(c.left, 2 * k, in, out) \cup Wiring(c.right, 2 * k + 1, in, out)
    [] c.type = "PIPE" -> Wiring(c.left, 2 * k, in, <<"w", k>>) \cup Wiring(c.right, 2 * k + 1, <<"r", k>>, out)

\* Every program that runs is one of the command line, with the input and output
\* the line gives it, the console as standard error, and no other descriptor of
\* the shell's plumbing open.
Wired ==
  \A t \in DOMAIN procs : Running(t) =>
    /\ <<procs[t].prog, procs[t].fd[0], procs[t].fd[1]>> \in Wiring(line.meant, 2, Console, Console)
    /\ procs[t].fd[2] = Console
    /\ \A n \in 4..(NOFILE - 1) : procs[t].fd[n] = Shut

Programs(c) == {w[1] : w \in Wiring(c, 2, Console, Console)}
\* The programs of a tree that are not in the background.
RECURSIVE Foreground(_)
Foreground(c) ==
  CASE c.type \in {"PANIC", "BACK"} -> {}
    [] c.type = "EXEC" -> Programs(c)
    [] c.type = "REDIR" -> Foreground(c.cmd)
    [] OTHER -> Foreground(c.left) \cup Foreground(c.right)
RECURSIVE Before(_)
Before(c) ==
  CASE c.type \in {"PANIC", "EXEC"} -> {}
    [] c.type \in {"BACK", "REDIR"} -> Before(c.cmd)
    [] OTHER -> Before(c.left) \cup Before(c.right)
                  \cup IF c.type = "LIST" THEN Foreground(c.left) \X Programs(c.right) ELSE {}
Runs(a) == \E t \in DOMAIN procs : procs[t].prog = a
\* A command after ";" starts, and the prompt comes back, only when every
\* foreground program before it has ended, unless a fork() failed.
Ordered ==
  failed \/ /\ \A w \in Before(line.meant) : ~(Runs(w[1]) /\ Runs(w[2]))
            /\ procs[1].code = <<>> => \A a \in Foreground(line.meant) : ~Runs(a)

CanGo(t) ==
  \/ Running(t) /\ Finishes(t)
  \/ /\ procs[t].prog = "" /\ procs[t].code # <<>>
     /\ Head(procs[t].code).op = "wait" => Children(t) = {} \/ \E c \in Children(t) : Zombie(c)
\* Until the prompt is back and the last program has ended some process can go
\* on: no reader waits for a write end that is held open by a process waiting
\* for that reader.  As every step uses up a call, the prompt does come back.
NoStandoff == Quiet \/ \E t \in DOMAIN procs : CanGo(t)
=============================================================================
