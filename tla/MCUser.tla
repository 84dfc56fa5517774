------------------------------- MODULE MCUser -------------------------------
(***************************************************************************)
(* Processes and what their user deals with, for TLC: the process table,   *)
(* the allocator, the shell and the terminal.  They share no state, and a  *)
(* behaviour is of the one that kind names; the variables of the others    *)
(* stay at rest.                                                           *)
(***************************************************************************)
EXTENDS Proc

VARIABLES kind, heap, line, procs, failed, input, screen, disp, at, ilock, hist

shellVars == <<line, procs, failed>>
termVars == <<input, screen, disp, at, ilock, hist>>
partVars == <<heap, shellVars, termVars>>

Heap == INSTANCE Umalloc WITH NALLOC <- 4, Limit <- 16, Requests <- {1, 17, 60}

\* Pipelines, lists, blocks, background commands and redirections combined, and
\* lines that are refused.
S == INSTANCE Shell WITH Lines <- {}, MAXARGS <- 3, NOFILE <- 8, Failures <- TRUE
E(a) == S!Exec(<<a>>)
Line(t, m) == [text |-> t, meant |-> m]
MCLines == {
  Line(<<"a", "<", "x", "|", "b", ">", "y">>, S!Pipe(S!Redir(E("a"), "x", 0), S!Redir(E("b"), "y", 1))),
  Line(<<"a", "|", "b", "|", "c">>, S!Pipe(E("a"), S!Pipe(E("b"), E("c")))),
  Line(<<"(", "a", ";", "b", ")", "|", "c", ">", "x", "+", "y">>,
       S!Pipe(S!List(E("a"), E("b")), S!Redir(S!Redir(E("c"), "x", 1), "y", 1))),
  Line(<<"a", "&", ";", "b", "|", "c">>, S!List(S!Back(E("a")), S!Pipe(E("b"), E("c")))),
  Line(<<"a", "|", "(", "b", "&", ")", ";", "c">>, S!List(S!Pipe(E("a"), S!Back(E("b"))), E("c"))),
  Line(<<"+", "x", "a", "w">>, S!Redir(S!Exec(<<"a", "w">>), "x", 1)),
  Line(<<"a", "w", "w">>, S!Panic), Line(<<"a", "&", "b">>, S!Panic), Line(<<"(", "a", "|", "b">>, S!Panic),
  Line(<<"a", ">">>, S!Panic), Line(<<"a", "(", "b", ")">>, S!Panic), Line(<<"cd", "w">>, S!Panic)}
Shell == INSTANCE Shell WITH Lines <- MCLines, MAXARGS <- 3, NOFILE <- 8, Failures <- TRUE

\* A session beside a reader of lines, with every kind of key and a ring that
\* fills and wraps around; and two sessions that may overlap.
Input == INSTANCE Terminal WITH Drawers <- {"d"}, Readers <- {"s"}, Keys <- {"a", "nl", "kill", "del", "eof"},
           MaxKeys <- 4, MaxPrints <- 0, Sizes <- {2}, MaxReads <- 2, INPUT_BUF <- 2, Wrap <- 4,
           Columns <- 2, Rows <- 2, Chunks <- 1, proc <- at
Display == INSTANCE Terminal WITH Drawers <- {"d", "f"}, Readers <- {}, Keys <- {"a", "nl"},
           MaxKeys <- 2, MaxPrints <- 1, Sizes <- {}, MaxReads <- 0, INPUT_BUF <- 2, Wrap <- 4,
           Columns <- 2, Rows <- 2, Chunks <- 2, proc <- at

NoHeap == heap = 0
NoShell == line = 0 /\ procs = <<>> /\ failed = FALSE
NoTerm == input = 0 /\ screen = 0 /\ disp = 0 /\ at = 0 /\ ilock = "free" /\ hist = 0
MCInit ==
  /\ Init
  /\ \/ kind = "table" /\ NoHeap /\ NoShell /\ NoTerm
     \/ kind = "heap" /\ Heap!Init /\ NoShell /\ NoTerm
     \/ kind = "shell" /\ NoHeap /\ Shell!Init /\ NoTerm
     \/ kind = "input" /\ NoHeap /\ NoShell /\ Input!Init
     \/ kind = "display" /\ NoHeap /\ NoShell /\ Display!Init

\* Nothing is left of what the bounds of the table or the terminal allow.
Over ==
  \/ kind = "table"
  \/ kind \in {"input", "display"} /\ \A p \in DOMAIN at : at[p].pc \in {"exit", "ilock"}
\* A step of the part that kind names.
Part ==
  \/ kind = "heap" /\ Heap!Next /\ UNCHANGED <<shellVars, termVars>>
  \/ kind = "shell" /\ Shell!Next /\ UNCHANGED <<heap, termVars>>
  \/ kind = "input" /\ Input!Next /\ UNCHANGED <<heap, shellVars>>
  \/ kind = "display" /\ Display!Next /\ UNCHANGED <<heap, shellVars>>
  \/ Over /\ UNCHANGED partVars
MCNext ==
  /\ UNCHANGED kind
  /\ \/ kind = "table" /\ Next /\ UNCHANGED partVars
     \/ Part /\ UNCHANGED vars
MCSpec == MCInit /\ [][MCNext]_<<kind, vars, partVars>>

\* The allocator's blocks tile what the kernel gave, with the free list in
\* address order and no two free blocks touching (umalloc.c).
HeapSound == kind = "heap" => Heap!HeapSound
\* Every program the shell starts is wired as its command line says (sh.c).
Wired == kind = "shell" => Shell!Wired
\* ";" and the prompt wait for the foreground programs before them (sh.c).
Ordered == kind = "shell" => Shell!Ordered
\* No pipeline hangs on a pipe end the shell's processes keep open (sh.c).
NoStandoff == kind = "shell" => Shell!NoStandoff
\* Readers get what was typed, edited and finished, in order, and none sleeps
\* while there is some (console.c).
InputInOrder == (kind = "input" => Input!InputInOrder) /\ (kind = "display" => Display!InputInOrder)
\* The text screen survives the drawing sessions (console.c, display.c).
ScreenKept == kind \in {"input", "display"} => Input!ScreenKept
\* Sessions give the terminal back as they found it (aidraw.c, display.c, vga.c).
SessionRestores == /\ kind = "input" => Input!SessionRestores
                   /\ kind = "display" => Display!SessionRestores
=============================================================================
