----------------------------- MODULE ByteQueue ------------------------------
(***************************************************************************)
(* What a pipe promises: a bounded queue of bytes.  Every writer's bytes   *)
(* enter it in order, none twice and none skipped, though those of several *)
(* writers may alternate; a reader takes a prefix of what is there.        *)
(***************************************************************************)
EXTENDS Naturals, Sequences

CONSTANTS Proc, Byte, Cap

VARIABLES
    q,        \* the bytes in the queue
    todo,     \* the bytes each writer has still to write
    out       \* the bytes each reader was given last

vars == <<q, todo, out>>

Init ==
    /\ q = <<>>
    /\ todo = [p \in Proc |-> <<>>]
    /\ out = [p \in Proc |-> <<>>]

\* A writer comes with bytes, or gives up on those it has left.
Offer(p) ==
    /\ todo'[p] \in Seq(Byte)
    /\ todo' = [todo EXCEPT ![p] = todo'[p]]
    /\ UNCHANGED <<q, out>>

Drop(p) ==
    /\ todo' = [todo EXCEPT ![p] = <<>>]
    /\ UNCHANGED <<q, out>>

\* Writing k bytes; the rest may be dropped at once.
Put(p) ==
    \E k \in 1..Cap :
        /\ k <= Len(todo[p])
        /\ Len(q) + k <= Cap
        /\ q' = q \o SubSeq(todo[p], 1, k)
        /\ \/ todo' = [todo EXCEPT ![p] = SubSeq(@, k + 1, Len(@))]
           \/ todo' = [todo EXCEPT ![p] = <<>>]
        /\ UNCHANGED out

\* Reading k bytes, none when the queue is at its end.
Get(p) ==
    \E k \in 0..Len(q) :
        /\ (k = 0) => (q = <<>>)
        /\ out' = [out EXCEPT ![p] = SubSeq(q, 1, k)]
        /\ q' = SubSeq(q, k + 1, Len(q))
        /\ UNCHANGED todo

Next == \E p \in Proc : Offer(p) \/ Drop(p) \/ Put(p) \/ Get(p)

Spec == Init /\ [][Next]_vars
=============================================================================
