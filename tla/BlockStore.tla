----------------------------- MODULE BlockStore -----------------------------
(***************************************************************************)
(* What bio.c promises its callers: every block has one current value and  *)
(* at most one process at a time works on it.  bread() takes the block,    *)
(* brelse() gives it up, and whatever the owner wrote is what the next     *)
(* owner finds.                                                            *)
(***************************************************************************)
CONSTANTS Proc, Block, Val, Nobody

VARIABLES
    content,   \* the current value of each block
    owner      \* the process that has the block, or Nobody

vars == <<content, owner>>

Init ==
    /\ content \in [Block -> Val]
    /\ owner = [b \in Block |-> Nobody]

Acquire(p, b) ==
    /\ owner[b] = Nobody
    /\ owner' = [owner EXCEPT ![b] = p]
    /\ UNCHANGED content

Write(p, b, v) ==
    /\ owner[b] = p
    /\ content' = [content EXCEPT ![b] = v]
    /\ UNCHANGED owner

Release(p, b) ==
    /\ owner[b] = p
    /\ owner' = [owner EXCEPT ![b] = Nobody]
    /\ UNCHANGED content

Next ==
    \E p \in Proc, b \in Block :
        \/ Acquire(p, b)
        \/ Release(p, b)
        \/ \E v \in Val : Write(p, b, v)

Spec == Init /\ [][Next]_vars
=============================================================================
