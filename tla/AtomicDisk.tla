----------------------------- MODULE AtomicDisk -----------------------------
(***************************************************************************)
(* What the logging layer promises the file system: blocks change in       *)
(* memory one write at a time, but the durable image only ever moves, in   *)
(* one step, to a memory image in which no operation is half done, and a   *)
(* crash brings memory back to that durable image.                         *)
(***************************************************************************)
CONSTANTS Proc, Block, Val

VARIABLES
    durable,   \* the image a reboot would find, after recovery
    view,      \* the image the file system reads through the buffer cache
    active     \* processes between begin_op() and end_op()

vars == <<durable, view, active>>

Init ==
    /\ durable \in [Block -> Val]
    /\ view = durable
    /\ active = {}

Begin(p) ==
    /\ p \notin active
    /\ active' = active \cup {p}
    /\ UNCHANGED <<durable, view>>

Write(p, b, v) ==
    /\ p \in active
    /\ view' = [view EXCEPT ![b] = v]
    /\ UNCHANGED <<durable, active>>

End(p) ==
    /\ p \in active
    /\ active' = active \ {p}
    /\ UNCHANGED <<durable, view>>

Commit ==
    /\ active = {}
    /\ durable' = view
    /\ UNCHANGED <<view, active>>

Crash ==
    /\ view' = durable
    /\ active' = {}
    /\ UNCHANGED durable

Next ==
    \/ \E p \in Proc : Begin(p) \/ End(p)
    \/ \E p \in Proc, b \in Block, v \in Val : Write(p, b, v)
    \/ Commit
    \/ Crash

Spec == Init /\ [][Next]_vars
=============================================================================
