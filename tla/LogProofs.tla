----------------------------- MODULE LogProofs ------------------------------
(***************************************************************************)
(* Proofs about Log, for every set of processes and blocks, every log size *)
(* and every number of crashes: types, the space bound of the log, the     *)
(* absence of lost wakeups in begin_op(), and crash atomicity.  All of     *)
(* them are for operations that keep to the MAXOPBLOCKS that param.h       *)
(* allows them (OpBlocks <= MAXOPBLOCKS) and for a log region that holds   *)
(* LOGSIZE blocks besides its header (LOGSIZE < nlog).                     *)
(***************************************************************************)
EXTENDS Log, FiniteSetTheorems, TLAPS

\* What commit() and recovery are doing, against the header block on disk.
PhaseInv ==
    /\ mode = "recover" => /\ phase \in {"read_head", "install"}
                           /\ ~committing /\ outstanding = 0 /\ dirty = {}
                           /\ \A p \in Proc : pc[p] = "user"
    /\ mode # "recover" =>
         /\ phase # "read_head"
         /\ committing <=> phase \in {"write_log", "install", "finish"}
         /\ phase = "idle" /\ outstanding = 0 => lh = <<>>
    /\ phase \in {"read_head", "finish"} => lh = <<>>
    /\ phase = "install" => lh = hdr
    /\ phase \in {"write_log", "finish", "idle"} => hdr = <<>>
    /\ phase \in {"write_log", "install"} => tail <= Len(lh)

\* What each process holds, has logged and is counted for.
ProcInv ==
    /\ outstanding = Cardinality(Active)
    /\ committing => Active = {}
    /\ \A p \in Proc : pc[p] = "commit" => committing
    /\ \A p, q \in Proc : pc[p] = "commit" /\ pc[q] = "commit" => p = q
    /\ \A p \in Proc : held[p] # {} => pc[p] \in {"modified", "checked"}
    /\ \A p \in Proc : pc[p] \in {"modified", "checked"} =>
         \E b \in Block : /\ held[p] = {b}
                          /\ b \in wrote[p] \/ Cardinality(wrote[p]) < OpBlocks
    /\ \A p, q \in Proc : p # q => held[p] \cap held[q] = {}
    /\ \A p \in Proc : p \notin Active => wrote[p] = {}
    /\ \A p \in Proc : IsFiniteSet(wrote[p]) /\ wrote[p] \subseteq Logged

\* One token for each block that an operation may still log: begin_op() hands
\* out MAXOPBLOCKS of them, log_write() takes one back for a new block.
Reserved == {t \in Active \X (1..MAXOPBLOCKS) : t[2] > Cardinality(wrote[t[1]])}

SpaceInv ==
    /\ Len(lh) + Cardinality(Reserved) <= LOGSIZE
    /\ Len(hdr) <= LOGSIZE

\* Which copy of a block is current: cache, log or home location.
NoDuplicates ==
    /\ \A i, j \in 1..Len(lh) : lh[i] = lh[j] => i = j
    /\ \A i, j \in 1..Len(hdr) : hdr[i] = hdr[j] => i = j

DirtyIsLogged ==
    mode # "recover" =>
        dirty = {lh[i] : i \in {j \in 1..Len(lh) : phase = "install" => j > tail}}

PinnedCached ==
    /\ \A b \in dirty : cache[b] # NotCached
    /\ \A b \in Block : Locked(b) => cache[b] # NotCached

CleanIsHome ==
    \A b \in Block \ dirty : ~Locked(b) => cache[b] \in {NotCached, disk[b]}

LogCopied ==
    phase = "write_log" => \A i \in 1..tail : ldata[i] = cache[lh[i]]

Installed ==
    phase = "install" =>
        \A i \in 1..Len(lh) :
            IF i <= tail THEN disk[lh[i]] = ldata[i]
            ELSE mode # "recover" => cache[lh[i]] = ldata[i]

CacheInv ==
    NoDuplicates /\ DirtyIsLogged /\ PinnedCached /\ CleanIsHome /\ LogCopied /\ Installed

IInv == TypeOK /\ PhaseInv /\ ProcInv /\ SpaceInv /\ CacheInv /\ SleepersHaveWaker
-----------------------------------------------------------------------------
\* The initial states, for any disk image, satisfy the inductive invariant.
LEMMA InitIInv == Init => IInv
<1> SUFFICES ASSUME Init PROVE IInv
  OBVIOUS
<1> USE DEF Init
<1>1. TypeOK
  <2>1. hdr \in Seq(Block) /\ lh \in Seq(Block)
    OBVIOUS
  <2>2. ldata \in [1..(nlog - 1) -> Val]
    OBVIOUS
  <2>3. cache \in [Block -> Val \cup {NotCached}]
    OBVIOUS
  <2>4. pc \in [Proc -> {"user", "sleeping", "woken", "commit"} \cup InOp]
    OBVIOUS
  <2>5. held \in [Proc -> SUBSET Block] /\ wrote \in [Proc -> SUBSET Block]
    OBVIOUS
  <2> QED
    BY <2>1, <2>2, <2>3, <2>4, <2>5 DEF TypeOK
<1>2. Active = {}
  BY DEF Active, InOp
<1>3. PhaseInv
  BY DEF PhaseInv
<1>4. ProcInv
  BY <1>2, FS_EmptySet DEF ProcInv
<1>5. SpaceInv
  <2>1. Reserved = {}
    BY <1>2 DEF Reserved
  <2> QED
    BY <2>1, FS_EmptySet, LogAssumption DEF SpaceInv
<1>6. CacheInv
  <2>1. NoDuplicates /\ DirtyIsLogged /\ LogCopied /\ Installed
    BY DEF NoDuplicates, DirtyIsLogged, LogCopied, Installed
  <2>2. PinnedCached /\ CleanIsHome
    BY DEF PinnedCached, CleanIsHome, Locked
  <2> QED
    BY <2>1, <2>2 DEF CacheInv
<1>7. SleepersHaveWaker
  BY DEF SleepersHaveWaker
<1> QED
  BY <1>1, <1>3, <1>4, <1>5, <1>6, <1>7 DEF IInv

\* There are never more tokens than begin_op() has handed out.
LEMMA ReservedBound ==
  /\ IsFiniteSet(Active) /\ IsFiniteSet(Reserved) /\ Cardinality(Reserved) \in Nat
  /\ Cardinality(Reserved) <= Cardinality(Active) * MAXOPBLOCKS
<1>0. IsFiniteSet(Active)
  BY FS_Subset, LogAssumption DEF Active
<1>1. IsFiniteSet(1..MAXOPBLOCKS) /\ Cardinality(1..MAXOPBLOCKS) = MAXOPBLOCKS
  BY LogAssumption, FS_Interval
<1>2. /\ IsFiniteSet(Active \X (1..MAXOPBLOCKS))
      /\ Cardinality(Active \X (1..MAXOPBLOCKS)) = Cardinality(Active) * MAXOPBLOCKS
  BY <1>0, <1>1, FS_Product
<1>3. Reserved \in SUBSET (Active \X (1..MAXOPBLOCKS))
  BY DEF Reserved
<1>4. IsFiniteSet(Reserved) /\ Cardinality(Reserved) <= Cardinality(Active \X (1..MAXOPBLOCKS))
  BY <1>2, <1>3, FS_Subset
<1> QED
  BY <1>0, <1>2, <1>4, FS_CardinalityType

\* The transaction in memory fits the log header.
LEMMA LogLength == ASSUME IInv PROVE Len(lh) \in Nat /\ Len(lh) <= LOGSIZE
<1>1. Cardinality(Reserved) \in Nat
  BY ReservedBound
<1> QED
  BY <1>1, LogAssumption DEF IInv, SpaceInv, TypeOK

\* Every step keeps the types.
LEMMA TypeStep ==
  ASSUME LOGSIZE < nlog
  PROVE  IInv /\ [Next]_vars => TypeOK'
<1> SUFFICES ASSUME IInv, [Next]_vars PROVE TypeOK'
  OBVIOUS
<1> USE LogAssumption DEF TypeOK, InOp
<1>0. TypeOK /\ PhaseInv /\ ProcInv /\ SpaceInv /\ CacheInv
  BY DEF IInv
<1>1. ASSUME NEW b \in Block, bread(b) PROVE TypeOK'
  BY <1>0, <1>1 DEF bread, diskVars, logVars, procVars, commitVars
<1>2. ASSUME NEW b \in Block, bget_recycle(b) PROVE TypeOK'
  BY <1>0, <1>2 DEF bget_recycle, diskVars, logVars, procVars, commitVars
<1>3. ASSUME NEW p \in Proc, begin_op(p) PROVE TypeOK'
  BY <1>0, <1>3 DEF begin_op, diskVars, memVars, commitVars
<1>4. ASSUME NEW p \in Proc, log_write_check(p) PROVE TypeOK'
  BY <1>0, <1>4 DEF log_write_check, diskVars, memVars, logVars
<1>5. ASSUME NEW p \in Proc, log_write(p) PROVE TypeOK'
  BY <1>0, <1>5 DEF log_write, diskVars, commitVars
<1>6. ASSUME NEW p \in Proc, end_op(p) PROVE TypeOK'
  <2>1. outstanding > 0
    <3>1. Active # {} /\ IsFiniteSet(Active)
      BY <1>0, <1>6, FS_Subset DEF end_op, Active
    <3> QED
      BY <3>1, <1>0, FS_EmptySet DEF ProcInv
  <2> QED
    <3>1. pc' \in [Proc -> {"user", "sleeping", "woken", "commit"} \cup InOp]
      BY <1>0, <1>6 DEF end_op, Wakeup
    <3>2. outstanding' \in Nat
      BY <1>0, <1>6, <2>1 DEF end_op
    <3>3. wrote' \in [Proc -> SUBSET Block]
      BY <1>0, <1>6 DEF end_op
    <3>4. /\ tail' \in Nat
          /\ phase' \in {"read_head", "write_log", "install", "finish", "idle"}
          /\ mode' \in {"recover", "run", "panic"}
      BY <1>0, <1>6 DEF end_op
    <3>5. committing' \in BOOLEAN
      BY <1>0, <1>6 DEF end_op
    <3> QED
      BY <1>0, <1>6, <3>1, <3>2, <3>3, <3>4, <3>5 DEF end_op, diskVars, memVars
<1>7. ASSUME NEW p \in Proc, NEW b \in Block, NEW v \in Val, modify(p, b, v)
      PROVE TypeOK'
  BY <1>0, <1>7 DEF modify, diskVars, logVars, commitVars
<1>8. ASSUME write_log PROVE TypeOK'
  <2>1. lh[tail + 1] \in dirty
    BY <1>0, <1>8 DEF write_log, CacheInv, DirtyIsLogged, PhaseInv
  <2>2. cache[lh[tail + 1]] \in Val
    BY <1>0, <2>1 DEF CacheInv, PinnedCached
  <2> QED
    <3>1. tail + 1 < nlog
      BY <1>0, <1>8, LogLength DEF write_log
    <3>2. ldata' \in [1..(nlog - 1) -> Val]
      BY <1>0, <1>8, <2>2, <3>1 DEF write_log
    <3> QED
      BY <1>0, <1>8, <3>1, <3>2 DEF write_log, memVars, logVars, procVars
<1>9. ASSUME write_head PROVE TypeOK'
  BY <1>0, <1>9 DEF write_head, memVars, logVars, procVars
<1>10. ASSUME install_trans PROVE TypeOK'
  <2>1. tail + 1 < nlog
    BY <1>0, <1>10, LogLength DEF install_trans
  <2>2. ldata[tail + 1] \in Val
    BY <1>0, <2>1
  <2> QED
    BY <1>0, <1>10, <2>1, <2>2 DEF install_trans, bwrite, LogBlock, logVars, procVars
<1>11. ASSUME clear_head PROVE TypeOK'
  BY <1>0, <1>11 DEF clear_head, memVars, procVars
<1>12. ASSUME NEW p \in Proc, end_commit(p) PROVE TypeOK'
  BY <1>0, <1>12 DEF end_commit, diskVars, memVars, Wakeup
<1>13. ASSUME crash PROVE TypeOK'
  <2>1. cache' \in [Block -> Val \cup {NotCached}]
    BY <1>13 DEF crash
  <2>2. pc' \in [Proc -> {"user", "sleeping", "woken", "commit"} \cup InOp]
    BY <1>13 DEF crash
  <2>3. held' \in [Proc -> SUBSET Block] /\ wrote' \in [Proc -> SUBSET Block]
    BY <1>13 DEF crash
  <2>4. lh' \in Seq(Block)
    BY <1>13 DEF crash
  <2> QED
    BY <1>0, <1>13, <2>1, <2>2, <2>3, <2>4 DEF crash, diskVars
<1>14. ASSUME read_head PROVE TypeOK'
  BY <1>0, <1>14 DEF read_head, diskVars, memVars, procVars
<1>15. ASSUME UNCHANGED vars PROVE TypeOK'
  BY <1>0, <1>15 DEF vars
<1> QED
  BY <1>1, <1>2, <1>3, <1>4, <1>5, <1>6, <1>7, <1>8, <1>9, <1>10, <1>11,
     <1>12, <1>13, <1>14, <1>15 DEF Next, Commit

\* While a process is inside an operation, nobody commits and nobody recovers.
LEMMA InOpFacts ==
  ASSUME IInv, NEW p \in Proc, pc[p] \in InOp
  PROVE  outstanding > 0 /\ ~committing /\ mode # "recover" /\ phase = "idle"
<1>1. p \in Active /\ IsFiniteSet(Active)
  BY FS_Subset, LogAssumption DEF Active
<1>2. outstanding > 0 /\ ~committing
  BY <1>1, FS_EmptySet DEF IInv, ProcInv, TypeOK
<1>3. mode # "recover"
  BY <1>2 DEF IInv, PhaseInv
<1> QED
  BY <1>2, <1>3 DEF IInv, PhaseInv, TypeOK

\* Every step keeps the relation between the phases and the two headers.
LEMMA PhaseStep == IInv /\ [Next]_vars => PhaseInv'
<1> SUFFICES ASSUME IInv, [Next]_vars PROVE PhaseInv'
  OBVIOUS
<1> USE DEF PhaseInv
<1>0. TypeOK /\ PhaseInv
  BY DEF IInv
<1>1. ASSUME NEW b \in Block, bread(b) \/ bget_recycle(b) PROVE PhaseInv'
  BY <1>0, <1>1 DEF bread, bget_recycle, diskVars, logVars, procVars, commitVars
<1>2. ASSUME NEW p \in Proc, begin_op(p) PROVE PhaseInv'
  BY <1>0, <1>2 DEF begin_op, diskVars, memVars, commitVars, TypeOK
<1>3. ASSUME NEW p \in Proc, log_write_check(p) PROVE PhaseInv'
  BY <1>0, <1>3 DEF log_write_check, diskVars, memVars, logVars
<1>4. ASSUME NEW p \in Proc, log_write(p) PROVE PhaseInv'
  BY <1>0, <1>4, InOpFacts DEF log_write, diskVars, commitVars, InOp
<1>5. ASSUME NEW p \in Proc, end_op(p) PROVE PhaseInv'
  <2>1. outstanding > 0 /\ ~committing /\ mode = "run" /\ phase = "idle"
    BY <1>5, InOpFacts DEF end_op, InOp
  <2>2. CASE outstanding = 1
    BY <1>0, <1>5, <2>1, <2>2 DEF end_op, diskVars, TypeOK
  <2>3. CASE outstanding # 1
    BY <1>0, <1>5, <2>1, <2>3 DEF end_op, diskVars, TypeOK
  <2> QED
    BY <2>2, <2>3
<1>6. ASSUME NEW p \in Proc, NEW b \in Block, NEW v \in Val, modify(p, b, v)
      PROVE PhaseInv'
  BY <1>0, <1>6 DEF modify, diskVars, logVars, commitVars
<1>7. ASSUME write_log PROVE PhaseInv'
  BY <1>0, <1>7 DEF write_log, memVars, logVars, procVars, TypeOK
<1>8. ASSUME write_head PROVE PhaseInv'
  BY <1>0, <1>8 DEF write_head, memVars, logVars, procVars, TypeOK
<1>9. ASSUME install_trans PROVE PhaseInv'
  <2>1. UNCHANGED <<hdr, lh, outstanding, committing, pc, held, wrote, phase, mode>>
    BY <1>9 DEF install_trans, logVars, procVars
  <2>2. tail < Len(lh) /\ tail' = tail + 1 /\ phase = "install"
    BY <1>9 DEF install_trans
  <2>3. dirty = {} => dirty' = {}
    BY <1>9 DEF install_trans, bwrite
  <2> QED
    BY <1>0, <2>1, <2>2, <2>3 DEF TypeOK
<1>10. ASSUME clear_head PROVE PhaseInv'
  BY <1>0, <1>10 DEF clear_head, memVars, procVars, TypeOK
<1>11. ASSUME NEW p \in Proc, end_commit(p) PROVE PhaseInv'
  BY <1>0, <1>11 DEF end_commit, diskVars, memVars
<1>12. ASSUME crash PROVE PhaseInv'
  BY <1>0, <1>12 DEF crash
<1>13. ASSUME read_head PROVE PhaseInv'
  BY <1>0, <1>13 DEF read_head, diskVars, memVars, procVars, TypeOK
<1>14. ASSUME UNCHANGED vars PROVE PhaseInv'
  BY <1>0, <1>14 DEF vars
<1> QED
  BY <1>1, <1>2, <1>3, <1>4, <1>5, <1>6, <1>7, <1>8, <1>9, <1>10, <1>11,
     <1>12, <1>13, <1>14 DEF Next, Commit

\* Every step keeps what is known of each process.
LEMMA ProcStep == IInv /\ [Next]_vars => ProcInv'
<1> SUFFICES ASSUME IInv, [Next]_vars PROVE ProcInv'
  OBVIOUS
<1> USE DEF ProcInv
<1>0. TypeOK /\ PhaseInv /\ ProcInv
  BY DEF IInv
<1>a. IsFiniteSet(Active)
  BY FS_Subset, LogAssumption DEF Active
<1>1. ASSUME UNCHANGED <<pc, held, wrote, outstanding, committing>>,
             lh' = lh \/ \A p \in Proc : pc[p] \notin InOp
      PROVE ProcInv'
  <2>1. \A p \in Proc : wrote[p] \subseteq Logged'
    BY <1>0, <1>1 DEF Logged, Active
  <2> QED
    BY <1>0, <1>1, <2>1 DEF Active
<1>2. ASSUME NEW p \in Proc, begin_op(p) PROVE ProcInv'
  <2> USE DEF begin_op, InOp
  <2>1. p \notin Active /\ UNCHANGED <<held, wrote, committing, Logged>>
    BY <1>0, <1>2 DEF Active, Logged
  <2>2. CASE committing \/ Len(lh) + (outstanding + 1) * MAXOPBLOCKS > LOGSIZE
    <3>1. pc' = [pc EXCEPT ![p] = "sleeping"] /\ UNCHANGED outstanding
      BY <1>2, <2>2
    <3>2. Active' = Active
      BY <1>0, <2>1, <3>1 DEF Active, TypeOK
    <3> QED
      BY <1>0, <1>2, <2>1, <3>1, <3>2 DEF TypeOK
  <2>3. CASE ~(committing \/ Len(lh) + (outstanding + 1) * MAXOPBLOCKS > LOGSIZE)
    <3>1. pc' = [pc EXCEPT ![p] = "op"] /\ outstanding' = outstanding + 1
      BY <1>2, <2>3
    <3>2. Active' = Active \cup {p}
      BY <1>0, <3>1 DEF Active, TypeOK
    <3>3. outstanding' = Cardinality(Active')
      BY <1>0, <1>a, <2>1, <3>1, <3>2, FS_AddElement
    <3> QED
      BY <1>0, <1>2, <2>1, <2>3, <3>1, <3>2, <3>3 DEF TypeOK
  <2> QED
    BY <2>2, <2>3
<1>3. ASSUME NEW p \in Proc, log_write_check(p) PROVE ProcInv'
  <2>1. UNCHANGED <<held, wrote, outstanding, committing, Logged>>
    BY <1>3 DEF log_write_check, logVars, Logged
  <2>2. pc' = pc \/ pc' = [pc EXCEPT ![p] = "checked"]
    BY <1>3 DEF log_write_check
  <2>3. Active' = Active
    BY <1>0, <1>3, <2>2 DEF log_write_check, Active, InOp, TypeOK
  <2> QED
    BY <1>0, <1>3, <2>1, <2>2, <2>3 DEF log_write_check, TypeOK
<1>4. ASSUME NEW p \in Proc, log_write(p) PROVE ProcInv'
  <2>1. PICK b \in held[p] :
          /\ lh' = IF b \in Logged THEN lh ELSE Append(lh, b)
          /\ wrote' = [wrote EXCEPT ![p] = @ \cup {b}]
    BY <1>4 DEF log_write
  <2>2. pc' = [pc EXCEPT ![p] = "op"] /\ held' = [held EXCEPT ![p] = {}]
        /\ UNCHANGED <<outstanding, committing>>
    BY <1>4 DEF log_write
  <2>3. Active' = Active /\ p \in Active
    BY <1>0, <1>4, <2>2 DEF log_write, Active, InOp, TypeOK
  <2>4. Logged' = Logged \cup {b}
    <3>1. CASE b \in Logged
      BY <2>1, <3>1 DEF Logged
    <3>2. CASE b \notin Logged
      <4>1. lh' = Append(lh, b) /\ lh \in Seq(Block) /\ b \in Block
        BY <1>0, <2>1, <3>2 DEF TypeOK
      <4>2. Len(lh') = Len(lh) + 1 /\ lh'[Len(lh) + 1] = b
            /\ \A i \in 1..Len(lh) : lh'[i] = lh[i]
        BY <4>1
      <4>3. Logged' \subseteq Logged \cup {b}
        BY <4>1, <4>2 DEF Logged
      <4>4. Logged \cup {b} \subseteq Logged'
        BY <4>1, <4>2 DEF Logged
      <4> QED
        BY <4>3, <4>4
    <3> QED
      BY <3>1, <3>2
  <2>5. \A q \in Proc : IsFiniteSet(wrote'[q]) /\ wrote'[q] \subseteq Logged'
    <3>1. wrote'[p] = wrote[p] \cup {b} /\ \A q \in Proc \ {p} : wrote'[q] = wrote[q]
      BY <1>0, <2>1 DEF TypeOK
    <3>2. IsFiniteSet(wrote'[p])
      BY <1>0, <3>1, FS_AddElement
    <3> QED
      BY <1>0, <2>4, <3>1, <3>2
  <2>6. \A q \in Proc : q \notin Active' => wrote'[q] = {}
    BY <1>0, <2>1, <2>3 DEF TypeOK
  <2>7. \A q, r \in Proc : q # r => held'[q] \cap held'[r] = {}
    BY <1>0, <2>2 DEF TypeOK
  <2>8. \A q \in Proc : pc'[q] \in {"modified", "checked"} =>
          \E d \in Block : /\ held'[q] = {d}
                           /\ d \in wrote'[q] \/ Cardinality(wrote'[q]) < OpBlocks
    BY <1>0, <2>1, <2>2 DEF TypeOK
  <2>9. \A q \in Proc : held'[q] # {} => pc'[q] \in {"modified", "checked"}
    BY <1>0, <2>2 DEF TypeOK
  <2> QED
    BY <1>0, <2>2, <2>3, <2>5, <2>6, <2>7, <2>8, <2>9 DEF TypeOK
<1>5. ASSUME NEW p \in Proc, end_op(p) PROVE ProcInv'
  <2>1. outstanding > 0 /\ ~committing
    BY <1>5, InOpFacts DEF end_op, InOp
  <2>2. \A q \in Proc : q = p \/ pc'[q] = pc[q] \/ (pc[q] = "sleeping" /\ pc'[q] = "woken")
    BY <1>0, <1>5, <2>1 DEF end_op, Wakeup, InOp, TypeOK
  <2>3. pc'[p] = IF outstanding = 1 THEN "commit" ELSE "user"
    BY <1>0, <1>5, <2>1 DEF end_op, Wakeup, TypeOK
  <2>4. committing' = (outstanding = 1)
    BY <1>0, <1>5, <2>1 DEF end_op, TypeOK
  <2>5. wrote' = [wrote EXCEPT ![p] = {}] /\ UNCHANGED <<held, Logged>>
        /\ outstanding' = outstanding - 1
    BY <1>5 DEF end_op, Logged
  <2>6. p \in Active /\ Active' = Active \ {p}
    BY <1>0, <1>5, <2>2, <2>3 DEF end_op, Active, InOp
  <2>7. outstanding' = Cardinality(Active')
    BY <1>0, <1>a, <2>5, <2>6, FS_RemoveElement
  <2>8. committing' => Active' = {}
    <3>1. IsFiniteSet(Active')
      BY <1>a, <2>6, FS_RemoveElement
    <3> QED
      <4>1. CASE outstanding = 1
        <5>1. Cardinality(Active') = 0
          BY <4>1, <2>5, <2>7
        <5> QED
          BY <3>1, <5>1, FS_EmptySet
      <4>2. CASE outstanding # 1
        BY <2>4, <4>2
      <4> QED
        BY <4>1, <4>2
  <2>9. held[p] = {}
    BY <1>0, <1>5 DEF end_op
  <2>10. \A q \in Proc : IsFiniteSet(wrote'[q]) /\ wrote'[q] \subseteq Logged'
    BY <1>0, <2>5, FS_EmptySet DEF TypeOK
  <2>11. \A q \in Proc : q \notin Active' => wrote'[q] = {}
    BY <1>0, <2>5, <2>6 DEF TypeOK
  <2>12. \A q \in Proc : pc'[q] \in {"modified", "checked"} =>
          \E d \in Block : /\ held'[q] = {d}
                           /\ d \in wrote'[q] \/ Cardinality(wrote'[q]) < OpBlocks
    BY <1>0, <2>2, <2>3, <2>5 DEF TypeOK
  <2>13. \A q \in Proc : held'[q] # {} => pc'[q] \in {"modified", "checked"}
    BY <1>0, <2>2, <2>5, <2>9
  <2>14. \A q, r \in Proc : pc'[q] = "commit" /\ pc'[r] = "commit" => q = r
    BY <1>0, <2>1, <2>2
  <2>15. \A q \in Proc : pc'[q] = "commit" => committing'
    BY <1>0, <2>1, <2>2, <2>3, <2>4
  <2> QED
    BY <1>0, <2>5, <2>7, <2>8, <2>10, <2>11, <2>12, <2>13, <2>14, <2>15
<1>6. ASSUME NEW p \in Proc, NEW b \in Block, NEW v \in Val, modify(p, b, v)
      PROVE ProcInv'
  <2>1. /\ pc[p] = "op" /\ ~Locked(b)
        /\ b \in wrote[p] \/ Cardinality(wrote[p]) < OpBlocks
        /\ pc' = [pc EXCEPT ![p] = "modified"] /\ held' = [held EXCEPT ![p] = {b}]
        /\ UNCHANGED <<wrote, outstanding, committing, Logged>>
    BY <1>6 DEF modify, logVars, Logged
  <2>2. Active' = Active
    BY <1>0, <2>1 DEF Active, InOp, TypeOK
  <2>3. \A q, r \in Proc : q # r => held'[q] \cap held'[r] = {}
    BY <1>0, <2>1 DEF Locked, TypeOK
  <2> QED
    BY <1>0, <2>1, <2>2, <2>3 DEF TypeOK
<1>7. ASSUME NEW p \in Proc, end_commit(p) PROVE ProcInv'
  <2>1. \A q \in Proc : q = p \/ pc'[q] = pc[q] \/ (pc[q] = "sleeping" /\ pc'[q] = "woken")
    BY <1>0, <1>7 DEF end_commit, Wakeup, InOp, TypeOK
  <2>2. pc'[p] = "user" /\ pc[p] = "commit" /\ ~committing'
        /\ UNCHANGED <<outstanding, held, wrote, Logged>>
    BY SMTT(40), <1>0, <1>7 DEF end_commit, Wakeup, Logged, TypeOK
  <2>3. Active' = Active
    BY <2>1, <2>2 DEF Active, InOp
  <2> QED
    BY <1>0, <2>1, <2>2, <2>3
<1>8. ASSUME crash PROVE ProcInv'
  <2>1. Active' = {}
    BY <1>8 DEF crash, Active, InOp
  <2> QED
    BY <1>8, <2>1, FS_EmptySet DEF crash
<1>9. ASSUME NEW b \in Block, bread(b) \/ bget_recycle(b) PROVE ProcInv'
  BY <1>1, <1>9 DEF bread, bget_recycle, procVars, logVars
<1>10. ASSUME write_log \/ write_head \/ install_trans PROVE ProcInv'
  BY <1>1, <1>10 DEF write_log, write_head, install_trans, procVars, logVars
<1>11. ASSUME clear_head \/ read_head PROVE ProcInv'
  <2>1. \A p \in Proc : pc[p] \notin InOp
    BY <1>0, <1>11 DEF clear_head, read_head, PhaseInv, Active, InOp, TypeOK
  <2> QED
    BY <1>1, <1>11, <2>1 DEF clear_head, read_head, procVars
<1>12. ASSUME UNCHANGED vars PROVE ProcInv'
  BY <1>1, <1>12 DEF vars
<1> QED
  BY <1>2, <1>3, <1>4, <1>5, <1>6, <1>7, <1>8, <1>9, <1>10, <1>11, <1>12
     DEF Next, Commit

\* Every step keeps the logged and the reserved blocks within LOGSIZE.
LEMMA SpaceStep ==
  ASSUME OpBlocks <= MAXOPBLOCKS, LOGSIZE < nlog
  PROVE  IInv /\ [Next]_vars => SpaceInv'
<1> SUFFICES ASSUME IInv, [Next]_vars PROVE SpaceInv'
  OBVIOUS
<1> USE LogAssumption DEF SpaceInv
<1>0. TypeOK /\ PhaseInv /\ ProcInv /\ SpaceInv
  BY DEF IInv
<1>b. IsFiniteSet(Reserved) /\ Cardinality(Reserved) \in Nat
  BY ReservedBound
<1>1. ASSUME Active' = Active, wrote' = wrote, lh' = lh \/ lh' = <<>>,
             hdr' = hdr \/ hdr' = <<>> \/ hdr' = lh
      PROVE SpaceInv'
  <2>1. Reserved' = Reserved
    BY <1>1 DEF Reserved
  <2>2. Cardinality(Reserved') = Cardinality(Reserved)
    BY <2>1
  <2>3. Len(lh) \in Nat /\ Len(hdr) \in Nat
    BY <1>0 DEF TypeOK
  <2>4. Len(lh') \in Nat /\ Len(lh') <= Len(lh)
    BY <1>1, <2>3
  <2> QED
    BY <1>0, <1>1, <1>b, <2>2, <2>3, <2>4
<1>2. ASSUME NEW p \in Proc, begin_op(p) PROVE SpaceInv'
  <2>1. UNCHANGED <<lh, hdr, wrote>>
    BY <1>2 DEF begin_op, diskVars
  <2>2. CASE committing \/ Len(lh) + (outstanding + 1) * MAXOPBLOCKS > LOGSIZE
    <3>1. Active' = Active
      BY <1>0, <1>2, <2>2 DEF begin_op, Active, InOp, TypeOK
    <3> QED
      BY <1>1, <2>1, <3>1
  <2>3. CASE ~(committing \/ Len(lh) + (outstanding + 1) * MAXOPBLOCKS > LOGSIZE)
    <3>1. Cardinality(Active') = outstanding + 1
      BY <1>2, <2>3, ProcStep DEF begin_op, ProcInv
    <3>2. (/\ IsFiniteSet(Active) /\ IsFiniteSet(Reserved) /\ Cardinality(Reserved) \in Nat
           /\ Cardinality(Reserved) <= Cardinality(Active) * MAXOPBLOCKS)'
      BY ReservedBound, PTL
    <3> QED
      BY <1>0, <2>1, <2>3, <3>1, <3>2 DEF TypeOK
  <2> QED
    BY <2>2, <2>3
<1>3. ASSUME NEW p \in Proc, log_write(p) PROVE SpaceInv'
  <2>1. PICK b \in held[p] :
          /\ lh' = IF b \in Logged THEN lh ELSE Append(lh, b)
          /\ wrote' = [wrote EXCEPT ![p] = @ \cup {b}]
    BY <1>3 DEF log_write
  <2>2. Active' = Active /\ p \in Active /\ hdr' = hdr
    BY <1>0, <1>3 DEF log_write, diskVars, Active, InOp, TypeOK
  <2>3. /\ wrote'[p] = wrote[p] \cup {b}
        /\ \A q \in Proc : q # p => wrote'[q] = wrote[q]
    BY <1>0, <2>1 DEF TypeOK
  <2>4. /\ IsFiniteSet(wrote[p]) /\ Cardinality(wrote[p]) \in Nat
        /\ Cardinality(wrote'[p]) =
             IF b \in wrote[p] THEN Cardinality(wrote[p]) ELSE Cardinality(wrote[p]) + 1
    <3>1. IsFiniteSet(wrote[p])
      BY <1>0 DEF ProcInv
    <3> QED
      BY ZenonT(60), <2>3, <3>1, FS_AddElement, FS_CardinalityType
  <2>5. Reserved' \subseteq Reserved
    <3> SUFFICES ASSUME NEW t \in Reserved' PROVE t \in Reserved
      OBVIOUS
    <3>1. t \in Active \X (1..MAXOPBLOCKS) /\ t[2] > Cardinality(wrote'[t[1]])
      BY <2>2 DEF Reserved
    <3>2. t[1] \in Proc /\ t[2] \in Nat
      BY SMTT(40), <3>1 DEF Active
    <3>3. t[2] > Cardinality(wrote[t[1]])
      <4>1. CASE t[1] = p
        BY <2>4, <3>1, <3>2, <4>1
      <4>2. CASE t[1] # p
        BY <2>3, <3>1, <3>2, <4>2
      <4> QED
        BY <4>1, <4>2
    <3> QED
      BY <3>1, <3>3 DEF Reserved
  <2>6. CASE b \in Logged
    <3>1. Cardinality(Reserved') <= Cardinality(Reserved) /\ Cardinality(Reserved') \in Nat
      BY <1>b, <2>5, FS_Subset, FS_CardinalityType
    <3> QED
      BY <1>0, <1>b, <2>1, <2>2, <2>6, <3>1 DEF TypeOK
  <2>7. CASE b \notin Logged
    <3>1. b \notin wrote[p]
      BY <1>0, <2>7 DEF ProcInv
    <3>2. Cardinality(wrote[p]) < OpBlocks
      BY <1>0, <1>3, <3>1 DEF ProcInv, log_write
    <3> DEFINE t == <<p, Cardinality(wrote[p]) + 1>>
    <3>3. t \in Reserved
      BY <2>2, <2>4, <3>2 DEF Reserved
    <3>4. t \notin Reserved'
      BY <2>2, <2>4, <3>1 DEF Reserved
    <3>5. Reserved' \in SUBSET (Reserved \ {t})
      BY <2>5, <3>4
    <3>6. IsFiniteSet(Reserved \ {t}) /\ Cardinality(Reserved \ {t}) = Cardinality(Reserved) - 1
      BY <1>b, <3>3, FS_RemoveElement
    <3>7. IsFiniteSet(Reserved') /\ Cardinality(Reserved') <= Cardinality(Reserved) - 1
      BY <3>5, <3>6, FS_Subset
    <3>8. Cardinality(Reserved') \in Nat
      BY <3>7, FS_CardinalityType
    <3>9. Len(lh') = Len(lh) + 1
      BY <1>0, <2>1, <2>7 DEF TypeOK
    <3> QED
      BY <1>0, <1>b, <2>2, <3>7, <3>8, <3>9 DEF TypeOK
  <2> QED
    BY <2>6, <2>7
<1>4. ASSUME NEW p \in Proc, end_op(p) PROVE SpaceInv'
  <2>1. Active' \subseteq Active
    BY <1>0, <1>4 DEF end_op, Wakeup, Active, InOp, TypeOK
  <2>2. p \notin Active'
    BY <1>0, <1>4, InOpFacts DEF end_op, Wakeup, Active, InOp, TypeOK
  <2>3. \A q \in Proc : q # p => wrote'[q] = wrote[q]
    BY <1>0, <1>4 DEF end_op, TypeOK
  <2>4. Reserved' \in SUBSET Reserved
    BY <2>1, <2>2, <2>3 DEF Reserved, Active
  <2>5. Cardinality(Reserved') <= Cardinality(Reserved) /\ Cardinality(Reserved') \in Nat
    BY <1>b, <2>4, FS_Subset, FS_CardinalityType
  <2>6. UNCHANGED <<lh, hdr>>
    BY <1>4 DEF end_op, diskVars
  <2> QED
    BY <1>0, <1>b, <2>5, <2>6 DEF TypeOK
<1>5. ASSUME crash PROVE SpaceInv'
  <2>1. Reserved' = {}
    BY <1>5 DEF crash, Reserved, Active, InOp
  <2> QED
    BY <1>0, <1>5, <2>1, FS_EmptySet DEF crash, diskVars
<1>6. ASSUME read_head PROVE SpaceInv'
  <2>1. Reserved' = {}
    BY <1>0, <1>6 DEF read_head, PhaseInv, procVars, Reserved, Active, InOp
  <2> QED
    BY <1>0, <1>6, <2>1, FS_EmptySet DEF read_head, diskVars, TypeOK
<1>7. ASSUME NEW b \in Block, bread(b) \/ bget_recycle(b) PROVE SpaceInv'
  <2>1. UNCHANGED <<pc, wrote, lh, hdr>>
    BY <1>7 DEF bread, bget_recycle, diskVars, procVars, logVars
  <2> QED
    BY <1>1, <2>1 DEF Active
<1>8. ASSUME NEW p \in Proc, log_write_check(p) PROVE SpaceInv'
  <2>1. Active' = Active
    BY <1>0, <1>8 DEF log_write_check, Active, InOp, TypeOK
  <2> QED
    BY <1>1, <1>8, <2>1 DEF log_write_check, diskVars, logVars
<1>9. ASSUME NEW p \in Proc, NEW b \in Block, NEW v \in Val, modify(p, b, v)
      PROVE SpaceInv'
  <2>1. Active' = Active
    BY <1>0, <1>9 DEF modify, Active, InOp, TypeOK
  <2> QED
    BY <1>1, <1>9, <2>1 DEF modify, diskVars, logVars
<1>10. ASSUME write_log \/ write_head \/ install_trans PROVE SpaceInv'
  <2>1. UNCHANGED <<pc, wrote, lh>> /\ (hdr' = hdr \/ hdr' = lh)
    BY <1>10 DEF write_log, write_head, install_trans, procVars, logVars
  <2> QED
    BY <1>1, <2>1 DEF Active
<1>11. ASSUME clear_head PROVE SpaceInv'
  <2>1. UNCHANGED <<pc, wrote>> /\ lh' = <<>> /\ hdr' = <<>>
    BY <1>11 DEF clear_head, procVars
  <2> QED
    BY <1>1, <2>1 DEF Active
<1>12. ASSUME NEW p \in Proc, end_commit(p) PROVE SpaceInv'
  <2>1. Active' = Active
    BY <1>0, <1>12 DEF end_commit, Wakeup, Active, InOp, TypeOK
  <2> QED
    BY <1>1, <1>12, <2>1 DEF end_commit, diskVars
<1>13. ASSUME UNCHANGED vars PROVE SpaceInv'
  <2>1. UNCHANGED <<pc, wrote, lh, hdr>>
    BY <1>13 DEF vars
  <2> QED
    BY <1>1, <2>1 DEF Active
<1> QED
  BY <1>2, <1>3, <1>4, <1>5, <1>6, <1>7, <1>8, <1>9, <1>10, <1>11, <1>12, <1>13
     DEF Next, Commit

\* No step leaves a process asleep in begin_op() with nobody to wake it.
LEMMA SleepStep == IInv /\ [Next]_vars => SleepersHaveWaker'
<1> SUFFICES ASSUME IInv, [Next]_vars PROVE SleepersHaveWaker'
  OBVIOUS
<1> USE DEF SleepersHaveWaker
<1>0. TypeOK /\ PhaseInv /\ SleepersHaveWaker
  BY DEF IInv
<1>1. ASSUME NEW p \in Proc, begin_op(p) PROVE SleepersHaveWaker'
  <2>1. CASE committing \/ Len(lh) + (outstanding + 1) * MAXOPBLOCKS > LOGSIZE
    <3>1. ASSUME ~committing, outstanding = 0 PROVE FALSE
      <4>1. lh = <<>>
        BY <1>0, <1>1, <3>1 DEF begin_op, PhaseInv, TypeOK
      <4> QED
        BY <2>1, <3>1, <4>1, LogAssumption
    <3> QED
      BY <1>0, <1>1, <2>1, <3>1 DEF begin_op, TypeOK
  <2>2. CASE ~(committing \/ Len(lh) + (outstanding + 1) * MAXOPBLOCKS > LOGSIZE)
    BY <1>0, <1>1, <2>2 DEF begin_op, TypeOK
  <2> QED
    BY <2>1, <2>2
<1>2. ASSUME NEW p \in Proc, end_op(p) PROVE SleepersHaveWaker'
  <2>1. outstanding > 0 /\ ~committing
    BY <1>2, InOpFacts DEF end_op, InOp
  <2>2. CASE outstanding = 1
    BY <1>2, <2>1, <2>2 DEF end_op
  <2>3. CASE outstanding # 1
    BY <1>0, <1>2, <2>1, <2>3 DEF end_op, TypeOK
  <2> QED
    BY <2>2, <2>3
<1>3. ASSUME NEW p \in Proc, end_commit(p) PROVE SleepersHaveWaker'
  BY <1>0, <1>3 DEF end_commit, Wakeup, TypeOK
<1>4. ASSUME crash PROVE SleepersHaveWaker'
  BY <1>4 DEF crash
<1>5. ASSUME UNCHANGED <<pc, outstanding, committing>> PROVE SleepersHaveWaker'
  BY <1>0, <1>5
<1>6. ASSUME NEW p \in Proc, log_write_check(p) \/ log_write(p) PROVE SleepersHaveWaker'
  BY <1>0, <1>6 DEF log_write_check, log_write, logVars, TypeOK
<1>7. ASSUME NEW p \in Proc, NEW b \in Block, NEW v \in Val, modify(p, b, v)
      PROVE SleepersHaveWaker'
  BY <1>0, <1>7 DEF modify, logVars, TypeOK
<1>8. ASSUME NEW b \in Block, bread(b) \/ bget_recycle(b) PROVE SleepersHaveWaker'
  BY <1>5, <1>8 DEF bread, bget_recycle, procVars, logVars
<1>9. ASSUME write_log \/ write_head \/ install_trans \/ clear_head \/ read_head
      PROVE SleepersHaveWaker'
  BY <1>5, <1>9 DEF write_log, write_head, install_trans, clear_head, read_head,
     procVars, logVars
<1>10. ASSUME UNCHANGED vars PROVE SleepersHaveWaker'
  BY <1>5, <1>10 DEF vars
<1> QED
  BY <1>1, <1>2, <1>3, <1>4, <1>6, <1>7, <1>8, <1>9, <1>10 DEF Next, Commit

\* A block that waits for commit() or for install_trans() is pinned.
LEMMA PinnedDirty ==
  ASSUME IInv, mode # "recover", NEW i \in 1..Len(lh), phase = "install" => i > tail
  PROVE  lh[i] \in dirty /\ cache[lh[i]] # NotCached
BY DEF IInv, CacheInv, DirtyIsLogged, PinnedCached

\* Every step keeps the right copy of each block current.
LEMMA CacheStep ==
  ASSUME LOGSIZE < nlog
  PROVE  IInv /\ [Next]_vars => CacheInv'
<1> SUFFICES ASSUME IInv, [Next]_vars PROVE CacheInv'
  OBVIOUS
<1>t. TypeOK
  BY DEF IInv
<1>p. PhaseInv
  BY DEF IInv
<1>c. NoDuplicates /\ DirtyIsLogged /\ PinnedCached /\ CleanIsHome /\ LogCopied /\ Installed
  BY DEF IInv, CacheInv
<1>q. ASSUME NoDuplicates', DirtyIsLogged', PinnedCached', CleanIsHome', LogCopied', Installed'
      PROVE CacheInv'
  BY <1>q DEF CacheInv
<1>l. ASSUME UNCHANGED held PROVE \A d \in Block : Locked(d)' <=> Locked(d)
  BY <1>l DEF Locked
<1>u. ASSUME UNCHANGED <<disk, cache, dirty, held>> PROVE PinnedCached' /\ CleanIsHome'
  <2>1. PinnedCached'
    BY <1>c, <1>l, <1>u DEF PinnedCached
  <2>2. CleanIsHome'
    BY <1>c, <1>l, <1>u DEF CleanIsHome
  <2> QED
    BY <2>1, <2>2
<1>1. ASSUME NEW b \in Block, bread(b) \/ bget_recycle(b) PROVE CacheInv'
  <2>1. UNCHANGED <<disk, hdr, ldata, dirty, lh, held, phase, tail, mode>> /\ mode = "run"
    BY <1>1 DEF bread, bget_recycle, diskVars, logVars, procVars, commitVars
  <2>2. b \notin dirty /\ ~Locked(b)
    <3>1. CASE bread(b)
      BY <1>c, <3>1 DEF bread, PinnedCached
    <3>2. CASE bget_recycle(b)
      BY <3>2 DEF bget_recycle
    <3> QED
      BY <1>1, <3>1, <3>2
  <2>3. cache'[b] \in {NotCached, disk[b]} /\ \A d \in Block : d # b => cache'[d] = cache[d]
    BY <1>t, <1>1 DEF bread, bget_recycle, TypeOK
  <2>4. \A d \in Block : Locked(d)' <=> Locked(d)
    BY <1>l, <2>1
  <2>5. \A i \in 1..Len(lh) : (phase = "install" => i > tail) => lh[i] \in Block /\ lh[i] # b
    BY <1>t, <2>1, <2>2, PinnedDirty DEF TypeOK
  <2>6. NoDuplicates' /\ DirtyIsLogged'
    BY <1>c, <2>1 DEF NoDuplicates, DirtyIsLogged
  <2>7. PinnedCached'
    <3>1. dirty \subseteq Block
      BY <1>t DEF TypeOK
    <3> QED
      BY <1>c, <2>1, <2>2, <2>3, <2>4, <3>1 DEF PinnedCached
  <2>8. CleanIsHome'
    BY <1>c, <2>1, <2>3, <2>4 DEF CleanIsHome
  <2>9. LogCopied'
    <3>1. SUFFICES ASSUME phase = "write_log", NEW i \in 1..tail PROVE ldata[i] = cache'[lh[i]]
      BY <2>1 DEF LogCopied
    <3>2. i \in 1..Len(lh)
      BY <1>t, <1>p, <3>1 DEF TypeOK, PhaseInv
    <3>3. lh[i] \in Block /\ lh[i] # b
      BY <2>5, <3>1, <3>2
    <3> QED
      BY <1>c, <2>3, <3>1, <3>3 DEF LogCopied
  <2>10. Installed'
    <3>1. SUFFICES ASSUME phase = "install", NEW i \in 1..Len(lh)
          PROVE IF i <= tail THEN disk[lh[i]] = ldata[i]
                ELSE mode # "recover" => cache'[lh[i]] = ldata[i]
      BY <2>1 DEF Installed
    <3>2. CASE i <= tail
      BY <1>c, <3>1, <3>2 DEF Installed
    <3>3. CASE ~(i <= tail)
      <4>1. i > tail
        BY <1>t, <3>3 DEF TypeOK
      <4>2. lh[i] \in Block /\ lh[i] # b
        BY <2>5, <3>1, <4>1
      <4> QED
        BY <1>c, <2>3, <3>1, <3>3, <4>2 DEF Installed
    <3> QED
      BY <3>2, <3>3
  <2> QED
    BY <1>q, <2>6, <2>7, <2>8, <2>9, <2>10
<1>2. ASSUME UNCHANGED <<disk, hdr, ldata, cache, dirty, lh, held, phase, tail>>,
             mode' = mode \/ (mode # "recover" /\ mode' # "recover")
      PROVE CacheInv'
  <2>1. NoDuplicates' /\ DirtyIsLogged'
    BY <1>c, <1>2 DEF NoDuplicates, DirtyIsLogged
  <2>2. PinnedCached' /\ CleanIsHome'
    BY <1>u, <1>2
  <2>3. LogCopied' /\ Installed'
    BY <1>c, <1>2 DEF LogCopied, Installed
  <2> QED
    BY <1>q, <2>1, <2>2, <2>3
<1>3. ASSUME NEW p \in Proc, begin_op(p) PROVE CacheInv'
  BY <1>2, <1>3 DEF begin_op, diskVars, memVars, commitVars
<1>4. ASSUME NEW p \in Proc, log_write_check(p) PROVE CacheInv'
  BY <1>2, <1>4 DEF log_write_check, diskVars, memVars, logVars
<1>5. ASSUME NEW p \in Proc, log_write(p) PROVE CacheInv'
  <2>1. PICK b \in held[p] :
          /\ lh' = IF b \in Logged THEN lh ELSE Append(lh, b)
          /\ dirty' = dirty \cup {b}
    BY <1>5 DEF log_write
  <2>2. /\ UNCHANGED <<disk, hdr, ldata, cache, phase, tail, mode>> /\ phase = "idle"
        /\ mode # "recover" /\ held' = [held EXCEPT ![p] = {}] /\ held[p] = {b}
    <3>1. UNCHANGED <<disk, hdr, ldata, cache, phase, tail, mode>>
          /\ held' = [held EXCEPT ![p] = {}] /\ pc[p] = "checked"
      BY <1>5 DEF log_write, diskVars, commitVars
    <3>2. phase = "idle" /\ mode # "recover"
      BY <3>1, InOpFacts DEF InOp
    <3>3. \E d \in Block : held[p] = {d}
      BY <3>1 DEF IInv, ProcInv
    <3> QED
      BY <2>1, <3>1, <3>2, <3>3
  <2>3. b \in Block /\ lh \in Seq(Block) /\ Locked(b)
    BY <1>t, <2>1 DEF TypeOK, Locked
  <2>4. dirty = Logged
    BY <1>c, <2>2 DEF Logged, DirtyIsLogged
  <2>5. \A d \in Block : Locked(d)' => Locked(d)
    BY <1>t, <2>2 DEF Locked, TypeOK
  <2>6. \A d \in Block : d # b /\ Locked(d) => Locked(d)'
    <3>1. held \in [Proc -> SUBSET Block]
      BY <1>t DEF TypeOK
    <3> QED
      BY <2>2, <3>1 DEF Locked
  <2>7. NoDuplicates' /\ DirtyIsLogged'
    <3>1. CASE b \in Logged
      <4>1. lh' = lh /\ dirty' = dirty
        BY <2>1, <2>4, <3>1
      <4>2. NoDuplicates'
        BY <1>c, <2>2, <4>1 DEF NoDuplicates
      <4>3. DirtyIsLogged'
        BY <1>c, <2>2, <4>1 DEF DirtyIsLogged
      <4> QED
        BY <4>2, <4>3
    <3>2. CASE b \notin Logged
      <4>1. /\ Len(lh') = Len(lh) + 1 /\ lh'[Len(lh) + 1] = b /\ Len(lh) \in Nat
            /\ \A i \in 1..Len(lh) : lh'[i] = lh[i]
        BY <2>1, <2>3, <3>2
      <4>2. \A i \in 1..Len(lh) : lh[i] # b
        BY <3>2 DEF Logged
      <4>3. \A i, j \in 1..Len(lh') : lh'[i] = lh'[j] => i = j
        <5>1. \A i, j \in 1..Len(lh) : lh[i] = lh[j] => i = j
          BY <1>c DEF NoDuplicates
        <5>2. \A i \in 1..Len(lh') : i \in 1..Len(lh) \/ i = Len(lh) + 1
          BY <4>1
        <5> QED
          BY <4>1, <4>2, <5>1, <5>2
      <4>4. dirty' = {lh'[i] : i \in 1..Len(lh')}
        <5>1. \A d \in dirty' : \E i \in 1..Len(lh') : d = lh'[i]
          BY <2>1, <2>4, <4>1 DEF Logged
        <5>2. \A i \in 1..Len(lh') : lh'[i] \in dirty'
          BY <2>1, <2>4, <4>1 DEF Logged
        <5> QED
          BY <5>1, <5>2
      <4> QED
        BY <1>c, <2>2, <4>3, <4>4 DEF NoDuplicates, DirtyIsLogged
    <3> QED
      BY <3>1, <3>2
  <2>8. PinnedCached'
    BY <1>c, <2>1, <2>2, <2>3, <2>5 DEF PinnedCached
  <2>9. CleanIsHome'
    BY <1>c, <2>1, <2>2, <2>6 DEF CleanIsHome
  <2>10. LogCopied' /\ Installed'
    BY <2>2 DEF LogCopied, Installed
  <2> QED
    BY <1>q, <2>7, <2>8, <2>9, <2>10
<1>6. ASSUME NEW p \in Proc, end_op(p) PROVE CacheInv'
  <2>1. /\ UNCHANGED <<disk, hdr, ldata, cache, dirty, lh, held>>
        /\ mode # "recover" /\ mode' # "recover" /\ phase = "idle"
    BY <1>6, InOpFacts DEF end_op, diskVars, memVars, InOp
  <2>2. phase' # "install" /\ (phase' = "write_log" => tail' = 0)
    BY <1>6, <2>1 DEF end_op
  <2>3. NoDuplicates' /\ DirtyIsLogged'
    BY <1>c, <2>1, <2>2 DEF NoDuplicates, DirtyIsLogged
  <2>4. PinnedCached' /\ CleanIsHome'
    BY <1>u, <2>1
  <2>5. LogCopied' /\ Installed'
    BY <2>2 DEF LogCopied, Installed
  <2> QED
    BY <1>q, <2>3, <2>4, <2>5
<1>7. ASSUME NEW p \in Proc, NEW b \in Block, NEW v \in Val, modify(p, b, v)
      PROVE CacheInv'
  <2>1. /\ UNCHANGED <<disk, hdr, ldata, dirty, lh, phase, tail, mode>> /\ phase = "idle"
        /\ held' = [held EXCEPT ![p] = {b}] /\ cache' = [cache EXCEPT ![b] = v]
        /\ held[p] = {}
    <3>1. pc[p] = "op"
      BY <1>7 DEF modify
    <3>2. phase = "idle"
      BY <3>1, InOpFacts DEF InOp
    <3>3. held[p] = {}
      BY <3>1 DEF IInv, ProcInv
    <3> QED
      BY <1>7, <3>2, <3>3 DEF modify, diskVars, logVars, commitVars
  <2>2. \A d \in Block : Locked(d)' <=> Locked(d) \/ d = b
    BY <1>t, <2>1 DEF Locked, TypeOK
  <2>3. cache'[b] = v /\ v # NotCached /\ \A d \in Block : d # b => cache'[d] = cache[d]
    BY <1>t, <2>1, LogAssumption DEF TypeOK
  <2>4. NoDuplicates' /\ DirtyIsLogged'
    <3>1. NoDuplicates /\ DirtyIsLogged
      BY <1>c
    <3>2. NoDuplicates'
      BY <2>1, <3>1 DEF NoDuplicates
    <3> QED
      BY <2>1, <3>1, <3>2 DEF DirtyIsLogged
  <2>5. PinnedCached'
    <3>1. dirty \subseteq Block
      BY <1>t DEF TypeOK
    <3> QED
      BY <1>c, <2>1, <2>2, <2>3, <3>1 DEF PinnedCached
  <2>6. CleanIsHome'
    BY <1>c, <2>1, <2>2, <2>3 DEF CleanIsHome
  <2>7. LogCopied' /\ Installed'
    BY <2>1 DEF LogCopied, Installed
  <2> QED
    BY <1>q, <2>4, <2>5, <2>6, <2>7
<1>8. ASSUME write_log PROVE CacheInv'
  <2>1. tail \in Nat /\ tail < Len(lh) /\ tail + 1 < nlog
    BY SMTT(40), <1>t, <1>8, LogLength, LogAssumption DEF write_log, TypeOK
  <2>2. /\ UNCHANGED <<disk, hdr, cache, dirty, lh, held, phase, mode>>
        /\ phase = "write_log" /\ tail' = tail + 1
        /\ ldata' = [ldata EXCEPT ![tail + 1] = cache[lh[tail + 1]]]
    BY <1>8, <2>1 DEF write_log, memVars, logVars, procVars
  <2>3. NoDuplicates' /\ DirtyIsLogged'
    BY <1>c, <2>2 DEF NoDuplicates, DirtyIsLogged
  <2>4. PinnedCached' /\ CleanIsHome'
    BY <1>u, <2>2
  <2>5. LogCopied'
    <3>1. SUFFICES ASSUME NEW i \in 1..(tail + 1) PROVE ldata'[i] = cache[lh[i]]
      BY <2>2 DEF LogCopied
    <3>2. ldata \in [1..(nlog - 1) -> Val] /\ i \in 1..(nlog - 1)
      BY <1>t, <2>1, LogAssumption DEF TypeOK
    <3>3. CASE i = tail + 1
      BY <2>2, <3>2, <3>3
    <3>4. CASE i # tail + 1
      <4>1. i \in 1..tail
        BY <2>1, <3>4
      <4> QED
        BY <1>c, <2>2, <3>2, <3>4, <4>1 DEF LogCopied
    <3> QED
      BY <3>3, <3>4
  <2>6. Installed'
    BY <2>2 DEF Installed
  <2> QED
    BY <1>q, <2>3, <2>4, <2>5, <2>6
<1>9. ASSUME write_head PROVE CacheInv'
  <2>1. /\ UNCHANGED <<disk, ldata, cache, dirty, lh, held, mode>> /\ mode # "recover"
        /\ phase = "write_log" /\ tail = Len(lh) /\ phase' = "install" /\ tail' = 0 /\ hdr' = lh
    BY <1>9 DEF write_head, memVars, logVars, procVars
  <2>2. NoDuplicates'
    BY <1>c, <2>1 DEF NoDuplicates
  <2>3. DirtyIsLogged'
    <3>1. {j \in 1..Len(lh) : phase = "install" => j > tail} =
          {j \in 1..Len(lh') : phase' = "install" => j > tail'}
      BY <2>1
    <3> QED
      BY <1>c, <2>1, <3>1 DEF DirtyIsLogged
  <2>4. PinnedCached' /\ CleanIsHome'
    BY <1>u, <2>1
  <2>5. LogCopied'
    BY <2>1 DEF LogCopied
  <2>6. Installed'
    BY SMTT(40), <1>c, <2>1 DEF LogCopied, Installed
  <2> QED
    BY <1>q, <2>2, <2>3, <2>4, <2>5, <2>6
<1>10. ASSUME install_trans PROVE CacheInv'
  <2> DEFINE b == lh[tail + 1]
  <2>1. /\ tail \in Nat /\ tail < Len(lh) /\ tail + 1 < nlog
        /\ lh \in Seq(Block) /\ ldata[tail + 1] \in Val /\ tail + 1 \in 1..Len(lh)
    <3>1. tail \in Nat /\ tail < Len(lh) /\ lh \in Seq(Block)
      BY <1>t, <1>10 DEF install_trans, TypeOK
    <3>2. tail + 1 < nlog /\ tail + 1 \in 1..Len(lh)
      BY <3>1, LogLength, LogAssumption
    <3> QED
      BY <1>t, <3>1, <3>2, LogAssumption DEF TypeOK
  <2>2. /\ UNCHANGED <<hdr, ldata, lh, held, phase, mode>> /\ phase = "install"
        /\ tail' = tail + 1
        /\ disk' = [disk EXCEPT ![b] = ldata[tail + 1]]
        /\ cache' = [cache EXCEPT ![b] = ldata[tail + 1]]
        /\ dirty' = dirty \ {b}
    BY <1>10, <2>1 DEF install_trans, bwrite, LogBlock, logVars, procVars
  <2>3. b \in Block /\ \A i \in 1..Len(lh) : lh[i] \in Block /\ (lh[i] = b => i = tail + 1)
    BY <1>c, <2>1 DEF NoDuplicates
  <2>4. /\ disk'[b] = ldata[tail + 1] /\ cache'[b] = ldata[tail + 1] /\ cache'[b] # NotCached
        /\ \A d \in Block : d # b => disk'[d] = disk[d] /\ cache'[d] = cache[d]
    BY <1>t, <2>1, <2>2, <2>3, LogAssumption DEF TypeOK
  <2>5. NoDuplicates'
    BY <1>c, <2>2 DEF NoDuplicates
  <2>6. DirtyIsLogged'
    <3> SUFFICES ASSUME mode # "recover"
        PROVE dirty' = {lh[i] : i \in {j \in 1..Len(lh) : j > tail + 1}}
      BY <2>2 DEF DirtyIsLogged
    <3>1. dirty = {lh[i] : i \in {j \in 1..Len(lh) : j > tail}}
      BY <1>c, <2>2 DEF DirtyIsLogged
    <3>2. ASSUME NEW d \in dirty' PROVE \E i \in 1..Len(lh) : i > tail + 1 /\ d = lh[i]
      <4>1. PICK i \in 1..Len(lh) : i > tail /\ d = lh[i] /\ d # b
        BY <2>2, <3>1, <3>2
      <4>2. i # tail + 1
        BY <4>1
      <4> QED
        BY <2>1, <4>1, <4>2
    <3>3. ASSUME NEW i \in 1..Len(lh), i > tail + 1 PROVE lh[i] \in dirty'
      <4>1. lh[i] # b
        BY <2>1, <2>3, <3>3
      <4>2. lh[i] \in dirty
        BY <2>1, <3>1, <3>3
      <4> QED
        BY <2>2, <4>1, <4>2
    <3> QED
      BY <3>2, <3>3
  <2>7. PinnedCached'
    <3>1. dirty \subseteq Block /\ \A d \in Block : Locked(d)' <=> Locked(d)
      BY <1>t, <1>l, <2>2 DEF TypeOK
    <3> QED
      BY <1>c, <2>2, <2>4, <3>1 DEF PinnedCached
  <2>8. CleanIsHome'
    <3>1. \A d \in Block : Locked(d)' <=> Locked(d)
      BY <1>l, <2>2
    <3> QED
      BY <1>c, <2>2, <2>4, <3>1 DEF CleanIsHome
  <2>9. LogCopied'
    BY <2>2 DEF LogCopied
  <2>10. Installed'
    <3>1. SUFFICES ASSUME NEW i \in 1..Len(lh)
          PROVE IF i <= tail + 1 THEN disk'[lh[i]] = ldata[i]
                ELSE mode # "recover" => cache'[lh[i]] = ldata[i]
      BY <2>2 DEF Installed
    <3>2. CASE i = tail + 1
      BY <2>1, <2>4, <3>2
    <3>3. CASE i # tail + 1
      <4>1. lh[i] \in Block /\ lh[i] # b
        BY <2>3, <3>3
      <4>2. IF i <= tail THEN disk[lh[i]] = ldata[i] ELSE mode # "recover" => cache[lh[i]] = ldata[i]
        BY <1>c, <2>2 DEF Installed
      <4>3. i <= tail + 1 <=> i <= tail
        BY <2>1, <3>3
      <4> QED
        BY <2>4, <4>1, <4>2, <4>3
    <3> QED
      BY <3>2, <3>3
  <2> QED
    BY <1>q, <2>5, <2>6, <2>7, <2>8, <2>9, <2>10
<1>11. ASSUME clear_head PROVE CacheInv'
  <2>1. /\ UNCHANGED <<disk, ldata, cache, dirty, held>> /\ lh' = <<>> /\ hdr' = <<>>
        /\ phase = "install" /\ tail = Len(lh) /\ phase' \in {"finish", "idle"}
    BY <1>11 DEF clear_head, memVars, procVars
  <2>2. dirty = {}
    <3>1. CASE mode = "recover"
      BY <1>p, <3>1 DEF PhaseInv
    <3>2. CASE mode # "recover"
      <4>1. {j \in 1..Len(lh) : phase = "install" => j > tail} = {}
        BY <1>t, <2>1 DEF TypeOK
      <4> QED
        BY <1>c, <3>2, <4>1 DEF DirtyIsLogged
    <3> QED
      BY <3>1, <3>2
  <2>3. NoDuplicates' /\ DirtyIsLogged'
    BY <2>1, <2>2 DEF NoDuplicates, DirtyIsLogged
  <2>4. PinnedCached' /\ CleanIsHome'
    BY <1>u, <2>1
  <2>5. LogCopied' /\ Installed'
    BY <2>1 DEF LogCopied, Installed
  <2> QED
    BY <1>q, <2>3, <2>4, <2>5
<1>12. ASSUME NEW p \in Proc, end_commit(p) PROVE CacheInv'
  <2>1. /\ UNCHANGED <<disk, hdr, ldata, cache, dirty, lh, held, tail, mode>>
        /\ phase = "finish" /\ phase' = "idle"
    BY <1>12 DEF end_commit, diskVars, memVars
  <2>2. NoDuplicates' /\ DirtyIsLogged'
    BY <1>c, <2>1 DEF NoDuplicates, DirtyIsLogged
  <2>3. PinnedCached' /\ CleanIsHome'
    BY <1>u, <2>1
  <2>4. LogCopied' /\ Installed'
    BY <2>1 DEF LogCopied, Installed
  <2> QED
    BY <1>q, <2>2, <2>3, <2>4
<1>13. ASSUME crash PROVE CacheInv'
  <2>1. /\ UNCHANGED <<disk, hdr, ldata>> /\ lh' = <<>> /\ dirty' = {} /\ mode' = "recover"
        /\ phase' = "read_head" /\ held' = [q \in Proc |-> {}]
        /\ cache' = [d \in Block |-> NotCached]
    BY <1>13 DEF crash, diskVars
  <2>2. \A d \in Block : ~Locked(d)'
    BY <2>1 DEF Locked
  <2>3. NoDuplicates' /\ DirtyIsLogged'
    <3>1. NoDuplicates'
      BY <1>c, <2>1 DEF NoDuplicates
    <3>2. DirtyIsLogged'
      BY <2>1 DEF DirtyIsLogged
    <3> QED
      BY <3>1, <3>2
  <2>4. PinnedCached' /\ CleanIsHome'
    BY <2>1, <2>2 DEF PinnedCached, CleanIsHome
  <2>5. LogCopied' /\ Installed'
    BY <2>1 DEF LogCopied, Installed
  <2> QED
    BY <1>q, <2>3, <2>4, <2>5
<1>14. ASSUME read_head PROVE CacheInv'
  <2>1. /\ UNCHANGED <<disk, hdr, ldata, cache, dirty, held, mode>> /\ mode = "recover"
        /\ lh' = hdr /\ phase' = "install" /\ tail' = 0
    BY <1>14 DEF read_head, diskVars, memVars, procVars
  <2>2. NoDuplicates' /\ DirtyIsLogged'
    BY <1>c, <2>1 DEF NoDuplicates, DirtyIsLogged
  <2>3. PinnedCached' /\ CleanIsHome'
    BY <1>u, <2>1
  <2>4. LogCopied'
    BY <2>1 DEF LogCopied
  <2>5. Installed'
    <3>1. \A i \in 1..Len(lh') : ~(i <= tail')
      BY <2>1
    <3> QED
      BY <2>1, <3>1 DEF Installed
  <2> QED
    BY <1>q, <2>2, <2>3, <2>4, <2>5
<1>15. ASSUME UNCHANGED vars PROVE CacheInv'
  BY <1>2, <1>15 DEF vars
<1> QED
  BY <1>1, <1>3, <1>4, <1>5, <1>6, <1>7, <1>8, <1>9, <1>10, <1>11, <1>12,
     <1>13, <1>14, <1>15 DEF Next, Commit
-----------------------------------------------------------------------------
\* The inductive invariant holds in every reachable state.
THEOREM LogInvariant ==
  ASSUME OpBlocks <= MAXOPBLOCKS, LOGSIZE < nlog
  PROVE  Spec => []IInv
<1>1. IInv /\ [Next]_vars => IInv'
  BY TypeStep, PhaseStep, ProcStep, SpaceStep, CacheStep, SleepStep DEF IInv
<1> QED
  BY <1>1, InitIInv, PTL DEF Spec

\* Every variable keeps its type: no out-of-range block number is logged or
\* installed, and log.outstanding never goes below zero.
THEOREM LogTypes ==
  ASSUME OpBlocks <= MAXOPBLOCKS, LOGSIZE < nlog
  PROVE  Spec => []TypeOK
<1>1. IInv => TypeOK
  BY DEF IInv
<1> QED
  BY <1>1, LogInvariant, PTL

\* log_write() never runs past the LOGSIZE slots of log.lh.block, for any
\* number of concurrent operations and in spite of its unlocked test.
THEOREM LogNeverOverflows ==
  ASSUME OpBlocks <= MAXOPBLOCKS, LOGSIZE < nlog
  PROVE  Spec => []LogFits
<1>1. IInv => LogFits
  BY ReservedBound, LogAssumption DEF IInv, SpaceInv, LogFits, TypeOK
<1> QED
  BY <1>1, LogInvariant, PTL

\* log_write() never panics over a block that is new to the log, if operations
\* keep to the MAXOPBLOCKS that begin_op() reserves for each of them.
THEOREM ReservationSuffices ==
  ASSUME OpBlocks <= MAXOPBLOCKS, LOGSIZE < nlog
  PROVE  Spec => []SlotForEveryBlock
<1>1. IInv => SlotForEveryBlock
  <2> SUFFICES ASSUME IInv, NEW p \in Proc, pc[p] = "modified", held[p] \cap Logged = {}
               PROVE  Len(lh) < LOGSIZE
    BY SMTT(40), LogAssumption DEF SlotForEveryBlock, IInv, TypeOK
  <2>1. Cardinality(wrote[p]) < OpBlocks
    BY DEF IInv, ProcInv
  <2>2. Cardinality(wrote[p]) \in Nat
    BY FS_CardinalityType DEF IInv, ProcInv
  <2> DEFINE n == Cardinality(wrote[p]) + 1
             t == <<p, n>>
  <2>a. p \in Active
    BY DEF Active, InOp
  <2>b. n \in 1..MAXOPBLOCKS /\ n > Cardinality(wrote[p])
    <3>1. n \in Nat /\ n > 0 /\ n > Cardinality(wrote[p])
      BY <2>2
    <3>2. OpBlocks \in Nat /\ MAXOPBLOCKS \in Nat
      BY LogAssumption
    <3>3. n <= OpBlocks
      BY <2>1, <2>2, <3>2
    <3> HIDE DEF n
    <3> QED
      BY <3>1, <3>2, <3>3
  <2> HIDE DEF n
  <2>c. t[1] = p /\ t[2] = n /\ t \in Active \X (1..MAXOPBLOCKS)
    BY <2>a, <2>b
  <2> HIDE DEF t
  <2>3. t \in Reserved
    BY <2>b, <2>c DEF Reserved
  <2>4. Cardinality(Reserved) # 0
    BY <2>3, ReservedBound, FS_EmptySet
  <2> QED
    BY SMTT(40), <2>4, ReservedBound, LogAssumption DEF IInv, SpaceInv, TypeOK
<1> QED
  BY <1>1, LogInvariant, PTL

\* No process sleeps in begin_op() without another one that will wake it.
THEOREM NoLostWakeup ==
  ASSUME OpBlocks <= MAXOPBLOCKS, LOGSIZE < nlog
  PROVE  Spec => []SleepersHaveWaker
<1>1. IInv => SleepersHaveWaker
  BY DEF IInv
<1> QED
  BY <1>1, LogInvariant, PTL
-----------------------------------------------------------------------------
\* What recovery would install for a block of the committed log.
LEMMA DurableValue ==
  ASSUME IInv
  PROVE  /\ \A i \in 1..Len(hdr) : hdr[i] \in Block /\ Durable[hdr[i]] = ldata[i]
         /\ \A b \in Block : (\A i \in 1..Len(hdr) : hdr[i] # b) => Durable[b] = disk[b]
<1>1. ASSUME NEW i \in 1..Len(hdr) PROVE hdr[i] \in Block /\ Durable[hdr[i]] = ldata[i]
  <2>1. hdr[i] \in Block
    BY DEF IInv, TypeOK
  <2>2. (CHOOSE j \in 1..Len(hdr) : hdr[j] = hdr[i]) = i
    BY DEF IInv, CacheInv, NoDuplicates
  <2> QED
    BY <2>1, <2>2 DEF Durable
<1> QED
  BY <1>1 DEF Durable

\* With an empty header the durable image is the disk itself.
LEMMA DurableEmpty == ASSUME hdr = <<>>, TypeOK PROVE Durable = disk
BY DEF Durable, TypeOK

\* The loop counter of commit() and the number of logged blocks are numbers.
LEMMA Sizes == ASSUME TypeOK PROVE tail \in Nat /\ Len(lh) \in Nat
BY DEF TypeOK

\* Every step of the log is a step of the atomic disk or leaves it alone.
LEMMA AtomicStep ==
  ASSUME OpBlocks <= MAXOPBLOCKS, LOGSIZE < nlog
  PROVE  IInv /\ IInv' /\ [Next]_vars => [Atomic!Next]_(Atomic!vars)
<1> SUFFICES ASSUME IInv, IInv', [Next]_vars PROVE [Atomic!Next]_(Atomic!vars)
  OBVIOUS
<1> USE DEF Atomic!vars
<1>0. TypeOK /\ PhaseInv /\ ProcInv /\ SpaceInv /\ CacheInv /\ TypeOK' /\ CacheInv'
  BY DEF IInv
<1>b. tail \in Nat /\ Len(lh) \in Nat
  BY <1>0, Sizes
<1>a. ASSUME UNCHANGED <<disk, hdr, ldata>> PROVE Durable' = Durable
  BY <1>a DEF Durable
<1>1. ASSUME UNCHANGED <<disk, hdr, ldata, cache>>, (mode' = "recover") = (mode = "recover")
      PROVE UNCHANGED <<Durable, View>>
  BY <1>a, <1>1 DEF View
<1>2. ASSUME NEW b \in Block, bread(b) \/ bget_recycle(b)
      PROVE UNCHANGED <<Durable, View, Active>>
  <2>1. UNCHANGED <<disk, hdr, ldata, mode, pc>> /\ mode = "run"
    BY <1>2 DEF bread, bget_recycle, diskVars, procVars, commitVars
  <2>2. Durable' = Durable
    BY <1>a, <2>1
  <2>3. \A d \in Block : (IF cache'[d] = NotCached THEN disk[d] ELSE cache'[d]) =
                          (IF cache[d] = NotCached THEN disk[d] ELSE cache[d])
    <3>1. b \notin dirty /\ ~Locked(b)
      BY <1>0, <1>2 DEF bread, bget_recycle, CacheInv, PinnedCached
    <3>2. cache[b] \in {NotCached, disk[b]}
      BY <1>0, <3>1 DEF CacheInv, CleanIsHome
    <3>3. /\ cache'[b] \in {NotCached, disk[b]}
          /\ \A d \in Block : d # b => cache'[d] = cache[d]
      BY <1>0, <1>2 DEF bread, bget_recycle, TypeOK
    <3> QED
      BY <3>2, <3>3
  <2>4. View' = View
    BY <2>1, <2>3 DEF View
  <2> QED
    BY <2>1, <2>2, <2>4 DEF Active
<1>3. ASSUME NEW p \in Proc, begin_op(p)
      PROVE Atomic!Begin(p) \/ UNCHANGED <<Durable, View, Active>>
  <2>1. UNCHANGED <<Durable, View>> /\ p \notin Active
    BY <1>1, <1>3 DEF begin_op, diskVars, memVars, commitVars, Active, InOp
  <2>2. Active' = Active \/ Active' = Active \cup {p}
    BY <1>0, <1>3 DEF begin_op, Active, InOp, TypeOK
  <2> QED
    BY <2>1, <2>2 DEF Atomic!Begin
<1>4. ASSUME NEW p \in Proc, log_write_check(p) PROVE UNCHANGED <<Durable, View, Active>>
  <2>1. Active' = Active
    BY <1>0, <1>4 DEF log_write_check, Active, InOp, TypeOK
  <2>2. UNCHANGED <<disk, hdr, ldata, cache>> /\ mode # "recover" /\ mode' # "recover"
    BY <1>4 DEF log_write_check, diskVars, memVars
  <2> QED
    BY <1>1, <2>1, <2>2
<1>5. ASSUME NEW p \in Proc, log_write(p) PROVE UNCHANGED <<Durable, View, Active>>
  <2>1. Active' = Active
    BY <1>0, <1>5 DEF log_write, Active, InOp, TypeOK
  <2> QED
    BY <1>1, <1>5, <2>1 DEF log_write, diskVars, commitVars
<1>6. ASSUME NEW p \in Proc, end_op(p) PROVE Atomic!End(p)
  <2>1. ~committing
    BY <1>6, InOpFacts DEF end_op, InOp
  <2>2. p \in Active /\ Active' = Active \ {p}
    BY <1>0, <1>6, <2>1 DEF end_op, Wakeup, Active, InOp, TypeOK
  <2>3. UNCHANGED <<disk, hdr, ldata, cache>> /\ mode # "recover" /\ mode' # "recover"
    BY <1>6 DEF end_op, diskVars, memVars
  <2> QED
    BY <1>1, <2>2, <2>3 DEF Atomic!End
<1>7. ASSUME NEW p \in Proc, NEW b \in Block, NEW v \in Val, modify(p, b, v)
      PROVE Atomic!Write(p, b, v)
  <2>1. /\ UNCHANGED <<disk, hdr, ldata, mode>> /\ mode = "run"
        /\ cache' = [cache EXCEPT ![b] = v]
    BY <1>7 DEF modify, diskVars, commitVars
  <2>2. Active' = Active /\ p \in Active
    BY <1>0, <1>7 DEF modify, Active, InOp, TypeOK
  <2>3. View' = [View EXCEPT ![b] = v]
    BY <1>0, <2>1, LogAssumption DEF View, TypeOK
  <2> QED
    BY <1>a, <2>1, <2>2, <2>3 DEF Atomic!Write
<1>8. ASSUME write_log PROVE UNCHANGED <<Durable, View, Active>>
  <2>1. UNCHANGED <<disk, hdr, cache, pc, mode>> /\ hdr = <<>> /\ mode = "run"
    <3>1. tail + 1 < nlog
      BY <1>8, <1>b, LogLength, LogAssumption DEF write_log
    <3> QED
      BY <1>0, <1>8, <3>1 DEF write_log, memVars, procVars, PhaseInv
  <2>2. Durable = disk /\ Durable' = disk'
    <3>1. Durable = disk
      BY <1>0, <2>1, DurableEmpty
    <3>2. (hdr = <<>> /\ TypeOK => Durable = disk)'
      BY DurableEmpty, PTL
    <3> QED
      BY <1>0, <2>1, <3>1, <3>2
  <2> QED
    BY <2>1, <2>2 DEF View, Active
<1>9. ASSUME write_head PROVE Atomic!Commit
  <2>1. /\ UNCHANGED <<disk, ldata, cache, dirty, pc, held, mode>> /\ hdr' = lh /\ lh' = lh
        /\ phase = "write_log" /\ tail = Len(lh) /\ mode = "run"
    BY <1>9 DEF write_head, memVars, procVars, logVars
  <2>2. Active = {} /\ \A p \in Proc : held[p] = {}
    BY <1>0, <2>1 DEF PhaseInv, ProcInv, Active, InOp
  <2>3. ASSUME NEW b \in Block PROVE Durable'[b] = View[b]
    <3>1. CASE \E i \in 1..Len(lh) : lh[i] = b
      <4>1. PICK i \in 1..Len(lh) : lh[i] = b
        BY <3>1
      <4>2. (CHOOSE j \in 1..Len(lh) : lh[j] = b) = i
        BY <1>0, <4>1 DEF CacheInv, NoDuplicates
      <4>3. Durable'[b] = ldata[i]
        BY <2>1, <4>1, <4>2 DEF Durable
      <4>4. ldata[i] = cache[b] /\ cache[b] # NotCached
        BY <1>0, <2>1, <4>1, PinnedDirty DEF CacheInv, LogCopied
      <4> QED
        BY <2>1, <4>3, <4>4 DEF View
    <3>2. CASE ~ \E i \in 1..Len(lh) : lh[i] = b
      <4>1. b \notin dirty /\ ~Locked(b)
        BY <1>0, <2>1, <2>2, <3>2 DEF CacheInv, DirtyIsLogged, Locked
      <4>2. Durable'[b] = disk[b]
        BY <2>1, <3>2 DEF Durable
      <4> QED
        BY <1>0, <2>1, <4>1, <4>2 DEF View, CacheInv, CleanIsHome
    <3> QED
      BY <3>1, <3>2
  <2>4. Durable' = View
    BY <2>3 DEF Durable, View
  <2>5. View' = View /\ Active' = Active
    BY <2>1 DEF View, Active
  <2> QED
    BY <2>2, <2>4, <2>5 DEF Atomic!Commit
<1>10. ASSUME install_trans PROVE UNCHANGED <<Durable, View, Active>>
  <2> DEFINE b == lh[tail + 1]
  <2>1. /\ UNCHANGED <<hdr, ldata, lh, pc, mode>> /\ phase = "install" /\ hdr = lh
        /\ tail + 1 \in 1..Len(lh) /\ ~(tail + 1 <= tail)
        /\ disk' = [disk EXCEPT ![b] = ldata[tail + 1]]
        /\ cache' = [cache EXCEPT ![b] = ldata[tail + 1]]
    <3>1. /\ phase = "install" /\ tail < Len(lh)
          /\ bwrite(b, LogBlock(tail + 1))
          /\ UNCHANGED <<hdr, ldata, lh, pc, mode>>
      BY <1>10 DEF install_trans, logVars, procVars
    <3>2. tail + 1 \in 1..Len(lh) /\ ~(tail + 1 <= tail) /\ tail + 1 < nlog
      BY <1>b, <3>1, LogLength, LogAssumption
    <3>3. LogBlock(tail + 1) = ldata[tail + 1]
      BY <3>2 DEF LogBlock
    <3>4. /\ disk' = [disk EXCEPT ![b] = ldata[tail + 1]]
          /\ cache' = [cache EXCEPT ![b] = ldata[tail + 1]]
      BY <3>1, <3>3 DEF bwrite
    <3>5. hdr = lh
      BY <1>0, <3>1 DEF PhaseInv
    <3> QED
      BY <3>1, <3>2, <3>4, <3>5
  <2>2. Durable' = Durable
    BY <1>0, <2>1 DEF Durable, TypeOK
  <2>3. mode # "recover" => cache[b] = ldata[tail + 1] /\ cache[b] # NotCached /\ b \in Block
    <3> SUFFICES ASSUME mode # "recover"
        PROVE cache[b] = ldata[tail + 1] /\ cache[b] # NotCached /\ b \in Block
      OBVIOUS
    <3>1. tail + 1 > tail
      BY <1>b
    <3>2. cache[b] = ldata[tail + 1]
      BY <1>0, <2>1 DEF CacheInv, Installed
    <3>3. b \in dirty /\ cache[b] # NotCached
      BY <2>1, <3>1, PinnedDirty
    <3> QED
      BY <1>0, <3>2, <3>3 DEF TypeOK
  <2>4. View' = View
    BY <1>0, <2>1, <2>2, <2>3 DEF View, TypeOK
  <2> QED
    BY <2>1, <2>2, <2>4 DEF Active
<1>11. ASSUME clear_head PROVE UNCHANGED <<Durable, View, Active>>
  <2>1. /\ UNCHANGED <<disk, ldata, cache, dirty, pc>> /\ hdr' = <<>> /\ hdr = lh
        /\ phase = "install" /\ tail = Len(lh) /\ mode' = "run" /\ mode # "panic"
    BY <1>0, <1>11 DEF clear_head, memVars, procVars, PhaseInv
  <2>2. Durable' = disk
    <3>1. (hdr = <<>> /\ TypeOK => Durable = disk)'
      BY DurableEmpty, PTL
    <3> QED
      BY <1>0, <2>1, <3>1
  <2>3. ASSUME NEW b \in Block PROVE Durable[b] = disk[b]
    <3>1. CASE \E i \in 1..Len(hdr) : hdr[i] = b
      <4>1. PICK i \in 1..Len(hdr) : hdr[i] = b
        BY <3>1
      <4>2. Durable[b] = ldata[i]
        BY <4>1, DurableValue
      <4>3. i \in 1..Len(lh) /\ i <= tail
        BY <2>1, <4>1
      <4>4. disk[lh[i]] = ldata[i]
        BY <1>0, <2>1, <4>3 DEF CacheInv, Installed
      <4> QED
        BY <2>1, <4>1, <4>2, <4>4
    <3>2. CASE ~ \E i \in 1..Len(hdr) : hdr[i] = b
      BY <3>2, DurableValue
    <3> QED
      BY <3>1, <3>2
  <2>4. Durable = disk
    BY <1>0, <2>3 DEF Durable, TypeOK
  <2>5. mode = "recover" => View' = disk
    <3> SUFFICES ASSUME mode = "recover" PROVE View' = disk
      OBVIOUS
    <3>1. dirty = {} /\ \A p \in Proc : pc[p] = "user"
      BY <1>0 DEF PhaseInv
    <3>2. \A b \in Block : ~Locked(b)
      BY <1>0, <3>1 DEF ProcInv, Locked
    <3>3. \A b \in Block : cache[b] \in {NotCached, disk[b]}
      BY <1>0, <3>1, <3>2 DEF CacheInv, CleanIsHome
    <3> QED
      BY <1>0, <2>1, <3>3 DEF View, TypeOK
  <2>6. View' = View
    <3>1. CASE mode = "recover"
      BY <1>0, <2>4, <2>5, <3>1 DEF View, TypeOK
    <3>2. CASE mode # "recover"
      BY <2>1, <3>2 DEF View
    <3> QED
      BY <3>1, <3>2
  <2> QED
    BY <2>1, <2>2, <2>4, <2>6 DEF Active
<1>12. ASSUME NEW p \in Proc, end_commit(p) PROVE UNCHANGED <<Durable, View, Active>>
  <2>1. Active' = Active
    BY <1>0, <1>12 DEF end_commit, Wakeup, Active, InOp, TypeOK
  <2> QED
    BY <1>1, <1>12, <2>1 DEF end_commit, diskVars, memVars
<1>13. ASSUME crash PROVE Atomic!Crash
  <2>1. Durable' = Durable
    BY <1>a, <1>13 DEF crash, diskVars
  <2>2. View' = Durable
    BY <1>13, <2>1 DEF crash, View, Durable
  <2>3. Active' = {}
    BY <1>13 DEF crash, Active, InOp
  <2> QED
    BY <2>1, <2>2, <2>3 DEF Atomic!Crash
<1>14. ASSUME read_head PROVE UNCHANGED <<Durable, View, Active>>
  BY <1>1, <1>14 DEF read_head, diskVars, memVars, procVars, Active
<1>15. ASSUME UNCHANGED vars PROVE UNCHANGED <<Durable, View, Active>>
  BY <1>1, <1>15 DEF vars, Active
<1> QED
  BY <1>2, <1>3, <1>4, <1>5, <1>6, <1>7, <1>8, <1>9, <1>10, <1>11, <1>12,
     <1>13, <1>14, <1>15 DEF Next, Commit, Atomic!Next

\* Crash atomicity, for any number of processes, blocks, crashes and crashes
\* during recovery: log.c implements the atomic disk.
THEOREM LogIsAtomic ==
  ASSUME OpBlocks <= MAXOPBLOCKS, LOGSIZE < nlog
  PROVE  Spec => CrashAtomic
<1>1. Init => Atomic!Init
  <2> SUFFICES ASSUME Init PROVE Atomic!Init
    OBVIOUS
  <2>1. TypeOK
    BY InitIInv DEF IInv
  <2>2. Durable = disk
    BY <2>1, DurableEmpty DEF Init
  <2>3. View = Durable
    BY <2>1, <2>2 DEF Init, View, TypeOK
  <2>4. Active = {}
    BY DEF Init, Active, InOp
  <2> QED
    BY <2>1, <2>2, <2>3, <2>4 DEF Atomic!Init, TypeOK
<1> QED
  BY <1>1, AtomicStep, LogInvariant, PTL DEF Spec, CrashAtomic, Atomic!Spec
=============================================================================
