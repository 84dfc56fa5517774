----------------------------- MODULE PipeProofs -----------------------------
(***************************************************************************)
(* Proofs about Pipe, for any number of writers and readers, any size of   *)
(* the ring and any wrap of the counters that is a multiple of it.         *)
(***************************************************************************)
EXTENDS Pipe, Integers, TLAPS

Places == {"idle", "enter", "tosleep", "sleep"}
Waiting == {"tosleep", "sleep"}
Counter == 0..(Wrap - 1)
Index == 0..(PIPESIZE - 1)

Types ==
  /\ nread \in Counter /\ nwrite \in Counter
  /\ data \in [Index -> Byte]
  /\ readopen \in BOOLEAN /\ writeopen \in BOOLEAN /\ freed \in BOOLEAN
  /\ lock \in Proc \cup {Nobody}
  /\ holders \in SUBSET Proc
  /\ pc \in [Proc -> Places]
  /\ addr \in [Proc -> Seq(Byte)]
  /\ want \in [Proc -> Nat]
  /\ ret \in [Proc -> Seq(Byte)]
  /\ killed \in [Proc -> BOOLEAN]

\* The ring holds at most PIPESIZE bytes, and whoever is in a call has bytes to
\* write or room to read into.
RingInv ==
  /\ Used <= PIPESIZE
  /\ \A p \in Writer : pc[p] # "idle" => Len(addr[p]) > 0
  /\ \A p \in Reader : pc[p] # "idle" => want[p] > 0

\* Descriptors against the flags of the pipe; only a process with a descriptor
\* is in a call, and p->lock is held just across the way to sleep().
EndsInv ==
  /\ readopen <=> Reader \cap holders # {}
  /\ writeopen <=> Writer \cap holders # {}
  /\ freed <=> holders = {}
  /\ \A p \in Proc : pc[p] # "idle" => p \in holders
  /\ \A p \in Proc : pc[p] = "tosleep" <=> lock = p

\* A process that sleeps, or is about to, has what to wait for, and never both
\* ends wait.
WaitInv ==
  /\ \A w \in Writer : pc[w] \in Waiting => IsFull /\ readopen
  /\ \A r \in Reader : pc[r] \in Waiting => writeopen /\ (IsEmpty \/ \E w \in Writer : killed[w])
  /\ \A w \in Writer, r \in Reader : ~(pc[w] \in Waiting /\ pc[r] \in Waiting)

IInv == Types /\ RingInv /\ EndsInv /\ WaitInv
-----------------------------------------------------------------------------
(* The arithmetic of the counters.                                         *)

\* The constants as numbers.
LEMMA Sizes == PipeAssumption => PIPESIZE \in Nat /\ PIPESIZE > 0 /\ Wrap \in Nat /\ Wrap > PIPESIZE
BY DEF PipeAssumption

\* The rest of a number below the modulus.
LEMMA ModSmall == ASSUME NEW W \in Nat, W > 0, NEW x \in Nat, x < W PROVE x % W = x
OBVIOUS

\* The rest of a number just past the modulus.
LEMMA ModOnce == ASSUME NEW W \in Nat, W > 0, NEW x \in Nat, x < W PROVE (x + W) % W = x
OBVIOUS

\* A counter moved on wraps at most once.
LEMMA WrapAdd ==
  ASSUME PipeAssumption, NEW n \in Counter, NEW k \in 0..PIPESIZE
  PROVE  /\ uint(n + k) \in Counter
         /\ uint(n + k) = IF n + k < Wrap THEN n + k ELSE n + k - Wrap
<1>1. CASE n + k < Wrap
  BY <1>1, Sizes, ModSmall DEF uint, Counter
<1>2. CASE ~(n + k < Wrap)
  <2>1. n + k - Wrap \in Nat /\ n + k - Wrap < Wrap /\ (n + k - Wrap) + Wrap = n + k
    BY <1>2, Sizes DEF Counter
  <2>2. ((n + k - Wrap) + Wrap) % Wrap = n + k - Wrap
    BY <2>1, Sizes, ModOnce
  <2> QED
    BY <1>2, <2>1, <2>2, Sizes DEF uint, Counter
<1> QED
  BY <1>1, <1>2

\* The distance from one counter to the other.
Dist(r, w) == IF r <= w THEN w - r ELSE w + Wrap - r

\* The subtraction of unsigned counters gives that distance.
LEMMA UintDist ==
  ASSUME PipeAssumption, NEW r \in Counter, NEW w \in Counter
  PROVE  uint(w + Wrap - r) = Dist(r, w) /\ Dist(r, w) \in Counter
<1>1. CASE r <= w
  <2>1. w - r \in Nat /\ w - r < Wrap /\ (w - r) + Wrap = w + Wrap - r
    BY <1>1, Sizes DEF Counter
  <2>2. ((w - r) + Wrap) % Wrap = w - r
    BY <2>1, Sizes, ModOnce
  <2> QED
    BY <1>1, <2>1, <2>2, Sizes DEF uint, Dist, Counter
<1>2. CASE ~(r <= w)
  BY <1>2, Sizes, ModSmall DEF uint, Dist, Counter
<1> QED
  BY <1>1, <1>2

\* What is used is the distance from nread to nwrite.
LEMMA UsedIs == ASSUME PipeAssumption, Types PROVE Used = Dist(nread, nwrite) /\ Used \in Nat
BY UintDist, Sizes DEF Used, Types, Counter

\* Empty and full are what their tests say, as the ring is shorter than the wrap.
LEMMA EmptyFull ==
  ASSUME PipeAssumption, NEW r \in Counter, NEW w \in Counter, Dist(r, w) <= PIPESIZE
  PROVE  (r = w <=> Dist(r, w) = 0) /\ (w = uint(r + PIPESIZE) <=> Dist(r, w) = PIPESIZE)
<1>1. uint(r + PIPESIZE) = IF r + PIPESIZE < Wrap THEN r + PIPESIZE ELSE r + PIPESIZE - Wrap
  BY Sizes, WrapAdd
<1> QED
  BY <1>1, Sizes DEF Dist, Counter

\* The tests of the code in terms of what is used ...
LEMMA IsEmptyFull ==
  ASSUME PipeAssumption, Types, RingInv
  PROVE  (IsEmpty <=> Used = 0) /\ (IsFull <=> Used = PIPESIZE)
BY EmptyFull, UsedIs DEF Types, RingInv, IsEmpty, IsFull

\* ... and after a step.
LEMMA IsEmptyFullNext ==
  ASSUME PipeAssumption, Types', RingInv'
  PROVE  (IsEmpty' <=> Used' = 0) /\ (IsFull' <=> Used' = PIPESIZE)
<1>1. Used' = Dist(nread', nwrite')
  BY UintDist DEF Used, Types
<1> QED
  BY <1>1, EmptyFull DEF Types, RingInv, IsEmpty, IsFull

\* Adding to nwrite adds to what is used, adding to nread takes from it.
LEMMA DistAdd ==
  ASSUME PipeAssumption, NEW r \in Counter, NEW w \in Counter, NEW k \in 0..PIPESIZE,
         Dist(r, w) + k <= PIPESIZE
  PROVE  Dist(r, uint(w + k)) = Dist(r, w) + k
<1>1. uint(w + k) = IF w + k < Wrap THEN w + k ELSE w + k - Wrap
  BY WrapAdd
<1> QED
  BY <1>1, Sizes DEF Dist, Counter

\* Reading k bytes takes k from the distance.
LEMMA DistTake ==
  ASSUME PipeAssumption, NEW r \in Counter, NEW w \in Counter, NEW k \in 0..PIPESIZE,
         Dist(r, w) <= PIPESIZE, k <= Dist(r, w)
  PROVE  Dist(uint(r + k), w) = Dist(r, w) - k
<1>1. uint(r + k) = IF r + k < Wrap THEN r + k ELSE r + k - Wrap
  BY WrapAdd
<1> QED
  BY <1>1, Sizes DEF Dist, Counter

\* The smaller of two numbers.
LEMMA MinOf == ASSUME NEW a \in Nat, NEW b \in Nat PROVE Min({a, b}) = IF a <= b THEN a ELSE b
<1> DEFINE m == IF a <= b THEN a ELSE b
<1>1. m \in {a, b} /\ \A y \in {a, b} : m <= y
  OBVIOUS
<1>2. \A x \in {a, b} : (\A y \in {a, b} : x <= y) => x = m
  OBVIOUS
<1> HIDE DEF m
<1>3. Min({a, b}) = m
  BY <1>1, <1>2 DEF Min
<1> QED
  BY <1>3 DEF m
-----------------------------------------------------------------------------
(* The invariant.                                                          *)

\* A new pipe is empty and both its ends are held.
LEMMA InitIInv == PipeAssumption /\ Init => IInv
<1> SUFFICES ASSUME PipeAssumption, Init PROVE IInv
  OBVIOUS
<1> USE DEF Init, Proc, Places, Waiting
<1>1. Types
  <2>1. 0 \in Counter /\ 0 \in Nat /\ Index = 0..(PIPESIZE - 1)
    BY Sizes DEF Counter, Index
  <2>2. data \in [Index -> Byte]
    BY <2>1 DEF PipeAssumption
  <2>3. <<>> \in Seq(Byte)
    OBVIOUS
  <2> QED
    BY <2>1, <2>2, <2>3 DEF Types
<1>2. RingInv
  BY <1>1, UsedIs, Sizes DEF RingInv, Dist
<1>3. EndsInv /\ WaitInv
  BY DEF EndsInv, WaitInv, PipeAssumption
<1> QED
  BY <1>1, <1>2, <1>3 DEF IInv

\* How pipewrite() moves on: it writes what fits, and goes on to sleep only when
\* the ring is full.
WriteLen(p) == IF Len(addr[p]) <= PIPESIZE - Used THEN Len(addr[p]) ELSE PIPESIZE - Used

\* pipewrite() adds WriteLen bytes and ends, gives up or goes to sleep.
LEMMA WriteEffect ==
  ASSUME PipeAssumption, Types, RingInv, NEW p \in Writer, pipewrite(p)
  PROVE  /\ pc[p] = "enter" /\ lock = Nobody
         /\ WriteLen(p) \in 0..PIPESIZE /\ WriteLen(p) <= Len(addr[p])
         /\ Used + WriteLen(p) <= PIPESIZE
         /\ nwrite' = uint(nwrite + WriteLen(p)) /\ nwrite' \in Counter /\ nread' = nread
         /\ Used' = Used + WriteLen(p)
         /\ data' = [j \in DOMAIN data |->
                       IF \E m \in 1..WriteLen(p) : Slot(m) = j
                       THEN addr[p][CHOOSE m \in 1..WriteLen(p) : Slot(m) = j]
                       ELSE data[j]]
         /\ \/ /\ WriteLen(p) = Len(addr[p]) /\ lock' = lock
               /\ pc' = [Woken(Reader, pc) EXCEPT ![p] = "idle"]
               /\ addr' = [addr EXCEPT ![p] = <<>>]
            \/ /\ WriteLen(p) < Len(addr[p]) /\ Used' = PIPESIZE /\ Hopeless(p) /\ lock' = lock
               /\ pc' = [pc EXCEPT ![p] = "idle"]
               /\ addr' = [addr EXCEPT ![p] = <<>>]
            \/ /\ WriteLen(p) < Len(addr[p]) /\ Used' = PIPESIZE /\ ~Hopeless(p) /\ lock' = p
               /\ pc' = [Woken(Reader, pc) EXCEPT ![p] = "tosleep"]
               /\ addr' = [addr EXCEPT ![p] = SubSeq(@, WriteLen(p) + 1, Len(@))]
<1>1. Len(addr[p]) \in Nat /\ Used \in Nat /\ Room \in Nat /\ Used <= PIPESIZE
  BY UsedIs, Sizes DEF Types, RingInv, Proc, Room
<1>2. Min({Len(addr[p]), Room}) = WriteLen(p)
  BY <1>1, MinOf DEF WriteLen, Room
<1>3. WriteLen(p) \in 0..PIPESIZE /\ WriteLen(p) <= Len(addr[p]) /\ Used + WriteLen(p) <= PIPESIZE
  BY <1>1, Sizes DEF WriteLen
<1>4. nwrite' = uint(nwrite + WriteLen(p)) /\ nread' = nread
  BY <1>2 DEF pipewrite
<1>5. nwrite' \in Counter /\ nread' \in Counter
  BY <1>3, <1>4, WrapAdd DEF Types
<1>6. Used' = Used + WriteLen(p)
  <2>1. Used' = Dist(nread', nwrite')
    BY <1>5, UintDist DEF Used
  <2> QED
    BY <2>1, <1>3, <1>4, UsedIs, DistAdd DEF Types
<1>7. WriteLen(p) < Len(addr[p]) => Used' = PIPESIZE
  BY <1>1, <1>6, Sizes DEF WriteLen
<1>8. WriteLen(p) = Len(addr[p]) \/ WriteLen(p) < Len(addr[p])
  BY <1>1, <1>3
<1> QED
  BY <1>2, <1>3, <1>4, <1>5, <1>6, <1>7, <1>8 DEF pipewrite, WakeFromWrite, WakeFromFull

\* How piperead() moves on.
ReadLen(p) == IF want[p] <= Used THEN want[p] ELSE Used

\* piperead() takes ReadLen bytes when it need not wait.
LEMMA ReadEffect ==
  ASSUME PipeAssumption, Types, RingInv, NEW p \in Reader, piperead(p), ~MustWait
  PROVE  /\ ReadLen(p) \in 0..PIPESIZE /\ ReadLen(p) <= Used
         /\ nread' = uint(nread + ReadLen(p)) /\ nread' \in Counter
         /\ Used' = Used - ReadLen(p)
         /\ ret' = [ret EXCEPT ![p] = [i \in 1..ReadLen(p) |-> data[uint(nread + i - 1) % PIPESIZE]]]
<1>1. want[p] \in Nat /\ Used \in Nat /\ Used <= PIPESIZE
  BY UsedIs, Sizes DEF Types, RingInv, Proc
<1>2. Min({want[p], Used}) = ReadLen(p)
  BY <1>1, MinOf DEF ReadLen
<1>3. ReadLen(p) \in 0..PIPESIZE /\ ReadLen(p) <= Used
  BY <1>1, Sizes DEF ReadLen
<1>4. nread' = uint(nread + ReadLen(p)) /\ nwrite' = nwrite
  BY <1>2 DEF piperead
<1>5. nread' \in Counter /\ nwrite' \in Counter
  BY <1>3, <1>4, WrapAdd DEF Types
<1>6. Used' = Used - ReadLen(p)
  <2>1. Used' = Dist(nread', nwrite')
    BY <1>5, UintDist DEF Used
  <2> QED
    BY <2>1, <1>1, <1>3, <1>4, UsedIs, DistTake DEF Types
<1> QED
  BY <1>2, <1>3, <1>4, <1>5, <1>6 DEF piperead

\* Places in the ring.
LEMMA ModIndex == ASSUME PipeAssumption, NEW x \in Nat PROVE uint(x) % PIPESIZE \in Index
<1>1. uint(x) \in Nat
  BY Sizes DEF uint
<1> QED
  BY <1>1, Sizes DEF Index

\* Whatever place is read holds a byte.
LEMMA RingByte ==
  ASSUME PipeAssumption, Types, NEW i \in Nat, i > 0
  PROVE  data[uint(nread + i - 1) % PIPESIZE] \in Byte
<1>1. nread + i - 1 \in Nat
  BY Sizes DEF Types, Counter
<1> QED
  BY <1>1, ModIndex DEF Types

\* Every step keeps the types.
LEMMA TypesStep == PipeAssumption /\ IInv /\ [Next]_vars => Types'
<1> SUFFICES ASSUME PipeAssumption, Types, RingInv, [Next]_vars PROVE Types'
  BY DEF IInv
<1> USE DEF Types, Proc, Places, pipeVars
<1>1. ASSUME NEW p \in Proc, sys_write(p) PROVE Types'
  <2>1. \A q : q \in UNION {[1..n -> Byte] : n \in 1..MaxN} => q \in Seq(Byte)
    BY DEF PipeAssumption
  <2>2. addr' \in [Proc -> Seq(Byte)]
    BY <1>1, <2>1 DEF sys_write
  <2> QED
    BY <1>1, <2>2 DEF sys_write
<1>2. ASSUME NEW p \in Proc, pipewrite(p) PROVE Types'
  <2> DEFINE k == WriteLen(p)
  <2>1. p \in Writer
    BY <1>2 DEF pipewrite
  <2>2. k \in Nat /\ k <= Len(addr[p]) /\ addr[p] \in Seq(Byte)
    BY <1>2, <2>1, WriteEffect, Sizes
  <2>3. data' \in [Index -> Byte]
    <3>1. \A j \in Index : (\E m \in 1..k : Slot(m) = j) => addr[p][CHOOSE m \in 1..k : Slot(m) = j] \in Byte
      <4> SUFFICES ASSUME NEW j \in Index, \E m \in 1..k : Slot(m) = j
                   PROVE  addr[p][CHOOSE m \in 1..k : Slot(m) = j] \in Byte
        OBVIOUS
      <4>1. (CHOOSE m \in 1..k : Slot(m) = j) \in 1..k
        OBVIOUS
      <4>2. \A m \in 1..k : addr[p][m] \in Byte
        BY <2>2
      <4> QED
        BY <4>1, <4>2
    <3>2. data' = [j \in Index |-> IF \E m \in 1..k : Slot(m) = j
                                   THEN addr[p][CHOOSE m \in 1..k : Slot(m) = j] ELSE data[j]]
      BY <1>2, <2>1, WriteEffect
    <3> QED
      BY <3>1, <3>2
  <2>4. SubSeq(addr[p], k + 1, Len(addr[p])) \in Seq(Byte) /\ <<>> \in Seq(Byte)
    BY <2>2
  <2> HIDE DEF k
  <2>5. addr' \in [Proc -> Seq(Byte)]
    <3>1. \E t \in Seq(Byte) : addr' = [addr EXCEPT ![p] = t]
      BY <1>2, <2>1, <2>4, WriteEffect DEF k
    <3> QED
      BY <3>1
  <2>6. pc' \in [Proc -> Places] /\ lock' \in Proc \cup {Nobody}
    BY <1>2, <2>1, WriteEffect DEF Woken
  <2>7. nread' \in Counter /\ nwrite' \in Counter
    BY <1>2, <2>1, WriteEffect
  <2> QED
    BY <1>2, <2>3, <2>5, <2>6, <2>7 DEF pipewrite
<1>3. ASSUME NEW p \in Proc, sys_read(p) PROVE Types'
  BY <1>3 DEF sys_read
<1>4. ASSUME NEW p \in Proc, piperead(p) PROVE Types'
  <2>1. p \in Reader
    BY <1>4 DEF piperead
  <2>2. CASE MustWait
    BY <1>4, <2>2 DEF piperead
  <2>3. CASE ~MustWait
    <3>1. nread' \in Counter /\ ReadLen(p) \in Nat
      BY <1>4, <2>1, <2>3, ReadEffect, Sizes
    <3>2. [i \in 1..ReadLen(p) |-> data[uint(nread + i - 1) % PIPESIZE]] \in Seq(Byte)
      BY SMTT(40), <3>1, RingByte
    <3>3. ret' \in [Proc -> Seq(Byte)]
      BY <1>4, <2>1, <2>3, <3>2, ReadEffect
    <3>4. pc' \in [Proc -> Places] /\ lock' = lock
      BY <1>4, <2>3 DEF piperead, WakeFromRead, Woken
    <3> QED
      BY <1>4, <3>1, <3>3, <3>4 DEF piperead
  <2> QED
    BY <2>2, <2>3
<1>5. ASSUME NEW p \in Proc, sleep(p) PROVE Types'
  BY <1>5 DEF sleep
<1>6. ASSUME NEW p \in Proc, kill(p) PROVE Types'
  BY <1>6 DEF kill, Woken
<1>7. ASSUME NEW p \in Proc, close(p) PROVE Types'
  BY <1>7 DEF close, WakeFromClose, Woken, LastEnd
<1>8. CASE UNCHANGED vars
  BY <1>8 DEF vars
<1> HIDE DEF Types, Proc, Places, pipeVars
<1> QED
  BY <1>1, <1>2, <1>3, <1>4, <1>5, <1>6, <1>7, <1>8 DEF Next

\* No step puts more into the ring than it holds.
LEMMA RingStep == PipeAssumption /\ IInv /\ [Next]_vars => RingInv'
<1> SUFFICES ASSUME PipeAssumption, Types, RingInv, EndsInv, [Next]_vars PROVE RingInv'
  BY DEF IInv
<1> USE DEF RingInv, Proc, Places, pipeVars
<1>1. ASSUME NEW p \in Proc, sys_write(p) PROVE RingInv'
  <2>1. PICK q \in UNION {[1..n -> Byte] : n \in 1..MaxN} : addr' = [addr EXCEPT ![p] = q]
    BY <1>1 DEF sys_write
  <2>2. PICK n \in 1..MaxN : q \in [1..n -> Byte]
    BY <2>1
  <2>3. Len(q) > 0
    BY <2>2 DEF PipeAssumption
  <2> QED
    BY <1>1, <2>1, <2>3 DEF sys_write, Used, Types, PipeAssumption
<1>2. ASSUME NEW p \in Proc, pipewrite(p) PROVE RingInv'
  <2>1. p \in Writer /\ p \notin Reader
    BY <1>2 DEF pipewrite, PipeAssumption
  <2>2. Used' <= PIPESIZE
    BY <1>2, <2>1, WriteEffect
  <2>3. \A q \in Proc \ {p} : addr'[q] = addr[q] /\ (pc'[q] # "idle" => pc[q] # "idle")
    <3>1. \E t : addr' = [addr EXCEPT ![p] = t]
      BY <1>2, <2>1, WriteEffect
    <3>2. \A q \in Proc \ {p} : pc'[q] # "idle" => pc[q] # "idle"
      BY <1>2 DEF pipewrite, WakeFromWrite, WakeFromFull, Woken, Types
    <3> QED
      BY <3>1, <3>2 DEF Types
  <2>4. pc'[p] # "idle" => Len(addr'[p]) > 0
    <3>1. SUFFICES ASSUME pc'[p] # "idle" PROVE Len(addr'[p]) > 0
      OBVIOUS
    <3>2. /\ WriteLen(p) < Len(addr[p]) /\ WriteLen(p) \in Nat /\ addr[p] \in Seq(Byte)
          /\ addr'[p] = SubSeq(addr[p], WriteLen(p) + 1, Len(addr[p]))
      BY <1>2, <2>1, <3>1, WriteEffect, Sizes DEF Types, Woken
    <3> QED
      BY <3>2
  <2>5. want' = want
    BY <1>2 DEF pipewrite
  <2> QED
    BY <2>1, <2>2, <2>3, <2>4, <2>5
<1>3. ASSUME NEW p \in Proc, sys_read(p) PROVE RingInv'
  <2>1. PICK n \in 1..MaxN : want' = [want EXCEPT ![p] = n]
    BY <1>3 DEF sys_read
  <2>2. n > 0 /\ p \in Reader /\ p \notin Writer
    BY <1>3 DEF sys_read, PipeAssumption
  <2>3. pc' = [pc EXCEPT ![p] = "enter"] /\ UNCHANGED <<nread, nwrite, addr>>
    BY <1>3 DEF sys_read
  <2> QED
    BY <2>1, <2>2, <2>3 DEF Used, Types
<1>4. ASSUME NEW p \in Proc, piperead(p) PROVE RingInv'
  <2>1. p \in Reader
    BY <1>4 DEF piperead
  <2>2. Used' <= PIPESIZE
    <3>1. CASE MustWait
      BY <1>4, <3>1 DEF piperead, Used
    <3>2. CASE ~MustWait
      BY <1>4, <2>1, <3>2, ReadEffect, UsedIs, Sizes
    <3> QED
      BY <3>1, <3>2
  <2>3. UNCHANGED <<addr, want>> /\ \A q \in Proc : pc'[q] # "idle" => pc[q] # "idle"
    BY <1>4 DEF piperead, WakeFromRead, Woken, Types
  <2> QED
    BY <2>2, <2>3
<1>5. ASSUME NEW p \in Proc, sleep(p) PROVE RingInv'
  BY <1>5 DEF sleep, Used, Types
<1>6. ASSUME NEW p \in Proc, kill(p) PROVE RingInv'
  BY <1>6 DEF kill, Woken, Used, Types
<1>7. ASSUME NEW p \in Proc, close(p) PROVE RingInv'
  <2>1. UNCHANGED <<nread, nwrite, addr, want>>
    BY <1>7 DEF close
  <2>2. \A q \in Proc : pc'[q] # "idle" => pc[q] # "idle"
    BY <1>7 DEF close, WakeFromClose, Woken, Types
  <2> QED
    BY <2>1, <2>2 DEF Used
<1>8. CASE UNCHANGED vars
  BY <1>8 DEF vars, Used
<1> HIDE DEF RingInv, Proc, Places, pipeVars
<1> QED
  BY <1>1, <1>2, <1>3, <1>4, <1>5, <1>6, <1>7, <1>8 DEF Next

\* What close() does to the flags, for the last descriptor of an end and for
\* any other.
LEMMA CloseEffect ==
  ASSUME PipeAssumption, NEW p \in Proc, close(p)
  PROVE  \/ /\ p \in Writer /\ p \notin Reader /\ Writer \cap holders = {p}
            /\ writeopen' = FALSE /\ readopen' = readopen
            /\ freed' = (freed \/ ~readopen) /\ pc' = Woken(Reader, pc)
         \/ /\ p \in Reader /\ p \notin Writer /\ Reader \cap holders = {p}
            /\ readopen' = FALSE /\ writeopen' = writeopen
            /\ freed' = (freed \/ ~writeopen) /\ pc' = Woken(Writer, pc)
         \/ /\ \/ p \in Writer /\ p \notin Reader /\ Writer \cap holders # {p}
               \/ p \in Reader /\ p \notin Writer /\ Reader \cap holders # {p}
            /\ UNCHANGED <<readopen, writeopen, freed, pc>>
<1>1. (p \in Writer /\ p \notin Reader) \/ (p \in Reader /\ p \notin Writer)
  <2>1. Writer \cap Reader = {}
    BY DEF PipeAssumption
  <2> QED
    BY <2>1 DEF Proc
<1> QED
  BY <1>1, Zenon DEF close, WakeFromClose, LastEnd

\* Every step keeps descriptors, flags and p->lock together.
LEMMA EndsStep == PipeAssumption /\ IInv /\ [Next]_vars => EndsInv'
<1> SUFFICES ASSUME PipeAssumption, Types, EndsInv, [Next]_vars PROVE EndsInv'
  BY DEF IInv
<1> USE DEF EndsInv, Types, Proc, Places, pipeVars
<1>1. ASSUME NEW p \in Proc, sys_write(p) PROVE EndsInv'
  BY <1>1 DEF sys_write
<1>2. ASSUME NEW p \in Proc, pipewrite(p) PROVE EndsInv'
  <2>1. UNCHANGED <<readopen, writeopen, freed, holders>> /\ lock = Nobody /\ pc[p] = "enter"
    BY <1>2 DEF pipewrite
  <2>2. \A q \in Proc : pc[q] # "tosleep"
    BY <2>1 DEF PipeAssumption
  <2>3. \/ lock' = Nobody /\ pc'[p] = "idle"
        \/ lock' = p /\ pc'[p] = "tosleep"
    BY <1>2 DEF pipewrite, WakeFromWrite, WakeFromFull, Woken
  <2>4. \A q \in Proc \ {p} : pc'[q] = pc[q] \/ (pc[q] = "sleep" /\ pc'[q] = "enter")
    BY <1>2 DEF pipewrite, WakeFromWrite, WakeFromFull, Woken
  <2> QED
    BY <2>1, <2>2, <2>3, <2>4 DEF PipeAssumption
<1>3. ASSUME NEW p \in Proc, sys_read(p) PROVE EndsInv'
  BY <1>3 DEF sys_read
<1>4. ASSUME NEW p \in Proc, piperead(p) PROVE EndsInv'
  <2>1. UNCHANGED <<readopen, writeopen, freed, holders>> /\ lock = Nobody /\ pc[p] = "enter"
    BY <1>4 DEF piperead
  <2>2. \A q \in Proc : pc[q] # "tosleep"
    BY <2>1 DEF PipeAssumption
  <2>3. \/ lock' = Nobody /\ pc'[p] = "idle"
        \/ lock' = p /\ pc'[p] = "tosleep"
    BY <1>4 DEF piperead, WakeFromRead, Woken
  <2>4. \A q \in Proc \ {p} : pc'[q] = pc[q] \/ (pc[q] = "sleep" /\ pc'[q] = "enter")
    BY <1>4 DEF piperead, WakeFromRead, Woken
  <2> QED
    BY <2>1, <2>2, <2>3, <2>4 DEF PipeAssumption
<1>5. ASSUME NEW p \in Proc, sleep(p) PROVE EndsInv'
  BY <1>5 DEF sleep, PipeAssumption
<1>6. ASSUME NEW p \in Proc, kill(p) PROVE EndsInv'
  BY <1>6 DEF kill, Woken
<1>7. ASSUME NEW p \in Proc, close(p) PROVE EndsInv'
  <2>1. p \in holders /\ pc[p] = "idle" /\ holders' = holders \ {p} /\ lock' = lock
    BY <1>7 DEF close
  <2>2. \A q \in Proc : (pc'[q] # "idle" => pc[q] # "idle") /\ (pc'[q] = "tosleep" <=> pc[q] = "tosleep")
    BY <1>7 DEF close, WakeFromClose, Woken
  <2>3. CASE p \in Writer /\ Writer \cap holders = {p}
    <3>1. /\ writeopen' = FALSE /\ readopen' = readopen /\ freed' = (freed \/ ~readopen)
      BY <1>7, <2>3, CloseEffect
    <3>2. Writer \cap holders' = {} /\ Reader \cap holders' = Reader \cap holders
      BY <2>1, <2>3 DEF PipeAssumption
    <3>3. holders' = {} <=> Reader \cap holders = {}
      BY <2>1, <2>3 DEF PipeAssumption
    <3> QED
      BY <2>1, <2>2, <3>1, <3>2, <3>3
  <2>4. CASE p \in Writer /\ Writer \cap holders # {p}
    <3>1. UNCHANGED <<readopen, writeopen, freed>>
      BY <1>7, <2>4, CloseEffect
    <3>a. PICK q \in Writer \cap holders : q # p
      BY <2>1, <2>4
    <3>b. q \in Writer \cap holders'
      BY <2>1, <3>a
    <3>c. Reader \cap holders' = Reader \cap holders
      BY SMTT(40), <2>1, <2>4 DEF PipeAssumption
    <3>2. Reader \cap holders' = Reader \cap holders /\ Writer \cap holders' # {} /\ Writer \cap holders # {}
      BY <3>a, <3>b, <3>c
    <3>3. holders # {} /\ holders' # {}
      BY <3>2
    <3> QED
      BY <2>1, <2>2, <3>1, <3>2, <3>3
  <2>5. CASE p \in Reader /\ Reader \cap holders = {p}
    <3>1. /\ readopen' = FALSE /\ writeopen' = writeopen /\ freed' = (freed \/ ~writeopen)
      BY <1>7, <2>5, CloseEffect
    <3>2. Reader \cap holders' = {} /\ Writer \cap holders' = Writer \cap holders
      BY <2>1, <2>5 DEF PipeAssumption
    <3>3. holders' = {} <=> Writer \cap holders = {}
      BY <2>1, <2>5 DEF PipeAssumption
    <3> QED
      BY <2>1, <2>2, <3>1, <3>2, <3>3
  <2>6. CASE p \in Reader /\ Reader \cap holders # {p}
    <3>1. UNCHANGED <<readopen, writeopen, freed>>
      BY <1>7, <2>6, CloseEffect
    <3>a. PICK q \in Reader \cap holders : q # p
      BY <2>1, <2>6
    <3>b. q \in Reader \cap holders'
      BY <2>1, <3>a
    <3>c. Writer \cap holders' = Writer \cap holders
      BY <2>1, <2>6 DEF PipeAssumption
    <3>2. Writer \cap holders' = Writer \cap holders /\ Reader \cap holders' # {} /\ Reader \cap holders # {}
      BY <3>a, <3>b, <3>c
    <3>3. holders # {} /\ holders' # {}
      BY <3>2
    <3> QED
      BY <2>1, <2>2, <3>1, <3>2, <3>3
  <2> QED
    BY <2>3, <2>4, <2>5, <2>6
<1>8. CASE UNCHANGED vars
  BY <1>8 DEF vars
<1> HIDE DEF EndsInv, Types, Proc, Places, pipeVars
<1> QED
  BY <1>1, <1>2, <1>3, <1>4, <1>5, <1>6, <1>7, <1>8 DEF Next

\* Every step wakes those it gives what they wait for, and none makes both ends\n\* wait for each other.
LEMMA WaitStep == PipeAssumption /\ IInv /\ [Next]_vars => WaitInv'
<1> SUFFICES ASSUME PipeAssumption, Types, RingInv, EndsInv, WaitInv, Types', RingInv', [Next]_vars PROVE WaitInv'
  BY TypesStep, RingStep DEF IInv
<1> USE DEF WaitInv, Proc, Places, Waiting, pipeVars
<1>1. ASSUME NEW p \in Proc, sys_write(p) PROVE WaitInv'
  BY <1>1 DEF sys_write, IsFull, IsEmpty, Types
<1>2. ASSUME NEW p \in Proc, pipewrite(p) PROVE WaitInv'
  <2>1. p \in Writer /\ p \notin Reader
    BY <1>2 DEF pipewrite, PipeAssumption
  <2>2. /\ lock = Nobody /\ Used' = Used + WriteLen(p) /\ Used + WriteLen(p) <= PIPESIZE
        /\ WriteLen(p) \in Nat /\ Used \in Nat
    BY <1>2, <2>1, WriteEffect, UsedIs, Sizes
  <2>3. \A q \in Proc : pc[q] # "tosleep"
    BY <2>2 DEF EndsInv, PipeAssumption
  <2>4. UNCHANGED <<readopen, writeopen, killed>>
    BY <1>2 DEF pipewrite
  <2>5. IsFull => IsFull'
    BY <2>2, IsEmptyFull, IsEmptyFullNext, Sizes
  <2>6. CASE WriteLen(p) = Len(addr[p])
    <3>1. pc' = [Woken(Reader, pc) EXCEPT ![p] = "idle"]
      BY <1>2, <2>1, <2>6, WriteEffect
    <3>2. \A r \in Reader : pc'[r] \notin Waiting
      BY <2>1, <2>3, <3>1 DEF Woken, Types
    <3>3. \A w \in Writer : pc'[w] \in Waiting => pc[w] \in Waiting
      BY <2>1, <3>1 DEF Woken, Types, PipeAssumption
    <3> QED
      BY <2>4, <2>5, <3>2, <3>3
  <2>7. CASE WriteLen(p) < Len(addr[p]) /\ Hopeless(p)
    <3>1. pc' = [pc EXCEPT ![p] = "idle"]
      BY <1>2, <2>1, <2>7, WriteEffect
    <3>2. \A q \in Proc : pc'[q] \in Waiting => pc[q] \in Waiting
      BY <3>1 DEF Types
    <3>3. \A r \in Reader : pc[r] \in Waiting => readopen
      BY <2>1 DEF EndsInv
    <3>4. \A r \in Reader : pc[r] \in Waiting => killed[p]
      BY <2>7, <3>3 DEF Hopeless
    <3> QED
      BY <2>1, <2>4, <2>5, <3>2, <3>4
  <2>8. CASE WriteLen(p) < Len(addr[p]) /\ ~Hopeless(p)
    <3>1. pc' = [Woken(Reader, pc) EXCEPT ![p] = "tosleep"] /\ Used' = PIPESIZE
      BY <1>2, <2>1, <2>8, WriteEffect
    <3>2. IsFull' /\ readopen'
      BY <2>4, <2>8, <3>1, IsEmptyFullNext DEF Hopeless
    <3>3. \A r \in Reader : pc'[r] \notin Waiting
      BY <2>1, <2>3, <3>1 DEF Woken, Types
    <3> QED
      BY <3>2, <3>3
  <2> QED
    BY <1>2, <2>1, <2>6, <2>7, <2>8, WriteEffect
<1>3. ASSUME NEW p \in Proc, sys_read(p) PROVE WaitInv'
  BY <1>3 DEF sys_read, IsFull, IsEmpty, Types
<1>4. ASSUME NEW p \in Proc, piperead(p) PROVE WaitInv'
  <2>1. p \in Reader /\ p \notin Writer /\ lock = Nobody
    BY <1>4 DEF piperead, PipeAssumption
  <2>2. UNCHANGED <<readopen, writeopen, killed>>
    BY <1>4 DEF piperead
  <2>3. \A q \in Proc : pc[q] # "tosleep"
    BY <2>1 DEF EndsInv, PipeAssumption
  <2>4. CASE MustWait
    <3>1. UNCHANGED <<nread, nwrite>> /\ IsEmpty /\ writeopen
      BY <1>4, <2>4 DEF piperead, MustWait
    <3>2. pc' = [pc EXCEPT ![p] = "idle"] \/ pc' = [pc EXCEPT ![p] = "tosleep"]
      BY <1>4, <2>4 DEF piperead
    <3>3. ~IsFull
      BY <3>1, IsEmptyFull, Sizes
    <3>4. \A w \in Writer : pc[w] \notin Waiting
      BY <3>3
    <3>5. \A w \in Writer : pc'[w] \notin Waiting
      BY <2>1, <3>2, <3>4 DEF Types
    <3>6. IsEmpty' /\ writeopen'
      BY <2>2, <3>1 DEF IsEmpty
    <3> QED
      BY <3>5, <3>6
  <2>5. CASE ~MustWait
    <3>1. pc' = [Woken(Writer, pc) EXCEPT ![p] = "idle"]
      BY <1>4, <2>5 DEF piperead, WakeFromRead
    <3>2. \A w \in Writer : pc'[w] \notin Waiting
      BY <2>1, <2>3, <3>1 DEF Woken, Types
    <3>3. \A r \in Reader : pc'[r] \in Waiting => pc[r] \in Waiting
      BY <2>1, <3>1 DEF Woken, Types, PipeAssumption
    <3>4. \A r \in Reader : pc[r] \in Waiting => ~IsEmpty
      BY <2>5 DEF MustWait
    <3> QED
      BY <2>2, <3>2, <3>3, <3>4
  <2> QED
    BY <2>4, <2>5
<1>5. ASSUME NEW p \in Proc, sleep(p) PROVE WaitInv'
  BY <1>5 DEF sleep, IsFull, IsEmpty, Types
<1>6. ASSUME NEW p \in Proc, kill(p) PROVE WaitInv'
  BY <1>6 DEF kill, Woken, IsFull, IsEmpty, Types
<1>7. ASSUME NEW p \in Proc, close(p) PROVE WaitInv'
  <2>1. UNCHANGED <<nread, nwrite, killed>> /\ lock = Nobody
    BY <1>7 DEF close
  <2>2. \A q \in Proc : pc[q] # "tosleep"
    BY <2>1 DEF EndsInv, PipeAssumption
  <2>3. \A q \in Proc : pc'[q] \in Waiting => pc[q] \in Waiting
    BY <1>7 DEF close, WakeFromClose, Woken
  <2>4. readopen' = readopen \/ \A w \in Writer : pc'[w] \notin Waiting
    <3>1. readopen' = readopen \/ pc' = Woken(Writer, pc)
      BY <1>7, CloseEffect
    <3> QED
      BY <2>2, <3>1 DEF Woken
  <2>5. writeopen' = writeopen \/ \A r \in Reader : pc'[r] \notin Waiting
    <3>1. writeopen' = writeopen \/ pc' = Woken(Reader, pc)
      BY <1>7, CloseEffect
    <3> QED
      BY <2>2, <3>1 DEF Woken
  <2> QED
    BY <2>1, <2>3, <2>4, <2>5 DEF IsFull, IsEmpty
<1>8. CASE UNCHANGED vars
  BY <1>8 DEF vars, IsFull, IsEmpty
<1> HIDE DEF WaitInv, Proc, Places, Waiting, pipeVars
<1> QED
  BY <1>1, <1>2, <1>3, <1>4, <1>5, <1>6, <1>7, <1>8 DEF Next

\* The inductive invariant holds always.
LEMMA Inductive == ASSUME PipeAssumption PROVE Spec => []IInv
<1>1. Init => IInv
  BY InitIInv
<1>2. IInv /\ [Next]_vars => IInv'
  BY TypesStep, RingStep, EndsStep, WaitStep DEF IInv
<1> QED
  BY <1>1, <1>2, PTL DEF Spec

\* For any number of writers and readers nobody at a pipe is left waiting for
\* what has happened, the ends never wait for each other, and the page is given
\* back with the last descriptor, although the counters wrap around.
THEOREM EndsAreServed == ASSUME PipeAssumption PROVE Spec => []EndsServed
<1>1. IInv => EndsServed
  BY DEF IInv, EndsServed, NoStandoff, SleepersMustWait, FreedAtLastClose, WaitInv, EndsInv, Waiting
<1> QED
  BY <1>1, Inductive, PTL
-----------------------------------------------------------------------------
(* The ring is a queue.                                                    *)

\* A number is a multiple of the size of the ring and a rest.
LEMMA DivMod ==
  ASSUME NEW P \in Nat, P > 0, NEW y \in Nat
  PROVE  \E k \in Nat : y = k * P + (y % P)
<1>1. y = P * (y \div P) + (y % P)
  OBVIOUS
<1>2. y \div P \in Int
  OBVIOUS
<1>3. y \div P >= 0
  OBVIOUS
<1>4. y = (y \div P) * P + (y % P)
  BY <1>1
<1>5. y \div P \in Nat
  BY <1>2, <1>3
<1> QED
  BY <1>4, <1>5

\* Counting on by a multiple of the size of the ring does not change the place.
LEMMA ModShift ==
  ASSUME NEW P \in Nat, P > 0, NEW y \in Nat, NEW W \in Nat, W % P = 0
  PROVE  (y + W) % P = y % P
<1> DEFINE r == y % P
<1>0. PICK c \in Nat : W = c * P + (W % P)
  BY DivMod
<1>1. W = c * P
  BY <1>0
<1>2. PICK d \in Nat : y = d * P + r
  BY DivMod
<1>3. r \in 0..(P - 1)
  OBVIOUS
<1> HIDE DEF r
<1>4. (c + d) * P = c * P + d * P
  OBVIOUS
<1>5. y + W = (c + d) * P + r /\ c + d \in Nat
  BY <1>1, <1>2, <1>3, <1>4
<1>6. \A k \in Nat, e \in 0..(P - 1), x \in Nat : x = k * P + e => x % P = e
  OBVIOUS
<1>7. y + W \in Nat
  OBVIOUS
<1>8. (y + W) % P = r
  BY <1>3, <1>5, <1>6, <1>7
<1> QED
  BY <1>8 DEF r

\* Fewer than PIPESIZE bytes apart, two bytes have different places.
LEMMA ModApart ==
  ASSUME NEW P \in Nat, P > 0, NEW a \in Nat, NEW b \in Nat, a < b, b < a + P
  PROVE  a % P # b % P
<1> SUFFICES ASSUME a % P = b % P PROVE FALSE
  OBVIOUS
<1> DEFINE r == a % P
<1>1. PICK i \in Nat : a = i * P + r
  BY DivMod
<1>2. PICK j \in Nat : b = j * P + r
  BY DivMod
<1>3. r \in 0..(P - 1)
  OBVIOUS
<1> HIDE DEF r
<1>4. i * P \in Nat /\ j * P \in Nat
  OBVIOUS
<1>5. j * P > i * P /\ j * P < i * P + P
  BY <1>1, <1>2, <1>3, <1>4
<1>6. CASE j <= i
  <2>1. j * P <= i * P
    BY <1>6
  <2> QED
    BY <1>4, <1>5, <2>1
<1>7. CASE j >= i + 1
  <2>1. j * P >= (i + 1) * P
    BY <1>7
  <2>2. (i + 1) * P = i * P + P
    OBVIOUS
  <2> QED
    BY <1>4, <1>5, <2>1, <2>2
<1> QED
  BY <1>6, <1>7

\* Where the i-th byte of the ring lies.
Place(i) == (nread + i - 1) % PIPESIZE

\* The wrap of a counter moves no byte, as PIPESIZE divides it.
LEMMA UintPlace ==
  ASSUME PipeAssumption, NEW n \in Counter, NEW k \in 0..PIPESIZE
  PROVE  uint(n + k) % PIPESIZE = (n + k) % PIPESIZE
<1>1. CASE n + k < Wrap
  BY <1>1, WrapAdd
<1>2. CASE ~(n + k < Wrap)
  <2>1. uint(n + k) = n + k - Wrap
    BY <1>2, WrapAdd
  <2>2. n + k - Wrap \in Nat /\ (n + k - Wrap) + Wrap = n + k
    BY <1>2, Sizes DEF Counter
  <2>3. ((n + k - Wrap) + Wrap) % PIPESIZE = (n + k - Wrap) % PIPESIZE
    BY <2>2, Sizes, ModShift DEF PipeAssumption
  <2> QED
    BY <2>1, <2>2, <2>3
<1> QED
  BY <1>1, <1>2

\* Counting on from a counter that has been moved.
LEMMA UintTwice ==
  ASSUME PipeAssumption, NEW n \in Counter, NEW k \in 0..PIPESIZE, NEW m \in 0..PIPESIZE
  PROVE  uint(uint(n + k) + m) % PIPESIZE = (n + k + m) % PIPESIZE
<1>1. uint(n + k) \in Counter
  BY WrapAdd
<1>2. uint(uint(n + k) + m) % PIPESIZE = (uint(n + k) + m) % PIPESIZE
  BY <1>1, UintPlace
<1>3. CASE n + k < Wrap
  BY <1>2, <1>3, WrapAdd
<1>4. CASE ~(n + k < Wrap)
  <2>1. uint(n + k) = n + k - Wrap
    BY <1>4, WrapAdd
  <2>2. n + k - Wrap + m \in Nat /\ (n + k - Wrap + m) + Wrap = n + k + m
    BY <1>4, Sizes DEF Counter
  <2>3. ((n + k - Wrap + m) + Wrap) % PIPESIZE = (n + k - Wrap + m) % PIPESIZE
    BY <2>2, Sizes, ModShift DEF PipeAssumption
  <2> QED
    BY <1>2, <2>1, <2>2, <2>3
<1> QED
  BY <1>3, <1>4

\* nwrite is nread moved on by what is used.
LEMMA WriteIsMoved ==
  ASSUME PipeAssumption, Types, RingInv
  PROVE  nwrite = uint(nread + Used)
<1>1. Used = Dist(nread, nwrite) /\ Used \in 0..PIPESIZE
  BY UsedIs, Sizes DEF RingInv
<1>2. uint(nread + Used) = IF nread + Used < Wrap THEN nread + Used ELSE nread + Used - Wrap
  BY <1>1, WrapAdd DEF Types
<1> QED
  BY <1>1, <1>2, Sizes DEF Dist, Types, Counter

\* The bytes and the slots a write fills lie at consecutive places, all different.
LEMMA RingPlaces ==
  ASSUME PipeAssumption, Types, RingInv
  PROVE  /\ Bytes = [i \in 1..Used |-> data[Place(i)]]
         /\ \A m \in 1..PIPESIZE : Slot(m) = Place(Used + m)
         /\ \A i \in 1..PIPESIZE : Place(i) \in Index
         /\ \A i, j \in 1..PIPESIZE : Place(i) = Place(j) => i = j
<1>1. Used \in 0..PIPESIZE /\ nread \in Counter /\ nread \in Nat
  BY UsedIs, Sizes DEF RingInv, Types, Counter
<1>2. \A i \in 1..PIPESIZE : uint(nread + i - 1) % PIPESIZE = Place(i)
  <2> TAKE i \in 1..PIPESIZE
  <2>1. i - 1 \in 0..PIPESIZE /\ nread + (i - 1) = nread + i - 1
    BY <1>1, Sizes
  <2> QED
    BY <1>1, <2>1, UintPlace DEF Place
<1>3. Bytes = [i \in 1..Used |-> data[Place(i)]]
  <2>1. \A i \in 1..Used : i \in 1..PIPESIZE
    BY <1>1, Sizes
  <2> QED
    BY <1>2, <2>1 DEF Bytes
<1>4. \A m \in 1..PIPESIZE : Slot(m) = Place(Used + m)
  <2> TAKE m \in 1..PIPESIZE
  <2>1. m - 1 \in 0..PIPESIZE /\ nread + Used + (m - 1) = nread + (Used + m) - 1
    BY <1>1, Sizes
  <2>2. nwrite = uint(nread + Used) /\ nwrite + m - 1 = nwrite + (m - 1)
    BY <1>1, Sizes, WriteIsMoved DEF Types, Counter
  <2>3. uint(uint(nread + Used) + (m - 1)) % PIPESIZE = (nread + Used + (m - 1)) % PIPESIZE
    BY <1>1, <2>1, UintTwice
  <2> QED
    BY <2>1, <2>2, <2>3 DEF Slot, Place
<1>5. \A i \in 1..PIPESIZE : Place(i) \in Index
  BY <1>1, Sizes DEF Place, Index
<1>6. \A i, j \in 1..PIPESIZE : i < j => Place(i) # Place(j)
  <2> TAKE i, j \in 1..PIPESIZE
  <2> HAVE i < j
  <2>1. nread + i - 1 \in Nat /\ nread + j - 1 \in Nat
    BY <1>1, Sizes
  <2>2. nread + i - 1 < nread + j - 1 /\ nread + j - 1 < nread + i - 1 + PIPESIZE
    BY <1>1, Sizes
  <2> QED
    BY <2>1, <2>2, ModApart, Sizes DEF Place
<1>7. \A i, j \in 1..PIPESIZE : i < j \/ j < i \/ i = j
  BY Sizes
<1> QED
  BY <1>3, <1>4, <1>5, <1>6, <1>7

\* The bytes of the ring are a sequence as long as what is used.
LEMMA BytesSeq ==
  ASSUME PipeAssumption, Types, RingInv
  PROVE  Bytes \in Seq(Byte) /\ Len(Bytes) = Used
<1>1. Used \in Nat /\ Used <= PIPESIZE
  BY UsedIs DEF RingInv
<1>2. \A i \in 1..Used : data[Place(i)] \in Byte
  <2> TAKE i \in 1..Used
  <2>1. i \in 1..PIPESIZE
    BY <1>1, Sizes
  <2>2. Place(i) \in Index
    BY <2>1, RingPlaces
  <2> QED
    BY <2>2 DEF Types
<1>3. Bytes = [i \in 1..Used |-> data[Place(i)]]
  BY RingPlaces
<1> QED
  BY <1>1, <1>2, <1>3

\* Two sequences put together, element by element.
LEMMA ConcatIs ==
  ASSUME NEW S, NEW s \in Seq(S), NEW t \in Seq(S)
  PROVE  s \o t = [i \in 1..(Len(s) + Len(t)) |-> IF i <= Len(s) THEN s[i] ELSE t[i - Len(s)]]
<1>1. s \o t \in Seq(S) /\ Len(s \o t) = Len(s) + Len(t) /\ Len(s) \in Nat /\ Len(t) \in Nat
  OBVIOUS
<1>0. \A u \in Seq(S) : u = [i \in 1..Len(u) |-> u[i]]
  OBVIOUS
<1>2. s \o t = [i \in 1..Len(s \o t) |-> (s \o t)[i]]
  BY <1>0, <1>1, Zenon
<1>3. \A i \in 1..(Len(s) + Len(t)) : (s \o t)[i] = IF i <= Len(s) THEN s[i] ELSE t[i - Len(s)]
  BY <1>1
<1> QED
  BY <1>1, <1>2, <1>3

\* A write puts its bytes after those in the ring, and touches none of them.
LEMMA WriteAppends ==
  ASSUME PipeAssumption, Types, RingInv, NEW p \in Writer, pipewrite(p), Types', RingInv'
  PROVE  Bytes' = Bytes \o SubSeq(addr[p], 1, WriteLen(p))
<1> DEFINE k == WriteLen(p)
<1>1. /\ k \in 0..PIPESIZE /\ k <= Len(addr[p]) /\ Used + k <= PIPESIZE /\ Used' = Used + k
      /\ nread' = nread /\ addr[p] \in Seq(Byte) /\ Used \in Nat
  BY WriteEffect, UsedIs DEF Types, Proc
<1>2. data' = [j \in Index |-> IF \E m \in 1..k : Slot(m) = j
                               THEN addr[p][CHOOSE m \in 1..k : Slot(m) = j] ELSE data[j]]
  BY WriteEffect DEF Types
<1> HIDE DEF k
<1>3. Bytes' = [i \in 1..(Used + k) |-> data'[Place(i)]]
  <2>1. \A i \in 1..(Used + k) : uint(nread + i - 1) % PIPESIZE = Place(i)
    <3> TAKE i \in 1..(Used + k)
    <3>1. i - 1 \in 0..PIPESIZE /\ nread + (i - 1) = nread + i - 1
      BY <1>1, Sizes DEF Types, Counter
    <3> QED
      BY <3>1, UintPlace DEF Place, Types
  <2> QED
    BY <1>1, <2>1 DEF Bytes
<1>4. \A i \in 1..Used : data'[Place(i)] = data[Place(i)]
  <2> TAKE i \in 1..Used
  <2>1. i \in 1..PIPESIZE /\ Place(i) \in Index
    BY <1>1, Sizes, RingPlaces
  <2>2. \A m \in 1..k : Slot(m) # Place(i)
    <3> TAKE m \in 1..k
    <3>1. m \in 1..PIPESIZE /\ Used + m \in 1..PIPESIZE /\ Used + m # i
      BY <1>1, Sizes
    <3> QED
      BY <2>1, <3>1, RingPlaces
  <2> QED
    BY <1>2, <2>1, <2>2
<1>5. \A m \in 1..k : data'[Place(Used + m)] = addr[p][m]
  <2> TAKE m \in 1..k
  <2>1. m \in 1..PIPESIZE /\ Used + m \in 1..PIPESIZE
    BY <1>1, Sizes
  <2>2. Place(Used + m) \in Index /\ Slot(m) = Place(Used + m)
    BY <2>1, RingPlaces
  <2>3. \A l \in 1..k : Slot(l) = Place(Used + m) => l = m
    <3> TAKE l \in 1..k
    <3>1. l \in 1..PIPESIZE /\ Used + l \in 1..PIPESIZE
      BY <1>1, Sizes
    <3>2. Slot(l) = Place(Used + m) => Used + l = Used + m
      BY <2>1, <3>1, RingPlaces
    <3> QED
      BY <1>1, <3>1, <3>2
  <2>4. (CHOOSE l \in 1..k : Slot(l) = Place(Used + m)) = m
    BY <2>2, <2>3
  <2> QED
    BY <1>2, <2>2, <2>4
<1>6. Bytes = [i \in 1..Used |-> data[Place(i)]]
  BY RingPlaces
<1>7. Bytes \in Seq(Byte) /\ Len(Bytes) = Used
  BY BytesSeq
<1> DEFINE t == SubSeq(addr[p], 1, k)
<1>8. t \in Seq(Byte) /\ Len(t) = k /\ \A m \in 1..k : t[m] = addr[p][m]
  BY <1>1
<1> HIDE DEF t
<1>9. Bytes \o t = [i \in 1..(Used + k) |-> IF i <= Used THEN Bytes[i] ELSE t[i - Used]]
  <2> HIDE DEF Bytes, Used
  <2>1. Bytes \o t = [i \in 1..(Len(Bytes) + Len(t)) |-> IF i <= Len(Bytes) THEN Bytes[i] ELSE t[i - Len(Bytes)]]
    BY <1>7, <1>8, ConcatIs, Zenon
  <2> QED
    BY <1>7, <1>8, <2>1
<1>10. \A i \in 1..(Used + k) : data'[Place(i)] = IF i <= Used THEN Bytes[i] ELSE t[i - Used]
  <2> TAKE i \in 1..(Used + k)
  <2>1. CASE i <= Used
    <3>1. i \in 1..Used
      BY <1>1, <2>1
    <3> QED
      BY <1>4, <1>6, <2>1, <3>1
  <2>2. CASE ~(i <= Used)
    <3>1. i - Used \in 1..k /\ Used + (i - Used) = i
      BY <1>1, <2>2
    <3> QED
      BY <1>5, <1>8, <2>2, <3>1
  <2> QED
    BY <2>1, <2>2
<1> QED
  BY <1>3, <1>9, <1>10 DEF t, k

\* A read takes the oldest bytes off the ring.
LEMMA ReadTakes ==
  ASSUME PipeAssumption, Types, RingInv, NEW p \in Reader, piperead(p), ~MustWait, Types', RingInv'
  PROVE  /\ Bytes' = SubSeq(Bytes, ReadLen(p) + 1, Len(Bytes))
         /\ ret' = [ret EXCEPT ![p] = SubSeq(Bytes, 1, ReadLen(p))]
         /\ Len(Bytes) = Used
<1> DEFINE k == ReadLen(p)
<1>1. /\ k \in 0..PIPESIZE /\ k <= Used /\ nread' = uint(nread + k) /\ Used' = Used - k
      /\ data' = data /\ Used \in Nat /\ Used <= PIPESIZE /\ nread \in Counter /\ nread \in Nat
  <2>1. data' = data
    BY DEF piperead
  <2>2. Used \in Nat /\ Used <= PIPESIZE /\ nread \in Counter /\ nread \in Nat
    BY UsedIs, Sizes DEF RingInv, Types, Counter
  <2> QED
    BY <2>1, <2>2, ReadEffect
<1>2. ret' = [ret EXCEPT ![p] = [i \in 1..k |-> data[uint(nread + i - 1) % PIPESIZE]]]
  BY ReadEffect
<1> HIDE DEF k
<1>3. \A i \in 1..PIPESIZE : uint(nread + i - 1) % PIPESIZE = Place(i)
  <2> TAKE i \in 1..PIPESIZE
  <2>1. i - 1 \in 0..PIPESIZE /\ nread + (i - 1) = nread + i - 1
    BY <1>1, Sizes
  <2> QED
    BY <1>1, <2>1, UintPlace DEF Place
<1>4. Bytes = [i \in 1..Used |-> data[Place(i)]]
  BY RingPlaces
<1>5. Bytes \in Seq(Byte) /\ Len(Bytes) = Used
  BY BytesSeq
<1>6. SubSeq(Bytes, 1, k) = [i \in 1..k |-> data[uint(nread + i - 1) % PIPESIZE]]
  <2>1. \A i \in 1..k : i \in 1..PIPESIZE /\ i \in 1..Used
    BY <1>1, Sizes
  <2>2. SubSeq(Bytes, 1, k) = [i \in 1..k |-> Bytes[i]]
    BY <1>1, <1>5
  <2>3. \A i \in 1..k : Bytes[i] = data[uint(nread + i - 1) % PIPESIZE]
    BY <1>3, <1>4, <2>1
  <2> QED
    BY <2>2, <2>3
<1>7. Bytes' = SubSeq(Bytes, k + 1, Len(Bytes))
  <2>1. SubSeq(Bytes, k + 1, Len(Bytes)) = [i \in 1..(Used - k) |-> Bytes[k + i]]
    BY <1>1, <1>5
  <2>2. \A i \in 1..(Used - k) : uint(nread' + i - 1) % PIPESIZE = Place(k + i) /\ k + i \in 1..Used
    <3> TAKE i \in 1..(Used - k)
    <3>1. /\ i - 1 \in 0..PIPESIZE /\ nread + k + (i - 1) = nread + (k + i) - 1
          /\ k + i \in 1..Used
      BY <1>1, Sizes
    <3>2. nread' + i - 1 = uint(nread + k) + (i - 1)
      BY <1>1, Sizes, WrapAdd DEF Counter
    <3>3. uint(uint(nread + k) + (i - 1)) % PIPESIZE = (nread + k + (i - 1)) % PIPESIZE
      BY <1>1, <3>1, UintTwice
    <3> QED
      BY <3>1, <3>2, <3>3 DEF Place
  <2>3. Bytes' = [i \in 1..(Used - k) |-> data[Place(k + i)]]
    BY <1>1, <2>2 DEF Bytes
  <2>4. \A i \in 1..(Used - k) : data[Place(k + i)] = Bytes[k + i]
    BY <1>4, <2>2
  <2> QED
    BY <2>1, <2>3, <2>4
<1> QED
  BY <1>2, <1>5, <1>6, <1>7 DEF k

\* Every step of the pipe is a step of the queue, or none.
LEMMA QueueStep == PipeAssumption /\ IInv /\ IInv' /\ [Next]_vars => [Queue!Next]_Queue!vars
<1> SUFFICES ASSUME PipeAssumption, Types, RingInv, Types', RingInv', [Next]_vars
             PROVE  [Queue!Next]_Queue!vars
  BY DEF IInv
<1>0. ASSUME UNCHANGED <<nread, nwrite, data, addr, ret>> PROVE UNCHANGED Queue!vars
  BY <1>0 DEF Queue!vars, Bytes, Used
<1>1. ASSUME NEW p \in Proc, sys_write(p) PROVE Queue!Next
  <2>1. UNCHANGED <<Bytes, ret>>
    BY <1>1 DEF sys_write, pipeVars, Bytes, Used
  <2>2. addr'[p] \in Seq(Byte) /\ addr' = [addr EXCEPT ![p] = addr'[p]]
    BY <1>1 DEF sys_write, Types
  <2>3. Queue!Offer(p)
    BY <2>1, <2>2 DEF Queue!Offer
  <2> QED
    BY <2>3 DEF Queue!Next
<1>2. ASSUME NEW p \in Proc, pipewrite(p) PROVE [Queue!Next]_Queue!vars
  <2> DEFINE k == WriteLen(p)
  <2>1. p \in Writer /\ ret' = ret /\ nread' = nread
    BY <1>2 DEF pipewrite
  <2>2. k \in Nat /\ k \in 0..PIPESIZE /\ k <= Len(addr[p]) /\ Used + k <= PIPESIZE /\ addr[p] \in Seq(Byte)
    <3>1. addr[p] \in Seq(Byte)
      BY DEF Types
    <3>2. k \in 0..PIPESIZE /\ k <= Len(addr[p]) /\ Used + k <= PIPESIZE
      BY <1>2, <2>1, WriteEffect
    <3> QED
      BY <3>1, <3>2, Sizes
  <2>3. Bytes' = Bytes \o SubSeq(addr[p], 1, k)
    BY <1>2, <2>1, WriteAppends
  <2>4. \/ addr' = [addr EXCEPT ![p] = <<>>]
        \/ addr' = [addr EXCEPT ![p] = SubSeq(@, k + 1, Len(@))]
    BY <1>2, <2>1, WriteEffect
  <2>5. Bytes \in Seq(Byte) /\ Len(Bytes) = Used
    BY BytesSeq
  <2> HIDE DEF k
  <2>6. CASE k = 0
    <3>1. SubSeq(addr[p], 1, k) = <<>> /\ SubSeq(addr[p], k + 1, Len(addr[p])) = addr[p]
      BY <2>2, <2>6
    <3>2. Bytes' = Bytes
      <4>1. \A s \in Seq(Byte) : s \o <<>> = s
        OBVIOUS
      <4>2. Bytes' = Bytes \o <<>>
        BY <2>3, <3>1, Zenon
      <4> QED
        BY <2>5, <4>1, <4>2, Zenon
    <3>3. addr' = [addr EXCEPT ![p] = <<>>] \/ addr' = addr
      <4>1. addr \in [Proc -> Seq(Byte)]
        BY DEF Types
      <4>2. [addr EXCEPT ![p] = SubSeq(@, k + 1, Len(@))] = [addr EXCEPT ![p] = addr[p]]
        BY <3>1
      <4>3. [addr EXCEPT ![p] = addr[p]] = addr
        BY <4>1
      <4> QED
        BY <2>4, <4>2, <4>3
    <3>4. Queue!Drop(p) \/ UNCHANGED Queue!vars
      BY <2>1, <3>2, <3>3 DEF Queue!Drop, Queue!vars
    <3> QED
      BY <3>4 DEF Queue!Next
  <2>7. CASE k # 0
    <3>1. k \in 1..PIPESIZE /\ Len(Bytes) + k <= PIPESIZE
      BY <2>2, <2>5, <2>7
    <3>2. Queue!Put(p)
      BY <2>1, <2>2, <2>3, <2>4, <3>1 DEF Queue!Put
    <3> QED
      BY <3>2 DEF Queue!Next
  <2> QED
    BY <2>6, <2>7
<1>3. ASSUME NEW p \in Proc, sys_read(p) PROVE UNCHANGED Queue!vars
  BY <1>0, <1>3 DEF sys_read, pipeVars
<1>4. ASSUME NEW p \in Proc, piperead(p) PROVE [Queue!Next]_Queue!vars
  <2>1. p \in Reader /\ UNCHANGED <<nwrite, data, addr>> /\ pc[p] = "enter"
    BY <1>4 DEF piperead
  <2>2. CASE MustWait
    BY <1>0, <1>4, <2>1, <2>2 DEF piperead
  <2>3. CASE ~MustWait
    <3>1. /\ Bytes' = SubSeq(Bytes, ReadLen(p) + 1, Len(Bytes))
          /\ ret' = [ret EXCEPT ![p] = SubSeq(Bytes, 1, ReadLen(p))]
          /\ Len(Bytes) = Used /\ Bytes \in Seq(Byte)
      BY <1>4, <2>1, <2>3, ReadTakes, BytesSeq
    <3>2. ReadLen(p) \in 0..Used /\ Used \in Nat
      BY <1>4, <2>1, <2>3, ReadEffect, UsedIs, Sizes
    <3>3. (ReadLen(p) = 0) => (Used = 0)
      BY <2>1 DEF ReadLen, RingInv
    <3>4. (Used = 0) => (Bytes = <<>>)
      BY <3>1
    <3>5. Queue!Get(p)
      BY <2>1, <3>1, <3>2, <3>3, <3>4 DEF Queue!Get
    <3> QED
      BY <3>5 DEF Queue!Next
  <2> QED
    BY <2>2, <2>3
<1>5. ASSUME NEW p \in Proc, sleep(p) PROVE UNCHANGED Queue!vars
  BY <1>0, <1>5 DEF sleep, pipeVars
<1>6. ASSUME NEW p \in Proc, kill(p) PROVE UNCHANGED Queue!vars
  BY <1>0, <1>6 DEF kill, pipeVars
<1>7. ASSUME NEW p \in Proc, close(p) PROVE UNCHANGED Queue!vars
  BY <1>0, <1>7 DEF close
<1>8. CASE UNCHANGED vars
  BY <1>0, <1>8 DEF vars
<1> QED
  BY <1>1, <1>2, <1>3, <1>4, <1>5, <1>6, <1>7, <1>8 DEF Next

\* For every size of the ring and every number of processes, a pipe is a bounded
\* first-in first-out queue: its bytes survive the wrap of the counters and of
\* the ring, none lost, doubled or out of order.
THEOREM PipeIsQueue == ASSUME PipeAssumption PROVE Spec => IsQueue
<1>1. Init => Queue!Init
  <2> SUFFICES ASSUME Init PROVE Queue!Init
    OBVIOUS
  <2>1. Types /\ RingInv /\ nread = nwrite
    BY InitIInv DEF IInv, Init
  <2>2. Used = 0
    BY <2>1, IsEmptyFull DEF IsEmpty
  <2>3. Bytes = <<>>
    BY <2>1, <2>2, BytesSeq
  <2> QED
    BY <2>3 DEF Init, Queue!Init
<1>2. IInv /\ IInv' /\ [Next]_vars => [Queue!Next]_Queue!vars
  BY QueueStep
<1>3. Spec => []IInv
  BY Inductive
<1> QED
  BY <1>1, <1>2, <1>3, PTL DEF Spec, IsQueue, Queue!Spec
=============================================================================
