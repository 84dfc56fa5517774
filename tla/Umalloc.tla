------------------------------ MODULE Umalloc ------------------------------
(***************************************************************************)
(* The user-level allocator (umalloc.c): a circular free list in address   *)
(* order, grown with sbrk().  Addresses count headers.                     *)
(***************************************************************************)
EXTENDS Integers, FiniteSets

CONSTANTS NALLOC,    \* the least number of units asked of sbrk(): 4096
          Requests,  \* sizes in bytes that the program asks for
          Limit      \* the address at which sbrk() fails

VARIABLE heap

Header == 16         \* sizeof(Header)
base == 1            \* the static header, below the heap; 0 is the null pointer
Start == 3

Init == heap = [ptr |-> [a \in {} |-> 0], size |-> [a \in {} |-> 0], freep |-> 0, brk |-> Start,
                used |-> {},     \* blocks the program holds
                core |-> {}]     \* units obtained by morecore()

\* What a header that no longer starts a block holds is never read: it is dropped.
Drop(f, a) == [x \in DOMAIN f \ {a} |-> f[x]]
Put(f, a, v) == [x \in DOMAIN f \cup {a} |-> IF x = a THEN v ELSE f[x]]

Wraps(h, p, bp) == p >= h.ptr[p] /\ (bp > p \/ bp < h.ptr[p])
\* The free block after which bp belongs.
RECURSIVE Place(_, _, _)
Place(h, p, bp) ==
  IF (bp > p /\ bp < h.ptr[p]) \/ Wraps(h, p, bp) THEN p ELSE Place(h, h.ptr[p], bp)

\* Mutant: a block is not joined to the one above it.
Joins_never(h, bp, up) == FALSE
Joins(h, bp, up) == bp + h.size[bp] = up
free(h, bp) ==
  LET p == Place(h, h.freep, bp)
      up == h.ptr[p]
      upper == Joins(h, bp, up)
      size == h.size[bp] + (IF upper THEN h.size[up] ELSE 0)
      ptr == IF upper THEN h.ptr[up] ELSE up
      lower == p + h.size[p] = bp
  IN  [h EXCEPT !.freep = p,
                !.size = LET f == IF upper THEN Drop(@, up) ELSE @
                         IN  IF lower THEN Put(Drop(f, bp), p, f[p] + size) ELSE Put(f, bp, size),
                !.ptr = LET f == IF upper THEN Drop(@, up) ELSE @
                        IN  IF lower THEN Put(f, p, ptr) ELSE Put(Put(f, bp, ptr), p, bp)]

\* sbrk() succeeded: what it gave is freed into the list.
morecore(h, nunits) ==
  LET nu == IF nunits < NALLOC THEN NALLOC ELSE nunits
  IN  free([h EXCEPT !.brk = @ + nu, !.size = Put(@, h.brk, nu), !.core = @ \cup (h.brk..(h.brk + nu - 1))], h.brk)
Exhausted(h, nunits) == h.brk + (IF nunits < NALLOC THEN NALLOC ELSE nunits) > Limit

\* The loop of malloc(); a failed sbrk() leaves the list alone.
RECURSIVE Search(_, _, _, _)
Search(h, prevp, p, nunits) ==
  IF h.size[p] = nunits
  THEN [h EXCEPT !.ptr = Put(Drop(@, p), prevp, @[p]), !.freep = prevp, !.used = @ \cup {p}]
  ELSE IF h.size[p] > nunits
  THEN LET q == p + h.size[p] - nunits
       IN  [h EXCEPT !.size = Put(Put(@, p, @[p] - nunits), q, nunits), !.freep = prevp, !.used = @ \cup {q}]
  ELSE IF p # h.freep THEN Search(h, p, h.ptr[p], nunits)
  ELSE IF Exhausted(h, nunits) THEN h
  ELSE LET m == morecore(h, nunits) IN Search(m, m.freep, m.ptr[m.freep], nunits)

malloc(nbytes) ==
  LET nunits == (nbytes + Header - 1) \div Header + 1
      h == IF heap.freep = 0
           THEN [heap EXCEPT !.freep = base, !.ptr = Put(@, base, base), !.size = Put(@, base, 0)]
           ELSE heap
  IN  heap' = Search(h, h.freep, h.ptr[h.freep], nunits)

Free(bp) == heap' = [free(heap, bp) EXCEPT !.used = @ \ {bp}]

\* The program calls sbrk() itself: the heap is no longer contiguous.
sbrk == heap.brk < Limit /\ heap' = [heap EXCEPT !.brk = @ + 1]

Next == (\E n \in Requests : malloc(n)) \/ (\E bp \in heap.used : Free(bp)) \/ sbrk
Spec == Init /\ [][Next]_heap
-----------------------------------------------------------------------------
\* The blocks on the free list, found by following it from the static header.
RECURSIVE Reached(_, _)
Reached(a, n) == IF n = 0 \/ heap.ptr[a] = base THEN {} ELSE {heap.ptr[a]} \cup Reached(heap.ptr[a], n - 1)
Units(a) == a..(a + heap.size[a] - 1)

\* After any sequence of malloc(), free() and sbrk(), every unit obtained from
\* the kernel is in exactly one block, held or free; the free list goes up in
\* address and back to the static header, wherever freep points; and no two free
\* blocks touch.
HeapSound ==
  heap.freep # 0 =>
    LET list == Reached(base, Limit)
        blocks == heap.used \cup list
    IN  /\ heap.freep \in list \cup {base}
        /\ UNION {Units(b) : b \in blocks} = heap.core
        /\ heap.used \cap list = {}
        /\ \A b, c \in blocks : b # c => Units(b) \cap Units(c) = {}
        /\ \A b \in list : heap.ptr[b] = base \/ heap.ptr[b] > b
        /\ \A b, c \in list : b + heap.size[b] # c
=============================================================================
