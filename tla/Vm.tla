------------------------------- MODULE Vm -------------------------------
(***************************************************************************)
(* Physical pages, page tables and user images: kalloc.c, vm.c, exec.c and *)
(* the parts of fork, wait and growproc in proc.c that allocate and free.  *)
(*                                                                         *)
(* Addresses count words.  A page table is a function from what a page is  *)
(* for, <<"pml4", 0>>, <<"pdp", i>>, <<"pd", i>>, <<"pt", i>> or           *)
(* <<"user", n>> for the page at n * PGSIZE, to the page itself.  Only its *)
(* own process changes a page table and kalloc is atomic, so a call is one *)
(* step; what the steps of two calls could share is the free list, and     *)
(* when that is empty the kernel halts whoever asks.                       *)
(***************************************************************************)
EXTENDS Integers, Sequences

CONSTANTS NPages,    \* pages of physical memory
          NPROC,     \* entries of the process table; the first is init
          PGSIZE,    \* words of a page
          SPAN,      \* entries of a page table
          KERNBASE,  \* first address that is not a user's
          ADDRS,     \* number of addresses: arithmetic is modulo ADDRS
          Programs,  \* programs: their loadable segments, in order
          Strings,   \* argument lists: lengths of the strings in words
          Grow,      \* arguments of sbrk
          MaxCalls   \* bound: system calls in a behaviour

\* user.ld links programs above the first page.
Linked == \A prog \in Programs : \A i \in DOMAIN prog : prog[i].vaddr >= PGSIZE

ASSUME VmAssumption ==
  /\ NPages \in Nat \ {0} /\ NPROC \in Nat \ {0} /\ PGSIZE \in Nat \ {0} /\ SPAN \in Nat \ {0}
  /\ KERNBASE \in Nat /\ ADDRS \in Nat /\ 2 * PGSIZE < KERNBASE /\ KERNBASE <= ADDRS
  /\ Programs \subseteq Seq([vaddr : Nat, memsz : Nat, filesz : Nat, cut : BOOLEAN]) /\ Linked
  /\ Strings \subseteq Seq(Nat) /\ Grow \subseteq Int /\ MaxCalls \in Nat

Pages == 1..NPages
Procs == 1..NPROC

VARIABLES free,   \* kmem.freelist, as a set
          proc,   \* the process table: state, parent, kstack, pgdir, noU, sz, and the rsp
                  \* and top of the stack exec gave it, top 0 once sbrk has taken that
          calls,
          panic   \* why the kernel has halted, or "no"

vars == <<free, proc, calls, panic>>

PGROUNDUP(a) == ((a + PGSIZE - 1) \div PGSIZE) * PGSIZE
PageOf(a) == a \div PGSIZE
\* The pages that start in from..to-1.
PagesIn(from, to) == PageOf(from)..(PageOf(PGROUNDUP(to)) - 1)
Least(S) == CHOOSE i \in S : \A j \in S : i <= j

\* for(i = from; i < to; i++) x = body(x, i)
Loop(body(_, _), x, from, to) ==
  LET s[i \in from..to] == IF i = from THEN x ELSE body(s[i - 1], i - 1)
  IN  IF to <= from THEN x ELSE s[to]

(************************* allocation and page tables **********************)

\* What a call works on: the free pages, a page table, the pages of it whose
\* PTE_U is clear, the size allocuvm returns, and the panic it ran into.
Mem(f, pt, g) == [free |-> f, pt |-> pt, noU |-> g, sz |-> 0, err |-> "no"]
Fails(m, why) == IF m.err # "no" THEN m ELSE [m EXCEPT !.err = why]
NoPages == [k \in {} |-> 0]
Put(f, k, v) == [x \in DOMAIN f \cup {k} |-> IF x = k THEN v ELSE f[x]]

\* kalloc, for the purpose k: some page, that at the head of the list.
kalloc(m, k) ==
  IF m.err # "no" \/ m.free = {} THEN Fails(m, "Out of memory!")
  ELSE LET pg == CHOOSE x \in m.free : TRUE IN [m EXCEPT !.free = @ \ {pg}, !.pt = Put(@, k, pg)]

\* The page-table pages on the way to user page n.
Pt(n) == <<"pt", n \div SPAN>>
Pd(n) == <<"pd", (n \div SPAN) \div SPAN>>
Pdp(n) == <<"pdp", ((n \div SPAN) \div SPAN) \div SPAN>>
Ensure(m, k) == IF k \in DOMAIN m.pt THEN m ELSE kalloc(m, k)
walkpgdir(m, n) == Ensure(Ensure(Ensure(m, Pdp(n)), Pd(n)), Pt(n))
Reaches(pt, n) == {Pdp(n), Pd(n), Pt(n)} \subseteq DOMAIN pt
Present(pt, n) == <<"user", n>> \in DOMAIN pt

\* A fresh page for user page n: kalloc, then mappages.
mappages(m, n) ==
  IF Present(m.pt, n) THEN Fails(m, "remap")
  ELSE walkpgdir(kalloc(m, <<"user", n>>), n)

setupkvm(f) == kalloc(Mem(f, NoPages, {}), <<"pml4", 0>>)

\* Mutant: the page that oldsz ends in is allocated again.
AllocFrom_down(oldsz) == PageOf(oldsz) * PGSIZE
AllocFrom(oldsz) == PGROUNDUP(oldsz)
allocuvm(m, oldsz, newsz) ==
  IF newsz >= KERNBASE THEN [m EXCEPT !.sz = 0]
  ELSE IF newsz < oldsz THEN [m EXCEPT !.sz = oldsz]
  ELSE [Loop(mappages, m, PageOf(AllocFrom(oldsz)), PageOf(PGROUNDUP(newsz))) EXCEPT !.sz = newsz]

\* Mutant: the page that newsz ends in is given back too.
FreeFrom_down(newsz) == PageOf(newsz) * PGSIZE
FreeFrom(newsz) == PGROUNDUP(newsz)
deallocuvm(m, oldsz, newsz) ==
  LET gone == {n \in PagesIn(FreeFrom(newsz), oldsz) : Present(m.pt, n)}
  IN  IF newsz >= oldsz THEN [m EXCEPT !.sz = oldsz]
      ELSE [m EXCEPT !.sz = newsz, !.free = @ \cup {m.pt[<<"user", n>>] : n \in gone},
                     !.pt = [k \in DOMAIN @ \ {<<"user", n>> : n \in gone} |-> @[k]],
                     !.noU = @ \ gone]

\* The pages freevm gives back.  Mutant: the page directories are forgotten.
freevm_pd(pt) == {pt[k] : k \in {x \in DOMAIN pt : x[1] # "pd"}}
freevm(pt) == {pt[k] : k \in DOMAIN pt}

clearpteu(m, n) == [m EXCEPT !.noU = @ \cup {n}]

\* The flags of a page are copied with it.  Mutant: every copy is for the user.
Flags_user(noU) == noU \cap {}
Flags(noU) == noU
copyuvm(f, p) ==
  LET copy(m, n) == IF ~Reaches(p.pgdir, n) THEN Fails(m, "copyuvm: pte should exist")
                    ELSE IF ~Present(p.pgdir, n) THEN Fails(m, "copyuvm: page not present")
                    ELSE mappages(m, n)
  IN  [Loop(copy, setupkvm(f), 1, PageOf(PGROUNDUP(p.sz))) EXCEPT !.noU = Flags(p.noU)]

(******************************* system calls ******************************)

Unused == [state |-> "unused", parent |-> 0, kstack |-> 0, pgdir |-> NoPages, noU |-> {}, sz |-> 0,
           rsp |-> 0, top |-> 0]
\* userinit: initcode in page 1.
Init ==
  LET m == mappages(setupkvm(Pages \ {NPages}), 1)
  IN  /\ free = m.free
      /\ proc = [p \in Procs |-> IF p = 1
                   THEN [Unused EXCEPT !.state = "live", !.kstack = NPages, !.pgdir = m.pt, !.sz = 2 * PGSIZE]
                   ELSE Unused]
      /\ calls = 0 /\ panic = m.err

\* A process that has given back its code faults at once, and is killed.
Runs(p) == panic = "no" /\ calls < MaxCalls /\ proc[p].state = "live" /\ Present(proc[p].pgdir, 1)

\* The call ends: with a panic, or with the pages f and process table pt.
Ends(err, f, pt) ==
  /\ calls' = calls + 1
  /\ IF err # "no" THEN panic' = err /\ UNCHANGED <<free, proc>>
     ELSE free' = f /\ proc' = pt /\ UNCHANGED panic

\* fork: allocproc takes the kernel stack, copyuvm the image.
fork(p) ==
  LET slots == {q \in Procs : proc[q].state = "unused"}
      np == Least(slots)
      k == kalloc(Mem(free, NoPages, {}), <<"kstack", 0>>)
      m == copyuvm(k.free, proc[p])
  IN  /\ Runs(p) /\ slots # {}
      /\ IF k.err # "no" THEN Ends(k.err, free, proc)
         ELSE Ends(m.err, m.free,
                   [proc EXCEPT ![np] = [proc[p] EXCEPT !.parent = p, !.kstack = k.pt[<<"kstack", 0>>],
                                                        !.pgdir = m.pt, !.noU = m.noU]])

exit(p) ==
  /\ panic = "no" /\ p # 1 /\ proc[p].state = "live"
  /\ proc' = [q \in Procs |-> IF q = p THEN [proc[p] EXCEPT !.state = "zombie"]
                              ELSE IF proc[q].parent = p THEN [proc[q] EXCEPT !.parent = 1] ELSE proc[q]]
  /\ UNCHANGED <<free, calls, panic>>

\* wait finds a zombie and frees its kernel stack and its page table.
wait(p) ==
  /\ Runs(p)
  /\ \E q \in Procs :
       /\ proc[q].parent = p /\ proc[q].state = "zombie"
       /\ Ends("no", free \cup {proc[q].kstack} \cup freevm(proc[q].pgdir), [proc EXCEPT ![q] = Unused])

\* growproc.  A deallocuvm down to size 0 is taken for an error: the pages are
\* gone and proc->sz keeps its old value.
sbrk(p) ==
  \E n \in Grow \cup {-proc[p].sz} :
    LET old == Mem(free, proc[p].pgdir, proc[p].noU)
        sz == proc[p].sz
        to == (sz + n) % ADDRS
        m == IF n > 0 THEN allocuvm(old, sz, to) ELSE IF n < 0 THEN deallocuvm(old, sz, to)
             ELSE [old EXCEPT !.sz = sz]
    IN  /\ p # 1 /\ Runs(p)
        /\ Ends(m.err, m.free, [proc EXCEPT ![p] =
                  [proc[p] EXCEPT !.pgdir = m.pt, !.noU = m.noU, !.sz = IF m.sz = 0 THEN sz ELSE m.sz,
                                  !.top = IF n < 0 /\ m.sz < @ THEN 0 ELSE @]])

\* loaduvm: the file may be too short for the segment.
loaduvm(m, seg) ==
  IF \E n \in PagesIn(seg.vaddr, seg.vaddr + seg.filesz) : ~Reaches(m.pt, n)
  THEN Fails(m, "loaduvm: address should exist")
  ELSE IF seg.cut THEN [m EXCEPT !.sz = 0] ELSE m

\* exec, loading: m.sz is the size so far, 0 once a segment was refused.
load(m, seg) ==
  LET a == allocuvm(m, m.sz, seg.vaddr + seg.memsz)
  IN  IF m.sz = 0 \/ m.err # "no" THEN m
      ELSE IF seg.memsz < seg.filesz \/ seg.vaddr + seg.memsz >= ADDRS THEN [m EXCEPT !.sz = 0]
      ELSE IF a.sz = 0 \/ a.err # "no" THEN a
      ELSE IF seg.vaddr % PGSIZE # 0 THEN [a EXCEPT !.sz = 0]
      ELSE loaduvm(a, seg)

\* copyout of len words to va, each in a page with PTE_P and PTE_U (uva2ka); the
\* kernel follows a null pointer when no page table reaches the address.
copyout(m, va, len) ==
  LET page(i) == PageOf((va + i - 1) % ADDRS)
      bad == {i \in 1..len : ~Present(m.pt, page(i)) \/ page(i) \in m.noU}
  IN  CASE bad = {} -> "done"
        [] bad # {} /\ Reaches(m.pt, page(Least(bad))) -> "refused"
        [] OTHER -> "null pointer in uva2ka"

\* exec, the stack: words pushed at sp, unless an earlier push failed.
push(m, st, len) ==
  LET sp == (st.sp - len) % ADDRS
  IN  IF st.r # "done" THEN st ELSE [sp |-> sp, r |-> copyout(m, sp, len)]

\* The guard page under the stack.
GuardPage(sz) == PageOf(sz) - 2

\* exec: the new image is built beside the old one, which is freed after the
\* commit; on any failure the new one is.  sys_exec keeps argc below MAXARG.
exec(p) ==
  \E prog \in Programs, args \in Strings :
    LET img == Loop(LAMBDA x, i : load(x, prog[i]), [setupkvm(free) EXCEPT !.sz = PGSIZE], 1, Len(prog) + 1)
        top == PGROUNDUP(img.sz)
        m == allocuvm(img, top, top + 2 * PGSIZE)
        g == clearpteu(m, GuardPage(m.sz))
        strings == Loop(LAMBDA x, i : push(g, x, args[i]), [sp |-> m.sz, r |-> "done"], 1, Len(args) + 1)
        st == push(g, strings, Len(args) + 2)
        bad(x) == Ends("no", x.free \cup freevm(x.pt), proc)
    IN  /\ Runs(p) /\ \A i \in DOMAIN args : args[i] < proc[p].sz
        /\ IF img.err # "no" THEN Ends(img.err, free, proc)
           ELSE IF img.sz = 0 THEN bad(img)
           ELSE IF m.err # "no" THEN Ends(m.err, free, proc)
           ELSE IF m.sz = 0 \/ st.r = "refused" THEN bad(m)
           ELSE IF st.r # "done" THEN Ends(st.r, free, proc)
           ELSE Ends("no", g.free \cup freevm(proc[p].pgdir),
                     [proc EXCEPT ![p] = [proc[p] EXCEPT !.pgdir = g.pt, !.noU = g.noU, !.sz = g.sz,
                                                         !.rsp = st.sp, !.top = g.sz]])

\* Only the bound on calls, or a panic, ends a behaviour.
Stopped == (panic # "no" \/ calls = MaxCalls) /\ UNCHANGED vars

Next == (\E p \in Procs : fork(p) \/ exit(p) \/ wait(p) \/ sbrk(p) \/ exec(p)) \/ Stopped
Spec == Init /\ [][Next]_vars

(******************************* properties ********************************)

Live == {p \in Procs : proc[p].state # "unused"}
Owned(p) == {proc[p].kstack} \cup {proc[p].pgdir[k] : k \in DOMAIN proc[p].pgdir}

\* Every physical page is either free or has one owner: a user page, one of the
\* four levels of page tables or a kernel stack.  No call leaks a page or frees
\* one twice, the failures in the middle of exec included.
PagesOwnedOnce ==
  /\ free \cup UNION {Owned(p) : p \in Live} = Pages
  /\ \A p \in Live : free \cap Owned(p) = {}
  /\ \A p, q \in Live : p # q => Owned(p) \cap Owned(q) = {}
  /\ \A p \in Live : \A j, k \in DOMAIN proc[p].pgdir :
       proc[p].pgdir[j] # proc[p].kstack /\ (proc[p].pgdir[j] = proc[p].pgdir[k] => j = k)

\* The user pages of a process that can run are those between the first page and
\* proc->sz, which fork's copyuvm relies on ("page not present"), however sbrk
\* grew and shrank it; sizes wrap around and need not be multiples of PGSIZE.
UserPages(pt) == {k[2] : k \in {x \in DOMAIN pt : x[1] = "user"}}
ImageMapped ==
  \A p \in Live : Present(proc[p].pgdir, 1) => UserPages(proc[p].pgdir) = PagesIn(PGSIZE, proc[p].sz)

\* While the process keeps its stack: exec left the stack pointer, the argument
\* strings and argv in the one stack page, the page below it is there and is the
\* only one user code cannot touch, and a forked child has the same guard ("an
\* inaccessible page beneath the user stack").
StackGuarded ==
  \A p \in Live : proc[p].top # 0 =>
    /\ proc[p].rsp \in (proc[p].top - PGSIZE)..proc[p].top
    /\ proc[p].noU = {GuardPage(proc[p].top)}
    /\ {GuardPage(proc[p].top), GuardPage(proc[p].top) + 1} \subseteq UserPages(proc[p].pgdir)

\* The kernel halts only for want of memory, where kalloc's comment promises 0
\* (kalloc.c:75), or when exec's arguments are longer than the new image, where
\* uva2ka does not test for a missing page table: no "remap", no missing page.
NoPanic == panic \in {"no", "Out of memory!", "null pointer in uva2ka"}
=============================================================================
