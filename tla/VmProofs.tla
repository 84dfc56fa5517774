------------------------------ MODULE VmProofs ------------------------------
(***************************************************************************)
(* No call loses or shares a page, leaves a hole in an image or a stack    *)
(* without its guard, for any memory, programs and arguments: proofs about *)
(* module Vm.                                                              *)
(***************************************************************************)
EXTENDS Vm, WellFoundedInduction, TLAPS

(******************************* arithmetic ********************************)

\* Division rounds down.
LEMMA Division ==
  ASSUME NEW a \in Nat, NEW d \in Nat \ {0}
  PROVE  /\ a \div d \in Nat
         /\ d * (a \div d) <= a /\ a < d * (a \div d) + d
OBVIOUS

\* Only one quotient leaves a remainder below the divisor.
LEMMA Quotient ==
  ASSUME NEW a \in Nat, NEW d \in Nat \ {0}, NEW q \in Nat, d * q <= a, a < d * q + d
  PROVE  a \div d = q
<1> DEFINE p == a \div d
<1>1. p \in Nat /\ d * p <= a /\ a < d * p + d
  BY Division
<1> HIDE DEF p
<1>2. p < q + 1
  <2> SUFFICES ASSUME p >= q + 1 PROVE FALSE
    BY <1>1
  <2>1. d * p >= d * (q + 1)
    BY <1>1
  <2>2. d * (q + 1) = d * q + d
    OBVIOUS
  <2> QED
    BY <1>1, <2>1, <2>2
<1>3. q < p + 1
  <2> SUFFICES ASSUME q >= p + 1 PROVE FALSE
    BY <1>1
  <2>1. d * q >= d * (p + 1)
    BY <1>1
  <2>2. d * (p + 1) = d * p + d
    BY <1>1
  <2> QED
    BY <1>1, <2>1, <2>2
<1> QED
  BY <1>1, <1>2, <1>3 DEF p

\* The pages up to an address, counting the one that it ends in.
Up(a) == PageOf(PGROUNDUP(a))

\* An address lies in its page.
LEMMA PageFacts ==
  ASSUME NEW a \in Nat
  PROVE  /\ PageOf(a) \in Nat
         /\ PGSIZE * PageOf(a) <= a /\ a < PGSIZE * PageOf(a) + PGSIZE
BY Division, VmAssumption DEF PageOf

\* The page an address lies in is that page.
LEMMA PageIs ==
  ASSUME NEW a \in Nat, NEW n \in Nat, PGSIZE * n <= a, a < PGSIZE * n + PGSIZE
  PROVE  PageOf(a) = n
BY Quotient, VmAssumption DEF PageOf

\* More pages, more words.
LEMMA Scaled ==
  ASSUME NEW m \in Nat, NEW n \in Nat
  PROVE  /\ PGSIZE * m \in Nat
         /\ m <= n => PGSIZE * m <= PGSIZE * n
         /\ m < n => PGSIZE * m + PGSIZE <= PGSIZE * n
         /\ PGSIZE * m < PGSIZE * n + PGSIZE => m <= n
<1>1. PGSIZE \in Nat \ {0}
  BY VmAssumption
<1>2. PGSIZE * m \in Nat /\ PGSIZE * n \in Nat
  BY <1>1
<1>3. m <= n => PGSIZE * m <= PGSIZE * n
  BY <1>1
<1>4. m < n => PGSIZE * m + PGSIZE <= PGSIZE * n
  <2> SUFFICES ASSUME m + 1 <= n PROVE PGSIZE * m + PGSIZE <= PGSIZE * n
    OBVIOUS
  <2>1. PGSIZE * (m + 1) <= PGSIZE * n
    BY <1>1
  <2>2. PGSIZE * (m + 1) = PGSIZE * m + PGSIZE
    BY <1>1
  <2> QED
    BY <2>1, <2>2
<1>5. n < m => PGSIZE * n + PGSIZE <= PGSIZE * m
  <2> SUFFICES ASSUME n + 1 <= m PROVE PGSIZE * n + PGSIZE <= PGSIZE * m
    OBVIOUS
  <2>1. PGSIZE * (n + 1) <= PGSIZE * m
    BY <1>1
  <2>2. PGSIZE * (n + 1) = PGSIZE * n + PGSIZE
    BY <1>1
  <2> QED
    BY <2>1, <2>2
<1> QED
  BY <1>1, <1>2, <1>3, <1>4, <1>5

\* PGROUNDUP() is the first page boundary that is not below its argument.
LEMMA RoundUp ==
  ASSUME NEW a \in Nat
  PROVE  /\ Up(a) \in Nat /\ PGROUNDUP(a) = PGSIZE * Up(a)
         /\ a <= PGROUNDUP(a) /\ PGROUNDUP(a) < a + PGSIZE
<1>1. PGSIZE \in Nat \ {0}
  BY VmAssumption
<1> DEFINE b == a + PGSIZE - 1
           n == PageOf(b)
<1>2. b \in Nat
  BY <1>1
<1>3. n \in Nat /\ PGSIZE * n <= b /\ b < PGSIZE * n + PGSIZE
  BY <1>2, PageFacts
<1>4. PGROUNDUP(a) = PGSIZE * n
  <2>1. PGROUNDUP(a) = n * PGSIZE
    BY DEF PGROUNDUP, PageOf
  <2> HIDE DEF n
  <2> QED
    BY <1>1, <1>3, <2>1
<1> HIDE DEF n
<1>5. PGSIZE * n \in Nat
  BY <1>1, <1>3
<1>6. PageOf(PGSIZE * n) = n
  BY <1>1, <1>3, <1>5, PageIs
<1> QED
  BY <1>1, <1>3, <1>4, <1>5, <1>6 DEF Up

\* Page boundaries are their own page and are rounded to themselves.
LEMMA WholePages ==
  ASSUME NEW n \in Nat
  PROVE  PGSIZE * n \in Nat /\ PageOf(PGSIZE * n) = n /\ PGROUNDUP(PGSIZE * n) = PGSIZE * n /\ Up(PGSIZE * n) = n
<1>1. PGSIZE \in Nat \ {0} /\ PGSIZE * n \in Nat
  BY Scaled, VmAssumption
<1>2. PageOf(PGSIZE * n) = n
  BY <1>1, PageIs
<1> DEFINE a == PGSIZE * n
<1> HIDE DEF a
<1>3. a \in Nat
  BY <1>1 DEF a
<1>4. Up(a) \in Nat /\ PGROUNDUP(a) = PGSIZE * Up(a) /\ a <= PGROUNDUP(a) /\ PGROUNDUP(a) < a + PGSIZE
  BY <1>3, RoundUp
<1>5. Up(a) <= n /\ n <= Up(a)
  <2> DEFINE u == Up(a)
  <2> HIDE DEF u
  <2>1. u \in Nat /\ PGSIZE * u < PGSIZE * n + PGSIZE /\ PGSIZE * n <= PGSIZE * u
    BY <1>4 DEF u, a
  <2>2. PGSIZE * u \in Nat
    BY <2>1, Scaled
  <2>3. PGSIZE * n < PGSIZE * u + PGSIZE
    BY <1>1, <2>1, <2>2
  <2>4. u <= n /\ n <= u
    BY <2>1, <2>3, Scaled
  <2> QED
    BY <2>4 DEF u
<1>6. Up(a) = n
  BY <1>4, <1>5
<1> QED
  BY <1>1, <1>2, <1>4, <1>6 DEF a

\* Rounding up keeps the order of addresses.
LEMMA UpMonotone ==
  ASSUME NEW a \in Nat, NEW b \in Nat, a <= b
  PROVE  Up(a) <= Up(b)
<1>1. /\ PGSIZE \in Nat \ {0}
      /\ Up(a) \in Nat /\ PGROUNDUP(a) = PGSIZE * Up(a) /\ PGROUNDUP(a) < a + PGSIZE
      /\ Up(b) \in Nat /\ PGROUNDUP(b) = PGSIZE * Up(b) /\ b <= PGROUNDUP(b)
  BY RoundUp, VmAssumption
<1>2. PGSIZE * Up(a) \in Nat /\ PGSIZE * Up(b) \in Nat
  BY <1>1, Scaled
<1>3. PGSIZE * Up(a) < PGSIZE * Up(b) + PGSIZE
  BY <1>1, <1>2
<1> QED
  BY <1>1, <1>3, Scaled

\* So does taking the page.
LEMMA PageMonotone ==
  ASSUME NEW a \in Nat, NEW b \in Nat, a <= b
  PROVE  PageOf(a) <= PageOf(b)
<1>1. /\ PGSIZE \in Nat \ {0}
      /\ PageOf(a) \in Nat /\ PGSIZE * PageOf(a) <= a
      /\ PageOf(b) \in Nat /\ b < PGSIZE * PageOf(b) + PGSIZE
  BY PageFacts, VmAssumption
<1>2. PGSIZE * PageOf(a) \in Nat /\ PGSIZE * PageOf(b) \in Nat
  BY <1>1, Scaled
<1>3. PGSIZE * PageOf(a) < PGSIZE * PageOf(b) + PGSIZE
  BY <1>1, <1>2
<1> QED
  BY <1>1, <1>3, Scaled

(********************************** loops **********************************)

\* A set of natural numbers has a least element.
LEMMA NatMin ==
  ASSUME NEW T \in SUBSET Nat, T # {}
  PROVE  \E x \in T : \A y \in T : x <= y
<1> DEFINE R == {ss \in Nat \X Nat : ss[1] < ss[2]}
<1>1. IsWellFoundedOn(R, Nat)
  BY NatLessThanWellFounded DEF OpToRel
<1> HIDE DEF R
<1>2. PICK x \in T : \A y \in T : ~(<<y, x>> \in R)
  BY <1>1, WFMin
<1>3. ASSUME NEW y \in T PROVE x <= y
  <2>1. x \in Nat /\ y \in Nat
    OBVIOUS
  <2>2. ~(y < x)
    BY <1>2, <2>1 DEF R
  <2> QED
    BY <2>1, <2>2
<1> QED
  BY <1>3

\* The least of a set, as allocproc() finds its slot, is in the set.
LEMMA LeastIn == ASSUME NEW T \in SUBSET Nat, T # {} PROVE Least(T) \in T
BY NatMin DEF Least

\* What holds at the start of a loop and is kept by each turn holds after any.
LEMMA Turns ==
  ASSUME NEW a \in Nat, NEW b \in Nat, NEW G, a \in G,
         \A i \in a..(b - 1) : i \in G => i + 1 \in G
  PROVE  \A i \in a..b : i \in G
<1> DEFINE T == {i \in a..b : i \notin G}
<1> SUFFICES ASSUME T # {} PROVE FALSE
  OBVIOUS
<1>1. T \in SUBSET Nat
  OBVIOUS
<1>2. PICK i \in T : \A j \in T : i <= j
  BY <1>1, NatMin
<1>3. i \in a..b /\ i # a
  BY <1>2
<1>4. i - 1 \in a..(b - 1) /\ i - 1 \in a..b /\ (i - 1) + 1 = i /\ ~(i <= i - 1)
  BY <1>3
<1>5. i - 1 \in G
  BY <1>2, <1>4
<1>6. i \in G
  BY <1>4, <1>5
<1> QED
  BY <1>2, <1>6

\* s has the values a loop goes through from x, if F says what a turn makes of them.
Goes(s, a, b, x, F) ==
  /\ s = [i \in a..b |-> s[i]] /\ s[a] = x
  /\ \A i \in a..(b - 1) : s[i + 1] = F[<<i, s[i]>>]

\* They exist.
LEMMA Iterates ==
  ASSUME NEW a \in Nat, NEW b \in Nat, a <= b, NEW x, NEW F
  PROVE  \E s : Goes(s, a, b, x, F)
<1> DEFINE G == {c \in a..b : \E s : Goes(s, a, c, x, F)}
<1>1. a \in G
  <2> DEFINE s == [i \in a..a |-> x]
  <2>1. Goes(s, a, a, x, F)
    BY DEF Goes
  <2>2. a \in a..b
    OBVIOUS
  <2> HIDE DEF s
  <2> QED
    BY <2>1, <2>2
<1>2. ASSUME NEW c \in a..(b - 1), c \in G PROVE c + 1 \in G
  <2>1. PICK s : Goes(s, a, c, x, F)
    BY <1>2
  <2> DEFINE t == [i \in a..(c + 1) |-> IF i = c + 1 THEN F[<<c, s[c]>>] ELSE s[i]]
  <2>2. c + 1 \in a..b /\ c \in a..c /\ a \in a..c
    OBVIOUS
  <2>3. \A i \in a..c : t[i] = s[i] /\ i # c + 1
    OBVIOUS
  <2>4. t = [i \in a..(c + 1) |-> t[i]] /\ t[c + 1] = F[<<c, s[c]>>]
    OBVIOUS
  <2> HIDE DEF t
  <2>5. ASSUME NEW i \in a..((c + 1) - 1) PROVE t[i + 1] = F[<<i, t[i]>>]
    <3>1. CASE i = c
      BY <2>2, <2>3, <2>4, <3>1
    <3>2. CASE i # c
      <4>1. i \in a..(c - 1) /\ i \in a..c /\ i + 1 \in a..c
        BY <3>2
      <4> QED
        BY <2>1, <2>3, <4>1 DEF Goes
    <3> QED
      BY <3>1, <3>2
  <2>6. Goes(t, a, c + 1, x, F)
    BY <2>1, <2>2, <2>3, <2>4, <2>5 DEF Goes
  <2> QED
    BY <2>2, <2>6
<1>3. b \in G
  <2>1. b \in a..b
    OBVIOUS
  <2> HIDE DEF G
  <2> QED
    BY <1>1, <1>2, <2>1, Turns
<1> QED
  BY <1>3

\* A relation R between turns and values that every turn keeps is kept by the
\* values the loop goes through.
LEMMA LoopExists ==
  ASSUME NEW a \in Nat, NEW b \in Nat, a <= b, NEW x, NEW R, NEW F, <<a, x>> \in R,
         \A i \in a..(b - 1) : \A y : <<i, y>> \in R => <<i + 1, F[<<i, y>>]>> \in R
  PROVE  \E s : Goes(s, a, b, x, F) /\ \A i \in a..b : <<i, s[i]>> \in R
<1>1. PICK s : Goes(s, a, b, x, F)
  BY Iterates
<1> DEFINE G == {i \in Nat : <<i, s[i]>> \in R}
<1>2. a \in G
  BY <1>1 DEF Goes
<1>3. ASSUME NEW i \in a..(b - 1), i \in G PROVE i + 1 \in G
  <2>1. i + 1 \in Nat
    OBVIOUS
  <2>2. s[i + 1] = F[<<i, s[i]>>]
    BY <1>1 DEF Goes
  <2> QED
    BY <1>3, <2>1, <2>2
<1>4. \A i \in a..b : i \in G
  <2> HIDE DEF G
  <2> QED
    BY <1>2, <1>3, Turns
<1> QED
  BY <1>1, <1>4

\* The same of a given sequence of values.
LEMMA LoopKeeps ==
  ASSUME NEW a \in Nat, NEW b \in Nat, a <= b, NEW R, NEW t, <<a, t[a]>> \in R,
         \A i \in a..(b - 1) : <<i, t[i]>> \in R => <<i + 1, t[i + 1]>> \in R
  PROVE  <<b, t[b]>> \in R
<1> DEFINE G == {i \in Nat : <<i, t[i]>> \in R}
<1>1. a \in G /\ \A i \in a..(b - 1) : i \in G => i + 1 \in G
  OBVIOUS
<1>2. b \in a..b
  OBVIOUS
<1>3. b \in G
  <2> HIDE DEF G
  <2> QED
    BY <1>1, <1>2, Turns
<1> QED
  BY <1>3

(************************* allocation and page tables **********************)

Kinds == {"pml4", "pdp", "pd", "pt", "user", "kstack"}
Keys == Kinds \X Nat
Tables == UNION {[D -> Pages] : D \in SUBSET Keys}
Errors == {"no", "Out of memory!"}
Mems == [free : SUBSET Pages, pt : Tables, noU : SUBSET Nat, sz : Nat, err : Errors]

\* The call has the pages T, each of them once, free or in the page table.
Exact(m, T) ==
  /\ m.free \cup freevm(m.pt) = T /\ m.free \cap freevm(m.pt) = {}
  /\ \A j, k \in DOMAIN m.pt : m.pt[j] = m.pt[k] => j = k

\* The user pages of a page table have their page-table pages.
Rooted(pt) == \A n \in Nat : Present(pt, n) => Reaches(pt, n)

\* What every step of building an image has in common.
Builds(m, r, T) ==
  /\ r \in Mems /\ Exact(r, T) /\ r.noU = m.noU /\ r.sz = m.sz
  /\ DOMAIN m.pt \subseteq DOMAIN r.pt
  /\ r.err = "no" => m.err = "no"

\* What it is to be a page table.
LEMMA TableFacts ==
  ASSUME NEW pt \in Tables
  PROVE  /\ DOMAIN pt \subseteq Keys /\ \A k \in DOMAIN pt : pt[k] \in Pages
         /\ pt = [k \in DOMAIN pt |-> pt[k]]
<1>1. PICK D \in SUBSET Keys : pt \in [D -> Pages]
  BY DEF Tables
<1> QED
  BY <1>1

\* Any function from keys to pages is a page table.
LEMMA TableIs ==
  ASSUME NEW D \in SUBSET Keys, NEW pt \in [D -> Pages]
  PROVE  pt \in Tables
BY DEF Tables

\* kalloc() moves a page from the free list to the table, or panics and moves none.
LEMMA kallocBuilds ==
  ASSUME NEW T, NEW m \in Mems, Exact(m, T), NEW k \in Keys, k \notin DOMAIN m.pt
  PROVE  /\ Builds(m, kalloc(m, k), T)
         /\ IF kalloc(m, k).err = "no" THEN DOMAIN kalloc(m, k).pt = DOMAIN m.pt \cup {k}
            ELSE kalloc(m, k).pt = m.pt
<1> DEFINE r == kalloc(m, k)
<1>1. CASE m.err # "no"
  <2>1. r = m
    BY <1>1 DEF kalloc, Fails
  <2> QED
    BY <1>1, <2>1 DEF Builds
<1>2. CASE m.err = "no" /\ m.free = {}
  <2>1. r = [m EXCEPT !.err = "Out of memory!"]
    BY <1>2 DEF kalloc, Fails
  <2> HIDE DEF r
  <2>2. r.pt = m.pt /\ r.free = m.free /\ r.noU = m.noU /\ r.sz = m.sz
        /\ r.err = "Out of memory!"
    BY <2>1 DEF Mems
  <2>5. r \in Mems
    BY <2>1 DEF Mems, Errors
  <2>3. Exact(r, T)
    BY <2>2 DEF Exact
  <2>4. Builds(m, r, T) /\ r.err # "no" /\ r.pt = m.pt
    BY <1>2, <2>2, <2>5, <2>3 DEF Builds
  <2> QED
    BY <2>4 DEF r
<1>3. CASE m.err = "no" /\ m.free # {}
  <2> DEFINE pg == CHOOSE x \in m.free : TRUE
             pt == Put(m.pt, k, pg)
  <2>1. r = [m EXCEPT !.free = @ \ {pg}, !.pt = pt]
    BY <1>3 DEF kalloc
  <2>2. pg \in m.free /\ pg \in Pages
    BY <1>3 DEF Mems
  <2> HIDE DEF pg
  <2>3. m.pt \in Tables /\ m.free \in SUBSET Pages
    BY DEF Mems
  <2>4. DOMAIN m.pt \subseteq Keys /\ \A j \in DOMAIN m.pt : m.pt[j] \in Pages
    BY <2>3, TableFacts
  <2>5. /\ DOMAIN pt = DOMAIN m.pt \cup {k} /\ pt[k] = pg
        /\ \A j \in DOMAIN m.pt : pt[j] = m.pt[j]
    BY DEF Put
  <2>6. pt \in [DOMAIN m.pt \cup {k} -> Pages]
    BY <2>2, <2>4 DEF Put
  <2> HIDE DEF pt
  <2>7. pt \in Tables
    <3>1. DOMAIN m.pt \cup {k} \in SUBSET Keys
      BY <2>4
    <3> QED
      BY <2>6, <3>1, TableIs
  <2>8. r \in Mems /\ r.pt = pt /\ r.free = m.free \ {pg} /\ r.noU = m.noU /\ r.sz = m.sz /\ r.err = "no"
    BY <1>3, <2>1, <2>3, <2>7 DEF Mems
  <2> HIDE DEF r
  <2>9. freevm(pt) = freevm(m.pt) \cup {pg}
    BY <2>5 DEF freevm
  <2>10. Exact(r, T)
    <3>1. r.free \cup freevm(r.pt) = T /\ r.free \cap freevm(r.pt) = {}
      BY <2>2, <2>8, <2>9 DEF Exact
    <3>2. \A j \in DOMAIN m.pt : m.pt[j] # pg
      BY <2>2 DEF Exact, freevm
    <3>3. \A i, j \in DOMAIN pt : pt[i] = pt[j] => i = j
      BY <2>5, <3>2 DEF Exact
    <3> QED
      BY <2>8, <3>1, <3>3 DEF Exact
  <2>11. Builds(m, r, T) /\ r.err = "no" /\ DOMAIN r.pt = DOMAIN m.pt \cup {k}
    BY <1>3, <2>5, <2>8, <2>10 DEF Builds
  <2> QED
    BY <2>11 DEF r
<1> QED
  BY <1>1, <1>2, <1>3

\* Steps of building follow one another.
LEMMA BuildsOn ==
  ASSUME NEW T, NEW m, NEW r, NEW q, Builds(m, r, T), Builds(r, q, T)
  PROVE  Builds(m, q, T)
BY DEF Builds

\* The user pages of a table are those that are present.
LEMMA UserPageIs ==
  ASSUME NEW pt \in Tables
  PROVE  UserPages(pt) \in SUBSET Nat /\ \A n : n \in UserPages(pt) <=> Present(pt, n)
<1>1. DOMAIN pt \subseteq Keys
  BY TableFacts
<1>2. ASSUME NEW k \in DOMAIN pt, k[1] = "user" PROVE k[2] \in Nat /\ k = <<"user", k[2]>>
  BY <1>1, <1>2 DEF Keys
<1>3. ASSUME NEW n, Present(pt, n) PROVE n \in UserPages(pt)
  <2>1. <<"user", n>> \in {x \in DOMAIN pt : x[1] = "user"} /\ <<"user", n>>[2] = n
    BY <1>3 DEF Present
  <2> QED
    BY <2>1 DEF UserPages
<1>4. ASSUME NEW n \in UserPages(pt) PROVE n \in Nat /\ Present(pt, n)
  <2>1. PICK k \in DOMAIN pt : k[1] = "user" /\ n = k[2]
    BY DEF UserPages
  <2> QED
    BY <1>2, <2>1 DEF Present
<1> QED
  BY <1>3, <1>4

\* The page-table pages on the way to a user page are no user pages.
LEMMA Levels ==
  ASSUME NEW n \in Nat
  PROVE  /\ Pdp(n) \in Keys /\ Pd(n) \in Keys /\ Pt(n) \in Keys
         /\ \A i : <<"user", i>> \notin {Pdp(n), Pd(n), Pt(n)}
<1>1. n \div SPAN \in Nat
  BY Division, VmAssumption
<1>2. (n \div SPAN) \div SPAN \in Nat
  BY <1>1, Division, VmAssumption
<1>3. ((n \div SPAN) \div SPAN) \div SPAN \in Nat
  BY <1>2, Division, VmAssumption
<1>4. Pdp(n) \in Keys /\ Pd(n) \in Keys /\ Pt(n) \in Keys
  BY <1>1, <1>2, <1>3 DEF Pdp, Pd, Pt, Keys, Kinds
<1> QED
  BY <1>4 DEF Pdp, Pd, Pt

\* One level of walkpgdir(): the page-table page is there afterwards.
LEMMA EnsureBuilds ==
  ASSUME NEW T, NEW m \in Mems, Exact(m, T), NEW k \in Keys
  PROVE  /\ Builds(m, Ensure(m, k), T)
         /\ DOMAIN Ensure(m, k).pt \subseteq DOMAIN m.pt \cup {k}
         /\ Ensure(m, k).err = "no" => DOMAIN Ensure(m, k).pt = DOMAIN m.pt \cup {k}
<1>1. CASE k \in DOMAIN m.pt
  <2>1. Ensure(m, k) = m
    BY <1>1 DEF Ensure
  <2>2. Builds(m, m, T)
    BY DEF Builds
  <2> QED
    BY <1>1, <2>1, <2>2
<1>2. CASE k \notin DOMAIN m.pt
  BY <1>2, kallocBuilds DEF Ensure
<1> QED
  BY <1>1, <1>2

\* walkpgdir() adds the page-table pages of n that are missing, and nothing else.
LEMMA walkpgdirBuilds ==
  ASSUME NEW T, NEW m \in Mems, Exact(m, T), NEW n \in Nat
  PROVE  /\ Builds(m, walkpgdir(m, n), T)
         /\ DOMAIN walkpgdir(m, n).pt \subseteq DOMAIN m.pt \cup {Pdp(n), Pd(n), Pt(n)}
         /\ walkpgdir(m, n).err = "no" => DOMAIN walkpgdir(m, n).pt = DOMAIN m.pt \cup {Pdp(n), Pd(n), Pt(n)}
<1> DEFINE a == Ensure(m, Pdp(n))
           b == Ensure(a, Pd(n))
           c == Ensure(b, Pt(n))
<1>1. Builds(m, a, T) /\ (a.err = "no" => DOMAIN a.pt = DOMAIN m.pt \cup {Pdp(n)})
      /\ DOMAIN a.pt \subseteq DOMAIN m.pt \cup {Pdp(n)}
  BY Levels, EnsureBuilds
<1>2. walkpgdir(m, n) = c
  BY DEF walkpgdir
<1> HIDE DEF a
<1>3. Builds(a, b, T) /\ (b.err = "no" => DOMAIN b.pt = DOMAIN a.pt \cup {Pd(n)})
      /\ DOMAIN b.pt \subseteq DOMAIN a.pt \cup {Pd(n)}
  <2>1. a \in Mems /\ Exact(a, T) /\ Pd(n) \in Keys
    BY <1>1, Levels DEF Builds
  <2> QED
    BY <2>1, EnsureBuilds
<1> HIDE DEF b
<1>4. Builds(b, c, T) /\ (c.err = "no" => DOMAIN c.pt = DOMAIN b.pt \cup {Pt(n)})
      /\ DOMAIN c.pt \subseteq DOMAIN b.pt \cup {Pt(n)}
  <2>1. b \in Mems /\ Exact(b, T) /\ Pt(n) \in Keys
    BY <1>3, Levels DEF Builds
  <2> QED
    BY <2>1, EnsureBuilds
<1> HIDE DEF c
<1>5. Builds(m, c, T)
  BY <1>1, <1>3, <1>4, BuildsOn
<1>6. c.err = "no" => b.err = "no" /\ a.err = "no"
  BY <1>3, <1>4 DEF Builds
<1>7. c.err = "no" => DOMAIN c.pt = DOMAIN m.pt \cup {Pdp(n), Pd(n), Pt(n)}
  BY <1>1, <1>3, <1>4, <1>6
<1>8. DOMAIN c.pt \subseteq DOMAIN m.pt \cup {Pdp(n), Pd(n), Pt(n)}
  BY <1>1, <1>3, <1>4
<1> QED
  BY <1>2, <1>5, <1>7, <1>8

\* One turn of the loops that map pages: a page for user page n, with its tables.
LEMMA mappagesBuilds ==
  ASSUME NEW T, NEW m \in Mems, Exact(m, T), NEW n \in Nat,
         m.err = "no" => ~Present(m.pt, n) /\ Rooted(m.pt)
  PROVE  /\ Builds(m, mappages(m, n), T)
         /\ UserPages(mappages(m, n).pt) \subseteq UserPages(m.pt) \cup {n}
         /\ mappages(m, n).err = "no" =>
              UserPages(mappages(m, n).pt) = UserPages(m.pt) \cup {n} /\ Rooted(mappages(m, n).pt)
<1> DEFINE k == <<"user", n>>
           a == kalloc(m, k)
           r == walkpgdir(a, n)
<1>1. CASE m.err # "no"
  <2>1. a = m
    BY <1>1 DEF kalloc, Fails
  <2>2. \A x \in Keys : Ensure(m, x) = m
    BY <1>1 DEF Ensure, kalloc, Fails
  <2>3. r = m
    BY <2>1, <2>2, Levels DEF walkpgdir
  <2>4. mappages(m, n) = m
    BY <1>1, <2>3 DEF mappages, Fails
  <2> QED
    BY <1>1, <2>4 DEF Builds
<1>2. CASE m.err = "no"
  <2>1. mappages(m, n) = r
    BY <1>2 DEF mappages
  <2>2. k \in Keys /\ k \notin DOMAIN m.pt
    BY <1>2 DEF Keys, Kinds, Present
  <2> HIDE DEF k
  <2>3. Builds(m, a, T) /\ (a.err = "no" => DOMAIN a.pt = DOMAIN m.pt \cup {k})
        /\ DOMAIN a.pt \subseteq DOMAIN m.pt \cup {k}
    BY <2>2, kallocBuilds
  <2> HIDE DEF a
  <2>4. Builds(a, r, T) /\ (r.err = "no" => DOMAIN r.pt = DOMAIN a.pt \cup {Pdp(n), Pd(n), Pt(n)})
        /\ DOMAIN r.pt \subseteq DOMAIN a.pt \cup {Pdp(n), Pd(n), Pt(n)}
    BY <2>3, walkpgdirBuilds DEF Builds
  <2> HIDE DEF r
  <2>5. Builds(m, r, T)
    BY <2>3, <2>4, BuildsOn
  <2>6. ASSUME r.err = "no" PROVE UserPages(r.pt) = UserPages(m.pt) \cup {n} /\ Rooted(r.pt)
    <3>1. DOMAIN r.pt = DOMAIN m.pt \cup {k, Pdp(n), Pd(n), Pt(n)}
      BY <2>3, <2>4, <2>6 DEF Builds
    <3>2. \A i : Present(r.pt, i) <=> Present(m.pt, i) \/ i = n
      BY <3>1, Levels DEF Present, k
    <3>3. m.pt \in Tables /\ r.pt \in Tables
      BY <2>5 DEF Builds, Mems
    <3>4. \A i : i \in UserPages(r.pt) <=> i \in UserPages(m.pt) \/ i = n
      BY <3>2, <3>3, UserPageIs
    <3>5. Rooted(r.pt)
      BY <1>2, <3>1, <3>2 DEF Rooted, Reaches
    <3> QED
      BY <3>4, <3>5
  <2>7. UserPages(r.pt) \subseteq UserPages(m.pt) \cup {n}
    <3>1. DOMAIN r.pt \subseteq DOMAIN m.pt \cup {k, Pdp(n), Pd(n), Pt(n)}
      BY <2>3, <2>4
    <3>2. \A i : Present(r.pt, i) => Present(m.pt, i) \/ i = n
      BY <3>1, Levels DEF Present, k
    <3>3. m.pt \in Tables /\ r.pt \in Tables
      BY <2>5 DEF Builds, Mems
    <3> QED
      BY <3>2, <3>3, UserPageIs
  <2> QED
    BY <2>1, <2>5, <2>6, <2>7
<1> QED
  BY <1>1, <1>2

\* What mapping the pages a..b-1 comes to.
Mapped(m, r, a, b, T) ==
  /\ Builds(m, r, T)
  /\ r.err = "no" => Rooted(r.pt) /\ UserPages(r.pt) = UserPages(m.pt) \cup a..(b - 1)

\* s has the values of the loop that maps them, one by one.
Maps(s, m, a, b) ==
  /\ s = [i \in a..b |-> s[i]] /\ s[a] = m
  /\ \A i \in a..(b - 1) : s[i + 1] = mappages(s[i], i)

\* Such values exist, and the last of them has the pages mapped.
LEMMA mappagesMaps ==
  ASSUME NEW T, NEW m \in Mems, Exact(m, T), NEW a \in Nat, NEW b \in Nat, a < b,
         m.err = "no" => Rooted(m.pt) /\ UserPages(m.pt) \cap (a..(b - 1)) = {}
  PROVE  /\ \E s : Maps(s, m, a, b)
         /\ \A s : Maps(s, m, a, b) => Mapped(m, s[b], a, b, T)
<1> DEFINE Good(i, y) == y \in Mems /\ Mapped(m, y, a, i, T)
<1>1. Good(a, m)
  <2>1. a..(a - 1) = {}
    OBVIOUS
  <2> QED
    BY <2>1 DEF Builds, Mapped
<1>2. ASSUME NEW i \in a..(b - 1), NEW y, Good(i, y) PROVE Good(i + 1, mappages(y, i))
  <2> DEFINE q == mappages(y, i)
  <2>1. y.err = "no" => m.err = "no" /\ ~Present(y.pt, i) /\ Rooted(y.pt)
    <3> SUFFICES ASSUME y.err = "no" PROVE m.err = "no" /\ i \notin UserPages(y.pt)
      BY <1>2, UserPageIs DEF Builds, Mems, Mapped
    <3>1. m.err = "no" /\ i \notin UserPages(m.pt)
      BY <1>2 DEF Builds, Mapped
    <3> QED
      BY <1>2, <3>1 DEF Mapped
  <2>2. Exact(y, T) /\ i \in Nat
    BY <1>2 DEF Builds, Mapped
  <2>3. /\ Builds(y, q, T)
        /\ q.err = "no" => UserPages(q.pt) = UserPages(y.pt) \cup {i} /\ Rooted(q.pt)
    BY <1>2, <2>1, <2>2, mappagesBuilds
  <2> HIDE DEF q
  <2>4. q \in Mems /\ Builds(m, q, T) /\ (q.err = "no" => y.err = "no")
    BY <1>2, <2>3, BuildsOn DEF Builds, Mapped
  <2>5. a..((i + 1) - 1) = (a..(i - 1)) \cup {i}
    OBVIOUS
  <2>6. Good(i + 1, q)
    BY <1>2, <2>3, <2>4, <2>5 DEF Mapped
  <2> QED
    BY <2>6 DEF q
<1> DEFINE R == {z \in (a..b) \X Mems : Good(z[1], z[2])}
           F == [z \in R |-> mappages(z[2], z[1])]
<1>3. \A i \in a..b : \A y : <<i, y>> \in R <=> Good(i, y)
  OBVIOUS
<1>4. \A i \in a..b : \A y : <<i, y>> \in R => F[<<i, y>>] = mappages(y, i)
  OBVIOUS
<1>5. a \in a..b /\ b \in a..b /\ a <= b /\ \A i \in a..(b - 1) : i \in a..b /\ i + 1 \in a..b
  OBVIOUS
<1> HIDE DEF Good, R, F
<1>6. <<a, m>> \in R /\ \A i \in a..(b - 1) : \A y : <<i, y>> \in R => <<i + 1, mappages(y, i)>> \in R
  BY <1>1, <1>2, <1>3, <1>5
<1>7. \E s : Maps(s, m, a, b)
  <2>1. \A i \in a..(b - 1) : \A y : <<i, y>> \in R => <<i + 1, F[<<i, y>>]>> \in R
    BY <1>4, <1>5, <1>6
  <2>2. PICK s : Goes(s, a, b, m, F) /\ \A i \in a..b : <<i, s[i]>> \in R
    BY <1>5, <1>6, <2>1, LoopExists
  <2>3. Maps(s, m, a, b)
    BY <1>4, <1>5, <2>2 DEF Goes, Maps
  <2> QED
    BY <2>3
<1>8. ASSUME NEW s, Maps(s, m, a, b) PROVE Mapped(m, s[b], a, b, T)
  <2>1. <<a, s[a]>> \in R /\ \A i \in a..(b - 1) : <<i, s[i]>> \in R => <<i + 1, s[i + 1]>> \in R
    BY <1>6, <1>8 DEF Maps
  <2>2. <<b, s[b]>> \in R
    BY <1>5, <2>1, LoopKeeps
  <2> QED
    BY <1>3, <1>5, <2>2 DEF Good
<1> QED
  BY <1>7, <1>8

\* The loop of allocuvm() maps the pages a..b-1.
LEMMA mappagesLoop ==
  ASSUME NEW T, NEW m \in Mems, Exact(m, T), NEW a \in Nat, NEW b \in Nat,
         m.err = "no" => Rooted(m.pt) /\ UserPages(m.pt) \cap (a..(b - 1)) = {}
  PROVE  Mapped(m, Loop(mappages, m, a, b), a, b, T)
<1> DEFINE r == Loop(mappages, m, a, b)
<1>1. CASE b <= a
  <2>1. r = m
    BY <1>1 DEF Loop
  <2>2. a..(b - 1) = {}
    BY <1>1
  <2> QED
    BY <2>1, <2>2 DEF Mapped, Builds
<1>2. CASE a < b
  <2> DEFINE t == CHOOSE s : s = [i \in a..b |-> IF i = a THEN m ELSE mappages(s[i - 1], i - 1)]
  <2>1. r = t[b]
    BY <1>2 DEF Loop
  <2>2. PICK s : Maps(s, m, a, b)
    BY <1>2, mappagesMaps
  <2>3. s = [i \in a..b |-> IF i = a THEN m ELSE mappages(s[i - 1], i - 1)]
    <3>1. ASSUME NEW i \in a..b, i # a PROVE s[i] = mappages(s[i - 1], i - 1)
      <4>1. i - 1 \in a..(b - 1) /\ (i - 1) + 1 = i
        BY <3>1
      <4> QED
        BY <2>2, <4>1 DEF Maps
    <3> QED
      BY <2>2, <3>1 DEF Maps
  <2>4. t = [i \in a..b |-> IF i = a THEN m ELSE mappages(t[i - 1], i - 1)]
    BY <2>3
  <2> HIDE DEF t
  <2>5. Maps(t, m, a, b)
    <3>1. \A i \in a..(b - 1) : i + 1 # a /\ (i + 1) - 1 = i /\ i + 1 \in a..b /\ a \in a..b
      OBVIOUS
    <3>2. a \in a..b
      BY <1>2
    <3> QED
      BY <2>4, <3>1, <3>2 DEF Maps
  <2> HIDE DEF r
  <2>6. Mapped(m, r, a, b, T)
    BY <1>2, <2>1, <2>5, mappagesMaps
  <2> QED
    BY <2>6 DEF r
<1> QED
  BY <1>1, <1>2

\* The image of a process of size sz: its pages are mapped, from the first on.
Image(pt, sz) == Rooted(pt) /\ UserPages(pt) = PagesIn(PGSIZE, sz)

\* A process of size a has the user pages below Up(a), but not page 0.
LEMMA PagesOfSize ==
  ASSUME NEW a \in Nat
  PROVE  PagesIn(PGSIZE, a) = 1..(Up(a) - 1) /\ Up(a) \in Nat /\ (PGSIZE <= a => Up(a) >= 1)
<1>1. PageOf(PGSIZE) = 1 /\ Up(PGSIZE) = 1
  <2>1. PGSIZE * 1 = PGSIZE
    BY VmAssumption
  <2> QED
    BY <2>1, WholePages
<1>2. Up(a) \in Nat
  BY RoundUp
<1>3. PGSIZE <= a => Up(a) >= 1
  BY <1>1, <1>2, UpMonotone, VmAssumption
<1> QED
  BY <1>1, <1>2, <1>3 DEF PagesIn, Up

\* allocuvm() refuses a size beyond KERNBASE and changes nothing, or extends the
\* image to the larger of the two sizes.
LEMMA allocuvmBuilds ==
  ASSUME NEW T, NEW m \in Mems, Exact(m, T), NEW oldsz \in Nat, NEW newsz \in Nat, PGSIZE <= oldsz,
         m.err = "no" => Image(m.pt, oldsz)
  PROVE  LET r == allocuvm(m, oldsz, newsz)
         IN  /\ r \in Mems /\ Exact(r, T) /\ r.noU = m.noU /\ (r.err = "no" => m.err = "no")
             /\ r.sz = 0 => r.pt = m.pt /\ r.free = m.free /\ r.err = m.err
             /\ r.sz # 0 => newsz < KERNBASE /\ r.sz = IF oldsz <= newsz THEN newsz ELSE oldsz
             /\ r.sz # 0 /\ r.err = "no" => Image(r.pt, r.sz)
<1> DEFINE r == allocuvm(m, oldsz, newsz)
<1>0. PGSIZE \in Nat \ {0} /\ KERNBASE \in Nat
  BY VmAssumption
<1>1. CASE newsz >= KERNBASE
  <2>1. r = [m EXCEPT !.sz = 0]
    BY <1>1 DEF allocuvm
  <2> HIDE DEF r
  <2>2. r \in Mems /\ r.pt = m.pt /\ r.free = m.free /\ r.noU = m.noU /\ r.err = m.err /\ r.sz = 0
    BY <2>1 DEF Mems
  <2>3. Exact(r, T)
    BY <2>2 DEF Exact
  <2> QED
    BY <2>2, <2>3 DEF r
<1>2. CASE ~(newsz >= KERNBASE) /\ newsz < oldsz
  <2>1. r = [m EXCEPT !.sz = oldsz]
    BY <1>2 DEF allocuvm
  <2> HIDE DEF r
  <2>2. r \in Mems /\ r.pt = m.pt /\ r.free = m.free /\ r.noU = m.noU /\ r.err = m.err /\ r.sz = oldsz
    BY <2>1 DEF Mems
  <2>3. Exact(r, T)
    BY <2>2 DEF Exact
  <2>4. ~(oldsz <= newsz) /\ newsz < KERNBASE /\ oldsz # 0
    BY <1>0, <1>2
  <2> QED
    BY <2>2, <2>3, <2>4 DEF r
<1>3. CASE ~(newsz >= KERNBASE) /\ ~(newsz < oldsz)
  <2> DEFINE a == Up(oldsz)
             b == Up(newsz)
             q == Loop(mappages, m, a, b)
  <2>1. r = [q EXCEPT !.sz = newsz]
    BY <1>3 DEF allocuvm, AllocFrom, Up
  <2>2. a \in Nat /\ b \in Nat /\ a <= b /\ a >= 1
    BY <1>3, PagesOfSize, UpMonotone
  <2>3. PagesIn(PGSIZE, oldsz) = 1..(a - 1) /\ PagesIn(PGSIZE, newsz) = 1..(b - 1)
    BY PagesOfSize
  <2> HIDE DEF a, b
  <2>4. m.err = "no" => Rooted(m.pt) /\ UserPages(m.pt) = 1..(a - 1)
    BY <2>3 DEF Image
  <2>5. (1..(a - 1)) \cap (a..(b - 1)) = {} /\ 1..(b - 1) = (1..(a - 1)) \cup (a..(b - 1))
    BY <2>2
  <2>6. Builds(m, q, T) /\ (q.err = "no" => Rooted(q.pt) /\ UserPages(q.pt) = UserPages(m.pt) \cup a..(b - 1))
    BY <2>2, <2>4, <2>5, mappagesLoop DEF Mapped
  <2> HIDE DEF q, r
  <2>7. q \in Mems /\ Exact(q, T)
    BY <2>6 DEF Builds
  <2>8. r \in Mems /\ r.pt = q.pt /\ r.free = q.free /\ r.noU = q.noU /\ r.err = q.err /\ r.sz = newsz
    BY <2>1, <2>7 DEF Mems
  <2>9. Exact(r, T)
    BY <2>7, <2>8 DEF Exact
  <2>10. r.err = "no" => Image(r.pt, r.sz)
    BY <2>3, <2>4, <2>5, <2>6, <2>8 DEF Image, Builds
  <2>11. r.noU = m.noU /\ (r.err = "no" => m.err = "no")
    BY <2>6, <2>8 DEF Builds
  <2>12. oldsz <= newsz /\ newsz < KERNBASE /\ newsz # 0
    BY <1>0, <1>3
  <2> QED
    BY <2>8, <2>9, <2>10, <2>11, <2>12 DEF r
<1> QED
  BY <1>1, <1>2, <1>3

\* deallocuvm() gives back whole pages above newsz, once each.
LEMMA deallocuvmFrees ==
  ASSUME NEW T, NEW m \in Mems, Exact(m, T), NEW oldsz \in Nat, NEW newsz \in Nat, m.err = "no"
  PROVE  LET r == deallocuvm(m, oldsz, newsz)
         IN  /\ r \in Mems /\ Exact(r, T) /\ r.err = "no"
             /\ r.sz = IF newsz >= oldsz THEN oldsz ELSE newsz
             /\ newsz >= oldsz => r.pt = m.pt /\ r.noU = m.noU
             /\ newsz < oldsz =>
                  /\ UserPages(r.pt) = UserPages(m.pt) \ (Up(newsz)..(Up(oldsz) - 1))
                  /\ r.noU = m.noU \ {n \in Up(newsz)..(Up(oldsz) - 1) : Present(m.pt, n)}
                  /\ Rooted(m.pt) => Rooted(r.pt)
<1> DEFINE r == deallocuvm(m, oldsz, newsz)
<1>1. CASE newsz >= oldsz
  <2>1. r = [m EXCEPT !.sz = oldsz]
    BY <1>1 DEF deallocuvm
  <2> HIDE DEF r
  <2>2. r \in Mems /\ r.pt = m.pt /\ r.free = m.free /\ r.noU = m.noU /\ r.err = m.err /\ r.sz = oldsz
    BY <2>1 DEF Mems
  <2>3. Exact(r, T)
    BY <2>2 DEF Exact
  <2> QED
    BY <1>1, <2>2, <2>3 DEF r
<1>2. CASE ~(newsz >= oldsz)
  <2> DEFINE gone == {n \in Up(newsz)..(Up(oldsz) - 1) : Present(m.pt, n)}
             lost == {<<"user", n>> : n \in gone}
             pt == [k \in DOMAIN m.pt \ lost |-> m.pt[k]]
             back == {m.pt[<<"user", n>>] : n \in gone}
  <2>1. PagesIn(FreeFrom(newsz), oldsz) = Up(newsz)..(Up(oldsz) - 1)
    BY DEF PagesIn, FreeFrom, Up
  <2>2. r = [m EXCEPT !.sz = newsz, !.free = @ \cup back, !.pt = pt, !.noU = @ \ gone]
    BY <1>2, <2>1 DEF deallocuvm
  <2>3. /\ m.pt \in Tables /\ DOMAIN m.pt \subseteq Keys /\ \A k \in DOMAIN m.pt : m.pt[k] \in Pages
        /\ m.free \in SUBSET Pages /\ m.noU \in SUBSET Nat
    BY TableFacts DEF Mems
  <2>4. lost \subseteq DOMAIN m.pt /\ back = {m.pt[k] : k \in lost}
    BY DEF Present
  <2>5. DOMAIN pt = DOMAIN m.pt \ lost /\ \A k \in DOMAIN pt : pt[k] = m.pt[k]
    OBVIOUS
  <2>6. pt \in Tables
    <3>1. pt \in [DOMAIN m.pt \ lost -> Pages] /\ DOMAIN m.pt \ lost \in SUBSET Keys
      BY <2>3
    <3> HIDE DEF pt, lost
    <3> QED
      BY <3>1, TableIs
  <2>7. \A n : <<"user", n>> \in lost <=> n \in gone
    OBVIOUS
  <2>14. \A k \in lost : \E n : k = <<"user", n>>
    OBVIOUS
  <2> HIDE DEF r, pt, back, lost
  <2>8. back \in SUBSET Pages
    BY <2>3, <2>4
  <2>9. /\ r \in Mems /\ r.pt = pt /\ r.free = m.free \cup back /\ r.noU = m.noU \ gone
        /\ r.err = m.err /\ r.sz = newsz
    <3> HIDE DEF gone
    <3> QED
      BY <2>2, <2>3, <2>6, <2>8 DEF Mems
  <2>10. Exact(r, T)
    <3>1. freevm(m.pt) = freevm(pt) \cup back
      BY <2>4, <2>5 DEF freevm
    <3>2. freevm(pt) \cap back = {}
      BY <2>4, <2>5 DEF freevm, Exact
    <3>3. r.free \cup freevm(r.pt) = T /\ r.free \cap freevm(r.pt) = {}
      BY <2>9, <3>1, <3>2 DEF Exact
    <3>4. \A j, k \in DOMAIN pt : pt[j] = pt[k] => j = k
      BY <2>5 DEF Exact
    <3> QED
      BY <2>9, <3>3, <3>4 DEF Exact
  <2>11. \A n : Present(pt, n) <=> Present(m.pt, n) /\ n \notin gone
    BY <2>5, <2>7 DEF Present
  <2>12. UserPages(pt) = UserPages(m.pt) \ (Up(newsz)..(Up(oldsz) - 1))
    BY <2>3, <2>6, <2>11, UserPageIs
  <2>13. Rooted(m.pt) => Rooted(pt)
    <3> SUFFICES ASSUME Rooted(m.pt), NEW n \in Nat, Present(pt, n) PROVE Reaches(pt, n)
      BY DEF Rooted
    <3>1. Reaches(m.pt, n)
      BY <2>11 DEF Rooted
    <3>2. {Pdp(n), Pd(n), Pt(n)} \cap lost = {}
      BY <2>14, Levels
    <3> QED
      BY <2>5, <3>1, <3>2 DEF Reaches
  <2> QED
    BY <1>2, <2>9, <2>10, <2>12, <2>13 DEF r
<1> QED
  BY <1>1, <1>2

\* setupkvm() starts a page table with no user page.
LEMMA setupkvmBuilds ==
  ASSUME NEW f \in SUBSET Pages
  PROVE  LET r == setupkvm(f)
         IN  /\ r \in Mems /\ Exact(r, f) /\ r.noU = {} /\ r.sz = 0
             /\ Rooted(r.pt) /\ UserPages(r.pt) = {}
<1> DEFINE z == Mem(f, NoPages, {})
           k == <<"pml4", 0>>
           r == kalloc(z, k)
<1>1. NoPages \in Tables /\ DOMAIN NoPages = {}
  <2>1. NoPages \in [{} -> Pages]
    BY DEF NoPages
  <2> QED
    BY <2>1, TableIs DEF NoPages
<1>2. z \in Mems /\ z.free = f /\ z.pt = NoPages /\ z.noU = {} /\ z.sz = 0 /\ z.err = "no"
  BY <1>1 DEF Mem, Mems, Errors
<1>3. k \in Keys /\ \A n : k # <<"user", n>>
  BY DEF Keys, Kinds
<1> HIDE DEF z, k
<1>4. Exact(z, f)
  BY <1>1, <1>2 DEF Exact, freevm
<1>5. Builds(z, r, f) /\ (DOMAIN r.pt = {k} \/ DOMAIN r.pt = {})
  BY <1>1, <1>2, <1>3, <1>4, kallocBuilds
<1> HIDE DEF r
<1>6. \A n : ~Present(r.pt, n)
  BY <1>3, <1>5 DEF Present
<1>7. Rooted(r.pt) /\ UserPages(r.pt) = {}
  BY <1>5, <1>6, UserPageIs DEF Rooted, Builds, Mems
<1>8. r = setupkvm(f)
  BY DEF r, z, k, setupkvm
<1> QED
  BY <1>2, <1>5, <1>7, <1>8 DEF Builds

\* copyuvm() maps in the child the pages the parent has, and no other, and
\* finds every one of them.
LEMMA copyuvmBuilds ==
  ASSUME NEW f \in SUBSET Pages, NEW p, p.sz \in Nat, p.pgdir \in Tables,
         Image(p.pgdir, p.sz), p.noU \in SUBSET Nat
  PROVE  LET r == copyuvm(f, p)
         IN  /\ r \in Mems /\ Exact(r, f) /\ r.noU = p.noU
             /\ r.err = "no" => Image(r.pt, p.sz)
<1> DEFINE copy(m, n) == IF ~Reaches(p.pgdir, n) THEN Fails(m, "copyuvm: pte should exist")
                         ELSE IF ~Present(p.pgdir, n) THEN Fails(m, "copyuvm: page not present")
                         ELSE mappages(m, n)
           b == Up(p.sz)
           z == setupkvm(f)
           q == Loop(copy, z, 1, b)
           r == copyuvm(f, p)
<1>1. r = [q EXCEPT !.noU = p.noU]
  BY DEF copyuvm, Flags, Up
<1>2. b \in Nat /\ PagesIn(PGSIZE, p.sz) = 1..(b - 1)
  BY PagesOfSize
<1>3. ASSUME NEW i \in 1..(b - 1), NEW y PROVE copy(y, i) = mappages(y, i)
  <2>1. i \in UserPages(p.pgdir) /\ i \in Nat
    BY <1>2 DEF Image
  <2>2. Present(p.pgdir, i)
    BY <2>1, UserPageIs
  <2>3. Reaches(p.pgdir, i)
    BY <2>1, <2>2 DEF Image, Rooted
  <2> QED
    BY <2>2, <2>3
<1>4. /\ z \in Mems /\ Exact(z, f) /\ z.noU = {} /\ z.sz = 0
      /\ Rooted(z.pt) /\ UserPages(z.pt) = {}
  BY setupkvmBuilds
<1> HIDE DEF z, b
<1>5. Mapped(z, q, 1, b, f)
  <2>1. CASE b <= 1
    <3>1. q = z
      BY <2>1, <1>2 DEF Loop
    <3>2. 1..(b - 1) = {}
      BY <1>2, <2>1
    <3> QED
      BY <1>4, <3>1, <3>2 DEF Mapped, Builds
  <2>2. CASE 1 < b
    <3> DEFINE t == CHOOSE s : s = [i \in 1..b |-> IF i = 1 THEN z ELSE copy(s[i - 1], i - 1)]
    <3> HIDE DEF copy
    <3>1. q = t[b]
      BY <1>2, <2>2 DEF Loop
    <3> HIDE DEF q
    <3>2. PICK s : Maps(s, z, 1, b)
      BY <1>2, <1>4, <2>2, mappagesMaps
    <3>3. s = [i \in 1..b |-> IF i = 1 THEN z ELSE copy(s[i - 1], i - 1)]
      <4>1. ASSUME NEW i \in 1..b, i # 1 PROVE s[i] = copy(s[i - 1], i - 1)
        <5>1. i - 1 \in 1..(b - 1) /\ (i - 1) + 1 = i
          BY <1>2, <4>1
        <5> QED
          BY <1>3, <3>2, <5>1 DEF Maps
      <4> QED
        BY <3>2, <4>1 DEF Maps
    <3>4. t = [i \in 1..b |-> IF i = 1 THEN z ELSE copy(t[i - 1], i - 1)]
      BY <3>3
    <3> HIDE DEF t
    <3>5. Maps(t, z, 1, b)
      <4>1. 1 \in 1..b /\ \A i \in 1..(b - 1) : i + 1 # 1 /\ (i + 1) - 1 = i /\ i + 1 \in 1..b
        BY <1>2, <2>2
      <4> QED
        BY <1>3, <3>4, <4>1 DEF Maps
    <3> QED
      BY <1>2, <1>4, <2>2, <3>1, <3>5, mappagesMaps
  <2> HIDE DEF q
  <2> QED
    BY <1>2, <2>1, <2>2
<1> HIDE DEF q, r
<1>6. q \in Mems /\ Exact(q, f) /\ (q.err = "no" => Image(q.pt, p.sz))
  BY <1>2, <1>4, <1>5 DEF Mapped, Builds, Image
<1>7. r \in Mems /\ r.pt = q.pt /\ r.free = q.free /\ r.noU = p.noU /\ r.err = q.err
  BY <1>1, <1>6 DEF Mems
<1>8. Exact(r, f)
  BY <1>6, <1>7 DEF Exact
<1> QED
  BY <1>6, <1>7, <1>8 DEF r

(********************************* loading *********************************)

\* What exec() holds while it loads: a refused program (size 0), or an image.
Loading(x, T) ==
  /\ x \in Mems /\ Exact(x, T) /\ x.noU = {}
  /\ x.sz # 0 => PGSIZE <= x.sz /\ x.sz < KERNBASE /\ (x.err = "no" => Image(x.pt, x.sz))

\* A program can be refused at any time.
LEMMA Refused ==
  ASSUME NEW T, NEW m, m \in Mems, Exact(m, T), m.noU = {}
  PROVE  Loading([m EXCEPT !.sz = 0], T)
<1> DEFINE r == [m EXCEPT !.sz = 0]
<1>1. r \in Mems /\ r.pt = m.pt /\ r.free = m.free /\ r.noU = m.noU /\ r.sz = 0
  BY DEF Mems
<1> HIDE DEF r
<1>2. Loading(r, T)
  BY <1>1 DEF Loading, Exact
<1> QED
  BY <1>2 DEF r

\* loaduvm() finds the pages of a segment that the image covers.
LEMMA loaduvmFinds ==
  ASSUME NEW m, m \in Mems, Image(m.pt, m.sz),
         NEW seg \in [vaddr : Nat, memsz : Nat, filesz : Nat, cut : BOOLEAN],
         seg.vaddr >= PGSIZE, seg.filesz <= seg.memsz, seg.vaddr + seg.memsz <= m.sz
  PROVE  loaduvm(m, seg) = m \/ loaduvm(m, seg) = [m EXCEPT !.sz = 0]
<1> DEFINE a == seg.vaddr
           b == seg.vaddr + seg.filesz
<1>1. a \in Nat /\ b \in Nat /\ m.sz \in Nat /\ b <= m.sz /\ PGSIZE \in Nat /\ PGSIZE <= a
  BY VmAssumption DEF Mems
<1>2. PageOf(PGSIZE) = 1 /\ Up(PGSIZE) = 1
  <2>1. PGSIZE * 1 = PGSIZE
    BY VmAssumption
  <2> QED
    BY <2>1, WholePages
<1> HIDE DEF a, b
<1>3. PageOf(a) \in Nat /\ 1 <= PageOf(a)
  BY <1>1, <1>2, PageMonotone, PageFacts
<1>4. Up(b) \in Nat /\ Up(m.sz) \in Nat /\ Up(b) <= Up(m.sz)
  BY <1>1, UpMonotone, RoundUp
<1>5. ASSUME NEW n \in PagesIn(a, b) PROVE Reaches(m.pt, n)
  <2>1. n \in PageOf(a)..(Up(b) - 1)
    BY DEF PagesIn, Up
  <2>2. n \in 1..(Up(m.sz) - 1) /\ n \in Nat
    BY <1>3, <1>4, <2>1
  <2>3. n \in UserPages(m.pt)
    BY <1>1, <2>2, PagesOfSize DEF Image
  <2> QED
    BY <2>2, <2>3, UserPageIs DEF Image, Rooted, Mems
<1> QED
  BY <1>5 DEF loaduvm, a, b

\* One segment: exec() refuses it, or the image covers it.
LEMMA loadKeeps ==
  ASSUME NEW T, NEW m, Loading(m, T),
         NEW seg \in [vaddr : Nat, memsz : Nat, filesz : Nat, cut : BOOLEAN], seg.vaddr >= PGSIZE
  PROVE  Loading(load(m, seg), T)
<1> DEFINE new == seg.vaddr + seg.memsz
           a == allocuvm(m, m.sz, new)
<1>1. CASE m.sz = 0 \/ m.err # "no"
  BY <1>1 DEF load
<1>2. CASE ~(m.sz = 0 \/ m.err # "no") /\ (seg.memsz < seg.filesz \/ new >= ADDRS)
  <2>1. load(m, seg) = [m EXCEPT !.sz = 0]
    BY <1>2 DEF load
  <2> QED
    BY <2>1, Refused DEF Loading
<1>3. CASE ~(m.sz = 0 \/ m.err # "no") /\ ~(seg.memsz < seg.filesz \/ new >= ADDRS)
  <2>0. new \in Nat /\ m.sz \in Nat /\ PGSIZE <= m.sz /\ m.sz < KERNBASE /\ m.err = "no" /\ KERNBASE \in Nat
        /\ m \in Mems /\ Exact(m, T) /\ m.noU = {} /\ Image(m.pt, m.sz)
    BY <1>3, VmAssumption DEF Loading, Mems
  <2>1. load(m, seg) = IF a.sz = 0 \/ a.err # "no" THEN a
                       ELSE IF seg.vaddr % PGSIZE # 0 THEN [a EXCEPT !.sz = 0]
                       ELSE loaduvm(a, seg)
    BY <1>3 DEF load
  <2> HIDE DEF new
  <2>2. /\ a \in Mems /\ Exact(a, T) /\ a.noU = {}
        /\ a.sz # 0 => new < KERNBASE /\ a.sz = IF m.sz <= new THEN new ELSE m.sz
        /\ a.sz # 0 /\ a.err = "no" => Image(a.pt, a.sz)
    <3>1. m.err = "no" => Image(m.pt, m.sz)
      BY <2>0
    <3>2. LET q == allocuvm(m, m.sz, new)
          IN  /\ q \in Mems /\ Exact(q, T) /\ q.noU = m.noU /\ (q.err = "no" => m.err = "no")
              /\ q.sz = 0 => q.pt = m.pt /\ q.free = m.free /\ q.err = m.err
              /\ q.sz # 0 => new < KERNBASE /\ q.sz = IF m.sz <= new THEN new ELSE m.sz
              /\ q.sz # 0 /\ q.err = "no" => Image(q.pt, q.sz)
      BY <2>0, <3>1, allocuvmBuilds, Zenon
    <3> QED
      BY <2>0, <3>2
  <2> HIDE DEF a
  <2>3. a.sz # 0 => PGSIZE <= a.sz /\ a.sz < KERNBASE /\ new <= a.sz
    BY SMTT(40), <2>0, <2>2, VmAssumption
  <2>4. Loading(a, T) /\ Loading([a EXCEPT !.sz = 0], T)
    BY <2>2, <2>3, Refused DEF Loading
  <2>5. ASSUME a.sz # 0, a.err = "no" PROVE loaduvm(a, seg) = a \/ loaduvm(a, seg) = [a EXCEPT !.sz = 0]
    <3>1. seg.filesz <= seg.memsz /\ seg.vaddr + seg.memsz <= a.sz
      BY <1>3, <2>3, <2>5 DEF new
    <3> QED
      BY <2>2, <2>5, <3>1, loaduvmFinds
  <2> QED
    BY <2>1, <2>4, <2>5
<1> QED
  BY <1>1, <1>2, <1>3

\* exec(), the loading of all segments.
LEMMA loadLoop ==
  ASSUME NEW T, NEW x, Loading(x, T), NEW prog \in Programs
  PROVE  Loading(Loop(LAMBDA y, i : load(y, prog[i]), x, 1, Len(prog) + 1), T)
<1> DEFINE b == Len(prog) + 1
           Seg == [vaddr : Nat, memsz : Nat, filesz : Nat, cut : BOOLEAN]
           turn(y, i) == load(y, prog[i])
           r == Loop(turn, x, 1, b)
<1> HIDE DEF r
<1>0. prog \in Seq(Seg) /\ Linked
  BY VmAssumption
<1>1. b \in Nat /\ 1 <= b
  BY <1>0
<1>2. ASSUME NEW i \in 1..(b - 1), NEW y, Loading(y, T) PROVE Loading(turn(y, i), T)
  <2>1. i \in DOMAIN prog /\ prog[i] \in Seg
    <3>1. i \in 1..Len(prog)
      BY <1>0
    <3> HIDE DEF Seg
    <3> QED
      BY <1>0, <3>1
  <2>2. prog[i].vaddr >= PGSIZE
    BY <1>0, <2>1 DEF Linked
  <2> QED
    BY <1>2, <2>1, <2>2, loadKeeps
<1> DEFINE R == {w \in (1..b) \X Mems : Loading(w[2], T)}
           F == [w \in R |-> turn(w[2], w[1])]
<1>3. \A i \in 1..b : \A y : <<i, y>> \in R <=> Loading(y, T)
  BY DEF Loading
<1>4. \A i \in 1..b : \A y : <<i, y>> \in R => F[<<i, y>>] = turn(y, i)
  OBVIOUS
<1> HIDE DEF b, R, F, turn
<1>5. 1 \in 1..b /\ b \in 1..b /\ \A i \in 1..(b - 1) : i \in 1..b /\ i + 1 \in 1..b
  BY <1>1
<1>6. <<1, x>> \in R /\ \A i \in 1..(b - 1) : \A y : <<i, y>> \in R => <<i + 1, turn(y, i)>> \in R
  BY <1>2, <1>3, <1>5
<1>7. \A i \in 1..(b - 1) : \A y : <<i, y>> \in R => <<i + 1, F[<<i, y>>]>> \in R
  BY <1>4, <1>5, <1>6
<1>8. PICK s : Goes(s, 1, b, x, F) /\ \A i \in 1..b : <<i, s[i]>> \in R
  BY <1>1, <1>6, <1>7, LoopExists
<1> DEFINE t == CHOOSE u : u = [i \in 1..b |-> IF i = 1 THEN x ELSE turn(u[i - 1], i - 1)]
<1>9. s = [i \in 1..b |-> IF i = 1 THEN x ELSE turn(s[i - 1], i - 1)]
  <2>1. ASSUME NEW i \in 1..b, i # 1 PROVE s[i] = turn(s[i - 1], i - 1)
    <3>1. i - 1 \in 1..(b - 1) /\ (i - 1) + 1 = i
      BY <1>1, <2>1
    <3> QED
      BY <1>4, <1>5, <1>8, <3>1 DEF Goes
  <2> QED
    BY <1>8, <2>1 DEF Goes
<1>10. t = [i \in 1..b |-> IF i = 1 THEN x ELSE turn(t[i - 1], i - 1)]
  BY <1>9
<1>11. r = IF b <= 1 THEN x ELSE t[b]
  BY DEF Loop, r
<1> HIDE DEF t
<1>12. <<b, t[b]>> \in R
  <2>1. t[1] = x /\ \A i \in 1..(b - 1) : t[i + 1] = turn(t[i], i)
    <3>1. \A i \in 1..(b - 1) : i + 1 # 1 /\ (i + 1) - 1 = i
      OBVIOUS
    <3> QED
      BY <1>5, <1>10, <3>1
  <2>2. <<1, t[1]>> \in R /\ \A i \in 1..(b - 1) : <<i, t[i]>> \in R => <<i + 1, t[i + 1]>> \in R
    BY <1>6, <2>1
  <2> QED
    BY <1>1, <2>2, LoopKeeps
<1>13. Loading(r, T)
  BY <1>3, <1>5, <1>11, <1>12
<1> QED
  BY <1>13 DEF r, turn, b

(********************************* the stack *******************************)

\* Addresses modulo ADDRS: those in range are themselves, those k below 0 end
\* up less than k words under the end.
LEMMA Small ==
  ASSUME NEW a \in Nat, NEW d \in Nat \ {0}, a < d
  PROVE  a % d = a
OBVIOUS

\* A negative address.
LEMMA Wraps ==
  ASSUME NEW k \in Nat \ {0}, NEW d \in Nat \ {0}
  PROVE  (-k) % d \in 0..(d - 1) /\ d - ((-k) % d) <= k
<1> DEFINE v == (-k) % d
           q == (-k) \div d
<1>1. v \in 0..(d - 1) /\ q \in Int /\ -k = d * q + v
  OBVIOUS
<1> HIDE DEF v, q
<1>2. q <= -1
  <2> SUFFICES ASSUME q >= 0 PROVE FALSE
    BY <1>1
  <2>1. d * q >= 0
    BY <1>1
  <2> QED
    BY <1>1, <2>1
<1>3. d * (q + 1) <= 0
  BY <1>1, <1>2
<1>4. d * (q + 1) = d * q + d
  BY <1>1
<1>5. v \in 0..(d - 1) /\ d - v <= k
  BY <1>1, <1>3, <1>4
<1> QED
  BY <1>5 DEF v

\* The image exec() has built when it pushes the arguments: h pages, the second
\* from the top is the guard.
Stacked(g, h) ==
  /\ g.pt \in Tables /\ h \in Nat /\ h >= 3 /\ PGSIZE * h < ADDRS
  /\ UserPages(g.pt) = 1..(h - 1) /\ g.noU = {h - 2}

Results == {"done", "refused", "null pointer in uva2ka"}
StackPage(h) == (PGSIZE * h - PGSIZE)..(PGSIZE * h)

\* copyout() touches the words it is given: the i-th is in a page for the user.
LEMMA copyoutTouches ==
  ASSUME NEW g, NEW va, NEW len, copyout(g, va, len) = "done", NEW i \in 1..len
  PROVE  LET n == PageOf((va + i - 1) % ADDRS) IN Present(g.pt, n) /\ n \notin g.noU
<1> DEFINE page(j) == PageOf((va + j - 1) % ADDRS)
           bad == {j \in 1..len : ~Present(g.pt, page(j)) \/ page(j) \in g.noU}
<1>1. copyout(g, va, len) = CASE bad = {} -> "done"
        [] bad # {} /\ Reaches(g.pt, page(Least(bad))) -> "refused"
        [] OTHER -> "null pointer in uva2ka"
  BY DEF copyout
<1> HIDE DEF bad
<1>2. bad = {}
  BY <1>1
<1> QED
  BY <1>2 DEF bad

\* The results of copyout().
LEMMA copyoutResult ==
  ASSUME NEW g, NEW va, NEW len
  PROVE  copyout(g, va, len) \in Results
<1> DEFINE page(j) == PageOf((va + j - 1) % ADDRS)
           bad == {j \in 1..len : ~Present(g.pt, page(j)) \/ page(j) \in g.noU}
<1>1. copyout(g, va, len) = CASE bad = {} -> "done"
        [] bad # {} /\ Reaches(g.pt, page(Least(bad))) -> "refused"
        [] OTHER -> "null pointer in uva2ka"
  BY DEF copyout
<1> HIDE DEF bad
<1> QED
  BY <1>1 DEF Results

\* A push that succeeds stays in the stack page: words further down would be in
\* the guard page or, below address 0, in pages above the image.
LEMMA pushInPage ==
  ASSUME NEW g, NEW h, Stacked(g, h), NEW sp \in StackPage(h), NEW len \in Nat,
         copyout(g, (sp - len) % ADDRS, len) = "done"
  PROVE  (sp - len) % ADDRS \in StackPage(h)
<1> DEFINE va == (sp - len) % ADDRS
           top == PGSIZE * h
<1>1. /\ h \in Nat /\ h >= 3 /\ PGSIZE \in Nat \ {0} /\ ADDRS \in Nat \ {0}
      /\ top \in Nat /\ top < ADDRS /\ PGSIZE <= top
      /\ PGSIZE * (h - 1) = top - PGSIZE /\ PGSIZE * (h - 2) = top - 2 * PGSIZE
      /\ h - 1 \in Nat /\ h - 2 \in Nat /\ 0 <= top - 2 * PGSIZE
  <2>1. h \in Nat /\ h >= 3 /\ PGSIZE \in Nat \ {0} /\ top < ADDRS /\ ADDRS \in Nat
    BY VmAssumption DEF Stacked
  <2>2. h - 1 \in Nat /\ h - 2 \in Nat /\ h = (h - 2) + 2
    BY <2>1
  <2>3. PGSIZE * (h - 2) \in Nat /\ top \in Nat
    BY <2>1, <2>2, Scaled
  <2>4. PGSIZE * (h - 1) = top - PGSIZE /\ PGSIZE * (h - 2) = top - 2 * PGSIZE
    BY <2>1
  <2> QED
    BY <2>1, <2>2, <2>3, <2>4
<1>2. sp \in (top - PGSIZE)..top
  BY DEF StackPage
<1> HIDE DEF top
<1>3. CASE sp - len >= top - PGSIZE
  <2>1. sp - len \in Nat /\ sp - len < ADDRS /\ sp - len \in (top - PGSIZE)..top
    BY <1>1, <1>2, <1>3
  <2>2. va = sp - len
    BY <1>1, <2>1, Small
  <2> QED
    BY <2>1, <2>2 DEF StackPage, top
<1>4. CASE sp - len < top - PGSIZE /\ sp - len >= 0
  <2>1. sp - len \in Nat /\ sp - len < ADDRS
    BY <1>1, <1>2, <1>4
  <2>2. va = sp - len
    BY <1>1, <2>1, Small
  <2> DEFINE i == (top - PGSIZE) - (sp - len)
             w == top - PGSIZE - 1
  <2>3. i \in 1..len /\ (sp - len) + i - 1 = w /\ w \in Nat /\ w < ADDRS
    BY <1>1, <1>2, <1>4
  <2>4. w % ADDRS = w
    BY <1>1, <2>3, Small
  <2>5. PageOf(w) = h - 2
    <3>1. PGSIZE * (h - 2) <= w /\ w < PGSIZE * (h - 2) + PGSIZE
      BY <1>1
    <3> QED
      BY <1>1, <2>3, <3>1, PageIs
  <2> HIDE DEF i, w, va
  <2>6. PageOf((va + i - 1) % ADDRS) \notin g.noU
    BY <2>3, copyoutTouches DEF va
  <2> QED
    BY <2>2, <2>3, <2>4, <2>5, <2>6 DEF Stacked
<1>5. CASE sp - len < 0
  <2> DEFINE k == len - sp
             i == ADDRS - va
             w == ADDRS - 1
  <2>1. k \in Nat \ {0} /\ sp - len = -k /\ k <= len
    BY <1>1, <1>2, <1>5
  <2>2. (-k) % ADDRS \in 0..(ADDRS - 1) /\ ADDRS - ((-k) % ADDRS) <= k
    <3> HIDE DEF k
    <3> QED
      BY <1>1, <2>1, Wraps
  <2>3. va \in 0..(ADDRS - 1) /\ ADDRS - va <= k
    BY <2>1, <2>2
  <2> HIDE DEF va
  <2>4. i \in 1..len /\ va + i - 1 = w /\ w \in Nat /\ w < ADDRS /\ top <= w
    BY <1>1, <1>2, <2>1, <2>3
  <2>5. w % ADDRS = w
    BY <1>1, <2>4, Small
  <2>6. PageOf(w) >= h /\ PageOf(w) \in Nat
    BY <1>1, <2>4, PageMonotone, PageFacts, WholePages DEF top
  <2>7. PageOf(w) \notin UserPages(g.pt)
    BY <1>1, <2>6 DEF Stacked
  <2> HIDE DEF i, w
  <2>8. Present(g.pt, PageOf((va + i - 1) % ADDRS))
    BY <2>4, copyoutTouches DEF va
  <2> QED
    BY <2>4, <2>5, <2>7, <2>8, UserPageIs DEF Stacked
<1> QED
  BY <1>1, <1>2, <1>3, <1>4, <1>5

\* The stack pointer while exec() pushes.
Pushing(st, h) == st \in [sp : Int, r : Results] /\ (st.r = "done" => st.sp \in StackPage(h))

\* One push keeps the stack pointer in the stack page or fails.
LEMMA pushKeeps ==
  ASSUME NEW g, NEW h, Stacked(g, h), NEW st, Pushing(st, h), NEW len \in Nat
  PROVE  Pushing(push(g, st, len), h)
<1>1. CASE st.r # "done"
  BY <1>1 DEF push
<1>2. CASE st.r = "done"
  <2> DEFINE sp == (st.sp - len) % ADDRS
             c == copyout(g, sp, len)
             q == [sp |-> sp, r |-> c]
  <2>1. push(g, st, len) = q
    BY <1>2 DEF push
  <2>2. st.sp \in StackPage(h)
    BY <1>2 DEF Pushing
  <2>3. c = "done" => sp \in StackPage(h)
    BY <2>2, pushInPage
  <2>4. sp \in Int
    <3>1. st.sp - len \in Int /\ ADDRS \in Nat \ {0}
      BY VmAssumption DEF Pushing
    <3> QED
      BY <3>1
  <2>5. c \in Results
    BY copyoutResult
  <2> HIDE DEF c, sp
  <2>6. Pushing(q, h)
    BY <2>3, <2>4, <2>5 DEF Pushing
  <2> QED
    BY <2>1, <2>6
<1> QED
  BY <1>1, <1>2

\* exec(), the pushing of all strings.
Pushed(g, x, args) == Loop(LAMBDA y, i : push(g, y, args[i]), x, 1, Len(args) + 1)

\* So does the pushing of all strings.
LEMMA pushLoop ==
  ASSUME NEW g, NEW h, Stacked(g, h), NEW x, Pushing(x, h), NEW args \in Seq(Nat)
  PROVE  Pushing(Pushed(g, x, args), h)
<1> DEFINE b == Len(args) + 1
           turn(y, i) == push(g, y, args[i])
           r == Loop(turn, x, 1, b)
<1> HIDE DEF r
<1>1. b \in Nat /\ 1 <= b
  OBVIOUS
<1>2. ASSUME NEW i \in 1..(b - 1), NEW y, Pushing(y, h) PROVE Pushing(turn(y, i), h)
  <2>1. args[i] \in Nat
    OBVIOUS
  <2> QED
    BY <1>2, <2>1, pushKeeps
<1> DEFINE R == {w \in (1..b) \X [sp : Int, r : Results] : Pushing(w[2], h)}
           F == [w \in R |-> turn(w[2], w[1])]
<1>3. \A i \in 1..b : \A y : <<i, y>> \in R <=> Pushing(y, h)
  BY DEF Pushing
<1>4. \A i \in 1..b : \A y : <<i, y>> \in R => F[<<i, y>>] = turn(y, i)
  OBVIOUS
<1> HIDE DEF b, R, F, turn
<1>5. 1 \in 1..b /\ b \in 1..b /\ \A i \in 1..(b - 1) : i \in 1..b /\ i + 1 \in 1..b
  BY <1>1
<1>6. <<1, x>> \in R /\ \A i \in 1..(b - 1) : \A y : <<i, y>> \in R => <<i + 1, turn(y, i)>> \in R
  BY <1>2, <1>3, <1>5
<1>7. \A i \in 1..(b - 1) : \A y : <<i, y>> \in R => <<i + 1, F[<<i, y>>]>> \in R
  BY <1>4, <1>5, <1>6
<1>8. PICK s : Goes(s, 1, b, x, F) /\ \A i \in 1..b : <<i, s[i]>> \in R
  BY <1>1, <1>6, <1>7, LoopExists
<1> DEFINE t == CHOOSE u : u = [i \in 1..b |-> IF i = 1 THEN x ELSE turn(u[i - 1], i - 1)]
<1>9. s = [i \in 1..b |-> IF i = 1 THEN x ELSE turn(s[i - 1], i - 1)]
  <2>1. ASSUME NEW i \in 1..b, i # 1 PROVE s[i] = turn(s[i - 1], i - 1)
    <3>1. i - 1 \in 1..(b - 1) /\ (i - 1) + 1 = i
      BY <1>1, <2>1
    <3> QED
      BY <1>4, <1>5, <1>8, <3>1 DEF Goes
  <2> QED
    BY <1>8, <2>1 DEF Goes
<1>10. t = [i \in 1..b |-> IF i = 1 THEN x ELSE turn(t[i - 1], i - 1)]
  BY <1>9
<1>11. r = IF b <= 1 THEN x ELSE t[b]
  BY DEF Loop, r
<1> HIDE DEF t
<1>12. <<b, t[b]>> \in R
  <2>1. t[1] = x /\ \A i \in 1..(b - 1) : t[i + 1] = turn(t[i], i)
    <3>1. \A i \in 1..(b - 1) : i + 1 # 1 /\ (i + 1) - 1 = i
      OBVIOUS
    <3> QED
      BY <1>5, <1>10, <3>1
  <2>2. <<1, t[1]>> \in R /\ \A i \in 1..(b - 1) : <<i, t[i]>> \in R => <<i + 1, t[i + 1]>> \in R
    BY <1>6, <2>1
  <2> QED
    BY <1>1, <2>2, LoopKeeps
<1>13. Pushing(r, h)
  BY <1>3, <1>5, <1>11, <1>12
<1> QED
  BY <1>13 DEF r, turn, b, Pushed

(************************** the inductive invariant ************************)

PCB == [state : {"unused", "live", "zombie"}, parent : Procs \cup {0}, kstack : Pages \cup {0},
        pgdir : Tables, noU : SUBSET Nat, sz : Nat, rsp : Int, top : Nat]

\* The pages of a process, each once.
Has(r) == IF r.state = "unused" THEN {} ELSE {r.kstack} \cup freevm(r.pgdir)
Single(r) ==
  r.state # "unused" => \A j, k \in DOMAIN r.pgdir : r.pgdir[j] # r.kstack /\ (r.pgdir[j] = r.pgdir[k] => j = k)

\* PagesOwnedOnce, of any free list and any process table.
Apart(f, pr) ==
  /\ f \cup UNION {Has(pr[p]) : p \in Procs} = Pages
  /\ \A p \in Procs : f \cap Has(pr[p]) = {} /\ Single(pr[p])
  /\ \A p, q \in Procs : p # q => Has(pr[p]) \cap Has(pr[q]) = {}

\* What StackGuarded says of a process with the stack of exec(), and that the
\* stack ends where a page does.
Guarded(r) ==
  \E h \in Nat : /\ h >= 3 /\ r.top = PGSIZE * h /\ r.rsp \in StackPage(h)
                 /\ r.noU = {h - 2} /\ {h - 2, h - 1} \subseteq UserPages(r.pgdir)

\* ImageMapped and StackGuarded, of one process.
Fit(r) ==
  r.state # "unused" =>
    /\ Present(r.pgdir, 1) => UserPages(r.pgdir) = PagesIn(PGSIZE, r.sz)
    /\ r.top # 0 => Guarded(r)
\* The page tables of a process, while the kernel runs.
Reached(r) == r.state # "unused" => Rooted(r.pgdir)

Halts == {"no", "Out of memory!", "null pointer in uva2ka"}

\* The inductive invariant: the properties, with the page-table pages that
\* loaduvm, copyuvm and uva2ka look for.  A process whose first page is gone
\* needs no image: it never calls again.
Inv ==
  /\ free \in SUBSET Pages /\ proc \in [Procs -> PCB] /\ calls \in Nat /\ panic \in Halts
  /\ Apart(free, proc)
  /\ \A p \in Procs : Fit(proc[p]) /\ (panic = "no" => Reached(proc[p]))

\* Apart is what PagesOwnedOnce says.
LEMMA ApartIs ==
  ASSUME NEW f, NEW pr
  PROVE  Apart(f, pr) <=>
    LET live == {p \in Procs : pr[p].state # "unused"}
        own(p) == {pr[p].kstack} \cup {pr[p].pgdir[k] : k \in DOMAIN pr[p].pgdir}
    IN  /\ f \cup UNION {own(p) : p \in live} = Pages
        /\ \A p \in live : f \cap own(p) = {}
        /\ \A p, q \in live : p # q => own(p) \cap own(q) = {}
        /\ \A p \in live : \A j, k \in DOMAIN pr[p].pgdir :
             pr[p].pgdir[j] # pr[p].kstack /\ (pr[p].pgdir[j] = pr[p].pgdir[k] => j = k)
<1> DEFINE live == {p \in Procs : pr[p].state # "unused"}
           own(p) == {pr[p].kstack} \cup {pr[p].pgdir[k] : k \in DOMAIN pr[p].pgdir}
<1>1. \A p \in Procs : Has(pr[p]) = IF p \in live THEN own(p) ELSE {}
  BY DEF Has, freevm
<1>2. \A p \in Procs : Single(pr[p]) <=> (p \in live => \A j, k \in DOMAIN pr[p].pgdir :
             pr[p].pgdir[j] # pr[p].kstack /\ (pr[p].pgdir[j] = pr[p].pgdir[k] => j = k))
  BY DEF Single
<1>3. live \in SUBSET Procs
  OBVIOUS
<1> HIDE DEF live, own
<1>4. UNION {Has(pr[p]) : p \in Procs} = UNION {own(p) : p \in live}
  BY <1>1, <1>3
<1>5. (\A p \in Procs : f \cap Has(pr[p]) = {}) <=> (\A p \in live : f \cap own(p) = {})
  BY <1>1, <1>3
<1>6. (\A p, q \in Procs : p # q => Has(pr[p]) \cap Has(pr[q]) = {})
        <=> (\A p, q \in live : p # q => own(p) \cap own(q) = {})
  BY <1>1, <1>3
<1>7. (\A p \in Procs : Single(pr[p])) <=> (\A p \in live : \A j, k \in DOMAIN pr[p].pgdir :
             pr[p].pgdir[j] # pr[p].kstack /\ (pr[p].pgdir[j] = pr[p].pgdir[k] => j = k))
  BY <1>2, <1>3
<1> QED
  BY <1>4, <1>5, <1>6, <1>7 DEF Apart, live, own

\* A call that exchanges pages between the free list and one process.
LEMMA Exchange ==
  ASSUME NEW f, NEW pr \in [Procs -> PCB], Apart(f, pr), NEW p \in Procs, NEW g, NEW r,
         g \cup Has(r) = f \cup Has(pr[p]), g \cap Has(r) = {}, Single(r)
  PROVE  Apart(g, [pr EXCEPT ![p] = r])
<1> DEFINE new == [pr EXCEPT ![p] = r]
<1>1. new[p] = r /\ \A q \in Procs : q # p => new[q] = pr[q]
  OBVIOUS
<1> HIDE DEF new
<1>2. \A q \in Procs : q # p => Has(pr[q]) \cap (f \cup Has(pr[p])) = {}
  BY DEF Apart
<1>3. \A q \in Procs : q # p => Has(pr[q]) \cap g = {} /\ Has(pr[q]) \cap Has(r) = {}
  BY <1>2
<1>4. g \cup UNION {Has(new[q]) : q \in Procs} = Pages
  <2>1. UNION {Has(new[q]) : q \in Procs} = Has(r) \cup UNION {Has(pr[q]) : q \in Procs \ {p}}
    BY <1>1
  <2>2. UNION {Has(pr[q]) : q \in Procs} = Has(pr[p]) \cup UNION {Has(pr[q]) : q \in Procs \ {p}}
    OBVIOUS
  <2> QED
    BY <2>1, <2>2 DEF Apart
<1>5. \A q \in Procs : g \cap Has(new[q]) = {} /\ Single(new[q])
  BY <1>1, <1>3 DEF Apart
<1>6. \A q, s \in Procs : q # s => Has(new[q]) \cap Has(new[s]) = {}
  BY <1>1, <1>3 DEF Apart
<1>7. Apart(g, new)
  BY <1>4, <1>5, <1>6 DEF Apart
<1> QED
  BY <1>7 DEF new

\* A process that keeps its kernel stack k, and whose page table is all that
\* a call has left of the pages T.
LEMMA Holds ==
  ASSUME NEW T, NEW m, Exact(m, T), NEW r, r.state # "unused", r.pgdir = m.pt, r.kstack \notin T
  PROVE  /\ m.free \cup Has(r) = T \cup {r.kstack} /\ m.free \cap Has(r) = {} /\ Single(r)
<1>1. Has(r) = {r.kstack} \cup freevm(m.pt)
  BY DEF Has
<1>2. Single(r)
  <2> SUFFICES ASSUME NEW j \in DOMAIN m.pt PROVE m.pt[j] # r.kstack
    BY DEF Single, Exact
  <2>1. m.pt[j] \in freevm(m.pt)
    BY DEF freevm
  <2> QED
    BY <2>1 DEF Exact
<1> QED
  BY <1>1, <1>2 DEF Exact

\* A system call ends in a panic, or in what it was said to leave.
LEMMA EndsKeeps ==
  ASSUME Inv, panic = "no", NEW err \in Halts, NEW f, NEW pr, Ends(err, f, pr),
         err = "no" => /\ f \in SUBSET Pages /\ pr \in [Procs -> PCB] /\ Apart(f, pr)
                       /\ \A p \in Procs : Fit(pr[p]) /\ Reached(pr[p])
  PROVE  Inv'
<1>1. calls' \in Nat
  BY DEF Inv, Ends
<1>2. CASE err # "no"
  <2>1. panic' = err /\ free' = free /\ proc' = proc
    BY <1>2 DEF Ends
  <2> QED
    BY <1>1, <1>2, <2>1 DEF Inv
<1>3. CASE err = "no"
  <2>1. panic' = panic /\ free' = f /\ proc' = pr
    BY <1>3 DEF Ends
  <2> QED
    BY <1>1, <1>3, <2>1 DEF Inv
<1> QED
  BY <1>2, <1>3

\* userinit() starts the first process with one page.
LEMMA InitKeeps == Init => Inv
<1> SUFFICES ASSUME Init PROVE Inv
  OBVIOUS
<1> DEFINE T == Pages \ {NPages}
           z == setupkvm(T)
           m == mappages(z, 1)
           one == [Unused EXCEPT !.state = "live", !.kstack = NPages, !.pgdir = m.pt, !.sz = 2 * PGSIZE]
<1>1. free = m.free /\ proc = [p \in Procs |-> IF p = 1 THEN one ELSE Unused] /\ calls = 0 /\ panic = m.err
  BY DEF Init
<1>2. NPages \in Pages /\ 1 \in Procs /\ PGSIZE \in Nat \ {0}
  BY VmAssumption DEF Pages, Procs
<1>3. z \in Mems /\ Exact(z, T) /\ Rooted(z.pt) /\ UserPages(z.pt) = {}
  BY setupkvmBuilds
<1> HIDE DEF z, T
<1>4. ~Present(z.pt, 1)
  BY <1>3, UserPageIs DEF Mems
<1>5. /\ Builds(z, m, T) /\ UserPages(m.pt) \subseteq {1}
      /\ m.err = "no" => Rooted(m.pt)
  <2>1. 1 \in Nat /\ (z.err = "no" => ~Present(z.pt, 1) /\ Rooted(z.pt))
    BY <1>3, <1>4
  <2> QED
    BY <1>3, <2>1, mappagesBuilds
<1> HIDE DEF m
<1>6. m \in Mems /\ Exact(m, T)
  BY <1>5 DEF Builds
<1>7. NoPages \in Tables
  <2>1. NoPages \in [{} -> Pages]
    BY DEF NoPages
  <2> QED
    BY <2>1, TableIs
<1>8. Unused \in PCB /\ one \in PCB
  <2>1. Unused \in PCB
    BY <1>7 DEF Unused, PCB
  <2>2. m.pt \in Tables /\ 2 * PGSIZE \in Nat
    BY <1>2, <1>6 DEF Mems
  <2> QED
    BY <1>2, <2>1, <2>2 DEF PCB
<1>9. /\ one.state = "live" /\ one.kstack = NPages /\ one.pgdir = m.pt /\ one.sz = 2 * PGSIZE /\ one.top = 0
      /\ Unused.state = "unused"
  BY DEF Unused
<1> HIDE DEF one
<1>10. m.free \cup Has(one) = Pages /\ m.free \cap Has(one) = {} /\ Single(one)
  <2>1. NPages \notin T /\ T \cup {NPages} = Pages
    BY <1>2 DEF T
  <2>2. /\ m.free \cup Has(one) = T \cup {one.kstack} /\ m.free \cap Has(one) = {} /\ Single(one)
    BY <1>6, <1>9, <2>1, Holds
  <2> QED
    BY <1>9, <2>1, <2>2
<1>11. Has(Unused) = {} /\ Single(Unused) /\ Fit(Unused) /\ Reached(Unused)
  BY <1>9 DEF Has, Single, Fit, Reached
<1>12. Apart(free, proc)
  <2>1. proc[1] = one /\ \A p \in Procs : p # 1 => proc[p] = Unused
    BY <1>1, <1>2
  <2>2. UNION {Has(proc[p]) : p \in Procs} = Has(one)
    BY <1>2, <1>11, <2>1
  <2> QED
    BY <1>1, <1>10, <1>11, <2>1, <2>2 DEF Apart
<1>13. Fit(one)
  <2>1. PagesIn(PGSIZE, 2 * PGSIZE) = {1}
    <3>1. PGSIZE * 2 = 2 * PGSIZE /\ 2 * PGSIZE \in Nat
      BY <1>2
    <3>2. Up(2 * PGSIZE) = 2
      BY <3>1, WholePages
    <3>3. PagesIn(PGSIZE, 2 * PGSIZE) = 1..(Up(2 * PGSIZE) - 1)
      BY <3>1, PagesOfSize
    <3> QED
      BY <3>2, <3>3
  <2>2. Present(m.pt, 1) => 1 \in UserPages(m.pt)
    BY <1>6, UserPageIs DEF Mems
  <2> QED
    BY <1>5, <1>9, <2>1, <2>2 DEF Fit
<1>14. panic = "no" => Reached(one)
  BY <1>1, <1>5, <1>9 DEF Reached
<1>15. panic \in Halts /\ free \in SUBSET Pages
  BY <1>1, <1>6 DEF Mems, Errors, Halts
<1> QED
  BY <1>1, <1>8, <1>11, <1>12, <1>13, <1>14, <1>15 DEF Inv

\* The pages a system call of p may exchange with the free list.
LEMMA Opens ==
  ASSUME Inv, NEW p \in Procs, proc[p].state # "unused"
  PROVE  LET m == Mem(free, proc[p].pgdir, proc[p].noU)
             T == free \cup freevm(proc[p].pgdir)
         IN  /\ m \in Mems /\ Exact(m, T) /\ proc[p].kstack \notin T
             /\ T \cup {proc[p].kstack} = free \cup Has(proc[p])
<1> DEFINE r == proc[p]
           m == Mem(free, r.pgdir, r.noU)
           T == free \cup freevm(r.pgdir)
<1>1. r \in PCB /\ free \in SUBSET Pages /\ free \cap Has(r) = {} /\ Single(r) /\ r.state # "unused"
  BY DEF Inv, Apart
<1> HIDE DEF r
<1>2. /\ m \in Mems /\ m.free = free /\ m.pt = r.pgdir
  BY <1>1 DEF Mem, Mems, Errors, PCB
<1>3. Has(r) = {r.kstack} \cup freevm(r.pgdir)
  BY <1>1 DEF Has
<1> HIDE DEF m
<1>4. Exact(m, T)
  BY <1>1, <1>2, <1>3 DEF Exact, Single
<1>5. r.kstack \notin freevm(r.pgdir)
  BY <1>1 DEF Single, freevm
<1>6. r.kstack \notin T /\ T \cup {r.kstack} = free \cup Has(r)
  BY <1>1, <1>3, <1>5
<1> QED
  BY <1>2, <1>4, <1>6 DEF r, m

\* A process that runs has its image.
LEMMA RunsImage ==
  ASSUME Inv, NEW p \in Procs, Runs(p)
  PROVE  /\ panic = "no" /\ proc[p] \in PCB /\ proc[p].state = "live"
         /\ Image(proc[p].pgdir, proc[p].sz) /\ PGSIZE <= proc[p].sz
         /\ proc[p].top # 0 => Guarded(proc[p])
<1>1. /\ panic = "no" /\ proc[p].state = "live" /\ Present(proc[p].pgdir, 1)
      /\ proc[p] \in PCB /\ Fit(proc[p]) /\ Reached(proc[p])
  BY DEF Runs, Inv
<1>2. Image(proc[p].pgdir, proc[p].sz) /\ (proc[p].top # 0 => Guarded(proc[p]))
  BY <1>1 DEF Image, Fit, Reached
<1>3. PGSIZE <= proc[p].sz
  <2> DEFINE sz == proc[p].sz
  <2>1. sz \in Nat /\ PGSIZE \in Nat
    BY <1>1, VmAssumption DEF PCB
  <2>2. 1 \in 1..(Up(sz) - 1) /\ Up(sz) \in Nat
    <3>1. 1 \in UserPages(proc[p].pgdir)
      BY <1>1, UserPageIs DEF PCB
    <3> QED
      BY <1>2, <2>1, <3>1, PagesOfSize DEF Image
  <2>3. Up(PGSIZE) = 1
    <3>1. PGSIZE * 1 = PGSIZE
      BY <2>1
    <3> QED
      BY <3>1, WholePages
  <2> HIDE DEF sz
  <2>4. ~(sz <= PGSIZE)
    BY <2>1, <2>2, <2>3, UpMonotone
  <2>5. PGSIZE <= sz
    BY <2>1, <2>4
  <2> QED
    BY <2>5 DEF sz
<1> QED
  BY <1>1, <1>2, <1>3

\* exit() frees nothing: its pages stay with the zombie.
LEMMA exitKeeps == ASSUME Inv, NEW p \in Procs, exit(p) PROVE Inv'
<1> DEFINE new(q) == IF q = p THEN [proc[p] EXCEPT !.state = "zombie"]
                     ELSE IF proc[q].parent = p THEN [proc[q] EXCEPT !.parent = 1] ELSE proc[q]
<1>1. /\ proc' = [q \in Procs |-> new(q)] /\ proc[p].state = "live"
      /\ free' = free /\ calls' = calls /\ panic' = panic /\ 1 \in Procs
  BY VmAssumption DEF exit, Procs
<1>2. ASSUME NEW q \in Procs
      PROVE  /\ new(q) \in PCB /\ Has(new(q)) = Has(proc[q]) /\ (Single(proc[q]) => Single(new(q)))
             /\ (Fit(proc[q]) => Fit(new(q))) /\ (Reached(proc[q]) => Reached(new(q)))
  <2>1. proc[q] \in PCB
    BY DEF Inv
  <2>2. new(q) \in PCB
    BY <1>1, <2>1 DEF PCB
  <2>3. /\ new(q).state = "unused" <=> proc[q].state = "unused"
        /\ new(q).kstack = proc[q].kstack /\ new(q).pgdir = proc[q].pgdir /\ new(q).noU = proc[q].noU
        /\ new(q).sz = proc[q].sz /\ new(q).rsp = proc[q].rsp /\ new(q).top = proc[q].top
    BY <1>1, <2>1 DEF PCB
  <2> HIDE DEF new
  <2>4. Has(new(q)) = Has(proc[q]) /\ (Single(proc[q]) => Single(new(q)))
    BY <2>3 DEF Has, Single
  <2>5. (Fit(proc[q]) => Fit(new(q))) /\ (Reached(proc[q]) => Reached(new(q)))
    BY <2>3 DEF Fit, Reached, Guarded
  <2> QED
    BY <2>2, <2>4, <2>5
<1> HIDE DEF new
<1>3. \A q \in Procs : proc'[q] = new(q)
  BY <1>1
<1>4. Apart(free', proc')
  <2>1. \A q \in Procs : Has(proc'[q]) = Has(proc[q]) /\ (Single(proc[q]) => Single(proc'[q]))
    BY <1>2, <1>3
  <2>2. UNION {Has(proc'[q]) : q \in Procs} = UNION {Has(proc[q]) : q \in Procs}
    BY <2>1
  <2> QED
    BY <1>1, <2>1, <2>2 DEF Inv, Apart
<1>5. proc' \in [Procs -> PCB]
  BY <1>1, <1>2
<1>6. \A q \in Procs : Fit(proc'[q]) /\ (panic' = "no" => Reached(proc'[q]))
  BY <1>1, <1>2, <1>3 DEF Inv
<1> QED
  BY <1>1, <1>4, <1>5, <1>6 DEF Inv

\* wait() frees all the pages of a zombie.
LEMMA waitKeeps == ASSUME Inv, NEW p \in Procs, wait(p) PROVE Inv'
<1>1. PICK q \in Procs :
       /\ proc[q].parent = p /\ proc[q].state = "zombie"
       /\ Ends("no", free \cup {proc[q].kstack} \cup freevm(proc[q].pgdir), [proc EXCEPT ![q] = Unused])
  BY DEF wait
<1> DEFINE f == free \cup {proc[q].kstack} \cup freevm(proc[q].pgdir)
           new == [proc EXCEPT ![q] = Unused]
<1>2. Unused \in PCB /\ Has(Unused) = {} /\ Single(Unused) /\ Fit(Unused) /\ Reached(Unused)
  <2>1. NoPages \in [{} -> Pages]
    BY DEF NoPages
  <2>2. NoPages \in Tables
    BY <2>1, TableIs
  <2>3. Unused \in PCB /\ Unused.state = "unused"
    BY <2>2 DEF Unused, PCB
  <2> QED
    BY <2>3 DEF Has, Single, Fit, Reached
<1>3. f = free \cup Has(proc[q])
  BY <1>1 DEF Has
<1>4. free \in SUBSET Pages /\ proc \in [Procs -> PCB] /\ Apart(free, proc)
  BY DEF Inv
<1>5. Apart(f, new)
  <2> HIDE DEF f
  <2>1. f \cup Has(Unused) = free \cup Has(proc[q]) /\ f \cap Has(Unused) = {}
    BY <1>2, <1>3
  <2> QED
    BY <1>2, <1>4, <2>1, Exchange
<1>6. f \in SUBSET Pages
  BY <1>3, <1>4 DEF Apart
<1>7. panic = "no"
  BY DEF wait, Runs
<1>8. new \in [Procs -> PCB] /\ \A s \in Procs : Fit(new[s]) /\ Reached(new[s])
  BY <1>2, <1>4, <1>7 DEF Inv
<1> HIDE DEF f, new
<1>9. Ends("no", f, new) /\ "no" \in Halts
  BY <1>1 DEF f, new, Halts
<1> QED
  BY <1>5, <1>6, <1>7, <1>8, <1>9, EndsKeeps

\* The same, for a call that changes the process p and exchanges pages with it.
LEMMA ExchangeKeeps ==
  ASSUME Inv, panic = "no", NEW p \in Procs, NEW err \in Halts, NEW f, NEW r,
         Ends(err, f, [proc EXCEPT ![p] = r]),
         err = "no" => /\ r \in PCB /\ f \in SUBSET Pages
                       /\ f \cup Has(r) = free \cup Has(proc[p]) /\ f \cap Has(r) = {} /\ Single(r)
                       /\ Fit(r) /\ Reached(r)
  PROVE  Inv'
<1> DEFINE new == [proc EXCEPT ![p] = r]
<1>1. proc \in [Procs -> PCB] /\ Apart(free, proc) /\ \A q \in Procs : Fit(proc[q]) /\ Reached(proc[q])
  BY DEF Inv
<1>2. err = "no" => new \in [Procs -> PCB] /\ \A q \in Procs : Fit(new[q]) /\ Reached(new[q])
  BY <1>1
<1>3. err = "no" => Apart(f, new)
  BY <1>1, Exchange
<1> HIDE DEF new
<1>4. Ends(err, f, new)
  BY DEF new
<1> QED
  BY <1>2, <1>3, <1>4, EndsKeeps

\* fork() gives the child free pages and the parent's image.
LEMMA forkKeeps == ASSUME Inv, NEW p \in Procs, fork(p) PROVE Inv'
<1> DEFINE slots == {q \in Procs : proc[q].state = "unused"}
           np == Least(slots)
           z == Mem(free, NoPages, {})
           key == <<"kstack", 0>>
           k == kalloc(z, key)
           m == copyuvm(k.free, proc[p])
           r == [proc[p] EXCEPT !.parent = p, !.kstack = k.pt[key], !.pgdir = m.pt, !.noU = m.noU]
<1>1. /\ Runs(p) /\ slots # {}
      /\ IF k.err # "no" THEN Ends(k.err, free, proc) ELSE Ends(m.err, m.free, [proc EXCEPT ![np] = r])
  BY DEF fork
<1>2. np \in Procs /\ proc[np].state = "unused"
  <2>1. slots \in SUBSET Nat
    BY DEF Procs
  <2>2. np \in slots
    <3> HIDE DEF slots
    <3> QED
      BY <1>1, <2>1, LeastIn
  <2> QED
    BY <2>2
<1>3. /\ panic = "no" /\ proc[p] \in PCB /\ proc[p].state = "live" /\ Image(proc[p].pgdir, proc[p].sz)
      /\ proc[p].top # 0 => Guarded(proc[p])
  BY <1>1, RunsImage
<1>4. /\ free \in SUBSET Pages /\ proc \in [Procs -> PCB] /\ Apart(free, proc)
      /\ \A q \in Procs : Fit(proc[q]) /\ Reached(proc[q])
  BY <1>3 DEF Inv
<1>5. NoPages \in Tables /\ DOMAIN NoPages = {}
  <2>1. NoPages \in [{} -> Pages]
    BY DEF NoPages
  <2> QED
    BY <2>1, TableIs DEF NoPages
<1>6. z \in Mems /\ z.free = free /\ z.pt = NoPages
  BY <1>4, <1>5 DEF Mem, Mems, Errors
<1>7. key \in Keys
  BY DEF Keys, Kinds
<1> HIDE DEF slots, np, z, key
<1>8. Exact(z, free)
  BY <1>5, <1>6 DEF Exact, freevm
<1>9. Builds(z, k, free) /\ (k.err = "no" => DOMAIN k.pt = {key})
  BY <1>5, <1>6, <1>7, <1>8, kallocBuilds
<1> HIDE DEF k
<1>10. k \in Mems /\ Exact(k, free) /\ k.free \in SUBSET Pages /\ k.err \in Halts
  BY <1>9 DEF Builds, Mems, Errors, Halts
<1>11. CASE k.err # "no"
  BY <1>1, <1>3, <1>10, <1>11, EndsKeeps
<1>12. CASE k.err = "no"
  <2>1. freevm(k.pt) = {k.pt[key]} /\ k.pt[key] \in Pages
    BY <1>9, <1>10, <1>12, TableFacts DEF freevm, Mems
  <2>2. k.free \cup {k.pt[key]} = free /\ k.pt[key] \notin k.free
    BY <1>10, <2>1 DEF Exact
  <2>3. m \in Mems /\ Exact(m, k.free) /\ m.noU = proc[p].noU /\ (m.err = "no" => Image(m.pt, proc[p].sz))
    BY <1>3, <1>10, copyuvmBuilds DEF PCB
  <2> HIDE DEF m
  <2>4. m.pt \in Tables /\ m.noU \in SUBSET Nat /\ m.free \in SUBSET Pages /\ m.err \in Halts
    BY <2>3 DEF Mems, Errors, Halts
  <2>5. r \in PCB
    BY <1>3, <2>1, <2>4 DEF PCB
  <2>6. /\ r.state = "live" /\ r.kstack = k.pt[key] /\ r.pgdir = m.pt /\ r.noU = proc[p].noU
        /\ r.sz = proc[p].sz /\ r.rsp = proc[p].rsp /\ r.top = proc[p].top
    BY <1>3, <2>3 DEF PCB
  <2> HIDE DEF r
  <2>7. m.free \cup Has(r) = k.free \cup {r.kstack} /\ m.free \cap Has(r) = {} /\ Single(r)
    BY <2>2, <2>3, <2>6, Holds
  <2>8. m.free \cup Has(r) = free \cup Has(proc[np])
    BY <1>2, <2>2, <2>6, <2>7 DEF Has
  <2>9. m.err = "no" => Fit(r) /\ Reached(r)
    <3> SUFFICES ASSUME m.err = "no" PROVE Fit(r) /\ Reached(r)
      OBVIOUS
    <3>1. UserPages(r.pgdir) = UserPages(proc[p].pgdir) /\ Image(r.pgdir, r.sz)
      BY <1>3, <2>3, <2>6 DEF Image
    <3>2. r.top # 0 => Guarded(r)
      BY <1>3, <2>6, <3>1 DEF Guarded
    <3> QED
      BY <3>1, <3>2 DEF Fit, Reached, Image
  <2>10. Ends(m.err, m.free, [proc EXCEPT ![np] = r])
    BY <1>1, <1>12
  <2> QED
    BY <1>2, <1>3, <2>4, <2>5, <2>7, <2>8, <2>9, <2>10, ExchangeKeeps
<1> QED
  BY <1>11, <1>12

\* Growing keeps the image and the stack.
LEMMA Grows ==
  ASSUME NEW r \in PCB, Image(r.pgdir, r.sz), PGSIZE <= r.sz, r.top # 0 => Guarded(r),
         NEW q \in PCB, q.noU = r.noU, q.rsp = r.rsp, q.top = r.top, r.sz <= q.sz, Image(q.pgdir, q.sz)
  PROVE  Fit(q) /\ Reached(q)
<1>1. UserPages(r.pgdir) \subseteq UserPages(q.pgdir)
  <2>1. r.sz \in Nat /\ q.sz \in Nat
    BY DEF PCB
  <2>2. UserPages(r.pgdir) = 1..(Up(r.sz) - 1) /\ UserPages(q.pgdir) = 1..(Up(q.sz) - 1)
    BY <2>1, PagesOfSize DEF Image
  <2>3. Up(r.sz) \in Nat /\ Up(q.sz) \in Nat /\ Up(r.sz) <= Up(q.sz)
    BY <2>1, RoundUp, UpMonotone
  <2> QED
    BY <2>2, <2>3
<1>2. q.top # 0 => Guarded(q)
  BY <1>1 DEF Guarded
<1> QED
  BY <1>2 DEF Fit, Reached, Image

\* Shrinking takes the pages above the new size, and the stack only with its
\* own pages.
LEMMA Shrinks ==
  ASSUME NEW r \in PCB, Image(r.pgdir, r.sz), r.top # 0 => Guarded(r), NEW to \in Nat, to < r.sz,
         NEW q \in PCB, q.rsp = r.rsp, q.top = IF to < r.top THEN 0 ELSE r.top,
         q.sz = IF to = 0 THEN r.sz ELSE to,
         UserPages(q.pgdir) = UserPages(r.pgdir) \ (Up(to)..(Up(r.sz) - 1)), Rooted(q.pgdir),
         q.noU = r.noU \ {n \in Up(to)..(Up(r.sz) - 1) : Present(r.pgdir, n)}
  PROVE  Fit(q) /\ Reached(q)
<1>1. r.sz \in Nat /\ Up(r.sz) \in Nat /\ Up(to) \in Nat /\ Up(to) <= Up(r.sz)
  <2>1. r.sz \in Nat
    BY DEF PCB
  <2> QED
    BY <2>1, RoundUp, UpMonotone
<1>2. UserPages(r.pgdir) = 1..(Up(r.sz) - 1)
  BY <1>1, PagesOfSize DEF Image
<1>3. UserPages(q.pgdir) = 1..(Up(to) - 1)
  BY <1>1, <1>2
<1>4. Present(q.pgdir, 1) => UserPages(q.pgdir) = PagesIn(PGSIZE, q.sz)
  <2>1. CASE to = 0
    <3>1. Up(to) = 0
      <4>1. PGSIZE * 0 = 0
        BY VmAssumption
      <4> QED
        BY <2>1, <4>1, WholePages
    <3>2. UserPages(q.pgdir) = {}
      BY <1>3, <3>1
    <3> QED
      BY <3>2, UserPageIs DEF PCB
  <2>2. CASE to # 0
    BY <1>3, <2>2, PagesOfSize
  <2> QED
    BY <2>1, <2>2
<1>5. ASSUME q.top # 0 PROVE Guarded(q)
  <2>1. r.top # 0 /\ q.top = r.top /\ r.top <= to /\ r.top \in Nat
    BY <1>5 DEF PCB
  <2>2. PICK h \in Nat : /\ h >= 3 /\ r.top = PGSIZE * h /\ r.rsp \in StackPage(h)
                         /\ r.noU = {h - 2} /\ {h - 2, h - 1} \subseteq UserPages(r.pgdir)
    BY <2>1 DEF Guarded
  <2>3. h <= Up(to)
    BY SMTT(40), <2>1, <2>2, WholePages, UpMonotone
  <2>4. h - 2 \in 1..(Up(to) - 1) /\ h - 1 \in 1..(Up(to) - 1) /\ h - 2 \notin Up(to)..(Up(r.sz) - 1)
    BY SMTT(40), <1>1, <2>2, <2>3
  <2>5. q.noU = {h - 2}
    BY <2>2, <2>4
  <2> QED
    BY <1>3, <2>1, <2>2, <2>4, <2>5 DEF Guarded
<1> QED
  BY <1>4, <1>5 DEF Fit, Reached

\* sbrk() grows or shrinks the image of its process.
LEMMA sbrkKeeps == ASSUME Inv, NEW p \in Procs, sbrk(p) PROVE Inv'
<1> DEFINE sz == proc[p].sz
           old == Mem(free, proc[p].pgdir, proc[p].noU)
           T == free \cup freevm(proc[p].pgdir)
<1>1. PICK n \in Grow \cup {-sz} :
        LET to == (sz + n) % ADDRS
            m == IF n > 0 THEN allocuvm(old, sz, to) ELSE IF n < 0 THEN deallocuvm(old, sz, to)
                 ELSE [old EXCEPT !.sz = sz]
        IN  /\ p # 1 /\ Runs(p)
            /\ Ends(m.err, m.free, [proc EXCEPT ![p] =
                      [proc[p] EXCEPT !.pgdir = m.pt, !.noU = m.noU, !.sz = IF m.sz = 0 THEN sz ELSE m.sz,
                                      !.top = IF n < 0 /\ m.sz < @ THEN 0 ELSE @]])
  BY DEF sbrk
<1> DEFINE to == (sz + n) % ADDRS
           m == IF n > 0 THEN allocuvm(old, sz, to) ELSE IF n < 0 THEN deallocuvm(old, sz, to)
                ELSE [old EXCEPT !.sz = sz]
           r == [proc[p] EXCEPT !.pgdir = m.pt, !.noU = m.noU, !.sz = IF m.sz = 0 THEN sz ELSE m.sz,
                                !.top = IF n < 0 /\ m.sz < @ THEN 0 ELSE @]
<1>2. Runs(p) /\ Ends(m.err, m.free, [proc EXCEPT ![p] = r])
  BY <1>1
<1>3. /\ panic = "no" /\ proc[p] \in PCB /\ proc[p].state = "live"
      /\ Image(proc[p].pgdir, sz) /\ PGSIZE <= sz /\ (proc[p].top # 0 => Guarded(proc[p]))
  BY <1>2, RunsImage
<1>4. sz \in Nat /\ sz # 0 /\ n \in Int /\ to \in Nat
  <2>1. sz \in Nat /\ PGSIZE \in Nat \ {0} /\ ADDRS \in Nat \ {0} /\ Grow \subseteq Int
    BY SMTT(40), <1>3, VmAssumption DEF PCB
  <2>2. sz # 0 /\ n \in Int
    BY <1>3, <2>1
  <2>3. sz + n \in Int
    BY <2>1, <2>2
  <2> QED
    BY <2>1, <2>2, <2>3
<1>5. /\ old \in Mems /\ Exact(old, T) /\ proc[p].kstack \notin T
      /\ T \cup {proc[p].kstack} = free \cup Has(proc[p])
  BY <1>3, Opens
<1>6. old.free = free /\ old.pt = proc[p].pgdir /\ old.noU = proc[p].noU /\ old.err = "no"
  BY DEF Mem
<1> HIDE DEF old, T, to
<1>7. ASSUME m \in Mems, Exact(m, T), m.err = "no" => Fit(r) /\ Reached(r)
      PROVE  Inv'
  <2> HIDE DEF m
  <2>1. m.pt \in Tables /\ m.noU \in SUBSET Nat /\ m.sz \in Nat /\ m.free \in SUBSET Pages /\ m.err \in Halts
    BY <1>7 DEF Mems, Errors, Halts
  <2>2. r \in PCB
    BY <1>3, <2>1 DEF PCB
  <2>3. r.state = "live" /\ r.pgdir = m.pt /\ r.kstack = proc[p].kstack
    BY <1>3 DEF PCB
  <2> HIDE DEF r
  <2>4. m.free \cup Has(r) = T \cup {r.kstack} /\ m.free \cap Has(r) = {} /\ Single(r)
    BY <1>5, <1>7, <2>3, Holds
  <2>5. m.free \cup Has(r) = free \cup Has(proc[p])
    BY <1>5, <2>3, <2>4
  <2> QED
    BY <1>2, <1>3, <1>7, <2>1, <2>2, <2>4, <2>5, ExchangeKeeps
<1>8. ASSUME m \in Mems
      PROVE  /\ r \in PCB /\ r.state = "live" /\ r.pgdir = m.pt /\ r.noU = m.noU /\ r.rsp = proc[p].rsp
             /\ r.sz = (IF m.sz = 0 THEN sz ELSE m.sz)
             /\ r.top = IF n < 0 /\ m.sz < proc[p].top THEN 0 ELSE proc[p].top
  <2> HIDE DEF m
  <2>1. m.pt \in Tables /\ m.noU \in SUBSET Nat /\ m.sz \in Nat
    BY <1>8 DEF Mems
  <2> QED
    BY <1>3, <2>1 DEF PCB
<1> HIDE DEF r
<1>9. CASE n > 0
  <2>1. m = allocuvm(old, sz, to)
    BY <1>9
  <2>2. /\ m \in Mems /\ Exact(m, T) /\ m.noU = old.noU
        /\ m.sz = 0 => m.pt = old.pt
        /\ m.sz # 0 => m.sz = IF sz <= to THEN to ELSE sz
        /\ m.sz # 0 /\ m.err = "no" => Image(m.pt, m.sz)
    <3>1. old.err = "no" => Image(old.pt, sz)
      BY <1>3, <1>6
    <3> HIDE DEF m, sz
    <3> QED
      BY SMTT(40), <1>3, <1>4, <1>5, <2>1, <3>1, allocuvmBuilds
  <2> HIDE DEF m
  <2>3. r.top = proc[p].top /\ sz <= r.sz /\ r.noU = proc[p].noU
    BY SMTT(40), <1>4, <1>6, <1>8, <1>9, <2>2
  <2>4. m.err = "no" => Image(r.pgdir, r.sz)
    BY <1>3, <1>6, <1>8, <2>2
  <2>5. m.err = "no" => Fit(r) /\ Reached(r)
    BY <1>3, <1>8, <2>2, <2>3, <2>4, Grows
  <2> QED
    BY <1>7, <2>2, <2>5
<1>10. CASE n < 0
  <2>1. m = deallocuvm(old, sz, to)
    <3>1. ~(n > 0)
      BY <1>4, <1>10
    <3> QED
      BY <1>10, <3>1
  <2>2. /\ m \in Mems /\ Exact(m, T) /\ m.err = "no"
        /\ m.sz = IF to >= sz THEN sz ELSE to
        /\ to >= sz => m.pt = old.pt /\ m.noU = old.noU
        /\ to < sz => /\ UserPages(m.pt) = UserPages(old.pt) \ (Up(to)..(Up(sz) - 1))
                      /\ m.noU = old.noU \ {i \in Up(to)..(Up(sz) - 1) : Present(old.pt, i)}
                      /\ Rooted(old.pt) => Rooted(m.pt)
    <3> HIDE DEF m, sz
    <3>1. LET q == deallocuvm(old, sz, to)
          IN  /\ q \in Mems /\ Exact(q, T) /\ q.err = "no"
              /\ q.sz = IF to >= sz THEN sz ELSE to
              /\ to >= sz => q.pt = old.pt /\ q.noU = old.noU
              /\ to < sz =>
                   /\ UserPages(q.pt) = UserPages(old.pt) \ (Up(to)..(Up(sz) - 1))
                   /\ q.noU = old.noU \ {i \in Up(to)..(Up(sz) - 1) : Present(old.pt, i)}
                   /\ Rooted(old.pt) => Rooted(q.pt)
      BY <1>4, <1>5, <1>6, deallocuvmFrees, Zenon
    <3> QED
      BY <2>1, <3>1
  <2> HIDE DEF m
  <2>3. Fit(r) /\ Reached(r)
    <3>1. CASE to >= sz
      <4>1. r.sz = sz /\ r.noU = proc[p].noU /\ r.pgdir = proc[p].pgdir
        BY <1>4, <1>6, <1>8, <2>2, <3>1
      <4>2. r.top # 0 => r.top = proc[p].top
        BY <1>8, <2>2
      <4>3. r.top # 0 => Guarded(r)
        BY <1>3, <1>8, <2>2, <4>1, <4>2 DEF Guarded
      <4> QED
        BY <1>3, <4>1, <4>3 DEF Fit, Reached, Image
    <3>2. CASE to < sz
      <4>1. m.sz = to
        BY <1>4, <2>2, <3>2
      <4>2. r.top = (IF to < proc[p].top THEN 0 ELSE proc[p].top) /\ r.sz = IF to = 0 THEN sz ELSE to
        BY <1>8, <1>10, <2>2, <4>1
      <4>3. /\ UserPages(r.pgdir) = UserPages(proc[p].pgdir) \ (Up(to)..(Up(sz) - 1)) /\ Rooted(r.pgdir)
            /\ r.noU = proc[p].noU \ {i \in Up(to)..(Up(sz) - 1) : Present(proc[p].pgdir, i)}
        BY <1>3, <1>6, <1>8, <2>2, <3>2 DEF Image
      <4> QED
        BY <1>3, <1>4, <1>8, <2>2, <3>2, <4>2, <4>3, Shrinks
    <3> QED
      BY SMTT(40), <1>4, <3>1, <3>2
  <2> QED
    BY <1>7, <2>2, <2>3
<1>11. CASE n = 0
  <2>1. m = [old EXCEPT !.sz = sz]
    BY <1>11
  <2> HIDE DEF m
  <2>2. m \in Mems /\ m.pt = old.pt /\ m.free = old.free /\ m.noU = old.noU /\ m.sz = sz
    BY <1>4, <1>5, <2>1 DEF Mems
  <2>3. Exact(m, T)
    BY <1>5, <2>2 DEF Exact
  <2>4. r.top = proc[p].top /\ sz <= r.sz /\ r.noU = proc[p].noU /\ Image(r.pgdir, r.sz)
    BY <1>3, <1>4, <1>6, <1>8, <1>11, <2>2
  <2>5. Fit(r) /\ Reached(r)
    BY <1>3, <1>8, <2>2, <2>4, Grows
  <2> QED
    BY <1>7, <2>2, <2>3, <2>5
<1> QED
  BY <1>4, <1>9, <1>10, <1>11

\* The stack exec() adds to an image: two pages, of which it takes one from the
\* user.
LEMMA execStack ==
  ASSUME NEW T, NEW img, Loading(img, T), img.sz # 0, img.err = "no"
  PROVE  LET top == PGROUNDUP(img.sz)
             m == allocuvm(img, top, top + 2 * PGSIZE)
             g == clearpteu(m, GuardPage(m.sz))
             h == Up(img.sz) + 2
         IN  /\ m \in Mems /\ Exact(m, T)
             /\ m.sz # 0 /\ m.err = "no" =>
                  /\ g \in Mems /\ Exact(g, T) /\ g.sz = PGSIZE * h /\ m.sz = g.sz
                  /\ Stacked(g, h) /\ Image(g.pt, g.sz)
<1> DEFINE u == Up(img.sz)
           h == u + 2
           top == PGROUNDUP(img.sz)
           new == top + 2 * PGSIZE
           m == allocuvm(img, top, new)
           g == clearpteu(m, GuardPage(m.sz))
<1>1. /\ img \in Mems /\ Exact(img, T) /\ img.noU = {} /\ PGSIZE <= img.sz /\ Image(img.pt, img.sz)
      /\ img.sz \in Nat /\ PGSIZE \in Nat \ {0} /\ KERNBASE \in Nat /\ ADDRS \in Nat /\ KERNBASE <= ADDRS
  BY VmAssumption DEF Loading, Mems
<1>2. u \in Nat /\ u >= 1 /\ top = PGSIZE * u /\ PagesIn(PGSIZE, img.sz) = 1..(u - 1)
  BY <1>1, RoundUp, PagesOfSize
<1> HIDE DEF u, top
<1>3. h \in Nat /\ h >= 3 /\ u = h - 2
  BY <1>2
<1>4. new = PGSIZE * h /\ new \in Nat /\ top \in Nat /\ PGSIZE <= top /\ top <= new
  <2>1. top \in Nat /\ PGSIZE * 1 <= top /\ PGSIZE * 1 = PGSIZE
    BY <1>1, <1>2, Scaled
  <2>2. PGSIZE * (u + 2) = PGSIZE * u + 2 * PGSIZE
    BY <1>1, <1>2
  <2> QED
    BY <1>1, <1>2, <2>1, <2>2
<1>5. Up(top) = u /\ Up(new) = h /\ PageOf(new) = h
  BY <1>2, <1>3, <1>4, WholePages
<1> HIDE DEF h, new
<1>6. Image(img.pt, top)
  BY <1>1, <1>2, <1>4, <1>5, PagesOfSize DEF Image
<1>7. /\ m \in Mems /\ Exact(m, T) /\ m.noU = {}
      /\ m.sz # 0 => new < KERNBASE /\ m.sz = new
      /\ m.sz # 0 /\ m.err = "no" => Image(m.pt, m.sz)
  <2>1. img.err = "no" => Image(img.pt, top)
    BY <1>6
  <2>2. LET q == allocuvm(img, top, new)
        IN  /\ q \in Mems /\ Exact(q, T) /\ q.noU = img.noU /\ (q.err = "no" => img.err = "no")
            /\ q.sz = 0 => q.pt = img.pt /\ q.free = img.free /\ q.err = img.err
            /\ q.sz # 0 => new < KERNBASE /\ q.sz = IF top <= new THEN new ELSE top
            /\ q.sz # 0 /\ q.err = "no" => Image(q.pt, q.sz)
    <3>1. img \in Mems /\ Exact(img, T) /\ top \in Nat /\ new \in Nat /\ PGSIZE <= top
      BY <1>1, <1>4
    <3> QED
      BY <2>1, <3>1, allocuvmBuilds, Zenon
  <2> QED
    BY <1>1, <1>4, <2>2
<1> HIDE DEF m
<1>8. ASSUME m.sz # 0, m.err = "no"
      PROVE  /\ g \in Mems /\ Exact(g, T) /\ g.sz = PGSIZE * h /\ m.sz = g.sz
             /\ Stacked(g, h) /\ Image(g.pt, g.sz)
  <2>1. m.sz = new /\ new < ADDRS /\ Image(m.pt, new)
    BY <1>1, <1>4, <1>7, <1>8
  <2>2. GuardPage(m.sz) = u
    BY <1>3, <1>5, <2>1 DEF GuardPage
  <2>3. g = [m EXCEPT !.noU = @ \cup {u}]
    BY <2>2 DEF clearpteu
  <2> HIDE DEF g
  <2>4. g \in Mems /\ g.noU = {u} /\ g.pt = m.pt /\ g.free = m.free /\ g.sz = m.sz
    BY <1>2, <1>7, <2>3 DEF Mems
  <2>5. Exact(g, T)
    BY <1>7, <2>4 DEF Exact
  <2>6. UserPages(g.pt) = 1..(h - 1)
    BY <1>4, <1>5, <2>1, <2>4, PagesOfSize DEF Image
  <2>7. Stacked(g, h)
    BY <1>3, <1>4, <2>1, <2>4, <2>6 DEF Stacked, Mems
  <2> QED
    BY <1>4, <2>1, <2>4, <2>5, <2>7
<1> QED
  BY <1>7, <1>8 DEF m, new, top, h, u

\* The process that exec() commits.
Replaced(r, g, sp) == [r EXCEPT !.pgdir = g.pt, !.noU = g.noU, !.sz = g.sz, !.rsp = sp, !.top = g.sz]

\* exec() fails, having given back every page it took, or it commits.
LEMMA execDoes ==
  ASSUME Inv, NEW p \in Procs, exec(p)
  PROVE  /\ Runs(p)
         /\ \/ \E err \in Halts : Ends(err, free, proc)
            \/ \E g \in Mems, sp \in Int, h \in Nat :
                 /\ Exact(g, free) /\ g.sz = PGSIZE * h /\ Stacked(g, h) /\ Image(g.pt, g.sz) /\ sp \in StackPage(h)
                 /\ Ends("no", g.free \cup freevm(proc[p].pgdir), [proc EXCEPT ![p] = Replaced(proc[p], g, sp)])
<1>1. PICK prog \in Programs, args \in Strings :
        LET img == Loop(LAMBDA x, i : load(x, prog[i]), [setupkvm(free) EXCEPT !.sz = PGSIZE], 1, Len(prog) + 1)
            top == PGROUNDUP(img.sz)
            m == allocuvm(img, top, top + 2 * PGSIZE)
            g == clearpteu(m, GuardPage(m.sz))
            strings == Loop(LAMBDA x, i : push(g, x, args[i]), [sp |-> m.sz, r |-> "done"], 1, Len(args) + 1)
            st == push(g, strings, Len(args) + 2)
            bad(x) == Ends("no", x.free \cup freevm(x.pt), proc)
        IN  /\ Runs(p) /\ \A i \in DOMAIN args : args[i] < proc[p].sz
            /\ IF img.err # "no" THEN Ends(img.err, free, proc)
               ELSE IF img.sz = 0 THEN bad(img)
               ELSE IF m.err # "no" THEN Ends(m.err, free, proc)
               ELSE IF m.sz = 0 \/ st.r = "refused" THEN bad(m)
               ELSE IF st.r # "done" THEN Ends(st.r, free, proc)
               ELSE Ends("no", g.free \cup freevm(proc[p].pgdir),
                         [proc EXCEPT ![p] = [proc[p] EXCEPT !.pgdir = g.pt, !.noU = g.noU, !.sz = g.sz,
                                                             !.rsp = st.sp, !.top = g.sz]])
  BY DEF exec
<1> DEFINE start == [setupkvm(free) EXCEPT !.sz = PGSIZE]
           img == Loop(LAMBDA x, i : load(x, prog[i]), start, 1, Len(prog) + 1)
           top == PGROUNDUP(img.sz)
           m == allocuvm(img, top, top + 2 * PGSIZE)
           g == clearpteu(m, GuardPage(m.sz))
           base == [sp |-> m.sz, r |-> "done"]
           strings == Loop(LAMBDA x, i : push(g, x, args[i]), base, 1, Len(args) + 1)
           st == push(g, strings, Len(args) + 2)
           r == Replaced(proc[p], g, st.sp)
           failed == \E err \in Halts : Ends(err, free, proc)
<1>2. /\ Runs(p)
      /\ IF img.err # "no" THEN Ends(img.err, free, proc)
         ELSE IF img.sz = 0 THEN Ends("no", img.free \cup freevm(img.pt), proc)
         ELSE IF m.err # "no" THEN Ends(m.err, free, proc)
         ELSE IF m.sz = 0 \/ st.r = "refused" THEN Ends("no", m.free \cup freevm(m.pt), proc)
         ELSE IF st.r # "done" THEN Ends(st.r, free, proc)
         ELSE Ends("no", g.free \cup freevm(proc[p].pgdir), [proc EXCEPT ![p] = r])
  BY <1>1 DEF Replaced
<1> HIDE DEF img, strings
<1>3. /\ panic = "no" /\ proc[p] \in PCB /\ proc[p].state = "live"
  BY <1>2, RunsImage
<1>4. /\ free \in SUBSET Pages /\ proc \in [Procs -> PCB] /\ Apart(free, proc)
      /\ \A q \in Procs : Fit(proc[q]) /\ Reached(proc[q])
  BY <1>3 DEF Inv
<1>5. Loading(start, free)
  <2> DEFINE z == setupkvm(free)
  <2>1. z \in Mems /\ Exact(z, free) /\ z.noU = {} /\ Rooted(z.pt) /\ UserPages(z.pt) = {}
    BY <1>4, setupkvmBuilds
  <2> HIDE DEF z
  <2>2. PGSIZE \in Nat \ {0} /\ PGSIZE < KERNBASE
    BY VmAssumption
  <2>3. start = [z EXCEPT !.sz = PGSIZE]
    BY DEF z
  <2> HIDE DEF start
  <2>4. start \in Mems /\ start.pt = z.pt /\ start.free = z.free /\ start.noU = {} /\ start.sz = PGSIZE
    BY <2>1, <2>2, <2>3 DEF Mems
  <2>5. PagesIn(PGSIZE, PGSIZE) = {}
    <3>1. PGSIZE * 1 = PGSIZE
      BY <2>2
    <3>2. Up(PGSIZE) = 1
      BY <3>1, WholePages
    <3> QED
      BY <2>2, <3>2, PagesOfSize
  <2>6. Exact(start, free)
    BY <2>1, <2>4 DEF Exact
  <2>7. Image(start.pt, start.sz)
    BY <2>1, <2>4, <2>5 DEF Image
  <2>8. PGSIZE <= start.sz /\ start.sz < KERNBASE
    BY <2>2, <2>4
  <2> QED
    BY <2>4, <2>6, <2>7, <2>8, Zenon DEF Loading
<1> HIDE DEF start
<1>6. Loading(img, free)
  BY <1>5, loadLoop DEF img
<1>7. img \in Mems /\ Exact(img, free) /\ img.err \in Halts
  BY <1>6 DEF Loading, Mems, Errors, Halts
\* A failure gives back what was taken.
<1>8. ASSUME NEW x \in Mems, Exact(x, free), Ends("no", x.free \cup freevm(x.pt), proc)
      PROVE  failed
  BY <1>8 DEF Exact, Halts
<1>9. CASE img.err # "no"
  BY <1>2, <1>7, <1>9
<1>10. CASE img.err = "no" /\ img.sz = 0
  BY <1>2, <1>7, <1>8, <1>10
<1>11. CASE img.err = "no" /\ img.sz # 0
  <2> DEFINE h == Up(img.sz) + 2
  <2>1. /\ m \in Mems /\ Exact(m, free)
        /\ m.sz # 0 /\ m.err = "no" =>
             /\ g \in Mems /\ Exact(g, free) /\ g.sz = PGSIZE * h /\ m.sz = g.sz
             /\ Stacked(g, h) /\ Image(g.pt, g.sz)
    BY <1>6, <1>11, execStack
  <2> HIDE DEF m, g, h
  <2>2. m.err \in Halts
    BY <2>1 DEF Mems, Errors, Halts
  <2>3. CASE m.err # "no"
    BY <1>2, <1>11, <2>2, <2>3
  <2>4. CASE m.err = "no" /\ (m.sz = 0 \/ st.r = "refused")
    BY <1>2, <1>8, <1>11, <2>1, <2>4
  <2>5. CASE m.err = "no" /\ ~(m.sz = 0 \/ st.r = "refused")
    <3>1. /\ g \in Mems /\ Exact(g, free) /\ g.sz = PGSIZE * h /\ m.sz = g.sz
          /\ Stacked(g, h) /\ Image(g.pt, g.sz)
      BY <2>1, <2>5
    <3>2. Pushing(base, h)
      <4>1. m.sz = PGSIZE * h /\ m.sz \in Nat /\ PGSIZE \in Nat
        BY <2>1, <3>1, VmAssumption DEF Mems
      <4> QED
        BY <4>1 DEF Pushing, StackPage, Results
    <3> HIDE DEF base
    <3>3. args \in Seq(Nat) /\ Len(args) + 2 \in Nat
      BY VmAssumption
    <3>4. Pushing(strings, h)
      <4>1. Stacked(g, h) /\ Pushing(base, h) /\ args \in Seq(Nat)
        BY <3>1, <3>2, <3>3
      <4>2. Pushing(Pushed(g, base, args), h)
        BY <4>1, pushLoop
      <4> QED
        BY <4>2 DEF strings, Pushed
    <3>5. Pushing(st, h)
      BY <3>1, <3>3, <3>4, pushKeeps
    <3> HIDE DEF st
    <3>6. CASE st.r # "done"
      <4>1. st.r \in Halts /\ st.r # "no" /\ Ends(st.r, free, proc)
        BY <1>2, <1>11, <2>5, <3>5, <3>6 DEF Pushing, Results, Halts
      <4> QED
        BY <1>2, <4>1
    <3>7. CASE st.r = "done"
      <4>1. Ends("no", g.free \cup freevm(proc[p].pgdir), [proc EXCEPT ![p] = Replaced(proc[p], g, st.sp)])
        BY <1>2, <1>11, <2>5, <3>7
      <4>2. st.sp \in StackPage(h) /\ st.sp \in Int /\ h \in Nat
        BY <3>1, <3>5, <3>7 DEF Pushing, Stacked
      <4> QED
        BY <1>2, <3>1, <4>1, <4>2
    <3> QED
      BY <3>6, <3>7
  <2> QED
    BY <2>3, <2>4, <2>5
<1> QED
  BY <1>2, <1>9, <1>10, <1>11

\* exec() keeps the invariant.
LEMMA execKeeps == ASSUME Inv, NEW p \in Procs, exec(p) PROVE Inv'
<1>1. /\ panic = "no" /\ proc[p] \in PCB /\ proc[p].state = "live"
  BY execDoes, RunsImage
<1>2. /\ free \in SUBSET Pages /\ proc \in [Procs -> PCB] /\ Apart(free, proc)
      /\ \A q \in Procs : Fit(proc[q]) /\ Reached(proc[q])
  BY <1>1 DEF Inv
<1>3. ASSUME NEW err \in Halts, Ends(err, free, proc) PROVE Inv'
  BY <1>1, <1>2, <1>3, EndsKeeps
<1>4. ASSUME NEW g \in Mems, NEW sp \in Int, NEW h \in Nat,
             Exact(g, free), g.sz = PGSIZE * h, Stacked(g, h), Image(g.pt, g.sz), sp \in StackPage(h),
             Ends("no", g.free \cup freevm(proc[p].pgdir), [proc EXCEPT ![p] = Replaced(proc[p], g, sp)])
      PROVE  Inv'
  <2> DEFINE f == g.free \cup freevm(proc[p].pgdir)
             r == Replaced(proc[p], g, sp)
  <2>1. g.pt \in Tables /\ g.noU \in SUBSET Nat /\ g.sz \in Nat /\ g.free \in SUBSET Pages /\ "no" \in Halts
    BY DEF Mems, Halts
  <2>2. /\ r \in PCB /\ r.state = "live" /\ r.kstack = proc[p].kstack /\ r.pgdir = g.pt
        /\ r.noU = g.noU /\ r.sz = g.sz /\ r.rsp = sp /\ r.top = g.sz
    BY <1>1, <2>1 DEF PCB, Replaced
  <2>3. Ends("no", f, [proc EXCEPT ![p] = r])
    BY <1>4
  <2> HIDE DEF r
  <2>4. free \cap Has(proc[p]) = {} /\ Single(proc[p])
    BY <1>2 DEF Apart
  <2>5. /\ Has(proc[p]) = {r.kstack} \cup freevm(proc[p].pgdir) /\ Has(r) = {r.kstack} \cup freevm(g.pt)
        /\ r.kstack \notin free /\ r.kstack \notin freevm(proc[p].pgdir)
    BY SMTT(40), <1>1, <2>2, <2>4 DEF Has, Single, freevm
  <2>6. g.free \cup Has(r) = free \cup {r.kstack} /\ g.free \cap Has(r) = {} /\ Single(r)
    BY <1>4, <2>2, <2>5, Holds
  <2>7. f \cup Has(r) = free \cup Has(proc[p])
    BY <2>5, <2>6
  <2>8. f \cap Has(r) = {}
    <3>1. freevm(g.pt) \subseteq free
      BY <1>4 DEF Exact
    <3>2. freevm(proc[p].pgdir) \cap Has(r) = {}
      BY <2>4, <2>5, <3>1
    <3> QED
      BY <2>6, <3>2
  <2>9. f \in SUBSET Pages
    BY <1>2, <2>1, <2>5 DEF Apart
  <2>10. Guarded(r)
    <3>1. h >= 3 /\ UserPages(g.pt) = 1..(h - 1) /\ g.noU = {h - 2}
      BY <1>4 DEF Stacked
    <3>2. {h - 2, h - 1} \subseteq 1..(h - 1)
      BY <3>1
    <3> QED
      BY <1>4, <2>2, <3>1, <3>2 DEF Guarded
  <2>11. Fit(r) /\ Reached(r)
    BY <1>4, <2>2, <2>10 DEF Fit, Reached, Image
  <2> HIDE DEF f
  <2> QED
    BY <1>1, <2>1, <2>2, <2>3, <2>6, <2>7, <2>8, <2>9, <2>11, ExchangeKeeps
<1> QED
  BY <1>3, <1>4, execDoes

(********************************* theorems ********************************)

\* So does every step.
LEMMA NextKeeps == ASSUME Inv, [Next]_vars PROVE Inv'
<1>1. ASSUME NEW p \in Procs, fork(p) PROVE Inv'
  BY <1>1, forkKeeps
<1>2. ASSUME NEW p \in Procs, exit(p) PROVE Inv'
  BY <1>2, exitKeeps
<1>3. ASSUME NEW p \in Procs, wait(p) PROVE Inv'
  BY <1>3, waitKeeps
<1>4. ASSUME NEW p \in Procs, sbrk(p) PROVE Inv'
  BY <1>4, sbrkKeeps
<1>5. ASSUME NEW p \in Procs, exec(p) PROVE Inv'
  BY <1>5, execKeeps
<1>6. CASE UNCHANGED vars
  BY <1>6 DEF vars, Inv
<1> QED
  BY <1>1, <1>2, <1>3, <1>4, <1>5, <1>6 DEF Next, Stopped

\* The inductive invariant holds in every state.
LEMMA InvHolds == Spec => []Inv
<1>1. Init => Inv
  BY InitKeeps
<1>2. Inv /\ [Next]_vars => Inv'
  BY NextKeeps
<1> QED
  BY <1>1, <1>2, PTL DEF Spec

\* Every page of memory is free or has one owner, at any size of memory and of
\* the process table, whatever the programs, their arguments and the sizes they
\* ask of sbrk(): fork, exec, sbrk, exit and wait neither leak a page nor free
\* one twice, with exec()'s failures (kalloc.c, vm.c, exec.c, proc.c).
THEOREM PagesAreOwnedOnce == Spec => []PagesOwnedOnce
<1>1. Inv => PagesOwnedOnce
  <2> SUFFICES ASSUME Apart(free, proc) PROVE PagesOwnedOnce
    BY DEF Inv
  <2> QED
    BY ApartIs DEF PagesOwnedOnce, Live, Owned
<1> QED
  BY <1>1, InvHolds, PTL

\* The pages of a process that can run are those from its first to proc->sz,
\* after any fork(), exec() and sbrk(): what copyuvm() expects of its parent.
THEOREM ImagesAreMapped == Spec => []ImageMapped
<1>1. Inv => ImageMapped
  BY DEF Inv, Fit, ImageMapped, Live
<1> QED
  BY <1>1, InvHolds, PTL

\* exec() leaves the stack pointer and the arguments in the stack page, above
\* one page the user cannot touch, and fork() and sbrk() keep both, however long
\* the arguments are and wherever addresses wrap around.
THEOREM StacksAreGuarded == Spec => []StackGuarded
<1>1. Inv => StackGuarded
  <2> SUFFICES ASSUME Inv, NEW p \in Procs, proc[p].state # "unused", proc[p].top # 0
               PROVE  /\ proc[p].rsp \in (proc[p].top - PGSIZE)..proc[p].top
                      /\ proc[p].noU = {GuardPage(proc[p].top)}
                      /\ {GuardPage(proc[p].top), GuardPage(proc[p].top) + 1} \subseteq UserPages(proc[p].pgdir)
    BY DEF StackGuarded, Live
  <2>1. Guarded(proc[p])
    BY DEF Inv, Fit
  <2>2. PICK h \in Nat :
          /\ h >= 3 /\ proc[p].top = PGSIZE * h /\ proc[p].rsp \in StackPage(h)
          /\ proc[p].noU = {h - 2} /\ {h - 2, h - 1} \subseteq UserPages(proc[p].pgdir)
    BY <2>1 DEF Guarded
  <2>3. GuardPage(proc[p].top) = h - 2 /\ (h - 2) + 1 = h - 1
    BY <2>2, WholePages DEF GuardPage
  <2> QED
    BY <2>2, <2>3 DEF StackPage
<1> QED
  BY <1>1, InvHolds, PTL

\* The panics "remap", "copyuvm: pte should exist", "copyuvm: page not present"
\* and "loaduvm: address should exist" are unreachable: the kernel halts only
\* for want of memory or in uva2ka().
THEOREM KernelHaltsOnlyFor == Spec => []NoPanic
<1>1. Inv => NoPanic
  BY DEF Inv, Halts, NoPanic
<1> QED
  BY <1>1, InvHolds, PTL

\* What a call of exec() may do: change nothing, or replace the image of the
\* process that made it by one built from free pages, beside the old one, whose
\* pages all become free; whichever of its steps fails (exec.c).
ExecAllOrNothing ==
  \A p \in Procs : exec(p) =>
    \/ free' = free /\ proc' = proc
    \/ /\ \A q \in Procs \ {p} : proc'[q] = proc[q]
       /\ proc'[p].kstack = proc[p].kstack /\ proc'[p].parent = proc[p].parent /\ proc'[p].top # 0
       /\ freevm(proc'[p].pgdir) \subseteq free
       /\ free' = (free \ freevm(proc'[p].pgdir)) \cup freevm(proc[p].pgdir)

\* exec() is all or nothing: after a failure in the middle, of a segment that is
\* refused, a file that is too short, a size beyond KERNBASE or arguments that
\* do not fit, no page is missing and the old image is untouched.
THEOREM ExecIsAllOrNothing == Spec => [][ExecAllOrNothing]_vars
<1>1. ASSUME Inv, NEW p \in Procs, exec(p)
      PROVE  \/ free' = free /\ proc' = proc
             \/ /\ \A q \in Procs \ {p} : proc'[q] = proc[q]
                /\ proc'[p].kstack = proc[p].kstack /\ proc'[p].parent = proc[p].parent /\ proc'[p].top # 0
                /\ freevm(proc'[p].pgdir) \subseteq free
                /\ free' = (free \ freevm(proc'[p].pgdir)) \cup freevm(proc[p].pgdir)
  <2>1. ASSUME NEW err \in Halts, Ends(err, free, proc) PROVE free' = free /\ proc' = proc
    BY <2>1 DEF Ends
  <2>2. ASSUME NEW g \in Mems, NEW sp \in Int, NEW h \in Nat,
               Exact(g, free), g.sz = PGSIZE * h, Stacked(g, h),
               Ends("no", g.free \cup freevm(proc[p].pgdir), [proc EXCEPT ![p] = Replaced(proc[p], g, sp)])
        PROVE  /\ \A q \in Procs \ {p} : proc'[q] = proc[q]
               /\ proc'[p].kstack = proc[p].kstack /\ proc'[p].parent = proc[p].parent /\ proc'[p].top # 0
               /\ freevm(proc'[p].pgdir) \subseteq free
               /\ free' = (free \ freevm(proc'[p].pgdir)) \cup freevm(proc[p].pgdir)
    <3>1. proc \in [Procs -> PCB]
      BY <1>1 DEF Inv
    <3>2. /\ free' = g.free \cup freevm(proc[p].pgdir)
          /\ proc' = [proc EXCEPT ![p] = Replaced(proc[p], g, sp)]
      BY <2>2 DEF Ends
    <3>3. proc'[p] = Replaced(proc[p], g, sp) /\ \A q \in Procs \ {p} : proc'[q] = proc[q]
      BY <3>1, <3>2
    <3>4. /\ proc'[p].kstack = proc[p].kstack /\ proc'[p].parent = proc[p].parent
          /\ proc'[p].pgdir = g.pt /\ proc'[p].top = g.sz
      BY <3>1, <3>3 DEF PCB, Replaced
    <3>5. g.sz # 0
      <4>1. h \in Nat /\ h >= 3 /\ PGSIZE \in Nat \ {0}
        BY <2>2, VmAssumption DEF Stacked
      <4>2. PGSIZE * 0 + PGSIZE <= PGSIZE * h /\ PGSIZE * 0 = 0
        BY <4>1, Scaled
      <4> QED
        BY <2>2, <4>1, <4>2
    <3>6. freevm(g.pt) \subseteq free /\ g.free = free \ freevm(g.pt)
      BY <2>2 DEF Exact
    <3> QED
      BY <3>2, <3>3, <3>4, <3>5, <3>6
  <2> QED
    BY <1>1, <2>1, <2>2, execDoes
<1>2. Inv /\ [Next]_vars => [ExecAllOrNothing]_vars
  BY <1>1 DEF ExecAllOrNothing
<1> QED
  BY <1>2, InvHolds, PTL DEF Spec
=============================================================================
