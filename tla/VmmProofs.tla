------------------------------ MODULE VmmProofs ------------------------------
(***************************************************************************)
(* Proofs about Vmm, for every size of memory and address space, every set *)
(* of devices and whatever lies at page 0.                                 *)
(*                                                                         *)
(* The invariant is VmmInv: the types, a list that is never empty and      *)
(* starts with its highest area, and Exclusive, which says of the page     *)
(* tables what FramesExclusive says, and of a set of frames besides that   *)
(* they are marked and unused.  While a run of frames is being mapped, the *)
(* frames not yet mapped are that set: a page table made on the way cannot *)
(* be one of them.                                                         *)
(*                                                                         *)
(* Where the layout of the address space is sound (Layout), GoodInv adds   *)
(* where the areas lie, that no page of the recursive region is mapped,    *)
(* that the identity map is intact while the kernel runs, and that every   *)
(* page of the area of the heap is mapped unless not one frame is found.   *)
(***************************************************************************)
EXTENDS Vmm, WellFoundedInduction, SequenceTheorems, TLAPS

-----------------------------------------------------------------------------
(* Induction along a loop, for sets.                                       *)
LEMMA LeastNat ==
  ASSUME NEW T, T \subseteq Nat, T # {}
  PROVE  \E n \in T : \A y \in T : n <= y
<1> DEFINE less == OpToRel(<, Nat)
<1>1. PICK n \in T : \A y \in T : <<y, n>> \notin less
  <2> HIDE DEF less
  <2>1. IsWellFoundedOn(less, Nat)
    BY NatLessThanWellFounded DEF less
  <2>2. QED
    BY <2>1, WFMin
<1>2. ASSUME NEW y \in T, y < n PROVE FALSE
  <2>1. y \in Nat /\ n \in Nat
    OBVIOUS
  <2>2. <<y, n>> \in less
    BY <2>1, <1>2 DEF OpToRel
  <2>3. QED
    BY <1>1, <2>2
<1>3. QED
  BY <1>2

LEMMA Loop ==
  ASSUME NEW n \in Nat, NEW T, 0 \in T,
         \A k \in 1 .. n : k - 1 \in T => k \in T
  PROVE  \A k \in 0 .. n : k \in T
<1> DEFINE B == {k \in 0 .. n : k \notin T}
<1>1. SUFFICES ASSUME B # {} PROVE FALSE
  OBVIOUS
<1>2. PICK k \in B : \A y \in B : k <= y
  <2>1. B \subseteq Nat
    OBVIOUS
  <2> HIDE DEF B
  <2>2. QED
    BY <1>1, <2>1, LeastNat
<1>3. k # 0 /\ k \in 1 .. n
  OBVIOUS
<1>4. k - 1 \in T
  BY <1>2, <1>3
<1>5. QED
  BY <1>3, <1>4

-----------------------------------------------------------------------------
(* Constants and arithmetic.                                               *)
Space == NumTables * PtEntries * PageSize

Reason == {"no", "table", "directory", "null", "insertion"}

LEMMA Sizes ==
  /\ NumBits \in Nat /\ PageSize \in Nat \ {0}
  /\ PtEntries \in Nat \ {0} /\ NumTables \in Nat \ {0}
  /\ Space \in Nat \ {0} /\ Frame \subseteq Page
  /\ HeapStart \in Nat \ {0} /\ HeapSize \in Nat \ {0} /\ Growth \in Nat \ {0}
  /\ Top \in Nat
<1>1. /\ NumBits \in Nat /\ PageSize \in Nat \ {0}
      /\ PtEntries \in Nat \ {0} /\ NumTables \in Nat \ {0}
      /\ HeapSize \in Nat \ {0} /\ Growth \in Nat \ {0}
      /\ Top \in Nat /\ HeapSize < Top
  BY NumBitsAssumption, VmmAssumption
<1>2. NumTables * PtEntries \in Nat \ {0}
  BY <1>1
<1>3. Space \in Nat \ {0}
  BY <1>1, <1>2 DEF Space
<1>4. Frame \subseteq Page
  BY <1>1, <1>2, VmmAssumption DEF Frame, Page
<1>5. QED
  BY <1>1, <1>3, <1>4 DEF HeapStart

LEMMA DivMod ==
  ASSUME NEW x \in Int, NEW y \in Nat \ {0}
  PROVE  /\ x = y * (x \div y) + (x % y)
         /\ x \div y \in Int /\ x % y \in Nat
<1>1. x = y * (x \div y) + (x % y)
  BY Z3
<1>2. x \div y \in Int /\ x % y \in Nat
  OBVIOUS
<1>3. QED
  BY <1>1, <1>2

(* Whole pages.                                                            *)
Whole(a) == a \in Nat /\ a % PageSize = 0

LEMMA WholeIs ==
  ASSUME NEW a \in Nat
  PROVE  Whole(a) <=> \E q \in Int : a = q * PageSize
<1>1. PageSize \in Nat \ {0}
  BY Sizes
<1>2. ASSUME NEW q \in Int, a = q * PageSize PROVE a % PageSize = 0
  BY <1>1, <1>2
<1>3. ASSUME a % PageSize = 0 PROVE \E q \in Int : a = q * PageSize
  <2>1. a = PageSize * (a \div PageSize) + (a % PageSize)
    BY <1>1, DivMod
  <2>2. a \div PageSize \in Int
    BY <1>1
  <2>3. a = (a \div PageSize) * PageSize
    BY <1>1, <1>3, <2>1, <2>2
  <2>4. QED
    BY <2>2, <2>3
<1>4. QED
  BY <1>2, <1>3 DEF Whole

LEMMA WholeSum ==
  ASSUME NEW a, Whole(a), NEW b, Whole(b)
  PROVE  /\ Whole(a + b)
         /\ a >= b => Whole(a - b)
         /\ Whole(Wrap(a + b)) /\ Whole(Wrap(a - b))
<1>1. PICK p \in Int, q \in Int : a = p * PageSize /\ b = q * PageSize
  BY WholeIs DEF Whole
<1>2. a \in Nat /\ b \in Nat /\ PageSize \in Nat \ {0}
  BY Sizes DEF Whole
<1>3. a + b = (p + q) * PageSize /\ a - b = (p - q) * PageSize
  BY <1>1, <1>2
<1>4. p + q \in Int /\ p - q \in Int
  OBVIOUS
<1>5. ASSUME NEW x \in Int, NEW r \in Int, x = r * PageSize
      PROVE  Whole(Wrap(x))
  <2> DEFINE K == NumTables * PtEntries
             w == x % (K * PageSize)
             d == x \div (K * PageSize)
  <2>1. K \in Nat \ {0} /\ K * PageSize \in Nat \ {0}
    BY Sizes DEF Space
  <2>2. w \in Nat /\ d \in Int
    <3> HIDE DEF K
    <3>1. QED
      BY <2>1
  <2>3. x = (K * PageSize) * d + w
    <3> HIDE DEF K
    <3>1. QED
      BY <2>1, DivMod
  <2> HIDE DEF w, d, K
  <2>4. w = (r - K * d) * PageSize
    BY <1>2, <1>5, <2>1, <2>2, <2>3
  <2>5. r - K * d \in Int
    BY <2>1, <2>2
  <2>6. Whole(w)
    BY <2>2, <2>4, <2>5, WholeIs
  <2>7. QED
    BY <2>6 DEF Wrap, w, K
<1>6. Whole(Wrap(a + b)) /\ Whole(Wrap(a - b))
  <2>1. a + b \in Int /\ a - b \in Int
    BY <1>2
  <2>2. Whole(Wrap(a + b))
    BY <1>3, <1>4, <1>5, <2>1, Zenon
  <2>3. Whole(Wrap(a - b))
    BY <1>3, <1>4, <1>5, <2>1, Zenon
  <2>4. QED
    BY <2>2, <2>3
<1>7. Whole(a + b)
  <2>1. a + b \in Nat
    BY <1>2
  <2>2. \E s \in Int : a + b = s * PageSize
    BY <1>3, <1>4, Zenon
  <2>3. QED
    BY <2>1, <2>2, WholeIs
<1>8. a >= b => Whole(a - b)
  BY <1>2, <1>3, <1>4, WholeIs
<1>9. QED
  BY <1>6, <1>7, <1>8

LEMMA PagesWhole ==
  ASSUME NEW size \in Nat
  PROVE  NumPages(size) \in Nat /\ Whole(NumPages(size) * PageSize)
<1> DEFINE x == size + PageSize - 1
           n == x \div PageSize
<1>1. PageSize \in Nat \ {0} /\ x \in Nat
  BY Sizes
<1> HIDE DEF x
<1>2. n \in Nat
  BY <1>1
<1> HIDE DEF n
<1>3. n * PageSize \in Nat /\ n \in Int
  BY <1>1, <1>2
<1>4. Whole(n * PageSize)
  BY <1>3, WholeIs
<1>5. QED
  BY <1>2, <1>4 DEF NumPages, n, x

-----------------------------------------------------------------------------
(* The state of the memory.                                                *)
MemState ==
  [bitmap : [0 .. NumBits -> BOOLEAN],
   pde    : [0 .. NumTables - 1 -> Frame \cup {NoFrame}],
   pte    : [Page -> Page \cup Frame \cup {NoPage}],
   stop   : Reason]

(* A page p mapped to a frame of the pmm; a table that has been made.      *)
Backed(m, p)  == /\ p \in Page /\ TableOf(p) \notin StaticTables
                 /\ m.pte[p] # NoPage /\ m.pte[p] # p
HasFrame(m, d) == d \in 0 .. NumTables - 1 /\ m.pde[d] # NoFrame

(* A frame that is marked and that nothing uses.                           *)
Spare(m, f) ==
  /\ f \in Frame /\ m.bitmap[f]
  /\ \A p : Backed(m, p) => m.pte[p] # f
  /\ \A d : HasFrame(m, d) => m.pde[d] # f

Exclusive(m) ==
  /\ \A p : Backed(m, p) => m.pte[p] \in Frame /\ m.bitmap[m.pte[p]]
  /\ \A d : HasFrame(m, d) => m.bitmap[m.pde[d]]
  /\ \A p, q : Backed(m, p) /\ Backed(m, q) /\ p # q => m.pte[p] # m.pte[q]
  /\ \A d, e : HasFrame(m, d) /\ HasFrame(m, e) /\ d # e => m.pde[d] # m.pde[e]
  /\ \A p, d : Backed(m, p) /\ HasFrame(m, d) => m.pte[p] # m.pde[d]

LEMMA BitsSet ==
  ASSUME NEW map \in [0 .. NumBits -> BOOLEAN], NEW S
  PROVE  /\ SetBits(map, S) \in [0 .. NumBits -> BOOLEAN]
         /\ \A i \in 0 .. NumBits : map[i] => SetBits(map, S)[i]
         /\ \A i \in S \cap 0 .. NumBits : SetBits(map, S)[i]
<1>1. SetBits(map, S) = [i \in 0 .. NumBits |-> i \in S \/ map[i]]
  BY DEF SetBits
<1>2. \A i \in 0 .. NumBits : (i \in S \/ map[i]) \in BOOLEAN
  OBVIOUS
<1>3. SetBits(map, S) \in [0 .. NumBits -> BOOLEAN]
  BY <1>1, <1>2, Zenon
<1>4. \A i \in 0 .. NumBits : SetBits(map, S)[i] <=> (i \in S \/ map[i])
  BY <1>1, Zenon
<1>5. QED
  BY <1>3, <1>4

(* find_first_avail_pfn finds a clear run inside the bitmap.               *)
LEMMA FoundClear ==
  ASSUME NEW map, NEW n \in Nat, NEW f \in FirstAvail(map, n)
  PROVE  /\ f \in Frame /\ f \in Nat
         /\ Run(f, n) \subseteq Frame
         /\ \A i \in Run(f, n) : ~map[i]
         /\ ~map[f]
BY Sizes DEF FirstAvail, Avail, Frame, Run

(* Marking frames that are clear makes them spare.                         *)
LEMMA MarkKeeps ==
  ASSUME NEW m \in MemState, Exclusive(m), NEW S,
         NEW new, new = [m EXCEPT !.bitmap = SetBits(@, S)]
  PROVE  /\ new \in MemState /\ Exclusive(new)
         /\ \A f : Spare(m, f) => Spare(new, f)
         /\ \A f \in S \cap Frame : ~m.bitmap[f] => Spare(new, f)
         /\ new.pte = m.pte /\ new.stop = m.stop
<1>1. /\ new.pde = m.pde /\ new.pte = m.pte /\ new.stop = m.stop
      /\ new.bitmap = SetBits(m.bitmap, S)
      /\ m.bitmap \in [0 .. NumBits -> BOOLEAN]
  BY DEF MemState
<1>2. /\ new.bitmap \in [0 .. NumBits -> BOOLEAN]
      /\ \A i \in 0 .. NumBits : m.bitmap[i] => new.bitmap[i]
      /\ \A i \in S \cap 0 .. NumBits : new.bitmap[i]
  BY <1>1, BitsSet
<1>3. new \in MemState
  BY <1>2 DEF MemState
<1>4. /\ \A p : Backed(new, p) <=> Backed(m, p)
      /\ \A d : HasFrame(new, d) <=> HasFrame(m, d)
  BY <1>1 DEF Backed, HasFrame
<1>5. Frame \subseteq 0 .. NumBits
  BY Sizes DEF Frame
<1>6. \A d : HasFrame(m, d) => m.pde[d] \in Frame
  BY DEF HasFrame, MemState
<1>7. Exclusive(new)
  BY <1>1, <1>2, <1>4, <1>5, <1>6 DEF Exclusive
<1>8. \A f : Spare(m, f) => Spare(new, f)
  BY <1>1, <1>2, <1>4, <1>5 DEF Spare
<1>9. ASSUME NEW f \in S \cap Frame, ~m.bitmap[f] PROVE Spare(new, f)
  BY <1>1, <1>2, <1>4, <1>5, <1>9 DEF Spare, Exclusive
<1>10. QED
  BY <1>1, <1>3, <1>7, <1>8, <1>9

(* A page is mapped to itself, or to a spare frame: that frame is no       *)
(* longer spare, all others are.                                           *)
LEMMA PteKeeps ==
  ASSUME NEW m \in MemState, Exclusive(m), NEW p, NEW phys,
         p = phys \/ Spare(m, phys),
         NEW new, new = SetPte(m, p, phys)
  PROVE  /\ new \in MemState /\ Exclusive(new)
         /\ \A f : Spare(m, f) /\ f # phys => Spare(new, f)
<1>1. CASE m.stop # "no" \/ p \notin Page
  <2>1. new = m
    BY <1>1 DEF SetPte, MemState
  <2>2. QED
    BY <2>1
<1>2. CASE m.stop = "no" /\ p \in Page
  <2>1. /\ new.pde = m.pde /\ new.bitmap = m.bitmap /\ new.stop = m.stop
        /\ new.pte = [m.pte EXCEPT ![p] = phys]
        /\ m.pte \in [Page -> Page \cup Frame \cup {NoPage}]
    BY <1>2 DEF SetPte, MemState
  <2>2. phys \in Page \cup Frame
    BY <1>2 DEF Spare
  <2>3. new \in MemState
    BY <1>2, <2>2 DEF SetPte, MemState
  <2>4. /\ \A q : q \in Page /\ q # p => new.pte[q] = m.pte[q]
        /\ new.pte[p] = phys
    BY <1>2, <2>1
  <2>5. /\ \A d : HasFrame(new, d) <=> HasFrame(m, d)
        /\ \A q : q # p => (Backed(new, q) <=> Backed(m, q))
        /\ Backed(new, p) => phys # p
    BY <2>1, <2>4 DEF HasFrame, Backed
  <2>6. CASE phys = p
    <3>1. \A q : Backed(new, q) => Backed(m, q) /\ q # p /\ new.pte[q] = m.pte[q]
      BY <2>4, <2>5, <2>6 DEF Backed
    <3>2. Exclusive(new)
      BY <2>1, <2>5, <3>1 DEF Exclusive
    <3>3. \A f : Spare(m, f) => Spare(new, f)
      BY <2>1, <2>5, <3>1 DEF Spare
    <3>4. QED
      BY <2>3, <3>2, <3>3
  <2>7. CASE Spare(m, phys)
    <3>1. \A q : Backed(new, q) => \/ q = p /\ new.pte[q] = phys
                                   \/ Backed(m, q) /\ new.pte[q] = m.pte[q]
      BY <2>4, <2>5 DEF Backed
    <3>2. /\ phys \in Frame /\ m.bitmap[phys]
          /\ \A q : Backed(m, q) => m.pte[q] # phys
          /\ \A d : HasFrame(m, d) => m.pde[d] # phys
      BY <2>7 DEF Spare
    <3>3. \A q : Backed(new, q) => new.pte[q] \in Frame /\ new.bitmap[new.pte[q]]
      BY <2>1, <3>1, <3>2 DEF Exclusive
    <3>4. \A d : HasFrame(new, d) => new.bitmap[new.pde[d]]
      BY <2>1, <2>5 DEF Exclusive
    <3>5. \A q, r : Backed(new, q) /\ Backed(new, r) /\ q # r
                      => new.pte[q] # new.pte[r]
      BY <3>1, <3>2 DEF Exclusive
    <3>6. \A d, e : HasFrame(new, d) /\ HasFrame(new, e) /\ d # e
                      => new.pde[d] # new.pde[e]
      BY <2>1, <2>5 DEF Exclusive
    <3>7. \A q, d : Backed(new, q) /\ HasFrame(new, d) => new.pte[q] # new.pde[d]
      BY <2>1, <2>5, <3>1, <3>2 DEF Exclusive
    <3>8. Exclusive(new)
      BY <3>3, <3>4, <3>5, <3>6, <3>7 DEF Exclusive
    <3>9. \A f : Spare(m, f) /\ f # phys => Spare(new, f)
      BY <2>1, <2>5, <3>1 DEF Spare
    <3>10. QED
      BY <2>3, <3>8, <3>9
  <2>8. QED
    BY <2>6, <2>7
<1>3. QED
  BY <1>1, <1>2

(* A table takes a clear frame, so none that is spare or used.             *)
LEMMA TableKeeps ==
  ASSUME NEW m \in MemState, Exclusive(m), m.stop = "no", NEW p,
         NEW new, new = AllocPageTable(m, p)
  PROVE  /\ new \in MemState /\ Exclusive(new)
         /\ \A f : Spare(m, f) => Spare(new, f)
<1>1. CASE FirstAvail(m.bitmap, 1) = {}
  <2>1. new = [m EXCEPT !.stop = "table"]
    BY <1>1 DEF AllocPageTable
  <2>2. /\ new \in MemState
        /\ new.pde = m.pde /\ new.pte = m.pte /\ new.bitmap = m.bitmap
    BY <2>1 DEF MemState, Reason
  <2>3. QED
    BY <2>2 DEF Exclusive, Spare, Backed, HasFrame
<1>2. CASE FirstAvail(m.bitmap, 1) # {}
  <2> DEFINE t == CHOOSE b \in FirstAvail(m.bitmap, 1) : TRUE
             marked == [m EXCEPT !.bitmap = SetBits(@, {t})]
             reason == IF m.pte[t] = t THEN "no" ELSE "table"
             x == TableOf(p)
  <2>1. t \in FirstAvail(m.bitmap, 1)
    BY <1>2
  <2>2. new = [m EXCEPT !.bitmap = SetBits(@, {t}), !.pde[x] = t, !.stop = reason]
    BY <1>2 DEF AllocPageTable
  <2>3. reason \in Reason
    BY DEF Reason
  <2> HIDE DEF t, reason, x
  <2>4. t \in Frame /\ ~m.bitmap[t]
    BY <2>1, FoundClear
  <2>5. /\ marked \in MemState /\ Exclusive(marked)
        /\ \A f : Spare(m, f) => Spare(marked, f)
        /\ Spare(marked, t)
    BY <2>4, MarkKeeps
  <2>6. marked.bitmap = SetBits(m.bitmap, {t}) /\ marked.pde = m.pde /\ marked.pte = m.pte
    BY DEF MemState
  <2>7. /\ new.bitmap = marked.bitmap /\ new.pte = marked.pte
        /\ new.pde = [marked.pde EXCEPT ![x] = t] /\ new.stop = reason
    BY <2>2, <2>6 DEF MemState
  <2>8. new \in MemState
    <3>1. /\ marked.bitmap \in [0 .. NumBits -> BOOLEAN]
          /\ marked.pte \in [Page -> Page \cup Frame \cup {NoPage}]
          /\ marked.pde \in [0 .. NumTables - 1 -> Frame \cup {NoFrame}]
      BY <2>5 DEF MemState
    <3>2. [marked.pde EXCEPT ![x] = t] \in [0 .. NumTables - 1 -> Frame \cup {NoFrame}]
      BY <2>4, <3>1
    <3>3. new = [bitmap |-> new.bitmap, pde |-> new.pde, pte |-> new.pte,
                 stop |-> new.stop]
      BY <2>2 DEF MemState
    <3>4. QED
      BY <2>3, <2>7, <3>1, <3>2, <3>3 DEF MemState
  <2>9. marked.pde \in [0 .. NumTables - 1 -> Frame \cup {NoFrame}]
    BY <2>5 DEF MemState
  <2> HIDE DEF marked
  <2>10. /\ \A q : Backed(new, q) <=> Backed(marked, q)
         /\ \A d : HasFrame(new, d) => \/ d = x /\ new.pde[d] = t
                                       \/ /\ HasFrame(marked, d)
                                          /\ new.pde[d] = marked.pde[d]
    BY <2>7, <2>9 DEF Backed, HasFrame
  <2>11. Exclusive(new)
    BY <2>5, <2>7, <2>10 DEF Exclusive, Spare
  <2>12. \A f : Spare(m, f) => f # t /\ Spare(marked, f)
    BY <2>4, <2>5 DEF Spare
  <2>13. \A f : Spare(m, f) => Spare(new, f)
    BY <2>7, <2>10, <2>12 DEF Spare
  <2>14. QED
    BY <2>8, <2>11, <2>13
<1>3. QED
  BY <1>1, <1>2

(* map_pageframe.                                                          *)
LEMMA MapKeeps ==
  ASSUME NEW m \in MemState, Exclusive(m), NEW p, NEW phys,
         p = phys \/ Spare(m, phys),
         NEW new, new = MapPageframe(m, p, phys)
  PROVE  /\ new \in MemState /\ Exclusive(new)
         /\ \A f : Spare(m, f) /\ f # phys => Spare(new, f)
<1>1. CASE m.stop # "no"
  BY <1>1 DEF MapPageframe
<1>2. CASE m.stop = "no" /\ TableOf(p) = RecursivePde
  <2>1. new = [m EXCEPT !.stop = "directory"]
    BY <1>2 DEF MapPageframe
  <2>2. /\ new \in MemState
        /\ new.pde = m.pde /\ new.pte = m.pte /\ new.bitmap = m.bitmap
    BY <2>1 DEF MemState, Reason
  <2>3. QED
    BY <2>2 DEF Exclusive, Spare, Backed, HasFrame
<1>3. CASE m.stop = "no" /\ TableOf(p) # RecursivePde /\ HasTable(m, p)
  <2>1. new = SetPte(m, p, phys)
    BY <1>3 DEF MapPageframe
  <2>2. QED
    BY <2>1, PteKeeps
<1>4. CASE m.stop = "no" /\ TableOf(p) # RecursivePde /\ ~HasTable(m, p)
  <2> DEFINE mid == AllocPageTable(m, p)
  <2>1. new = SetPte(mid, p, phys)
    BY <1>4 DEF MapPageframe
  <2>2. /\ mid \in MemState /\ Exclusive(mid)
        /\ \A f : Spare(m, f) => Spare(mid, f)
    BY <1>4, TableKeeps
  <2> HIDE DEF mid
  <2>3. QED
    BY <2>1, <2>2, PteKeeps
<1>5. QED
  BY <1>1, <1>2, <1>3, <1>4

(* What map_pageframe does to the entries: the page's own is set, unless   *)
(* the kernel stops, and no other.                                         *)
Apart(m, new, P) ==
  /\ \A q \in Page \ P : new.pte[q] = m.pte[q]
  /\ new.stop = "no" => m.stop = "no"

(* Every page of P is mapped to itself, as long as the kernel runs.        *)
Identity(m, P) == m.stop = "no" => \A q \in P \cap Page : m.pte[q] = q

LEMMA MapPte ==
  ASSUME NEW m \in MemState, Exclusive(m), NEW p, NEW phys,
         NEW new, new = MapPageframe(m, p, phys)
  PROVE  /\ Apart(m, new, {p})
         /\ new.stop = "no" /\ p \in Page => new.pte[p] = phys
<1>1. ASSUME NEW a \in MemState, NEW b, b = SetPte(a, p, phys)
      PROVE  /\ Apart(a, b, {p})
             /\ b.stop = "no" /\ p \in Page => b.pte[p] = phys
  <2>1. CASE a.stop # "no"
    BY <1>1, <2>1 DEF SetPte, Apart
  <2>2. CASE a.stop = "no"
    <3>1. /\ b.pte = [a.pte EXCEPT ![p] = phys] /\ b.stop = a.stop
          /\ a.pte \in [Page -> Page \cup Frame \cup {NoPage}]
      BY <1>1, <2>2 DEF SetPte, MemState
    <3>2. QED
      BY <2>2, <3>1 DEF Apart
  <2>3. QED
    BY <2>1, <2>2
<1>2. CASE m.stop # "no"
  BY <1>2 DEF MapPageframe, Apart
<1>3. CASE m.stop = "no" /\ TableOf(p) = RecursivePde
  <2>1. new = [m EXCEPT !.stop = "directory"]
    BY <1>3 DEF MapPageframe
  <2>2. new.stop = "directory" /\ new.pte = m.pte
    BY <2>1 DEF MemState
  <2>3. QED
    BY <2>2 DEF Apart
<1>4. CASE m.stop = "no" /\ TableOf(p) # RecursivePde /\ HasTable(m, p)
  <2>1. new = SetPte(m, p, phys)
    BY <1>4 DEF MapPageframe
  <2>2. QED
    BY <1>1, <2>1
<1>5. CASE m.stop = "no" /\ TableOf(p) # RecursivePde /\ ~HasTable(m, p)
  <2> DEFINE mid == AllocPageTable(m, p)
  <2>1. new = SetPte(mid, p, phys)
    BY <1>5 DEF MapPageframe
  <2>2. mid \in MemState
    BY <1>5, TableKeeps
  <2>3. mid.pte = m.pte
    BY DEF AllocPageTable, MemState
  <2> HIDE DEF mid
  <2>4. /\ Apart(mid, new, {p})
        /\ new.stop = "no" /\ p \in Page => new.pte[p] = phys
    BY <1>1, <2>1, <2>2
  <2>5. QED
    BY <1>5, <2>3, <2>4 DEF Apart
<1>6. QED
  BY <1>2, <1>3, <1>4, <1>5

-----------------------------------------------------------------------------
(* The loops.  Each has a sequence of states, one per round.               *)
LEMMA MapRounds ==
  ASSUME NEW m, NEW p, NEW phys, NEW n \in Nat
  PROVE  \E g : /\ g[0] = m
                /\ \A k \in 1 .. n :
                     g[k] = MapPageframe(g[k - 1], p + k - 1, phys + k - 1)
                /\ MapContiguous(m, p, phys, n) = g[n]
<1> DEFINE Upto(g, j) ==
             g = [k \in 0 .. j |->
                    IF k = 0 THEN m
                    ELSE MapPageframe(g[k - 1], p + k - 1, phys + k - 1)]
           T == {j \in 0 .. n : \E g : Upto(g, j)}
<1>1. 0 \in T
  <2> DEFINE g == [k \in 0 .. 0 |-> m]
  <2>1. Upto(g, 0)
    OBVIOUS
  <2> HIDE DEF g
  <2>2. QED
    BY <2>1
<1>2. ASSUME NEW j \in 1 .. n, j - 1 \in T PROVE j \in T
  <2>1. PICK g : Upto(g, j - 1)
    BY <1>2
  <2> DEFINE last == MapPageframe(g[j - 1], p + j - 1, phys + j - 1)
             h == [k \in 0 .. j |-> IF k < j THEN g[k] ELSE last]
  <2>2. ASSUME NEW k \in 0 .. j
        PROVE  h[k] = IF k = 0 THEN m
                      ELSE MapPageframe(h[k - 1], p + k - 1, phys + k - 1)
    <3>1. CASE k = 0
      BY <2>1, <3>1
    <3>2. CASE k # 0 /\ k < j
      <4>1. h[k - 1] = g[k - 1] /\ h[k] = g[k] /\ k \in 0 .. j - 1
        BY <3>2
      <4>2. QED
        BY <2>1, <3>2, <4>1
    <3>3. CASE k # 0 /\ k = j
      <4>1. h[k - 1] = g[k - 1] /\ h[k] = last
        BY <3>3
      <4>2. QED
        BY <3>3, <4>1
    <3>4. QED
      BY <3>1, <3>2, <3>3
  <2>3. h = [k \in 0 .. j |-> h[k]]
    OBVIOUS
  <2> HIDE DEF h
  <2>4. Upto(h, j)
    BY <2>2, <2>3
  <2>5. QED
    BY <2>4
<1>3. n \in T
  <2> HIDE DEF T
  <2>1. QED
    BY <1>1, <1>2, Loop
<1>4. \E g : Upto(g, n)
  BY <1>3
<1> DEFINE f == CHOOSE g : Upto(g, n)
<1>5. Upto(f, n)
  BY <1>4
<1>6. MapContiguous(m, p, phys, n) = f[n]
  BY DEF MapContiguous
<1> HIDE DEF f
<1>7. /\ f[0] = m
      /\ \A k \in 1 .. n : f[k] = MapPageframe(f[k - 1], p + k - 1, phys + k - 1)
  BY <1>5
<1>8. QED
  BY <1>6, <1>7

(* map_contiguous_pages, onto the pages themselves or a spare run.         *)
LEMMA ContiguousKeeps ==
  ASSUME NEW m \in MemState, Exclusive(m), NEW p \in Nat, NEW phys \in Nat,
         NEW n \in Nat, p = phys \/ \A f \in Run(phys, n) : Spare(m, f),
         NEW new, new = MapContiguous(m, p, phys, n)
  PROVE  /\ new \in MemState /\ Exclusive(new)
         /\ Apart(m, new, Run(p, n))
         /\ p = phys => Identity(new, Run(p, n))
<1>1. PICK g : /\ g[0] = m
               /\ \A k \in 1 .. n :
                    g[k] = MapPageframe(g[k - 1], p + k - 1, phys + k - 1)
               /\ new = g[n]
  BY MapRounds
<1> DEFINE Rest(k) == phys + k .. phys + n - 1
           Fine(k) == /\ g[k] \in MemState /\ Exclusive(g[k])
                      /\ p = phys \/ \A f \in Rest(k) : Spare(g[k], f)
                      /\ Apart(m, g[k], Run(p, k))
                      /\ p = phys => Identity(g[k], Run(p, k))
           T == {k \in 0 .. n : Fine(k)}
<1>2. 0 \in T
  <2>1. Rest(0) = Run(phys, n)
    BY DEF Run
  <2>2. Run(p, 0) = {}
    BY DEF Run
  <2>3. Apart(m, m, {}) /\ Identity(m, {})
    BY DEF Apart, Identity
  <2> HIDE DEF Rest
  <2>4. QED
    BY <1>1, <2>1, <2>2, <2>3
<1>3. ASSUME NEW k \in 1 .. n, k - 1 \in T PROVE k \in T
  <2> DEFINE q == p + k - 1
             frame == phys + k - 1
  <2>1. Fine(k - 1)
    BY <1>3
  <2>2. g[k] = MapPageframe(g[k - 1], q, frame)
    BY <1>1
  <2>3. /\ frame \in Rest(k - 1)
        /\ \A f \in Rest(k) : f \in Rest(k - 1) /\ f # frame
        /\ p = phys => q = frame
    OBVIOUS
  <2>8. Run(p, k) = Run(p, k - 1) \cup {q} /\ q \notin Run(p, k - 1)
    BY DEF Run
  <2> HIDE DEF q, frame, Rest
  <2>4. q = frame \/ Spare(g[k - 1], frame)
    BY <2>1, <2>3
  <2>5. /\ g[k] \in MemState /\ Exclusive(g[k])
        /\ \A f : Spare(g[k - 1], f) /\ f # frame => Spare(g[k], f)
    BY <2>1, <2>2, <2>4, MapKeeps
  <2>9. /\ Apart(g[k - 1], g[k], {q})
        /\ g[k].stop = "no" /\ q \in Page => g[k].pte[q] = frame
    BY <2>1, <2>2, MapPte
  <2>10. Apart(m, g[k], Run(p, k))
    BY <2>1, <2>8, <2>9 DEF Apart
  <2>11. ASSUME p = phys, g[k].stop = "no", NEW x \in Run(p, k) \cap Page
         PROVE  g[k].pte[x] = x
    <3>1. CASE x = q
      BY <2>3, <2>9, <2>11, <3>1
    <3>2. CASE x # q
      <4>1. x \in Run(p, k - 1) \cap Page /\ g[k - 1].stop = "no"
        BY <2>8, <2>9, <2>11, <3>2 DEF Apart
      <4>2. g[k - 1].pte[x] = x /\ g[k].pte[x] = g[k - 1].pte[x]
        BY <2>1, <2>9, <2>11, <3>2, <4>1 DEF Apart, Identity
      <4>3. QED
        BY <4>2
    <3>3. QED
      BY <3>1, <3>2
  <2>12. p = phys => Identity(g[k], Run(p, k))
    BY <2>11 DEF Identity
  <2>6. Fine(k)
    BY <2>1, <2>3, <2>5, <2>10, <2>12
  <2>7. QED
    BY <2>6
<1>4. n \in T
  <2> HIDE DEF T
  <2>1. QED
    BY <1>2, <1>3, Loop
<1>5. QED
  BY <1>1, <1>4

(* One round of the loop of vmalloc_core that takes single frames.         *)
OneFrame(prev, q) ==
  LET free == FirstAvail(prev.mem.bitmap, 1)
      f    == CHOOSE b \in free : TRUE
      marked   == [prev.mem EXCEPT !.bitmap = SetBits(@, {f})]
  IN  IF prev.mem.stop # "no" \/ prev.addr = Null THEN prev
      ELSE IF free = {} THEN [prev EXCEPT !.addr = Null]
      ELSE [prev EXCEPT !.mem = MapPageframe(marked, q, f)]

LEMMA ScatteredRounds ==
  ASSUME NEW m, NEW address, NEW n \in Nat
  PROVE  \E g : /\ g[0] = [mem |-> m, addr |-> address]
                /\ \A k \in 1 .. n :
                     g[k] = OneFrame(g[k - 1], PageAt(address) + k - 1)
                /\ CoreScattered(m, address, n) = g[n]
<1> DEFINE first == [mem |-> m, addr |-> address]
           Upto(g, j) ==
             g = [k \in 0 .. j |->
                    IF k = 0 THEN first
                    ELSE OneFrame(g[k - 1], PageAt(address) + k - 1)]
           T == {j \in 0 .. n : \E g : Upto(g, j)}
<1>1. 0 \in T
  <2> DEFINE g == [k \in 0 .. 0 |-> first]
  <2>1. Upto(g, 0)
    OBVIOUS
  <2> HIDE DEF g
  <2>2. QED
    BY <2>1
<1> HIDE DEF first
<1>2. ASSUME NEW j \in 1 .. n, j - 1 \in T PROVE j \in T
  <2>1. PICK g : Upto(g, j - 1)
    BY <1>2
  <2> DEFINE last == OneFrame(g[j - 1], PageAt(address) + j - 1)
             h == [k \in 0 .. j |-> IF k < j THEN g[k] ELSE last]
  <2>2. ASSUME NEW k \in 0 .. j
        PROVE  h[k] = IF k = 0 THEN first
                      ELSE OneFrame(h[k - 1], PageAt(address) + k - 1)
    <3>1. CASE k = 0
      BY <2>1, <3>1
    <3>2. CASE k # 0 /\ k < j
      <4>1. h[k - 1] = g[k - 1] /\ h[k] = g[k] /\ k \in 0 .. j - 1
        BY <3>2
      <4>2. QED
        BY <2>1, <3>2, <4>1
    <3>3. CASE k # 0 /\ k = j
      <4>1. h[k - 1] = g[k - 1] /\ h[k] = last
        BY <3>3
      <4>2. QED
        BY <3>3, <4>1
    <3>4. QED
      BY <3>1, <3>2, <3>3
  <2>3. h = [k \in 0 .. j |-> h[k]]
    OBVIOUS
  <2> HIDE DEF h
  <2>4. Upto(h, j)
    BY <2>2, <2>3
  <2>5. QED
    BY <2>4
<1>3. n \in T
  <2> HIDE DEF T
  <2>1. QED
    BY <1>1, <1>2, Loop
<1>4. \E g : Upto(g, n)
  BY <1>3
<1> DEFINE f == CHOOSE g : Upto(g, n)
<1>5. Upto(f, n)
  BY <1>4
<1>6. CoreScattered(m, address, n) = f[n]
  BY DEF CoreScattered, OneFrame, first
<1> HIDE DEF f
<1>7. /\ f[0] = first
      /\ \A k \in 1 .. n : f[k] = OneFrame(f[k - 1], PageAt(address) + k - 1)
  BY <1>5
<1>8. QED
  BY <1>6, <1>7 DEF first

(* vmalloc_core, frame by frame.                                           *)
LEMMA ScatteredKeeps ==
  ASSUME NEW m \in MemState, Exclusive(m), NEW address, NEW n \in Nat,
         PageAt(address) \in Nat,
         NEW got, got = CoreScattered(m, address, n)
  PROVE  /\ got.mem \in MemState /\ Exclusive(got.mem)
         /\ got.addr \in {address, Null}
         /\ Apart(m, got.mem, Run(PageAt(address), n))
<1>1. PICK g : /\ g[0] = [mem |-> m, addr |-> address]
               /\ \A k \in 1 .. n :
                    g[k] = OneFrame(g[k - 1], PageAt(address) + k - 1)
               /\ got = g[n]
  BY ScatteredRounds
<1> DEFINE St == [mem : MemState, addr : {address, Null}]
           P(k) == Run(PageAt(address), k)
           T == {k \in 0 .. n : /\ g[k] \in St /\ Exclusive(g[k].mem)
                                /\ Apart(m, g[k].mem, P(k))}
<1>2. 0 \in T
  <2>1. Apart(m, m, P(0))
    BY DEF Apart
  <2> HIDE DEF P
  <2>2. QED
    BY <1>1, <2>1
<1>3. ASSUME NEW k \in 1 .. n, k - 1 \in T PROVE k \in T
  <2> DEFINE prev == g[k - 1]
             q == PageAt(address) + k - 1
             free == FirstAvail(prev.mem.bitmap, 1)
             b == CHOOSE x \in free : TRUE
             marked == [prev.mem EXCEPT !.bitmap = SetBits(@, {b})]
             mapped == MapPageframe(marked, q, b)
  <2>1. prev \in St /\ Exclusive(prev.mem) /\ Apart(m, prev.mem, P(k - 1))
    BY <1>3
  <2>2. g[k] = OneFrame(prev, q)
    BY <1>1
  <2>7. P(k) = P(k - 1) \cup {q}
    BY DEF Run
  <2> HIDE DEF prev, q, P
  <2>8. Apart(m, prev.mem, P(k))
    BY <2>1, <2>7 DEF Apart
  <2>3. CASE prev.mem.stop # "no" \/ prev.addr = Null
    BY <2>1, <2>2, <2>3, <2>8 DEF OneFrame
  <2>4. CASE ~(prev.mem.stop # "no" \/ prev.addr = Null) /\ free = {}
    <3>1. g[k] = [prev EXCEPT !.addr = Null]
      BY <2>2, <2>4 DEF OneFrame
    <3>2. g[k] \in St /\ g[k].mem = prev.mem
      BY <2>1, <3>1
    <3>3. QED
      BY <2>1, <2>8, <3>2
  <2>5. CASE ~(prev.mem.stop # "no" \/ prev.addr = Null) /\ free # {}
    <3>1. g[k] = [prev EXCEPT !.mem = mapped]
      BY <2>2, <2>5 DEF OneFrame
    <3>2. b \in FirstAvail(prev.mem.bitmap, 1)
      BY <2>5
    <3> HIDE DEF b
    <3>3. b \in Frame /\ ~prev.mem.bitmap[b]
      BY <3>2, FoundClear
    <3>4. /\ marked \in MemState /\ Exclusive(marked) /\ Spare(marked, b)
          /\ marked.pte = prev.mem.pte /\ marked.stop = prev.mem.stop
      BY <2>1, <3>3, MarkKeeps
    <3> HIDE DEF marked
    <3>5. mapped \in MemState /\ Exclusive(mapped)
      BY <3>4, MapKeeps
    <3>8. Apart(marked, mapped, {q})
      BY <3>4, MapPte
    <3> HIDE DEF mapped
    <3>6. g[k] \in St /\ g[k].mem = mapped
      BY <2>1, <3>1, <3>5
    <3>9. Apart(m, mapped, P(k))
      BY <2>1, <2>7, <3>4, <3>8 DEF Apart
    <3>7. QED
      BY <3>5, <3>6, <3>9
  <2>6. QED
    BY <2>3, <2>4, <2>5
<1>4. n \in T
  <2> HIDE DEF T
  <2>1. QED
    BY <1>2, <1>3, Loop
<1>5. QED
  BY <1>1, <1>4

(* vmalloc_core, whichever way it takes.                                   *)
LEMMA CoreKeeps ==
  ASSUME NEW m \in MemState, Exclusive(m), NEW address \in Nat,
         NEW size \in Nat, NEW mmio \in BOOLEAN,
         NEW got, got = VmallocCore(m, address, size, mmio)
  PROVE  /\ got.mem \in MemState /\ Exclusive(got.mem)
         /\ got.addr \in {address, Null}
         /\ Apart(m, got.mem, Region(address, size))
         /\ mmio => Identity(got.mem, Region(address, size))
<1> DEFINE n == NumPages(size)
           p == PageAt(address)
           free == FirstAvail(m.bitmap, n)
           f == CHOOSE b \in free : TRUE
<1>1. n \in Nat
  BY PagesWhole
<1>2. p \in Nat
  BY Sizes DEF PageAt
<1>7. Region(address, size) = Run(p, n)
  BY DEF Region
<1> HIDE DEF n, p
<1>3. CASE mmio
  <2> DEFINE reserved == IF CanRequest(m.bitmap, p, n)
                         THEN [m EXCEPT !.bitmap = SetBits(@, Run(p, n))] ELSE m
  <2>1. got = [mem |-> MapContiguous(reserved, p, p, n), addr |-> address]
    BY <1>3 DEF VmallocCore, CoreMmio, n, p
  <2>2. /\ reserved \in MemState /\ Exclusive(reserved)
        /\ reserved.pte = m.pte /\ reserved.stop = m.stop
    BY MarkKeeps
  <2> HIDE DEF reserved
  <2> DEFINE mapped == MapContiguous(reserved, p, p, n)
  <2>5. got.mem = mapped /\ got.addr = address
    BY <2>1
  <2>7. /\ mapped \in MemState /\ Exclusive(mapped)
        /\ Apart(reserved, mapped, Run(p, n))
        /\ Identity(mapped, Run(p, n))
    BY <1>1, <1>2, <2>2, ContiguousKeeps
  <2> HIDE DEF mapped
  <2>3. /\ got.mem \in MemState /\ Exclusive(got.mem)
        /\ Apart(reserved, got.mem, Run(p, n))
        /\ Identity(got.mem, Run(p, n))
    BY <2>5, <2>7
  <2>6. Apart(m, got.mem, Run(p, n))
    BY <2>2, <2>3 DEF Apart
  <2>4. QED
    BY <1>7, <2>3, <2>5, <2>6
<1>4. CASE ~mmio /\ free # {}
  <2> DEFINE marked == [m EXCEPT !.bitmap = SetBits(@, Run(f, n))]
  <2>1. got = [mem |-> MapContiguous(marked, p, f, n), addr |-> address]
    BY <1>4 DEF VmallocCore, n, p
  <2>2. f \in FirstAvail(m.bitmap, n)
    BY <1>4
  <2> HIDE DEF f
  <2>3. /\ f \in Nat /\ Run(f, n) \subseteq Frame
        /\ \A i \in Run(f, n) : ~m.bitmap[i]
    BY <1>1, <2>2, FoundClear
  <2>4. /\ marked \in MemState /\ Exclusive(marked)
        /\ \A i \in Run(f, n) : Spare(marked, i)
        /\ marked.pte = m.pte /\ marked.stop = m.stop
    BY <2>3, MarkKeeps
  <2> HIDE DEF marked
  <2>7. got.mem = MapContiguous(marked, p, f, n) /\ got.addr = address
    BY <2>1
  <2>5. /\ got.mem \in MemState /\ Exclusive(got.mem)
        /\ Apart(marked, got.mem, Run(p, n))
    BY <1>1, <1>2, <2>7, <2>3, <2>4, ContiguousKeeps
  <2>8. Apart(m, got.mem, Run(p, n))
    BY <2>4, <2>5 DEF Apart
  <2>6. QED
    BY <1>4, <1>7, <2>5, <2>7, <2>8
<1>5. CASE ~mmio /\ free = {}
  <2>1. got = CoreScattered(m, address, n)
    BY <1>5 DEF VmallocCore, n
  <2>2. p = PageAt(address)
    BY DEF p
  <2>3. QED
    BY <1>1, <1>2, <1>5, <1>7, <2>1, <2>2, ScatteredKeeps
<1>6. QED
  BY <1>3, <1>4, <1>5

-----------------------------------------------------------------------------
(* The list of areas: whole pages, and the head is the highest.            *)
Area == [start : {a \in Nat : Whole(a)}, length : {a \in Nat : Whole(a)}]

ListInv(list) ==
  /\ list \in Seq(Area) /\ list # << >>
  /\ \A i \in 1 .. Len(list) : list[i].start <= list[1].start

LEMMA LeastIs ==
  ASSUME NEW S, S \subseteq Nat, S # {}
  PROVE  Least(S) \in S
BY LeastNat DEF Least

LEMMA NewAreaIs ==
  ASSUME NEW start, Whole(start), NEW size \in Nat
  PROVE  NewArea(start, size) \in Area /\ NewArea(start, size).start = start
BY PagesWhole DEF NewArea, Area, Whole

LEMMA EndIs ==
  ASSUME NEW a \in Area
  PROVE  Whole(EndOf(a))
BY WholeSum DEF EndOf, Area

(* insert_new_vm_area: the new area becomes the head, or it ends the list, *)
(* whole or cut after some area, or nothing changes.                       *)
Longer(list, new, out) ==
  /\ new.start > list[1].start
  /\ Len(out) = 1 + Len(list) /\ out[1] = new
  /\ \A i \in 2 .. 1 + Len(list) : out[i] = list[i - 1]

Ended(list, new, out, k) ==
  /\ new.start <= list[1].start
  /\ Len(out) = k + 1 /\ out[k + 1] = new
  /\ \A i \in 1 .. k : out[i] = list[i]
  /\ k = Len(list) => Stops(list, new) = {}

LEMMA InsertCases ==
  ASSUME NEW list \in Seq(Area), list # << >>, NEW new \in Area,
         NEW out, out = InsertNewArea(list, new)
  PROVE  /\ out \in Seq(Area)
         /\ \/ Longer(list, new, out)
            \/ \E k \in 1 .. Len(list) : Ended(list, new, out, k)
            \/ out = list
<1> DEFINE stops == Stops(list, new)
           prev == Least(stops)
<1>1. Len(list) \in Nat /\ Len(list) >= 1 /\ list[1] \in Area
  OBVIOUS
<1>2. new.start \in Nat /\ list[1].start \in Nat
  BY <1>1 DEF Area
<1>3. CASE new.start > list[1].start
  <2> DEFINE head == << new >>
  <2>1. out = head \o list
    <3>1. ~(new.start <= list[1].start)
      BY <1>2, <1>3
    <3>2. QED
      BY <1>3, <3>1, Zenon DEF InsertNewArea
  <2>2. head \in Seq(Area) /\ Len(head) = 1 /\ head[1] = new
    OBVIOUS
  <2> HIDE DEF head
  <2>3. /\ head \o list \in Seq(Area)
        /\ Len(head \o list) = Len(head) + Len(list)
        /\ \A i \in 1 .. Len(head) + Len(list) :
             (head \o list)[i] = IF i <= Len(head) THEN head[i]
                                 ELSE list[i - Len(head)]
    BY <2>2, ConcatProperties
  <2>4. /\ out \in Seq(Area) /\ Len(out) = Len(head) + Len(list)
        /\ \A i \in 1 .. Len(head) + Len(list) :
             out[i] = IF i <= Len(head) THEN head[i] ELSE list[i - Len(head)]
    BY <2>1, <2>3, Zenon
  <2>5. /\ Len(out) = 1 + Len(list) /\ out[1] = new
        /\ \A i \in 2 .. 1 + Len(list) : out[i] = list[i - 1]
    BY <1>1, <2>2, <2>4
  <2>6. QED
    BY <1>3, <2>4, <2>5 DEF Longer
<1>4. ASSUME NEW start \in Seq(Area), Len(start) \in 1 .. Len(list),
             \A i \in 1 .. Len(start) : start[i] = list[i],
             Len(start) = Len(list) => stops = {},
             new.start <= list[1].start, out = Append(start, new)
      PROVE  out \in Seq(Area) /\ \E k \in 1 .. Len(list) : Ended(list, new, out, k)
  <2>1. /\ Append(start, new) \in Seq(Area)
        /\ Len(Append(start, new)) = Len(start) + 1
        /\ \A i \in 1 .. Len(start) : Append(start, new)[i] = start[i]
        /\ Append(start, new)[Len(start) + 1] = new
    BY <1>4
  <2>2. /\ Len(out) = Len(start) + 1
        /\ \A i \in 1 .. Len(start) : out[i] = list[i]
        /\ out[Len(start) + 1] = new
    BY <1>4, <2>1
  <2>3. Ended(list, new, out, Len(start))
    BY <1>4, <2>2 DEF Ended
  <2>4. QED
    BY <1>4, <2>1, <2>3
<1>5. CASE new.start <= list[1].start /\ stops = {}
  <2>1. out = Append(list, new)
    BY <1>1, <1>2, <1>5 DEF InsertNewArea
  <2>2. Len(list) \in 1 .. Len(list)
    BY <1>1
  <2>3. QED
    BY <1>4, <1>5, <2>1, <2>2
<1>6. CASE new.start <= list[1].start /\ stops # {}
  <2>1. prev \in 1 .. Len(list) - 1
    <3>1. stops \subseteq 1 .. Len(list) - 1 /\ stops \subseteq Nat
      BY <1>1 DEF Stops
    <3> HIDE DEF stops
    <3>2. QED
      BY <1>6, <3>1, LeastIs
  <2> DEFINE start == SubSeq(list, 1, prev)
  <2>2. out = IF new.start > AfterNext(list, prev).start
              THEN Append(start, new) ELSE list
    BY <1>1, <1>2, <1>6 DEF InsertNewArea
  <2> HIDE DEF prev, stops
  <2>3. /\ start \in Seq(Area) /\ Len(start) = prev
        /\ \A i \in 1 .. prev : start[i] = list[i]
    <3>1. \A i \in 1 .. prev : list[i] \in Area
      BY <1>1, <2>1
    <3>2. /\ start \in Seq(Area)
          /\ Len(start) = IF 1 <= prev THEN prev - 1 + 1 ELSE 0
          /\ \A i \in 1 .. prev - 1 + 1 : start[i] = list[1 + i - 1]
      BY <1>1, <2>1, <3>1, SubSeqProperties
    <3> HIDE DEF start
    <3>3. QED
      BY <1>1, <2>1, <3>2
  <2>4. Len(start) \in 1 .. Len(list) /\ Len(start) # Len(list)
    BY <1>1, <2>1, <2>3
  <2> HIDE DEF start
  <2>5. CASE out = list
    BY <2>5
  <2>6. CASE out = Append(start, new)
    BY <1>4, <1>6, <2>3, <2>4, <2>6
  <2>7. QED
    BY <2>2, <2>5, <2>6
<1>7. QED
  BY <1>1, <1>2, <1>3, <1>5, <1>6

LEMMA InsertKeeps ==
  ASSUME NEW list, ListInv(list), NEW new \in Area
  PROVE  ListInv(InsertNewArea(list, new))
<1> DEFINE out == InsertNewArea(list, new)
<1>1. /\ list \in Seq(Area) /\ list # << >> /\ Len(list) \in Nat
      /\ Len(list) >= 1
  BY DEF ListInv
<1>2. new.start \in Nat /\ \A i \in 1 .. Len(list) : list[i].start \in Nat
  <2>1. \A i \in 1 .. Len(list) : list[i] \in Area
    BY <1>1
  <2>2. \A a \in Area : a.start \in Nat
    BY DEF Area
  <2>3. QED
    BY <2>1, <2>2
<1>3. /\ out \in Seq(Area)
      /\ \/ Longer(list, new, out)
         \/ \E k \in 1 .. Len(list) : Ended(list, new, out, k)
         \/ out = list
  BY <1>1, InsertCases
<1> HIDE DEF out
<1>4. CASE Longer(list, new, out)
  <2>1. ASSUME NEW i \in 1 .. Len(out), i # 1 PROVE out[i].start <= out[1].start
    <3>1. i \in 2 .. 1 + Len(list) /\ i - 1 \in 1 .. Len(list)
      BY <1>1, <1>4, <2>1 DEF Longer
    <3>2. out[i] = list[i - 1] /\ list[i - 1].start <= list[1].start
      BY <1>4, <3>1 DEF Longer, ListInv
    <3>3. 1 \in 1 .. Len(list)
      BY <1>1
    <3>4. QED
      BY <1>2, <1>4, <3>1, <3>2, <3>3 DEF Longer
  <2>2. out[1].start <= out[1].start /\ out # << >>
    BY <1>1, <1>2, <1>4 DEF Longer
  <2>3. QED
    BY <1>3, <2>1, <2>2 DEF ListInv, out
<1>5. ASSUME NEW k \in 1 .. Len(list), Ended(list, new, out, k)
      PROVE  ListInv(out)
  <2>1. out[1] = list[1] /\ out # << >>
    BY <1>1, <1>3, <1>5 DEF Ended
  <2>2. ASSUME NEW i \in 1 .. k PROVE out[i].start <= out[1].start
    BY <1>1, <1>5, <2>1 DEF Ended, ListInv
  <2>3. out[k + 1].start <= out[1].start
    BY <1>5, <2>1 DEF Ended
  <2>4. \A i \in 1 .. Len(out) : out[i].start <= out[1].start
    BY <1>1, <1>5, <2>2, <2>3 DEF Ended
  <2>5. QED
    BY <1>3, <2>1, <2>4 DEF ListInv
<1>6. QED
  BY <1>3, <1>4, <1>5 DEF out

LEMMA WholeConstants ==
  /\ Whole(Null) /\ Whole(Top) /\ Whole(HeapStart) /\ Whole(Growth)
  /\ \A d \in Devices : Whole(d[1]) /\ d[2] \in Nat
  /\ Whole(RecursiveStart) /\ Whole(TableSize)
<1>1. Whole(Top) /\ Whole(Growth) /\ Whole(HeapSize)
  BY Sizes, VmmAssumption DEF Whole
<1>2. Whole(HeapStart)
  <2>1. Top >= HeapSize
    BY VmmAssumption
  <2>2. QED
    BY <1>1, <2>1, WholeSum DEF HeapStart
<1>3. Whole(Null)
  BY Sizes DEF Whole, Null
<1>4. \A d \in Devices : Whole(d[1]) /\ d[2] \in Nat
  BY VmmAssumption DEF Whole
<1>5. Whole(RecursiveStart) /\ Whole(TableSize)
  <2>1. RecursivePde \in Nat /\ PtEntries \in Nat
    BY VmmAssumption
  <2>2. TableSize \in Nat /\ Whole(TableSize)
    <3>1. PtEntries * PageSize \in Nat
      BY <2>1, Sizes
    <3>2. QED
      BY <2>1, <3>1, WholeIs DEF TableSize
  <2> DEFINE n == RecursivePde * PtEntries
  <2>3. n \in Nat /\ RecursiveStart = n * PageSize
    BY <2>1, Sizes DEF RecursiveStart, TableSize
  <2> HIDE DEF n
  <2>4. n * PageSize \in Nat
    BY <2>3, Sizes
  <2>5. Whole(RecursiveStart)
    BY <2>3, <2>4, WholeIs
  <2>6. QED
    BY <2>2, <2>5
<1>6. QED
  BY <1>1, <1>2, <1>3, <1>4, <1>5

(* vmalloc_request_more_memory.                                            *)
LEMMA LongerKeeps ==
  ASSUME NEW list, ListInv(list), NEW i \in 1 .. Len(list)
  PROVE  ListInv([list EXCEPT ![i].length = @ + Growth])
<1> DEFINE a == [list[i] EXCEPT !.length = @ + Growth]
           out == [list EXCEPT ![i] = a]
<1>1. list \in Seq(Area) /\ list[i] \in Area /\ list # << >>
  BY DEF ListInv
<1>2. a \in Area /\ a.start = list[i].start
  <2>1. Whole(list[i].length + Growth) /\ Whole(list[i].length + Growth)
    BY <1>1, WholeSum, WholeConstants DEF Area
  <2>2. list[i].length + Growth \in Nat
    BY <2>1 DEF Whole
  <2>3. QED
    BY <1>1, <2>1, <2>2 DEF Area
<1>3. [list EXCEPT ![i].length = @ + Growth] = out
  OBVIOUS
<1> HIDE DEF a
<1>4. out \in Seq(Area) /\ Len(out) = Len(list) /\ out # << >>
  BY <1>1, <1>2
<1>5. \A j \in 1 .. Len(list) : out[j].start = list[j].start
  BY <1>1, <1>2
<1> HIDE DEF out
<1>6. 1 \in 1 .. Len(list)
  BY <1>1
<1>7. ListInv(out)
  BY <1>4, <1>5, <1>6 DEF ListInv
<1>8. QED
  BY <1>3, <1>7

Fine(m, list) == m \in MemState /\ Exclusive(m) /\ ListInv(list)

(* The pages the heap would grow into.                                     *)
Extension(list) ==
  UNION {Region(EndOf(list[i]), Growth) :
           i \in {j \in StartingAt(list, HeapStart) : ~Exists(list, EndOf(list[j]), Growth)}}

LEMMA MoreKeeps ==
  ASSUME NEW m, NEW list, Fine(m, list), NEW r, r = RequestMore(m, list)
  PROVE  /\ Fine(r.mem, r.areas) /\ Whole(r.addr)
         /\ Apart(m, r.mem, Extension(list))
<1> DEFINE S == StartingAt(list, HeapStart)
           i == Least(S)
           end == EndOf(list[i])
           got == VmallocCore(m, end, Growth, FALSE)
           longer == [list EXCEPT ![i].length = @ + Growth]
<1>1. CASE S = {} \/ Exists(list, end, Growth)
  <2>1. r = [mem |-> m, areas |-> list, addr |-> Null]
    BY <1>1 DEF RequestMore
  <2>2. QED
    BY <2>1, WholeConstants DEF Fine, Apart
<1>2. CASE S # {} /\ ~Exists(list, end, Growth)
  <2>1. r = [mem |-> got.mem, addr |-> got.addr, areas |-> longer]
    BY <1>2 DEF RequestMore
  <2>2. list \in Seq(Area) /\ m \in MemState /\ Exclusive(m)
    BY DEF Fine, ListInv
  <2>3. i \in 1 .. Len(list)
    <3>1. S \subseteq 1 .. Len(list) /\ S \subseteq Nat
      BY <2>2 DEF StartingAt
    <3> HIDE DEF S
    <3>2. QED
      BY <1>2, <3>1, LeastIs
  <2>9. i \in S
    <3>1. S \subseteq Nat
      BY <2>2 DEF StartingAt
    <3> HIDE DEF S
    <3>2. QED
      BY <1>2, <3>1, LeastIs
  <2>10. Region(end, Growth) \subseteq Extension(list)
    <3>1. ~Exists(list, EndOf(list[i]), Growth)
      BY <1>2
    <3> HIDE DEF i
    <3>2. QED
      BY <2>9, <3>1 DEF Extension
  <2> HIDE DEF i
  <2>4. Whole(end) /\ end \in Nat
    <3>1. list[i] \in Area
      BY <2>2, <2>3
    <3>2. QED
      BY <3>1, EndIs DEF Whole
  <2> HIDE DEF end
  <2>5. /\ got.mem \in MemState /\ Exclusive(got.mem)
        /\ got.addr \in {end, Null}
        /\ Apart(m, got.mem, Region(end, Growth))
    BY <2>2, <2>4, Sizes, CoreKeeps
  <2> HIDE DEF got
  <2>6. ListInv(longer)
    BY <2>3, LongerKeeps DEF Fine
  <2> HIDE DEF longer
  <2>7. r.mem = got.mem /\ r.addr = got.addr /\ r.areas = longer
    BY <2>1
  <2>11. Apart(m, r.mem, Extension(list))
    BY <2>5, <2>7, <2>10 DEF Apart
  <2>8. QED
    BY <2>4, <2>5, <2>6, <2>7, <2>11, WholeConstants DEF Fine
<1>3. QED
  BY <1>1, <1>2

(* The calls of kmalloc and vmalloc inside each other, call by call.       *)
LEMMA DeepRounds ==
  ASSUME NEW m, NEW list, NEW s \in OutOfMemory(m, list)
  PROVE  /\ s.mem.stop # "no"
         /\ \E g :
                  /\ g[0] = {[mem |-> m, areas |-> list]}
                  /\ \A k \in 1 .. StackDepth : g[k] =
                       {NewRange(t, mmio) : t \in {x \in g[k - 1] : x.mem.stop = "no"},
                                            mmio \in BOOLEAN}
                  /\ \E k \in 0 .. StackDepth : s \in g[k]
<1> DEFINE first == {[mem |-> m, areas |-> list]}
           More(S) == {NewRange(t, mmio) : t \in {x \in S : x.mem.stop = "no"},
                                           mmio \in BOOLEAN}
           Upto(g, j) ==
             g = [k \in 0 .. j |-> IF k = 0 THEN first ELSE More(g[k - 1])]
           T == {j \in 0 .. StackDepth : \E g : Upto(g, j)}
<1>0. StackDepth \in Nat
  BY VmmAssumption
<1>1. 0 \in T
  <2> DEFINE g == [k \in 0 .. 0 |-> first]
  <2> HIDE DEF first, More
  <2>1. Upto(g, 0)
    OBVIOUS
  <2> HIDE DEF g
  <2>2. QED
    BY <1>0, <2>1
<1> HIDE DEF first, More
<1>2. ASSUME NEW j \in 1 .. StackDepth, j - 1 \in T PROVE j \in T
  <2>1. PICK g : Upto(g, j - 1)
    BY <1>2
  <2> DEFINE last == More(g[j - 1])
             h == [k \in 0 .. j |-> IF k < j THEN g[k] ELSE last]
  <2>2. ASSUME NEW k \in 0 .. j
        PROVE  h[k] = IF k = 0 THEN first ELSE More(h[k - 1])
    <3>1. CASE k = 0
      BY <2>1, <3>1
    <3>2. CASE k # 0 /\ k < j
      <4>1. h[k - 1] = g[k - 1] /\ h[k] = g[k] /\ k \in 0 .. j - 1
        BY <3>2
      <4>2. QED
        BY <2>1, <3>2, <4>1
    <3>3. CASE k # 0 /\ k = j
      <4>1. h[k - 1] = g[k - 1] /\ h[k] = last
        BY <3>3
      <4>2. QED
        BY <3>3, <4>1
    <3>4. QED
      BY <3>1, <3>2, <3>3
  <2>3. h = [k \in 0 .. j |-> h[k]]
    OBVIOUS
  <2> HIDE DEF h
  <2>4. Upto(h, j)
    BY <2>2, <2>3
  <2>5. QED
    BY <2>4
<1>3. StackDepth \in T
  <2> HIDE DEF T
  <2>1. QED
    BY <1>0, <1>1, <1>2, Loop
<1>4. \E g : Upto(g, StackDepth)
  BY <1>3
<1> DEFINE f == CHOOSE g : Upto(g, StackDepth)
<1>5. Upto(f, StackDepth)
  BY <1>4
<1> DEFINE out(g) == {t \in UNION {g[k] : k \in 0 .. StackDepth} : t.mem.stop # "no"}
<1>10. OutOfMemory(m, list) = out(f)
  BY DEF OutOfMemory, first, More
<1> HIDE DEF f
<1>6. s \in out(f)
  BY <1>10
<1>7. /\ f[0] = first
      /\ \A k \in 1 .. StackDepth : f[k] = More(f[k - 1])
  BY <1>0, <1>5
<1>8. s.mem.stop # "no" /\ \E k \in 0 .. StackDepth : s \in f[k]
  BY <1>6
<1>9. QED
  BY <1>7, <1>8 DEF first, More

(* What holds of memory and list before these calls, and after each, holds *)
(* of what they end with.                                                  *)
LEMMA DeepKeeps ==
  ASSUME NEW m, NEW list, NEW s \in OutOfMemory(m, list),
         NEW I, [mem |-> m, areas |-> list] \in I,
         \A t \in I, mmio \in BOOLEAN :
           t.mem.stop = "no" => NewRange(t, mmio) \in I
  PROVE  s \in I /\ s.mem.stop # "no"
<1>1. PICK g : /\ g[0] = {[mem |-> m, areas |-> list]}
               /\ \A k \in 1 .. StackDepth : g[k] =
                    {NewRange(t, mmio) : t \in {x \in g[k - 1] : x.mem.stop = "no"},
                                         mmio \in BOOLEAN}
               /\ \E k \in 0 .. StackDepth : s \in g[k]
  BY DeepRounds
<1> DEFINE T == {k \in 0 .. StackDepth : g[k] \subseteq I}
<1>2. 0 \in T
  BY <1>1, VmmAssumption
<1>3. ASSUME NEW k \in 1 .. StackDepth, k - 1 \in T PROVE k \in T
  BY <1>1, <1>3
<1>4. \A k \in 0 .. StackDepth : k \in T
  <2> HIDE DEF T
  <2>1. QED
    BY <1>2, <1>3, Loop, VmmAssumption
<1>5. QED
  BY <1>1, <1>4, DeepRounds

(* find_first_alloc.                                                       *)
LEMMA FoundWhole ==
  ASSUME NEW list, ListInv(list)
  PROVE  Whole(FindFirstAlloc(list, Growth))
<1> DEFINE below(i) == Wrap(list[i].start - Growth)
           gap(i)   == Wrap(list[i].start - EndOf(AfterNext(list, i)))
           fits     == {i \in 1 .. Len(list) - 1 :
                          /\ gap(i) >= Growth
                          /\ below(i) >= EndOf(AfterNext(list, i))}
           found    == FindFirstAlloc(list, Growth)
<1>1. list \in Seq(Area) /\ list # << >> /\ Len(list) \in Nat /\ Len(list) >= 1
  BY DEF ListInv
<1>2. \A i \in 1 .. Len(list) : Whole(below(i))
  <2>1. ASSUME NEW i \in 1 .. Len(list) PROVE Whole(below(i))
    <3>1. list[i] \in Area
      BY <1>1
    <3>2. Whole(list[i].start)
      BY <3>1 DEF Area
    <3>3. QED
      BY <3>2, WholeSum, WholeConstants
  <2>2. QED
    BY <2>1
<1>3. Whole(Wrap(Top - Growth))
  BY WholeSum, WholeConstants
<1>4. fits # {} => Least(fits) \in 1 .. Len(list)
  <2>1. fits \subseteq 1 .. Len(list) /\ fits \subseteq Nat
    BY <1>1
  <2> HIDE DEF fits
  <2>2. QED
    BY <2>1, LeastIs
<1> DEFINE least == Least(fits)
<1>5. \/ found = Wrap(Top - Growth)
      \/ fits # {} /\ found = below(least)
      \/ found = below(Len(list)) \/ found = Null
  <2>1. EndOf(list[1]) \in Nat /\ Wrap(Top - Growth) \in Nat
    BY <1>1, <1>3, EndIs DEF Whole
  <2>2. CASE Wrap(Top - Growth) >= EndOf(list[1])
    <3>1. ~(Wrap(Top - Growth) < EndOf(list[1]))
      BY <2>1, <2>2
    <3>2. found = Wrap(Top - Growth)
      BY <1>1, <2>2, <3>1, Zenon DEF FindFirstAlloc
    <3>3. QED
      BY <3>2
  <2>3. CASE ~(Wrap(Top - Growth) >= EndOf(list[1]))
    <3>1. Wrap(Top - Growth) < EndOf(list[1])
      BY <2>1, <2>3
    <3>2. CASE fits # {}
      <4>1. found = below(least)
        BY <1>1, <2>3, <3>1, <3>2, Zenon DEF FindFirstAlloc
      <4>2. QED
        BY <3>2, <4>1
    <3>3. CASE fits = {}
      <4>1. found = IF below(Len(list)) >= Bottom THEN below(Len(list)) ELSE Null
        BY <1>1, <2>3, <3>1, <3>3, Zenon DEF FindFirstAlloc
      <4>2. QED
        BY <4>1
    <3>4. QED
      BY <3>2, <3>3
  <2>4. QED
    BY <2>2, <2>3
<1> HIDE DEF below, fits, found, least
<1>6. Len(list) \in 1 .. Len(list)
  BY <1>1
<1>7. Whole(found)
  BY <1>2, <1>3, <1>4, <1>5, <1>6, WholeConstants DEF least
<1>8. QED
  BY <1>7 DEF found

LEMMA NewRangeKeeps ==
  ASSUME NEW s, Fine(s.mem, s.areas), NEW mmio \in BOOLEAN,
         NEW t, t = NewRange(s, mmio)
  PROVE  Fine(t.mem, t.areas)
<1> DEFINE more  == RequestMore(s.mem, s.areas)
           found == FindFirstAlloc(more.areas, Growth)
           core  == VmallocCore(more.mem, found, Growth, mmio)
           null  == [core.mem EXCEPT !.stop = "null"]
<1>1. t = [mem |-> IF core.addr = Null THEN null ELSE core.mem, areas |-> more.areas]
  BY DEF NewRange
<1>2. Fine(more.mem, more.areas)
  BY MoreKeeps
<1> HIDE DEF more
<1>3. more.mem \in MemState /\ Exclusive(more.mem) /\ ListInv(more.areas)
  BY <1>2 DEF Fine
<1>4. found \in Nat /\ Growth \in Nat
  BY <1>3, FoundWhole, Sizes DEF Whole
<1> HIDE DEF found
<1>5. core.mem \in MemState /\ Exclusive(core.mem)
  BY <1>3, <1>4, CoreKeeps
<1> HIDE DEF core
<1>6. null \in MemState /\ Exclusive(null)
  <2>1. /\ null \in MemState
        /\ null.pde = core.mem.pde /\ null.pte = core.mem.pte
        /\ null.bitmap = core.mem.bitmap /\ null.stop = "null"
    BY <1>5 DEF MemState, Reason
  <2> HIDE DEF null
  <2>2. QED
    BY <1>5, <2>1 DEF Exclusive, Backed, HasFrame
<1> HIDE DEF null
<1>7. t.mem = (IF core.addr = Null THEN null ELSE core.mem) /\ t.areas = more.areas
  BY <1>1
<1>8. QED
  BY <1>3, <1>5, <1>6, <1>7 DEF Fine

LEMMA KmallocKeeps ==
  ASSUME NEW m, NEW list, Fine(m, list), NEW s \in AfterKmalloc(m, list)
  PROVE  /\ Fine(s.mem, s.areas)
         /\ s.mem.stop = "no" => Apart(m, s.mem, Extension(list))
<1> DEFINE grown == RequestMore(m, list)
<1>1. Fine(grown.mem, grown.areas) /\ Apart(m, grown.mem, Extension(list))
  BY MoreKeeps
<1>2. Apart(m, m, Extension(list))
  BY DEF Apart
<1> HIDE DEF grown
<1>3. \/ s = [mem |-> m, areas |-> list]
      \/ s = [mem |-> grown.mem, areas |-> grown.areas]
      \/ s \in OutOfMemory(m, list)
  BY DEF AfterKmalloc, grown
<1>4. CASE s \in OutOfMemory(m, list)
  <2> DEFINE I == {t \in [mem : MemState, areas : Seq(Area)] : Fine(t.mem, t.areas)}
             start == [mem |-> m, areas |-> list]
  <2>1. start \in I
    BY DEF Fine, ListInv
  <2>2. ASSUME NEW t \in I, NEW mmio \in BOOLEAN PROVE NewRange(t, mmio) \in I
    <3> DEFINE new == NewRange(t, mmio)
    <3>1. Fine(new.mem, new.areas)
      BY NewRangeKeeps
    <3>2. new = [mem |-> new.mem, areas |-> new.areas]
      BY DEF NewRange
    <3> HIDE DEF new
    <3>3. new \in I
      BY <3>1, <3>2 DEF Fine, ListInv
    <3>4. QED
      BY <3>3 DEF new
  <2> HIDE DEF I
  <2>3. s \in I /\ s.mem.stop # "no"
    BY <1>4, <2>1, <2>2, DeepKeeps
  <2>4. QED
    BY <2>3 DEF I
<1>5. QED
  BY <1>1, <1>2, <1>3, <1>4

-----------------------------------------------------------------------------
VmmInv == Fine(mem, areas) /\ Whole(ret.addr)

LEMMA ResultIs ==
  ASSUME NEW op, NEW address, NEW size, NEW addr
  PROVE  Result(op, address, size, addr).addr = addr
BY DEF Result

LEMMA InsertFine ==
  ASSUME NEW m, NEW list, Fine(m, list), NEW start, Whole(start),
         NEW size \in Nat
  PROVE  Fine(AfterInsert(m, list, NewArea(start, size)),
              InsertNewArea(list, NewArea(start, size)))
<1> DEFINE new == NewArea(start, size)
           after == AfterInsert(m, list, new)
<1>1. new \in Area
  BY NewAreaIs
<1> HIDE DEF new
<1>2. after \in MemState /\ Exclusive(after)
  <2>1. after = m \/ after = [m EXCEPT !.stop = "insertion"]
    BY DEF AfterInsert
  <2>2. CASE after = m
    BY <2>2 DEF Fine
  <2>3. CASE after = [m EXCEPT !.stop = "insertion"]
    <3>1. /\ after \in MemState
          /\ after.pde = m.pde /\ after.pte = m.pte /\ after.bitmap = m.bitmap
      BY <2>3 DEF MemState, Reason, Fine
    <3> HIDE DEF after
    <3>2. Exclusive(after)
      BY <3>1 DEF Exclusive, Backed, HasFrame, Fine
    <3>3. QED
      BY <3>1, <3>2
  <2>4. QED
    BY <2>1, <2>2, <2>3
<1>3. ListInv(InsertNewArea(list, new))
  BY <1>1, InsertKeeps DEF Fine
<1>4. QED
  BY <1>2, <1>3 DEF Fine, new

LEMMA BootFine ==
  ASSUME NEW marked,
         NEW m, m = [bitmap |-> [i \in 0 .. NumBits |-> i \in marked],
                     pde    |-> [d \in 0 .. NumTables - 1 |-> NoFrame],
                     pte    |-> [p \in Page |-> IF TableOf(p) \in StaticTables
                                                THEN p ELSE NoPage],
                     stop   |-> "no"]
  PROVE  m \in MemState /\ Exclusive(m)
<1>1. m.bitmap \in [0 .. NumBits -> BOOLEAN]
  <2>1. \A i \in 0 .. NumBits : (i \in marked) \in BOOLEAN
    OBVIOUS
  <2>2. m.bitmap = [i \in 0 .. NumBits |-> i \in marked]
    OBVIOUS
  <2>3. QED
    BY <2>1, <2>2, Zenon
<1>2. m.pde \in [0 .. NumTables - 1 -> Frame \cup {NoFrame}]
  OBVIOUS
<1>3. m.pte \in [Page -> Page \cup Frame \cup {NoPage}]
  OBVIOUS
<1>4. m \in MemState
  BY <1>1, <1>2, <1>3 DEF MemState, Reason
<1>5. \A p : ~Backed(m, p)
  BY DEF Backed
<1>6. \A d : ~HasFrame(m, d)
  BY DEF HasFrame
<1>7. QED
  BY <1>4, <1>5, <1>6 DEF Exclusive

LEMMA InitVmmInv == Init => VmmInv
<1> SUFFICES ASSUME Init PROVE VmmInv
  OBVIOUS
<1> DEFINE boot(marked) ==
             [bitmap |-> [i \in 0 .. NumBits |-> i \in marked],
              pde    |-> [d \in 0 .. NumTables - 1 |-> NoFrame],
              pte    |-> [p \in Page |-> IF TableOf(p) \in StaticTables
                                         THEN p ELSE NoPage],
              stop   |-> "no"]
           heap(marked) == VmallocCore(boot(marked), HeapStart, HeapSize, FALSE)
           first == <<NewArea(HeapStart, HeapSize)>>
<1>1. PICK marked : /\ mem = heap(marked).mem
                    /\ areas = InsertNewArea(first,
                                 NewArea(RecursiveStart, TableSize))
                    /\ ret = Result("boot", HeapStart, HeapSize, HeapStart)
  BY DEF Init
<1>2. boot(marked) \in MemState /\ Exclusive(boot(marked))
  BY BootFine
<1> HIDE DEF boot
<1>3. mem \in MemState /\ Exclusive(mem)
  BY <1>1, <1>2, Sizes, CoreKeeps
<1>4. ListInv(first)
  <2>1. NewArea(HeapStart, HeapSize) \in Area
    BY NewAreaIs, Sizes, WholeConstants
  <2>2. first \in Seq(Area) /\ Len(first) = 1 /\ first # << >>
    BY <2>1
  <2>3. first[1].start <= first[1].start
    BY <2>1 DEF Area
  <2> HIDE DEF first
  <2>4. QED
    BY <2>2, <2>3 DEF ListInv
<1> HIDE DEF first
<1>5. ListInv(areas)
  <2>1. TableSize \in Nat
    BY WholeConstants DEF Whole
  <2>2. NewArea(RecursiveStart, TableSize) \in Area
    BY <2>1, NewAreaIs, WholeConstants
  <2>3. QED
    BY <1>1, <1>4, <2>2, InsertKeeps
<1>6. Whole(ret.addr)
  BY <1>1, ResultIs, WholeConstants
<1>7. QED
  BY <1>3, <1>5, <1>6 DEF VmmInv, Fine

LEMMA MapDeviceKeeps ==
  ASSUME VmmInv, NEW d \in Devices, MapDevice(d[1], d[2])
  PROVE  VmmInv'
<1> DEFINE got == VmallocCore(mem, d[1], d[2], TRUE)
<1>1. Whole(d[1]) /\ d[1] \in Nat /\ d[2] \in Nat
  BY WholeConstants DEF Whole
<1>2. PICK s \in AfterKmalloc(got.mem, areas) :
        /\ mem' = AfterInsert(s.mem, s.areas, NewArea(d[1], d[2]))
        /\ areas' = InsertNewArea(s.areas, NewArea(d[1], d[2]))
  BY DEF MapDevice
<1>3. Fine(got.mem, areas)
  BY <1>1, CoreKeeps DEF VmmInv, Fine
<1> HIDE DEF got
<1>4. Fine(s.mem, s.areas)
  BY <1>3, KmallocKeeps
<1>5. Fine(mem', areas')
  BY <1>1, <1>2, <1>4, InsertFine
<1>6. Whole(ret'.addr)
  BY <1>1, ResultIs DEF MapDevice
<1>7. QED
  BY <1>5, <1>6 DEF VmmInv

LEMMA HeapGrowsKeeps == VmmInv /\ HeapGrows => VmmInv'
<1> SUFFICES ASSUME VmmInv, HeapGrows PROVE VmmInv'
  OBVIOUS
<1> DEFINE more == RequestMore(mem, areas)
<1>1. /\ mem' = more.mem /\ areas' = more.areas
      /\ ret' = Result("more", more.addr, Growth, more.addr)
  BY DEF HeapGrows
<1>2. Fine(more.mem, more.areas) /\ Whole(more.addr)
  BY MoreKeeps DEF VmmInv
<1> HIDE DEF more
<1>3. QED
  BY <1>1, <1>2, ResultIs DEF VmmInv

LEMMA HeapMovesOnKeeps ==
  ASSUME VmmInv, NEW mmio \in BOOLEAN, HeapMovesOn(mmio)
  PROVE  VmmInv'
<1> DEFINE more  == RequestMore(mem, areas)
           found == FindFirstAlloc(more.areas, Growth)
           core  == VmallocCore(more.mem, found, Growth, mmio)
           new   == NewArea(found, Growth)
<1>1. /\ IF core.addr = Null
         THEN mem' = [core.mem EXCEPT !.stop = "null"] /\ areas' = more.areas
         ELSE /\ mem' = AfterInsert(core.mem, more.areas, new)
              /\ areas' = InsertNewArea(more.areas, new)
      /\ ret' = Result("vmalloc", found, Growth, core.addr)
  BY DEF HeapMovesOn
<1>2. Fine(more.mem, more.areas)
  BY MoreKeeps DEF VmmInv
<1> HIDE DEF more
<1>3. Whole(found) /\ found \in Nat
  BY <1>2, FoundWhole DEF Fine, Whole
<1> HIDE DEF found
<1>4. /\ core.mem \in MemState /\ Exclusive(core.mem)
      /\ core.addr \in {found, Null}
  BY <1>2, <1>3, Sizes, CoreKeeps DEF Fine
<1> HIDE DEF core
<1>5. Whole(ret'.addr)
  BY <1>1, <1>3, <1>4, ResultIs, WholeConstants
<1>6. Fine(mem', areas')
  <2>1. CASE core.addr = Null
    <3> DEFINE m == [core.mem EXCEPT !.stop = "null"]
    <3>1. mem' = m /\ areas' = more.areas
      BY <1>1, <2>1
    <3>2. /\ m \in MemState
          /\ m.pde = core.mem.pde /\ m.pte = core.mem.pte
          /\ m.bitmap = core.mem.bitmap
      BY <1>4 DEF MemState, Reason
    <3> HIDE DEF m
    <3>3. Exclusive(m)
      BY <1>4, <3>2 DEF Exclusive, Backed, HasFrame
    <3>4. QED
      BY <1>2, <3>1, <3>2, <3>3 DEF Fine
  <2>2. CASE core.addr # Null
    <3>1. Fine(core.mem, more.areas)
      BY <1>2, <1>4 DEF Fine
    <3>2. QED
      BY <1>1, <1>3, <2>2, <3>1, Sizes, InsertFine
  <2>3. QED
    BY <2>1, <2>2
<1>7. QED
  BY <1>5, <1>6 DEF VmmInv

LEMMA KnownKeeps ==
  ASSUME VmmInv, NEW d \in Devices, DeviceKnown(d[1], d[2])
  PROVE  VmmInv'
BY WholeConstants, ResultIs DEF DeviceKnown, VmmInv

LEMMA VmmInvAlways == Spec => []VmmInv
<1>1. VmmInv /\ [Next]_vars => VmmInv'
  <2> SUFFICES ASSUME VmmInv, [Next]_vars PROVE VmmInv'
    OBVIOUS
  <2>1. ASSUME NEW d \in Devices, MapDevice(d[1], d[2]) PROVE VmmInv'
    BY <2>1, MapDeviceKeeps
  <2>2. ASSUME NEW d \in Devices, DeviceKnown(d[1], d[2]) PROVE VmmInv'
    BY <2>2, KnownKeeps
  <2>3. CASE HeapGrows
    BY <2>3, HeapGrowsKeeps
  <2>4. ASSUME NEW mmio \in BOOLEAN, HeapMovesOn(mmio) PROVE VmmInv'
    BY <2>4, HeapMovesOnKeeps
  <2>5. CASE UNCHANGED vars
    BY <2>5 DEF vars, VmmInv
  <2>6. QED
    BY <2>1, <2>2, <2>3, <2>4, <2>5 DEF Next
<1>2. QED
  BY InitVmmInv, <1>1, PTL DEF Spec

(* Every variable keeps its type, every area and every address returned is *)
(* a whole number of pages, also where the unsigned additions wrap around, *)
(* and the head of the list stays its highest area, whatever               *)
(* insert_new_vm_area drops behind it.                                     *)
THEOREM TypeCorrect == Spec => []TypeOK
<1>1. VmmInv => TypeOK
  <2> SUFFICES ASSUME VmmInv PROVE TypeOK
    OBVIOUS
  <2>1. mem \in MemState /\ areas \in Seq(Area) /\ ListInv(areas)
    BY DEF VmmInv, Fine, ListInv
  <2>2. /\ mem.bitmap \in [0 .. NumBits -> BOOLEAN]
        /\ mem.pde \in [0 .. NumTables - 1 -> Frame \cup {NoFrame}]
        /\ mem.pte \in [Page -> Page \cup Frame \cup {NoPage}]
        /\ mem.stop \in {"no", "table", "directory", "null", "insertion"}
    BY <2>1 DEF MemState, Reason
  <2>3. \A i \in DOMAIN areas :
          /\ areas[i].start \in Nat /\ areas[i].start % PageSize = 0
          /\ areas[i].length \in Nat /\ areas[i].length % PageSize = 0
    <3>1. \A i \in DOMAIN areas : areas[i] \in Area
      BY <2>1
    <3>2. QED
      BY <3>1 DEF Area, Whole
  <2>4. HeadIsHighest
    BY <2>1 DEF ListInv, HeadIsHighest
  <2>5. ret.addr \in Nat /\ ret.addr % PageSize = 0
    BY DEF VmmInv, Whole
  <2>6. QED
    BY <2>2, <2>3, <2>4, <2>5 DEF TypeOK
<1>2. QED
  BY VmmInvAlways, <1>1, PTL

(* A frame of the pmm backs one page or is one page table and is marked,   *)
(* whatever is mapped, and however map_contiguous_pages, the loop of       *)
(* vmalloc_core and alloc_page_table take their frames in turn.            *)
THEOREM FramesStayExclusive == Spec => []FramesExclusive
<1>1. VmmInv => FramesExclusive
  <2> SUFFICES ASSUME VmmInv PROVE FramesExclusive
    OBVIOUS
  <2>1. mem \in MemState /\ Exclusive(mem)
    BY DEF VmmInv, Fine
  <2>2. \A p \in FromPmm : Backed(mem, p)
    BY DEF FromPmm, Mapped, Backed
  <2>3. \A d \in Tables : HasFrame(mem, d)
    BY <2>1 DEF Tables, HasFrame, MemState
  <2>4. QED
    BY <2>1, <2>2, <2>3 DEF FramesExclusive, Exclusive
<1>2. QED
  BY VmmInvAlways, <1>1, PTL

-----------------------------------------------------------------------------
(* A device inside the address space has its pages there.                  *)
LEMMA RegionInSpace ==
  ASSUME NEW a \in Nat, Whole(a), NEW size \in Nat, a + size <= Space
  PROVE  Region(a, size) \subseteq Page
<1> DEFINE x == size + PageSize - 1
           n == x \div PageSize
           r == x % PageSize
           p == a \div PageSize
           K == NumTables * PtEntries
<1>1. /\ PageSize \in Nat \ {0} /\ x \in Nat /\ K \in Nat
      /\ NumTables \in Nat /\ PtEntries \in Nat
  BY Sizes
<1>2. Space = K * PageSize
  BY DEF Space
<1>3. PageAt(a) = p /\ NumPages(size) = n
  BY DEF PageAt, NumPages
<1>4. x < size + PageSize
  BY <1>1
<1> HIDE DEF x, K
<1>5. x = PageSize * n + r /\ n \in Int /\ r \in Nat
  BY <1>1, DivMod
<1>6. a = PageSize * p + (a % PageSize) /\ p \in Int
  BY <1>1, DivMod
<1>7. a % PageSize = 0 /\ p >= 0 /\ n >= 0
  BY <1>1 DEF Whole
<1> HIDE DEF n, r, p
<1>8. PageSize * (p + n) < (K + 1) * PageSize
  <2> DEFINE u == PageSize * n
             v == PageSize * p
             w == K * PageSize
  <2>1. /\ u \in Int /\ v \in Int /\ w \in Int
        /\ PageSize * (p + n) = v + u /\ (K + 1) * PageSize = w + PageSize
    BY <1>1, <1>5, <1>6
  <2>2. x = u + r /\ a = v + 0 /\ a + size <= w
    BY <1>2, <1>5, <1>6, <1>7
  <2> HIDE DEF u, v, w
  <2>3. QED
    BY <1>1, <1>4, <1>5, <2>1, <2>2
<1>9. p + n < K + 1
  <2>1. SUFFICES ASSUME p + n >= K + 1 PROVE FALSE
    BY <1>1, <1>5, <1>6
  <2>2. PageSize * (p + n) >= PageSize * (K + 1)
    BY <1>1, <1>5, <1>6, <2>1
  <2>3. QED
    BY <1>1, <1>5, <1>6, <1>8, <2>2
<1>10. Page = 0 .. K - 1
  BY DEF Page, K
<1>11. p .. p + n - 1 \subseteq 0 .. K - 1
  BY <1>1, <1>5, <1>6, <1>7, <1>9
<1>12. QED
  BY <1>3, <1>10, <1>11 DEF Region, Run

LEMMA DeviceStep ==
  ASSUME VmmInv, NEW d \in Devices, d[1] + d[2] <= Space,
         MapDevice(d[1], d[2]), mem'.stop = "no",
         ~GrowsInto(Region(d[1], d[2]))
  PROVE  \A p \in Region(d[1], d[2]) : mem'.pte[p] = p
<1> DEFINE got == VmallocCore(mem, d[1], d[2], TRUE)
           region == Region(d[1], d[2])
<1>1. Whole(d[1]) /\ d[1] \in Nat /\ d[2] \in Nat
  BY WholeConstants DEF Whole
<1>2. PICK s \in AfterKmalloc(got.mem, areas) :
        mem' = AfterInsert(s.mem, s.areas, NewArea(d[1], d[2]))
  BY DEF MapDevice
<1>3. region \subseteq Page
  BY <1>1, RegionInSpace
<1>4. /\ mem \in MemState /\ Exclusive(mem) /\ ListInv(areas)
      /\ got.mem \in MemState /\ Exclusive(got.mem)
      /\ Identity(got.mem, region)
  BY <1>1, CoreKeeps DEF VmmInv, Fine
<1> HIDE DEF got
<1>5. /\ Fine(s.mem, s.areas)
      /\ s.mem.stop = "no" => Apart(got.mem, s.mem, Extension(areas))
  BY <1>4, KmallocKeeps DEF Fine
<1>6. mem'.pte = s.mem.pte /\ s.mem.stop = "no"
  <2>1. s.mem \in MemState
    BY <1>5 DEF Fine
  <2>2. mem' = s.mem \/ mem' = [s.mem EXCEPT !.stop = "insertion"]
    BY <1>2 DEF AfterInsert
  <2>3. QED
    BY <2>1, <2>2 DEF MemState
<1>7. region \cap Extension(areas) = {}
  BY DEF GrowsInto, Extension
<1> HIDE DEF region
<1>8. \A p \in region : mem'.pte[p] = p
  BY <1>3, <1>4, <1>5, <1>6, <1>7 DEF Apart, Identity
<1>9. QED
  BY <1>8 DEF region

(* init_MMIO_device: where the devices lie inside the address space, every *)
(* page of a device just mapped maps to itself, whatever page tables had   *)
(* to be made and whether or not the kmalloc of its struct lengthened the  *)
(* heap, unless the heap grew into the region.                             *)
THEOREM DevicesShow ==
  ASSUME \A d \in Devices : d[1] + d[2] <= Space
  PROVE  Spec => DeviceShows
<1> DEFINE Shows ==
             ret'.op = "mmio" /\ mem'.stop = "no" =>
               LET region == Region(ret'.address, ret'.size)
               IN  GrowsInto(region) \/ \A p \in region : mem'.pte[p] = p
<1>1. VmmInv /\ [Next]_vars => [Shows]_vars
  <2> SUFFICES ASSUME VmmInv, [Next]_vars PROVE [Shows]_vars
    OBVIOUS
  <2>1. ASSUME NEW d \in Devices, MapDevice(d[1], d[2]) PROVE Shows
    <3>1. ret'.address = d[1] /\ ret'.size = d[2]
      BY <2>1 DEF MapDevice, Result
    <3>2. QED
      BY <2>1, <3>1, DeviceStep
  <2>2. ASSUME NEW d \in Devices, DeviceKnown(d[1], d[2]) PROVE Shows
    BY <2>2 DEF DeviceKnown, Result
  <2>3. CASE HeapGrows
    BY <2>3 DEF HeapGrows, Result
  <2>4. ASSUME NEW mmio \in BOOLEAN, HeapMovesOn(mmio) PROVE Shows
    BY <2>4 DEF HeapMovesOn, Result
  <2>5. CASE UNCHANGED vars
    BY <2>5
  <2> HIDE DEF Shows
  <2>6. QED
    BY <2>1, <2>2, <2>3, <2>4, <2>5 DEF Next
<1>2. Spec => [][Shows]_vars
  <2> HIDE DEF Shows
  <2>1. QED
    BY VmmInvAlways, <1>1, PTL DEF Spec
<1>3. QED
  BY <1>2 DEF DeviceShows

-----------------------------------------------------------------------------
(* Pages by their addresses: the pages of a region, of the address space,  *)
(* of the identity map and of the recursive table.                         *)
Addr(q) == q * PageSize

LEMMA MulOrder ==
  ASSUME NEW a \in Int, NEW b \in Int, NEW c \in Nat \ {0}
  PROVE  /\ a < b <=> a * c < b * c
         /\ a <= b <=> a * c <= b * c
<1>1. ASSUME NEW x \in Int, NEW y \in Int, x < y PROVE x * c < y * c
  <2>1. (y - x) * c >= c
    BY <1>1
  <2>2. (y - x) * c = y * c - x * c
    OBVIOUS
  <2>3. x * c \in Int /\ y * c \in Int
    OBVIOUS
  <2>4. QED
    BY <2>1, <2>2, <2>3
<1>2. a < b => a * c < b * c
  BY <1>1
<1>3. b < a => b * c < a * c
  BY <1>1
<1>4. a = b => a * c = b * c
  OBVIOUS
<1>5. a * c \in Int /\ b * c \in Int
  OBVIOUS
<1>6. QED
  BY <1>2, <1>3, <1>4, <1>5

LEMMA DivLess ==
  ASSUME NEW x \in Int, NEW y \in Nat \ {0}, NEW k \in Int
  PROVE  x \div y < k <=> x < k * y
<1> DEFINE d == x \div y
           r == x % y
<1>1. x = y * d + r /\ d \in Int /\ r \in Nat
  BY DivMod
<1>2. r < y
  OBVIOUS
<1> HIDE DEF d, r
<1>3. y * d = d * y /\ d * y \in Int /\ k * y \in Int
  BY <1>1
<1>4. ASSUME d < k PROVE x < k * y
  <2>1. d + 1 <= k /\ d + 1 \in Int
    BY <1>1, <1>4
  <2>2. (d + 1) * y <= k * y
    BY <2>1, MulOrder
  <2>3. (d + 1) * y = d * y + y
    BY <1>1
  <2>4. QED
    BY <1>1, <1>2, <1>3, <2>2, <2>3
<1>5. ASSUME k <= d PROVE ~(x < k * y)
  <2>1. k * y <= d * y
    BY <1>1, <1>5, MulOrder
  <2>2. QED
    BY <1>1, <1>3, <2>1
<1>6. QED
  BY <1>1, <1>4, <1>5 DEF d

LEMMA AddrIs ==
  ASSUME NEW q \in Int
  PROVE  /\ Addr(q) \in Int
         /\ q \in Nat => Whole(Addr(q)) /\ PageAt(Addr(q)) = q
<1>1. PageSize \in Nat \ {0}
  BY Sizes
<1>2. Addr(q) \in Int
  BY <1>1 DEF Addr
<1>3. ASSUME q \in Nat PROVE Whole(Addr(q))
  <2>1. Addr(q) \in Nat
    BY <1>1, <1>3 DEF Addr
  <2>2. QED
    BY <2>1, WholeIs DEF Addr
<1>4. PageAt(Addr(q)) = q
  <2> DEFINE d == Addr(q) \div PageSize
  <2>1. d \in Int
    BY <1>1, <1>2
  <2>2. d < q + 1 <=> Addr(q) < (q + 1) * PageSize
    BY <1>1, <1>2, DivLess
  <2>3. d < q <=> Addr(q) < q * PageSize
    BY <1>1, <1>2, DivLess
  <2>4. (q + 1) * PageSize = q * PageSize + PageSize /\ q * PageSize \in Int
    BY <1>1
  <2> HIDE DEF d
  <2>5. d = q
    BY <1>1, <2>1, <2>2, <2>3, <2>4 DEF Addr
  <2>6. QED
    BY <2>5 DEF d, PageAt
<1>5. QED
  BY <1>2, <1>3, <1>4

LEMMA AtPage ==
  ASSUME NEW a, Whole(a)
  PROVE  /\ PageAt(a) \in Nat /\ Addr(PageAt(a)) = a
<1>1. PICK p \in Int : a = p * PageSize
  BY WholeIs DEF Whole
<1>2. a \in Nat /\ PageSize \in Nat \ {0}
  BY Sizes DEF Whole
<1>3. p \in Nat
  <2>1. p < 0 => p * PageSize < 0 * PageSize
    BY <1>2, MulOrder
  <2>2. 0 * PageSize = 0
    BY <1>2
  <2>3. QED
    BY <1>1, <1>2, <2>1, <2>2
<1>4. a = Addr(p)
  BY <1>1 DEF Addr
<1>5. QED
  BY <1>3, <1>4, AddrIs

LEMMA RegionIs ==
  ASSUME NEW a, Whole(a), NEW size \in Nat
  PROVE  \A q : q \in Region(a, size) <=>
                  q \in Int /\ a <= Addr(q) /\ Addr(q) < a + size
<1> DEFINE p == PageAt(a)
           n == NumPages(size)
<1>1. /\ PageSize \in Nat \ {0} /\ a \in Nat
      /\ p \in Nat /\ Addr(p) = a /\ n \in Nat
  BY Sizes, AtPage, PagesWhole DEF Whole
<1>2. \A q : q \in Region(a, size) <=> q \in Int /\ p <= q /\ q < p + n
  BY <1>1 DEF Region, Run
<1>3. \A k \in Int : n < k <=> size + PageSize - 1 < k * PageSize
  <2>1. size + PageSize - 1 \in Int
    BY <1>1
  <2>2. QED
    BY <1>1, <2>1, DivLess DEF NumPages
<1> HIDE DEF p, n
<1>4. ASSUME NEW q \in Int
      PROVE  p <= q /\ q < p + n <=> a <= Addr(q) /\ Addr(q) < a + size
  <2> DEFINE k == q - p
             x == k * PageSize
  <2>1. k \in Int /\ k + 1 \in Int /\ x \in Int
    BY <1>1
  <2>2. Addr(q) - a = x /\ Addr(q) \in Int
    BY <1>1 DEF Addr
  <2>3. p <= q <=> a <= Addr(q)
    BY <1>1, MulOrder DEF Addr
  <2>4. n < k + 1 <=> size + PageSize - 1 < (k + 1) * PageSize
    BY <1>3, <2>1
  <2>5. (k + 1) * PageSize = x + PageSize
    BY <1>1, <2>1
  <2>6. q < p + n <=> ~(n < k + 1)
    BY <1>1
  <2> HIDE DEF x, k
  <2>7. x < size <=> ~(size + PageSize - 1 < x + PageSize)
    BY <1>1, <2>1
  <2>8. x < size <=> Addr(q) < a + size
    BY <1>1, <2>1, <2>2
  <2>9. QED
    BY <2>3, <2>4, <2>5, <2>6, <2>7, <2>8
<1>5. QED
  BY <1>2, <1>4

LEMMA PageIs ==
  \A q \in Int : q \in Page <=> 0 <= Addr(q) /\ Addr(q) < Space
<1> TAKE q \in Int
<1> DEFINE K == NumTables * PtEntries
<1>1. PageSize \in Nat \ {0} /\ K \in Nat
  BY Sizes
<1>2. q \in Page <=> 0 <= q /\ q < K
  BY <1>1 DEF Page
<1>3. Space = K * PageSize /\ 0 * PageSize = 0
  BY <1>1 DEF Space
<1> HIDE DEF K
<1>4. 0 <= q <=> 0 * PageSize <= q * PageSize
  BY <1>1, MulOrder
<1>5. q < K <=> q * PageSize < K * PageSize
  BY <1>1, MulOrder
<1>6. QED
  BY <1>2, <1>3, <1>4, <1>5 DEF Addr

LEMMA TableIs ==
  ASSUME NEW q \in Int
  PROVE  /\ TableOf(q) \in Int
         /\ \A k \in Int : TableOf(q) < k <=> Addr(q) < k * TableSize
<1>1. PtEntries \in Nat \ {0} /\ PageSize \in Nat \ {0}
  BY Sizes
<1>2. TableOf(q) \in Int
  BY <1>1 DEF TableOf
<1>3. ASSUME NEW k \in Int PROVE TableOf(q) < k <=> Addr(q) < k * TableSize
  <2>1. TableOf(q) < k <=> q < k * PtEntries
    BY <1>1, DivLess DEF TableOf
  <2>2. k * PtEntries \in Int
    BY <1>1
  <2>3. q < k * PtEntries <=> q * PageSize < (k * PtEntries) * PageSize
    BY <1>1, <2>2, MulOrder
  <2>4. (k * PtEntries) * PageSize = k * TableSize
    BY <1>1 DEF TableSize
  <2>5. QED
    BY <2>1, <2>3, <2>4 DEF Addr
<1>4. QED
  BY <1>2, <1>3

LEMMA Places ==
  /\ TableSize \in Nat \ {0} /\ IdentityEnd \in Nat \ {0}
  /\ RecursiveStart \in Nat /\ IdentityEnd <= RecursiveStart
  /\ RecursiveStart + TableSize < Space
  /\ Growth <= TableSize /\ Growth <= IdentityEnd
  /\ Space = NumTables * TableSize
<1> DEFINE T == TableSize
<1>1. /\ PtEntries \in Nat \ {0} /\ PageSize \in Nat \ {0}
      /\ NumTables \in Nat /\ Growth \in Nat
  BY Sizes
<1>2. /\ NumStatic \in Nat \ {0} /\ RecursivePde \in NumStatic .. NumTables - 2
      /\ Growth <= T
  BY VmmAssumption
<1>3. T \in Nat \ {0}
  BY <1>1 DEF TableSize
<1>4. Space = NumTables * T
  BY <1>1 DEF Space, TableSize
<1> HIDE DEF T
<1>5. RecursivePde \in Nat /\ RecursivePde + 2 \in Int
  BY <1>1, <1>2
<1>6. NumStatic * T <= RecursivePde * T
  BY <1>2, <1>3, <1>5, MulOrder
<1>7. (RecursivePde + 2) * T <= NumTables * T
  <2>1. RecursivePde + 2 <= NumTables
    BY <1>1, <1>2
  <2>2. QED
    BY <1>1, <1>3, <1>5, <2>1, MulOrder
<1>8. (RecursivePde + 2) * T = RecursivePde * T + 2 * T
  BY <1>3, <1>5
<1>9. 1 * T <= NumStatic * T
  BY <1>2, <1>3, MulOrder
<1>10. /\ RecursivePde * T \in Nat /\ NumStatic * T \in Nat
       /\ NumTables * T \in Nat /\ 1 * T = T
  BY <1>1, <1>2, <1>3, <1>5
<1>11. QED
  BY <1>1, <1>2, <1>3, <1>4, <1>6, <1>7, <1>8, <1>9, <1>10
     DEF T, IdentityEnd, RecursiveStart

(* Which table a page belongs to.                                          *)
LEMMA PagePlace ==
  ASSUME NEW q \in Page
  PROVE  /\ TableOf(q) \in StaticTables <=> Addr(q) < IdentityEnd
         /\ TableOf(q) = RecursivePde <=>
              RecursiveStart <= Addr(q) /\ Addr(q) < RecursiveStart + TableSize
         /\ TableOf(q) \in 0 .. NumTables - 1
<1>1. q \in Int /\ 0 <= Addr(q) /\ Addr(q) < Space
  <2>1. q \in Int
    BY Sizes DEF Page
  <2>2. QED
    BY <2>1, PageIs
<1>2. /\ TableOf(q) \in Int
      /\ \A k \in Int : TableOf(q) < k <=> Addr(q) < k * TableSize
  BY <1>1, TableIs
<1>3. /\ NumStatic \in Nat /\ RecursivePde \in Nat /\ NumTables \in Nat
      /\ TableSize \in Nat /\ Addr(q) \in Int
  BY <1>1, VmmAssumption, Places, AddrIs
<1>4. 0 * TableSize = 0 /\ (RecursivePde + 1) * TableSize = RecursiveStart + TableSize
  BY <1>3 DEF RecursiveStart
<1>5. 0 <= TableOf(q)
  BY <1>1, <1>2, <1>3, <1>4
<1>6. TableOf(q) < NumStatic <=> Addr(q) < IdentityEnd
  BY <1>2, <1>3 DEF IdentityEnd
<1>7. TableOf(q) < RecursivePde <=> Addr(q) < RecursiveStart
  BY <1>2, <1>3 DEF RecursiveStart
<1>8. TableOf(q) < RecursivePde + 1 <=> Addr(q) < RecursiveStart + TableSize
  BY <1>2, <1>3, <1>4
<1>9. TableOf(q) < NumTables
  BY <1>1, <1>2, <1>3, Places
<1>10. TableOf(q) \in StaticTables <=> TableOf(q) < NumStatic
  BY <1>2, <1>3, <1>5 DEF StaticTables
<1>11. RecursiveStart \in Nat
  BY Places
<1>12. QED
  BY <1>2, <1>3, <1>5, <1>6, <1>7, <1>8, <1>9, <1>10, <1>11

-----------------------------------------------------------------------------
(* What memory does: a bit set stays so, a page mapped is never unmapped,  *)
(* a table is never replaced, and a kernel that stops stays stopped.       *)
Grows(m, new) ==
  /\ \A i \in 0 .. NumBits : m.bitmap[i] => new.bitmap[i]
  /\ \A q \in Page : m.pte[q] # NoPage => new.pte[q] # NoPage
  /\ \A d \in 0 .. NumTables - 1 : m.pde[d] # NoFrame => new.pde[d] = m.pde[d]
  /\ new.stop = "no" => m.stop = "no"

(* No page of the recursive region is mapped: its entries are those of the *)
(* page directory.                                                         *)
NoRec(m) == \A q \in Page : TableOf(q) = RecursivePde => m.pte[q] = NoPage

(* The identity map is intact as long as the kernel runs; if it stopped    *)
(* over a page table, there was no low memory for it.                      *)
Safe(m) ==
  /\ m.stop = "no" =>
       \A q \in Page : TableOf(q) \in StaticTables => m.pte[q] = q
  /\ m.stop = "table" =>
       \A f \in Frame : TableOf(f) \in StaticTables => m.bitmap[f] \/ m.bitmap[f + 1]

(* The search for one frame finds none.                                    *)
Exhausted(m) == FirstAvail(m.bitmap, 1) = {}

IsTable(m, f) == \E d \in 0 .. NumTables - 1 : m.pde[d] = f

(* Every frame marked on the way from m to new backs a page of P or is a   *)
(* table.                                                                  *)
Uses(m, new, P) ==
  \A f \in Frame : new.bitmap[f] /\ ~m.bitmap[f] =>
    IsTable(new, f) \/ \E q \in P : new.pte[q] = f

LEMMA NoneAvail ==
  ASSUME NEW map, NEW n, FirstAvail(map, n) = {}
  PROVE  \A b \in Frame : ~Avail(map, b, n)
<1> DEFINE T == {b \in Frame : Avail(map, b, n)}
<1>1. SUFFICES ASSUME T # {} PROVE FALSE
  OBVIOUS
<1>2. PICK b \in T : \A y \in T : b <= y
  <2>1. T \subseteq Nat
    BY Sizes DEF Frame
  <2> HIDE DEF T
  <2>2. QED
    BY <1>1, <2>1, LeastNat
<1>3. ASSUME NEW x \in 0 .. b - 1, Avail(map, x, n) PROVE FALSE
  <2>1. x \in Frame /\ ~(b <= x)
    BY Sizes DEF Frame
  <2>2. QED
    BY <1>2, <1>3, <2>1
<1>4. b \in FirstAvail(map, n)
  BY <1>2, <1>3 DEF FirstAvail
<1>5. QED
  BY <1>4

(* Where no frame is left, there is no run of frames either.               *)
LEMMA ExhaustedNoRun ==
  ASSUME NEW m, Exhausted(m), NEW n \in Nat \ {0}
  PROVE  FirstAvail(m.bitmap, n) = {}
<1>1. \A b \in Frame : ~Avail(m.bitmap, b, 1)
  BY NoneAvail DEF Exhausted
<1>2. ASSUME NEW b \in FirstAvail(m.bitmap, n) PROVE Avail(m.bitmap, b, 1)
  BY Sizes DEF FirstAvail, Avail, Frame
<1>3. QED
  BY <1>1, <1>2 DEF FirstAvail

(* Nothing is freed: an exhausted memory stays so.                         *)
LEMMA ExhaustedStays ==
  ASSUME NEW m, NEW new, Grows(m, new), Exhausted(m)
  PROVE  Exhausted(new)
<1>1. \A b \in Frame : ~Avail(m.bitmap, b, 1)
  BY NoneAvail DEF Exhausted
<1>2. ASSUME NEW b \in FirstAvail(new.bitmap, 1) PROVE Avail(m.bitmap, b, 1)
  <2>1. b \in Frame /\ Avail(new.bitmap, b, 1)
    BY <1>2 DEF FirstAvail
  <2>2. b .. b + 1 \subseteq 0 .. NumBits
    BY <2>1, Sizes DEF Frame
  <2>3. QED
    BY <2>1, <2>2 DEF Avail, Grows
<1>3. QED
  BY <1>1, <1>2 DEF FirstAvail, Exhausted

LEMMA GrowsOn ==
  ASSUME NEW a, NEW b, NEW c, Grows(a, b), Grows(b, c)
  PROVE  Grows(a, c)
BY DEF Grows

LEMMA GrowsSelf ==
  ASSUME NEW m
  PROVE  Grows(m, m)
BY DEF Grows

(* Frames used by one call after another.                                  *)
LEMMA UsesOn ==
  ASSUME NEW a \in MemState, NEW b \in MemState, NEW c \in MemState,
         NEW P, P \subseteq Page, NEW Q, NEW R,
         Grows(b, c), Uses(a, b, P), Uses(b, c, Q), Apart(b, c, R),
         P \cap R = {}
  PROVE  Uses(a, c, P \cup Q)
<1> SUFFICES ASSUME NEW f \in Frame, c.bitmap[f], ~a.bitmap[f]
             PROVE  IsTable(c, f) \/ \E q \in P \cup Q : c.pte[q] = f
  BY DEF Uses
<1>1. CASE b.bitmap[f]
  <2>1. CASE IsTable(b, f)
    <3>1. PICK d \in 0 .. NumTables - 1 : b.pde[d] = f
      BY <2>1 DEF IsTable
    <3>2. f # NoFrame
      BY Sizes DEF Frame, NoFrame
    <3>3. QED
      BY <3>1, <3>2 DEF Grows, IsTable
  <2>2. CASE \E q \in P : b.pte[q] = f
    BY <2>2 DEF Apart
  <2>3. QED
    BY <1>1, <2>1, <2>2 DEF Uses
<1>2. CASE ~b.bitmap[f]
  BY <1>2 DEF Uses
<1>3. QED
  BY <1>1, <1>2

(* Marking frames.                                                         *)
LEMMA MarkDoes ==
  ASSUME NEW m \in MemState, NEW S,
         NEW new, new = [m EXCEPT !.bitmap = SetBits(@, S)]
  PROVE  /\ new \in MemState /\ Grows(m, new)
         /\ NoRec(m) => NoRec(new)
         /\ Safe(m) => Safe(new)
         /\ new.pte = m.pte /\ new.pde = m.pde /\ new.stop = m.stop
         /\ \A f \in Frame : new.bitmap[f] /\ ~m.bitmap[f] => f \in S
<1>1. /\ new.pde = m.pde /\ new.pte = m.pte /\ new.stop = m.stop
      /\ new.bitmap = SetBits(m.bitmap, S)
      /\ m.bitmap \in [0 .. NumBits -> BOOLEAN]
  BY DEF MemState
<1>2. /\ new.bitmap \in [0 .. NumBits -> BOOLEAN]
      /\ \A i \in 0 .. NumBits : m.bitmap[i] => new.bitmap[i]
  BY <1>1, BitsSet
<1>3. new \in MemState
  BY <1>2 DEF MemState
<1>4. Grows(m, new)
  BY <1>1, <1>2 DEF Grows
<1>5. NoRec(m) => NoRec(new)
  BY <1>1 DEF NoRec
<1>6. \A f \in Frame : f \in 0 .. NumBits /\ f + 1 \in 0 .. NumBits
  BY Sizes DEF Frame
<1>7. Safe(m) => Safe(new)
  BY <1>1, <1>2, <1>6 DEF Safe
<1>8. \A f \in Frame : new.bitmap[f] /\ ~m.bitmap[f] => f \in S
  BY <1>1, <1>6 DEF SetBits
<1>9. QED
  BY <1>1, <1>3, <1>4, <1>5, <1>7, <1>8

(* alloc_page_table.  The first clear frame with a clear one after it is   *)
(* below the end of the identity map if there is one there at all.         *)
LEMMA TableDoes ==
  ASSUME NEW m \in MemState, Exclusive(m), m.stop = "no",
         NEW p \in Page, ~HasTable(m, p),
         NEW new, new = AllocPageTable(m, p)
  PROVE  /\ new \in MemState /\ Grows(m, new)
         /\ NoRec(m) => NoRec(new)
         /\ Safe(m) => Safe(new)
         /\ Uses(m, new, {}) /\ new.pte = m.pte
<1>1. new \in MemState
  BY TableKeeps
<1>2. TableOf(p) \in 0 .. NumTables - 1 /\ m.pde[TableOf(p)] = NoFrame
  BY PagePlace DEF HasTable
<1>3. m.pde \in [0 .. NumTables - 1 -> Frame \cup {NoFrame}]
  BY DEF MemState
<1>4. CASE FirstAvail(m.bitmap, 1) = {}
  <2>1. new = [m EXCEPT !.stop = "table"]
    BY <1>4 DEF AllocPageTable
  <2>2. /\ new.pde = m.pde /\ new.pte = m.pte /\ new.bitmap = m.bitmap
        /\ new.stop = "table"
    BY <2>1 DEF MemState
  <2>3. \A f \in Frame : m.bitmap[f] \/ m.bitmap[f + 1]
    <3>1. \A b \in Frame : ~Avail(m.bitmap, b, 1)
      BY <1>4, NoneAvail
    <3>2. ASSUME NEW f \in Frame, ~m.bitmap[f], ~m.bitmap[f + 1]
          PROVE  Avail(m.bitmap, f, 1)
      BY <3>2, Sizes DEF Avail, Frame
    <3>3. QED
      BY <3>1, <3>2
  <2>4. QED
    BY <1>1, <2>2, <2>3 DEF Grows, NoRec, Safe, Uses
<1>5. CASE FirstAvail(m.bitmap, 1) # {}
  <2> DEFINE t == CHOOSE b \in FirstAvail(m.bitmap, 1) : TRUE
             x == TableOf(p)
             reason == IF m.pte[t] = t THEN "no" ELSE "table"
  <2>1. t \in FirstAvail(m.bitmap, 1)
    BY <1>5
  <2>2. new = [m EXCEPT !.bitmap = SetBits(@, {t}), !.pde[x] = t, !.stop = reason]
    BY <1>5 DEF AllocPageTable
  <2> HIDE DEF t, x
  <2>3. /\ t \in Frame /\ t \in Page /\ ~m.bitmap[t]
        /\ \A b \in 0 .. t - 1 : ~Avail(m.bitmap, b, 1)
    BY <2>1, FoundClear, Sizes DEF FirstAvail
  <2>4. /\ new.pde = [m.pde EXCEPT ![x] = t] /\ new.pte = m.pte
        /\ new.stop = reason /\ new.bitmap = SetBits(m.bitmap, {t})
    BY <2>2 DEF MemState
  <2>5. /\ \A i \in 0 .. NumBits : m.bitmap[i] => new.bitmap[i]
        /\ \A f \in Frame : new.bitmap[f] /\ ~m.bitmap[f] => f = t
    <3>1. m.bitmap \in [0 .. NumBits -> BOOLEAN]
      BY DEF MemState
    <3>2. Frame \subseteq 0 .. NumBits
      BY Sizes DEF Frame
    <3>3. QED
      BY <2>4, <3>1, <3>2 DEF SetBits
  <2>6. /\ new.pde[x] = t /\ x \in 0 .. NumTables - 1
        /\ \A d \in 0 .. NumTables - 1 : m.pde[d] # NoFrame => new.pde[d] = m.pde[d]
    BY <1>2, <1>3, <2>4 DEF x
  <2>7. Grows(m, new)
    BY <2>4, <2>5, <2>6 DEF Grows
  <2>8. Uses(m, new, {})
    BY <2>5, <2>6 DEF Uses, IsTable
  <2>9. ASSUME Safe(m) PROVE Safe(new)
    <3>1. new.stop = "no" => \A q \in Page : TableOf(q) \in StaticTables => new.pte[q] = q
      BY <2>4, <2>9 DEF Safe
    <3>2. ASSUME new.stop = "table", NEW f \in Frame, TableOf(f) \in StaticTables
          PROVE  new.bitmap[f] \/ new.bitmap[f + 1]
      <4>1. TableOf(t) \notin StaticTables
        BY <2>3, <2>4, <2>9, <3>2 DEF Safe
      <4>2. f \in Page /\ f \in Nat /\ t \in Nat /\ f + 1 \in 0 .. NumBits
            /\ f \in 0 .. NumBits
        BY <2>3, Sizes DEF Frame
      <4>3. Addr(f) < IdentityEnd /\ ~(Addr(t) < IdentityEnd)
        BY <2>3, <3>2, <4>1, <4>2, PagePlace
      <4>4. f < t
        <5>1. f < t <=> f * PageSize < t * PageSize
          BY <4>2, Sizes, MulOrder
        <5>2. f * PageSize \in Int /\ t * PageSize \in Int /\ IdentityEnd \in Int
          BY <4>2, Sizes, Places
        <5>3. QED
          BY <4>3, <5>1, <5>2 DEF Addr
      <4>5. ~Avail(m.bitmap, f, 1)
        BY <2>3, <4>2, <4>4
      <4>6. m.bitmap[f] \/ m.bitmap[f + 1]
        BY <4>5, Sizes DEF Avail, Frame
      <4>7. QED
        BY <2>5, <4>2, <4>6
    <3>3. QED
      BY <3>1, <3>2 DEF Safe
  <2>10. NoRec(m) => NoRec(new)
    BY <2>4 DEF NoRec
  <2>11. QED
    BY <1>1, <2>4, <2>7, <2>8, <2>9, <2>10
<1>6. QED
  BY <1>4, <1>5

(* The frames a call takes and the pages it maps onto them.                *)
MayMap(p, phys) == p = phys \/ TableOf(p) \notin StaticTables

LEMMA PteDoes ==
  ASSUME NEW m \in MemState, NEW p \in Page, TableOf(p) # RecursivePde,
         NEW phys \in Page \cup Frame, NEW new, new = SetPte(m, p, phys)
  PROVE  /\ new \in MemState /\ Grows(m, new)
         /\ NoRec(m) => NoRec(new)
         /\ Safe(m) /\ MayMap(p, phys) => Safe(new)
         /\ new.bitmap = m.bitmap /\ new.pde = m.pde
<1>1. CASE m.stop # "no"
  BY <1>1, GrowsSelf DEF SetPte
<1>2. CASE m.stop = "no"
  <2>1. /\ new.pde = m.pde /\ new.bitmap = m.bitmap /\ new.stop = m.stop
        /\ new.pte = [m.pte EXCEPT ![p] = phys]
        /\ m.pte \in [Page -> Page \cup Frame \cup {NoPage}]
        /\ new \in MemState
    BY <1>2 DEF SetPte, MemState
  <2>2. \A q \in Page : new.pte[q] = IF q = p THEN phys ELSE m.pte[q]
    BY <2>1
  <2>3. phys # NoPage
    BY Sizes DEF Page, Frame, NoPage
  <2>4. Grows(m, new)
    BY <2>1, <2>2, <2>3 DEF Grows
  <2>5. NoRec(m) => NoRec(new)
    BY <2>2 DEF NoRec
  <2>6. Safe(m) /\ MayMap(p, phys) => Safe(new)
    BY <2>1, <2>2 DEF Safe, MayMap
  <2>7. QED
    BY <2>1, <2>4, <2>5, <2>6
<1>3. QED
  BY <1>1, <1>2

(* map_pageframe.                                                          *)
LEMMA MapDoes ==
  ASSUME NEW m \in MemState, Exclusive(m), NEW p \in Page,
         NEW phys \in Page \cup Frame,
         NEW new, new = MapPageframe(m, p, phys)
  PROVE  /\ Grows(m, new)
         /\ NoRec(m) => NoRec(new)
         /\ Safe(m) /\ MayMap(p, phys) => Safe(new)
         /\ Uses(m, new, {})
         /\ new.stop = "no" => TableOf(p) # RecursivePde
<1>1. CASE m.stop # "no"
  <2>1. new = m
    BY <1>1 DEF MapPageframe
  <2>2. QED
    BY <1>1, <2>1, GrowsSelf DEF Uses
<1>2. CASE m.stop = "no" /\ TableOf(p) = RecursivePde
  <2>1. new = [m EXCEPT !.stop = "directory"]
    BY <1>2 DEF MapPageframe
  <2>2. /\ new.pde = m.pde /\ new.pte = m.pte /\ new.bitmap = m.bitmap
        /\ new.stop = "directory"
    BY <2>1 DEF MemState
  <2>3. QED
    BY <2>2 DEF Grows, NoRec, Safe, Uses
<1>3. CASE m.stop = "no" /\ TableOf(p) # RecursivePde /\ HasTable(m, p)
  <2>1. new = SetPte(m, p, phys)
    BY <1>3 DEF MapPageframe
  <2>2. QED
    BY <1>3, <2>1, PteDoes DEF Uses
<1>4. CASE m.stop = "no" /\ TableOf(p) # RecursivePde /\ ~HasTable(m, p)
  <2> DEFINE mid == AllocPageTable(m, p)
  <2>1. new = SetPte(mid, p, phys)
    BY <1>4 DEF MapPageframe
  <2>2. /\ mid \in MemState /\ Grows(m, mid)
        /\ NoRec(m) => NoRec(mid)
        /\ Safe(m) => Safe(mid)
        /\ Uses(m, mid, {})
    BY <1>4, TableDoes
  <2> HIDE DEF mid
  <2>3. /\ Grows(mid, new)
        /\ NoRec(mid) => NoRec(new)
        /\ Safe(mid) /\ MayMap(p, phys) => Safe(new)
        /\ new.bitmap = mid.bitmap /\ new.pde = mid.pde
    BY <1>4, <2>1, <2>2, PteDoes
  <2>4. Grows(m, new)
    BY <2>2, <2>3, GrowsOn
  <2>5. Uses(m, new, {})
    BY <2>2, <2>3 DEF Uses, IsTable
  <2>6. QED
    BY <1>4, <2>2, <2>3, <2>4, <2>5
<1>5. QED
  BY <1>1, <1>2, <1>3, <1>4

(* map_contiguous_pages: while the kernel runs each page is mapped, and    *)
(* what was marked on the way are tables.                                  *)
LEMMA ContiguousDoes ==
  ASSUME NEW m \in MemState, Exclusive(m), NEW p \in Nat, NEW phys \in Nat,
         NEW n \in Nat, Run(p, n) \subseteq Page,
         \/ p = phys
         \/ Run(phys, n) \subseteq Frame /\ \A f \in Run(phys, n) : Spare(m, f),
         NEW new, new = MapContiguous(m, p, phys, n)
  PROVE  /\ Grows(m, new)
         /\ NoRec(m) => NoRec(new)
         /\ Safe(m) /\ (p = phys \/ \A q \in Run(p, n) : TableOf(q) \notin StaticTables)
              => Safe(new)
         /\ Uses(m, new, {})
         /\ new.stop = "no" =>
              \A q \in Run(p, n) : TableOf(q) # RecursivePde /\ new.pte[q] = phys + (q - p)
<1>1. PICK g : /\ g[0] = m
               /\ \A k \in 1 .. n :
                    g[k] = MapPageframe(g[k - 1], p + k - 1, phys + k - 1)
               /\ new = g[n]
  BY MapRounds
<1> DEFINE Rest(k) == phys + k .. phys + n - 1
           High == p = phys \/ \A q \in Run(p, n) : TableOf(q) \notin StaticTables
           Done(x, k) == x.stop = "no" =>
              \A q \in Run(p, k) : TableOf(q) # RecursivePde /\ x.pte[q] = phys + (q - p)
           Fact(k) == /\ g[k] \in MemState /\ Exclusive(g[k])
                      /\ p = phys \/ \A f \in Rest(k) : Spare(g[k], f)
                      /\ Grows(m, g[k])
                      /\ NoRec(m) => NoRec(g[k])
                      /\ Safe(m) /\ High => Safe(g[k])
                      /\ Uses(m, g[k], {})
                      /\ Done(g[k], k)
           T == {k \in 0 .. n : Fact(k)}
<1>2. 0 \in T
  <2>1. Rest(0) = Run(phys, n)
    BY DEF Run
  <2>2. Run(p, 0) = {}
    BY DEF Run
  <2>3. Grows(m, m) /\ Uses(m, m, {}) /\ Done(m, 0)
    BY <2>2, GrowsSelf DEF Uses
  <2> HIDE DEF Rest, High, Done
  <2>4. QED
    BY <1>1, <2>1, <2>3
<1>3. ASSUME NEW k \in 1 .. n, k - 1 \in T PROVE k \in T
  <2> DEFINE q == p + k - 1
             frame == phys + k - 1
             was == g[k - 1]
             is == g[k]
  <2>1. Fact(k - 1)
    BY <1>3
  <2>2. is = MapPageframe(was, q, frame)
    BY <1>1
  <2>3. /\ frame \in Rest(k - 1) /\ frame \in Run(phys, n) /\ q \in Run(p, n)
        /\ \A f \in Rest(k) : f \in Rest(k - 1) /\ f # frame
        /\ p = phys => q = frame
        /\ q \in Int /\ frame = phys + (q - p)
    BY DEF Run
  <2>4. /\ Run(p, k) = Run(p, k - 1) \cup {q} /\ q \notin Run(p, k - 1)
        /\ Run(p, k) \subseteq Run(p, n)
    BY DEF Run
  <2>5. q \in Page /\ frame \in Page \cup Frame
    BY <2>3
  <2> HIDE DEF q, frame, Rest, Done, High, was, is
  <2>6. was \in MemState /\ Exclusive(was) /\ (q = frame \/ Spare(was, frame))
    BY <2>1, <2>3 DEF was
  <2>7. /\ is \in MemState /\ Exclusive(is)
        /\ \A f : Spare(was, f) /\ f # frame => Spare(is, f)
    BY <2>2, <2>6, MapKeeps
  <2>8. /\ Apart(was, is, {q})
        /\ is.stop = "no" => is.pte[q] = frame
    BY <2>2, <2>5, <2>6, MapPte
  <2>9. /\ Grows(was, is)
        /\ NoRec(was) => NoRec(is)
        /\ Safe(was) /\ MayMap(q, frame) => Safe(is)
        /\ Uses(was, is, {})
        /\ is.stop = "no" => TableOf(q) # RecursivePde
    BY <2>2, <2>5, <2>6, MapDoes
  <2>10. High => MayMap(q, frame)
    BY <2>3 DEF High, MayMap
  <2>11. p = phys \/ \A f \in Rest(k) : Spare(is, f)
    BY <2>1, <2>3, <2>7 DEF was
  <2>12. Grows(m, is)
    BY <2>1, <2>9, GrowsOn DEF was
  <2>13. Uses(m, is, {})
    <3>1. Uses(m, was, {})
      BY <2>1 DEF was
    <3>2. {} \cap {q} = {} /\ {} \cup {} = {} /\ {} \subseteq Page
      OBVIOUS
    <3>3. Uses(m, is, {} \cup {})
      BY <2>6, <2>7, <2>8, <2>9, <3>1, <3>2, UsesOn
    <3>4. QED
      BY <3>2, <3>3
  <2>14. Done(is, k)
    <3>1. SUFFICES ASSUME is.stop = "no", NEW x \in Run(p, k)
                   PROVE  TableOf(x) # RecursivePde /\ is.pte[x] = phys + (x - p)
      BY DEF Done
    <3>2. CASE x = q
      BY <2>3, <2>8, <2>9, <3>1, <3>2
    <3>3. CASE x # q
      <4>1. x \in Run(p, k - 1) /\ x \in Page \ {q}
        BY <2>4, <3>3
      <4>2. was.stop = "no" /\ is.pte[x] = was.pte[x]
        BY <2>8, <3>1, <4>1 DEF Apart
      <4>3. Done(was, k - 1)
        BY <2>1 DEF was
      <4>4. QED
        BY <4>1, <4>2, <4>3 DEF Done
    <3>4. QED
      BY <3>2, <3>3
  <2>15. Fact(k)
    BY <2>1, <2>7, <2>9, <2>10, <2>11, <2>12, <2>13, <2>14 DEF was, is
  <2>16. QED
    BY <2>15
<1>4. n \in T
  <2> HIDE DEF T
  <2>1. QED
    BY <1>2, <1>3, Loop
<1>5. QED
  BY <1>1, <1>4

(* vmalloc_core, frame by frame: while the kernel runs each frame marked   *)
(* backs a page or is a table, and if it gives up there is none left.      *)
LEMMA ScatteredDoes ==
  ASSUME NEW m \in MemState, Exclusive(m), NEW address, NEW n \in Nat,
         PageAt(address) \in Nat, Run(PageAt(address), n) \subseteq Page,
         NEW got, got = CoreScattered(m, address, n)
  PROVE  LET P == Run(PageAt(address), n)
         IN  /\ Grows(m, got.mem)
             /\ NoRec(m) => NoRec(got.mem)
             /\ Safe(m) /\ (\A q \in P : TableOf(q) \notin StaticTables)
                  => Safe(got.mem)
             /\ got.mem.stop = "no" => Uses(m, got.mem, P)
             /\ got.mem.stop = "no" /\ got.addr # Null =>
                  \A q \in P : TableOf(q) # RecursivePde /\ got.mem.pte[q] # NoPage
             /\ got.addr = Null /\ address # Null => Exhausted(got.mem)
<1>1. PICK g : /\ g[0] = [mem |-> m, addr |-> address]
               /\ \A k \in 1 .. n :
                    g[k] = OneFrame(g[k - 1], PageAt(address) + k - 1)
               /\ got = g[n]
  BY ScatteredRounds
<1> DEFINE P(k) == Run(PageAt(address), k)
           High == \A q \in P(n) : TableOf(q) \notin StaticTables
           Done(s, k) == s.mem.stop = "no" /\ s.addr # Null =>
              \A q \in P(k) : TableOf(q) # RecursivePde /\ s.mem.pte[q] # NoPage
           St == [mem : MemState, addr : {address, Null}]
           Fact(s, k) ==
             /\ s \in St /\ Exclusive(s.mem)
             /\ Grows(m, s.mem)
             /\ NoRec(m) => NoRec(s.mem)
             /\ Safe(m) /\ High => Safe(s.mem)
             /\ s.mem.stop = "no" => Uses(m, s.mem, P(k))
             /\ Done(s, k)
             /\ s.addr = Null /\ address # Null => Exhausted(s.mem)
           T == {k \in 0 .. n : Fact(g[k], k)}
<1>2. 0 \in T
  <2>1. P(0) = {}
    BY DEF Run
  <2>2. Grows(m, m) /\ Uses(m, m, P(0)) /\ Done(g[0], 0)
    BY <2>1, GrowsSelf DEF Uses
  <2>3. g[0] \in St /\ g[0].mem = m /\ g[0].addr = address
    BY <1>1
  <2> HIDE DEF Done, High, P, St
  <2>4. QED
    BY <2>2, <2>3
<1>3. ASSUME NEW k \in 1 .. n, k - 1 \in T PROVE k \in T
  <2> DEFINE prev == g[k - 1]
             is == g[k]
             q == PageAt(address) + k - 1
             free == FirstAvail(prev.mem.bitmap, 1)
             b == CHOOSE x \in free : TRUE
             marked == [prev.mem EXCEPT !.bitmap = SetBits(@, {b})]
             mapped == MapPageframe(marked, q, b)
  <2>1. Fact(prev, k - 1)
    BY <1>3
  <2>2. is = OneFrame(prev, q)
    BY <1>1
  <2>3. /\ P(k) = P(k - 1) \cup {q} /\ q \notin P(k - 1)
        /\ q \in P(n) /\ P(k - 1) \subseteq P(n)
    BY DEF Run
  <2>4. q \in Page /\ P(n) \subseteq Page
    BY <2>3
  <2>5. Uses(m, prev.mem, P(k - 1)) => Uses(m, prev.mem, P(k))
    <3> HIDE DEF P, prev
    <3>1. QED
      BY <2>3 DEF Uses
  <2> HIDE DEF prev, is, q, P
  <2>6. CASE prev.mem.stop # "no" \/ prev.addr = Null
    <3>1. is = prev
      BY <2>2, <2>6 DEF OneFrame
    <3>2. Done(is, k)
      BY <2>6, <3>1
    <3> HIDE DEF Done, High
    <3>3. Fact(is, k)
      BY <2>1, <2>5, <3>1, <3>2
    <3>4. QED
      BY <3>3 DEF is
  <2>7. CASE ~(prev.mem.stop # "no" \/ prev.addr = Null) /\ free = {}
    <3>1. is = [prev EXCEPT !.addr = Null]
      BY <2>2, <2>7 DEF OneFrame
    <3>2. is \in St /\ is.mem = prev.mem /\ is.addr = Null
      BY <2>1, <3>1
    <3>3. Done(is, k) /\ Exhausted(is.mem)
      BY <2>7, <3>2 DEF Exhausted
    <3> HIDE DEF Done, High, St
    <3>4. Fact(is, k)
      BY <2>1, <2>5, <3>2, <3>3
    <3>5. QED
      BY <3>4 DEF is
  <2>8. CASE ~(prev.mem.stop # "no" \/ prev.addr = Null) /\ free # {}
    <3>1. is = [prev EXCEPT !.mem = mapped]
      BY <2>2, <2>8 DEF OneFrame
    <3>2. b \in FirstAvail(prev.mem.bitmap, 1)
      BY <2>8
    <3> HIDE DEF b
    <3>3. b \in Frame /\ ~prev.mem.bitmap[b]
      BY <3>2, FoundClear
    <3>4. prev \in St /\ prev.mem \in MemState /\ Exclusive(prev.mem)
      BY <2>1
    <3>5. /\ marked \in MemState /\ Exclusive(marked) /\ Spare(marked, b)
          /\ marked.pte = prev.mem.pte /\ marked.stop = prev.mem.stop
      BY <3>3, <3>4, MarkKeeps
    <3>6. /\ Grows(prev.mem, marked)
          /\ NoRec(prev.mem) => NoRec(marked)
          /\ Safe(prev.mem) => Safe(marked)
          /\ \A f \in Frame : marked.bitmap[f] /\ ~prev.mem.bitmap[f] => f \in {b}
      <4>1. prev.mem \in MemState /\ marked = [prev.mem EXCEPT !.bitmap = SetBits(@, {b})]
        BY <3>4
      <4> HIDE DEF marked
      <4>2. Grows(prev.mem, marked)
        BY <4>1, MarkDoes
      <4>3. NoRec(prev.mem) => NoRec(marked)
        BY <4>1, MarkDoes
      <4>4. Safe(prev.mem) => Safe(marked)
        BY <4>1, MarkDoes
      <4>5. ASSUME NEW f \in Frame, marked.bitmap[f], ~prev.mem.bitmap[f] PROVE f \in {b}
        BY <4>1, <4>5, MarkDoes
      <4>6. QED
        BY <4>2, <4>3, <4>4, <4>5
    <3> HIDE DEF marked
    <3>7. mapped \in MemState /\ Exclusive(mapped)
      BY <3>5, MapKeeps
    <3>8. Apart(marked, mapped, {q}) /\ (mapped.stop = "no" => mapped.pte[q] = b)
      BY <2>4, <3>5, MapPte
    <3>9. /\ Grows(marked, mapped)
          /\ NoRec(marked) => NoRec(mapped)
          /\ Safe(marked) /\ MayMap(q, b) => Safe(mapped)
          /\ Uses(marked, mapped, {})
          /\ mapped.stop = "no" => TableOf(q) # RecursivePde
      BY <2>4, <3>3, <3>5, MapDoes
    <3> HIDE DEF mapped
    <3>10. is \in St /\ is.mem = mapped /\ is.addr = prev.addr
      BY <3>1, <3>4, <3>7
    <3>11. Grows(prev.mem, mapped) /\ Apart(prev.mem, mapped, {q})
      BY <3>5, <3>6, <3>8, <3>9, GrowsOn DEF Apart
    <3>12. Grows(m, mapped)
      BY <2>1, <3>11, GrowsOn
    <3>13. High => MayMap(q, b)
      BY <2>3 DEF MayMap
    <3>14. mapped.stop = "no" => Uses(m, mapped, P(k))
      <4>1. SUFFICES ASSUME mapped.stop = "no" PROVE Uses(m, mapped, P(k))
        OBVIOUS
      <4>2. prev.mem.stop = "no"
        BY <3>11, <4>1 DEF Grows
      <4>3. Uses(m, prev.mem, P(k - 1))
        BY <2>1, <4>2
      <4>4. Uses(prev.mem, mapped, {q})
        BY <3>6, <3>8, <3>9, <4>1 DEF Uses
      <4>5. P(k - 1) \cap {q} = {} /\ P(k - 1) \subseteq Page
        BY <2>3, <2>4
      <4>6. Uses(m, mapped, P(k - 1) \cup {q})
        BY <3>4, <3>7, <3>11, <4>3, <4>4, <4>5, UsesOn
      <4>7. QED
        BY <2>3, <4>6
    <3>15. Done(is, k)
      <4>1. SUFFICES ASSUME mapped.stop = "no", NEW x \in P(k)
                     PROVE  TableOf(x) # RecursivePde /\ mapped.pte[x] # NoPage
        BY <3>10
      <4>2. CASE x = q
        BY <3>3, <3>8, <3>9, <4>1, <4>2, Sizes DEF NoPage, Frame
      <4>3. CASE x # q
        <5>1. x \in P(k - 1) /\ x \in Page
          BY <2>3, <2>4, <4>3
        <5>2. Done(prev, k - 1)
          BY <2>1
        <5>3. TableOf(x) # RecursivePde /\ prev.mem.pte[x] # NoPage
          BY <2>8, <5>1, <5>2
        <5>4. QED
          BY <3>11, <5>1, <5>3 DEF Grows
      <4>4. QED
        BY <4>2, <4>3
    <3>16. is.addr = Null /\ address # Null => Exhausted(is.mem)
      BY <2>8, <3>10
    <3> HIDE DEF Done, High, St
    <3>17. Fact(is, k)
      BY <2>1, <3>6, <3>7, <3>9, <3>10, <3>12, <3>13, <3>14, <3>15, <3>16
    <3>18. QED
      BY <3>17 DEF is
  <2>9. QED
    BY <2>6, <2>7, <2>8
<1>4. n \in T
  <2> HIDE DEF T
  <2>1. QED
    BY <1>2, <1>3, Loop
<1>5. QED
  BY <1>1, <1>4

(* vmalloc_core, whichever way it takes.                                   *)
LEMMA CoreDoes ==
  ASSUME NEW m \in MemState, Exclusive(m), NEW address \in Nat,
         NEW size \in Nat, NEW mmio \in BOOLEAN,
         Region(address, size) \subseteq Page,
         NEW got, got = VmallocCore(m, address, size, mmio)
  PROVE  LET P == Region(address, size)
         IN  /\ Grows(m, got.mem)
             /\ NoRec(m) => NoRec(got.mem)
             /\ Safe(m) /\ (mmio \/ \A q \in P : TableOf(q) \notin StaticTables)
                  => Safe(got.mem)
             /\ got.mem.stop = "no" => Uses(m, got.mem, P)
             /\ got.mem.stop = "no" /\ got.addr # Null =>
                  \A q \in P : TableOf(q) # RecursivePde /\ got.mem.pte[q] # NoPage
             /\ got.addr = Null /\ address # Null => Exhausted(got.mem)
<1> DEFINE n == NumPages(size)
           p == PageAt(address)
           P == Run(p, n)
           free == FirstAvail(m.bitmap, n)
           f == CHOOSE b \in free : TRUE
           High == \A q \in P : TableOf(q) \notin StaticTables
<1>1. n \in Nat
  BY PagesWhole
<1>2. p \in Nat
  BY Sizes DEF PageAt
<1>3. Region(address, size) = P
  BY DEF Region
<1>4. NoPage \notin Nat
  BY DEF NoPage
<1> HIDE DEF n, p
(* The frames from phys on are marked and mapped.                          *)
<1>5. ASSUME NEW S, NEW phys \in Nat, S \subseteq Run(phys, n),
             NEW marked, marked = [m EXCEPT !.bitmap = SetBits(@, S)],
             Exclusive(marked),
             \/ p = phys
             \/ Run(phys, n) \subseteq Frame /\ \A i \in Run(phys, n) : Spare(marked, i),
             NEW mapped, mapped = MapContiguous(marked, p, phys, n)
      PROVE  /\ Grows(m, mapped)
             /\ NoRec(m) => NoRec(mapped)
             /\ Safe(m) /\ (p = phys \/ High) => Safe(mapped)
             /\ mapped.stop = "no" => Uses(m, mapped, P)
             /\ mapped.stop = "no" =>
                  \A q \in P : TableOf(q) # RecursivePde /\ mapped.pte[q] # NoPage
  <2>1. /\ marked \in MemState /\ Grows(m, marked)
        /\ NoRec(m) => NoRec(marked)
        /\ Safe(m) => Safe(marked)
    BY <1>5, MarkDoes
  <2>2. \A i \in Frame : marked.bitmap[i] /\ ~m.bitmap[i] => i \in S
    BY <1>5, MarkDoes
  <2>3. P \subseteq Page
    BY <1>3
  <2>4. /\ Grows(marked, mapped)
        /\ NoRec(marked) => NoRec(mapped)
        /\ Safe(marked) /\ (p = phys \/ High) => Safe(mapped)
        /\ Uses(marked, mapped, {})
        /\ mapped.stop = "no" =>
              \A q \in P : TableOf(q) # RecursivePde /\ mapped.pte[q] = phys + (q - p)
    BY <1>1, <1>2, <1>5, <2>1, <2>3, ContiguousDoes
  <2>5. Grows(m, mapped)
    BY <2>1, <2>4, GrowsOn
  <2>6. ASSUME mapped.stop = "no", NEW q \in P PROVE mapped.pte[q] # NoPage
    <3>1. phys + (q - p) \in Nat
      BY <1>1, <1>2 DEF Run
    <3>2. QED
      BY <1>4, <2>4, <2>6, <3>1
  <2>7. ASSUME mapped.stop = "no", NEW i \in Frame, mapped.bitmap[i], ~m.bitmap[i]
        PROVE  IsTable(mapped, i) \/ \E q \in P : mapped.pte[q] = i
    <3>1. CASE marked.bitmap[i]
      <4>1. i \in Run(phys, n)
        BY <1>5, <2>2, <2>7, <3>1
      <4>2. p + (i - phys) \in P /\ phys + ((p + (i - phys)) - p) = i
        BY <1>1, <1>2, <4>1 DEF Run
      <4>3. QED
        BY <2>4, <2>7, <4>2
    <3>2. CASE ~marked.bitmap[i]
      BY <2>4, <2>7, <3>2 DEF Uses
    <3>3. QED
      BY <3>1, <3>2
  <2>8. mapped.stop = "no" => Uses(m, mapped, P)
    BY <2>7 DEF Uses
  <2>9. QED
    BY <2>1, <2>4, <2>5, <2>6, <2>8
<1>6. CASE mmio
  <2> DEFINE S == IF CanRequest(m.bitmap, p, n) THEN Run(p, n) ELSE {}
             marked == [m EXCEPT !.bitmap = SetBits(@, S)]
             mapped == MapContiguous(marked, p, p, n)
  <2>1. marked = IF CanRequest(m.bitmap, p, n)
                 THEN [m EXCEPT !.bitmap = SetBits(@, Run(p, n))] ELSE m
    <3>1. CASE CanRequest(m.bitmap, p, n)
      BY <3>1
    <3>2. CASE ~CanRequest(m.bitmap, p, n)
      <4>1. m.bitmap \in [0 .. NumBits -> BOOLEAN]
        BY DEF MemState
      <4>2. SetBits(m.bitmap, {}) = m.bitmap
        BY <4>1 DEF SetBits
      <4>3. marked = m
        BY <3>2, <4>2 DEF MemState
      <4>4. QED
        BY <3>2, <4>3
    <3>3. QED
      BY <3>1, <3>2
  <2>2. got = [mem |-> mapped, addr |-> address]
    BY <1>6, <2>1 DEF VmallocCore, CoreMmio, n, p
  <2>3. Exclusive(marked) /\ S \subseteq Run(p, n)
    BY MarkKeeps
  <2> HIDE DEF S
  <2> SUFFICES /\ Grows(m, mapped)
               /\ NoRec(m) => NoRec(mapped)
               /\ Safe(m) => Safe(mapped)
               /\ mapped.stop = "no" => Uses(m, mapped, P)
               /\ mapped.stop = "no" =>
                    \A q \in P : TableOf(q) # RecursivePde /\ mapped.pte[q] # NoPage
    <3>1. got.mem = mapped /\ got.addr = address
      BY <2>2
    <3> HIDE DEF mapped, P
    <3>2. QED
      BY <1>3, <1>6, <3>1
  <2>4. QED
    BY <1>2, <1>5, <2>3
<1>7. CASE ~mmio /\ free # {}
  <2> DEFINE S == Run(f, n)
             marked == [m EXCEPT !.bitmap = SetBits(@, S)]
             mapped == MapContiguous(marked, p, f, n)
  <2>1. got = [mem |-> mapped, addr |-> address]
    BY <1>7 DEF VmallocCore, n, p
  <2>2. f \in FirstAvail(m.bitmap, n)
    BY <1>7
  <2> HIDE DEF f
  <2>3. /\ f \in Nat /\ S \subseteq Frame
        /\ \A i \in S : ~m.bitmap[i]
    BY <1>1, <2>2, FoundClear
  <2>4. Exclusive(marked) /\ \A i \in S : Spare(marked, i)
    BY <2>3, MarkKeeps
  <2> SUFFICES /\ Grows(m, mapped)
               /\ NoRec(m) => NoRec(mapped)
               /\ Safe(m) /\ High => Safe(mapped)
               /\ mapped.stop = "no" => Uses(m, mapped, P)
               /\ mapped.stop = "no" =>
                    \A q \in P : TableOf(q) # RecursivePde /\ mapped.pte[q] # NoPage
    <3>1. got.mem = mapped /\ got.addr = address
      BY <2>1
    <3> HIDE DEF mapped, P
    <3>2. QED
      BY <1>3, <1>7, <3>1
  <2>5. QED
    BY <1>5, <2>3, <2>4
<1>8. CASE ~mmio /\ free = {}
  <2>1. got = CoreScattered(m, address, n)
    BY <1>8 DEF VmallocCore, n
  <2>2. p = PageAt(address) /\ P \subseteq Page
    BY <1>3 DEF p
  <2>3. QED
    BY <1>1, <1>2, <1>3, <1>8, <2>1, <2>2, ScatteredDoes
<1>9. QED
  BY <1>6, <1>7, <1>8

(* With no frame left vmalloc_core gives up at once.                       *)
LEMMA CoreExhausted ==
  ASSUME NEW m \in MemState, Exhausted(m), m.stop = "no",
         NEW address, NEW size, NumPages(size) \in Nat \ {0},
         NEW mmio \in BOOLEAN, ~mmio,
         NEW got, got = VmallocCore(m, address, size, mmio)
  PROVE  got.mem = m /\ got.addr = Null
<1> DEFINE n == NumPages(size)
<1>1. FirstAvail(m.bitmap, n) = {}
  BY ExhaustedNoRun
<1>2. got = CoreScattered(m, address, n)
  BY <1>1 DEF VmallocCore
<1> HIDE DEF n
<1>3. n \in Nat /\ n # 0
  BY DEF n
<1>4. PICK g : /\ g[0] = [mem |-> m, addr |-> address]
               /\ \A k \in 1 .. n :
                    g[k] = OneFrame(g[k - 1], PageAt(address) + k - 1)
               /\ got = g[n]
  BY <1>2, <1>3, ScatteredRounds
<1> DEFINE T == {k \in 0 .. n : k = 0 \/ g[k] = [mem |-> m, addr |-> Null]}
<1>5. ASSUME NEW k \in 1 .. n, k - 1 \in T PROVE k \in T
  <2>1. g[k] = OneFrame(g[k - 1], PageAt(address) + k - 1)
    BY <1>4
  <2>2. g[k - 1].mem = m /\ g[k - 1] = [mem |-> m, addr |-> g[k - 1].addr]
    BY <1>4, <1>5
  <2>3. g[k] = [mem |-> m, addr |-> Null]
    BY <2>1, <2>2 DEF OneFrame, Exhausted
  <2>4. QED
    BY <2>3
<1>6. n \in T
  <2>1. 0 \in T
    BY <1>3
  <2> HIDE DEF T
  <2>2. QED
    BY <1>3, <1>5, <2>1, Loop
<1>7. got = [mem |-> m, addr |-> Null]
  BY <1>3, <1>4, <1>6
<1>8. QED
  BY <1>7

-----------------------------------------------------------------------------
(* The list of areas, where the layout of the address space is sound.      *)

(* Whole pages that hold size bytes, and no more than that.                *)
LEMMA PagesFit ==
  ASSUME NEW size \in Nat
  PROVE  /\ NumPages(size) * PageSize \in Nat /\ size <= NumPages(size) * PageSize
         /\ \A b : Whole(b) /\ size <= b => NumPages(size) * PageSize <= b
         /\ Whole(size) => NumPages(size) * PageSize = size
         /\ size # 0 => NumPages(size) # 0
<1> DEFINE n == NumPages(size)
           x == size + PageSize - 1
<1>1. PageSize \in Nat \ {0} /\ n \in Nat /\ x \in Int /\ n * PageSize \in Nat
  BY Sizes, PagesWhole
<1>2. ASSUME NEW k \in Int PROVE n <= k <=> size <= k * PageSize
  <2>1. n < k + 1 <=> x < (k + 1) * PageSize
    BY <1>1, DivLess DEF NumPages
  <2>2. (k + 1) * PageSize = k * PageSize + PageSize /\ k * PageSize \in Int
    BY <1>1
  <2> HIDE DEF n
  <2>3. QED
    BY <1>1, <2>1, <2>2
<1> HIDE DEF n, x
<1>3. size <= n * PageSize
  BY <1>1, <1>2
<1>4. ASSUME NEW b, Whole(b), size <= b PROVE n * PageSize <= b
  <2>1. PICK k \in Int : b = k * PageSize
    BY <1>4, WholeIs DEF Whole
  <2>2. n <= k
    BY <1>2, <1>4, <2>1
  <2>3. QED
    BY <1>1, <2>1, <2>2, MulOrder
<1>5. Whole(size) => n * PageSize = size
  BY <1>1, <1>3, <1>4
<1>6. size # 0 => n # 0
  BY <1>1, <1>3
<1>7. QED
  BY <1>1, <1>3, <1>4, <1>5, <1>6 DEF n

LEMMA WrapSame ==
  ASSUME NEW a \in Nat, a < Space
  PROVE  Wrap(a) = a
BY Sizes DEF Wrap, Space

(* The heap lies between the identity map and the recursive region.        *)
LEMMA HeapPlace ==
  ASSUME Layout
  PROVE  /\ Growth <= HeapSize /\ HeapStart + HeapSize = Top
         /\ IdentityEnd <= HeapStart /\ Top <= RecursiveStart
         /\ HeapStart < RecursiveStart
         /\ IdentityEnd + Growth <= RecursiveStart
         /\ HeapStart + Growth <= RecursiveStart
         /\ RecursiveStart + Growth < Space
<1>1. /\ HeapSize \in Nat \ {0} /\ Growth \in Nat \ {0} /\ Top \in Nat
      /\ HeapSize % Growth = 0
  BY Sizes, VmmAssumption
<1>2. Growth <= HeapSize
  <2>1. HeapSize < Growth => HeapSize % Growth = HeapSize
    BY <1>1
  <2>2. QED
    BY <1>1, <2>1
<1>3. IdentityEnd <= HeapStart /\ Top <= RecursiveStart
  BY DEF Layout
<1>4. IdentityEnd \in Nat /\ RecursiveStart \in Nat /\ HeapStart = Top - HeapSize
  BY Places DEF HeapStart
<1>5. RecursiveStart + TableSize < Space /\ Growth <= TableSize
      /\ TableSize \in Nat /\ Space \in Nat
  BY Places, Sizes
<1>6. QED
  BY <1>1, <1>2, <1>3, <1>4, <1>5

(* Every area is above the identity map and ends within the address space, *)
(* the head is the recursive region or higher, the heap ends below it; and *)
(* if page 0 would be taken for an area that starts within the identity    *)
(* map, an area that is not the last leaves room for an extension below.   *)
Placed(a) ==
  /\ IdentityEnd <= a.start /\ 0 < a.length
  /\ a.start + a.length < Space /\ a.start + Growth < Space

ListLayout(list) ==
  /\ Len(list) >= 2
  /\ \A i \in 1 .. Len(list) : Placed(list[i])
  /\ RecursiveStart <= list[1].start
  /\ \A i \in StartingAt(list, HeapStart) :
       HeapStart + list[i].length <= list[1].start
  /\ PageZero.start < IdentityEnd =>
       \A i \in 1 .. Len(list) - 1 : IdentityEnd + Growth <= list[i].start

LEMMA InsertLayout ==
  ASSUME Layout, NEW list, ListInv(list), ListLayout(list),
         NEW new \in Area, Placed(new),
         new.start = HeapStart => HeapStart + new.length <= list[1].start
  PROVE  ListLayout(InsertNewArea(list, new))
<1> DEFINE out == InsertNewArea(list, new)
<1>1. /\ list \in Seq(Area) /\ list # << >> /\ Len(list) \in Nat
      /\ Len(list) >= 2 /\ list[1] \in Area
  BY DEF ListInv, ListLayout
<1>2. /\ new.start \in Nat /\ new.length \in Nat
      /\ \A i \in 1 .. Len(list) : list[i].start \in Nat /\ list[i].length \in Nat
  <2>1. \A i \in 1 .. Len(list) : list[i] \in Area
    BY <1>1
  <2>2. \A a \in Area : a.start \in Nat /\ a.length \in Nat
    BY DEF Area
  <2>3. QED
    BY <2>1, <2>2
<1>3. /\ out \in Seq(Area)
      /\ \/ Longer(list, new, out)
         \/ \E k \in 1 .. Len(list) : Ended(list, new, out, k)
         \/ out = list
  BY <1>1, InsertCases
<1>4. /\ HeapStart < RecursiveStart /\ IdentityEnd + Growth <= RecursiveStart
      /\ HeapStart \in Nat /\ RecursiveStart \in Nat /\ IdentityEnd \in Nat
      /\ Growth \in Nat
  BY HeapPlace, Places, Sizes
<1>5. PageZero.start \in Nat
  BY VmmAssumption
<1> HIDE DEF out
<1>6. CASE Longer(list, new, out)
  <2>1. /\ new.start > list[1].start
        /\ Len(out) = 1 + Len(list) /\ out[1] = new
        /\ \A i \in 2 .. 1 + Len(list) : out[i] = list[i - 1]
    BY <1>6 DEF Longer
  <2>2. \A i \in 1 .. Len(out) :
          i = 1 \/ (i \in 2 .. 1 + Len(list) /\ i - 1 \in 1 .. Len(list))
    <3>1. Len(out) = 1 + Len(list) /\ Len(list) \in Nat
      BY <1>1, <2>1
    <3>2. QED
      BY <3>1
  <2>3. \A i \in 1 .. Len(out) : Placed(out[i])
    BY <2>1, <2>2 DEF ListLayout
  <2>4. RecursiveStart < new.start
    BY <1>1, <1>2, <1>4, <2>1 DEF ListLayout
  <2>5. ASSUME NEW i \in StartingAt(out, HeapStart)
        PROVE  HeapStart + out[i].length <= out[1].start
    <3>1. i \in 1 .. Len(out) /\ out[i].start = HeapStart
      BY <1>3, <2>5 DEF StartingAt
    <3>2. i # 1
      BY <1>2, <1>4, <2>1, <2>4, <3>1
    <3>3. out[i] = list[i - 1] /\ i - 1 \in 1 .. Len(list)
      BY <2>1, <2>2, <3>1, <3>2
    <3>4. i - 1 \in StartingAt(list, HeapStart)
      BY <1>1, <3>1, <3>3 DEF StartingAt
    <3>5. HeapStart + out[i].length <= list[1].start
      BY <3>3, <3>4 DEF ListLayout
    <3>6. QED
      BY <1>1, <1>2, <1>4, <2>1, <3>3, <3>5
  <2>6. ASSUME PageZero.start < IdentityEnd, NEW i \in 1 .. Len(out) - 1
        PROVE  IdentityEnd + Growth <= out[i].start
    <3>1. CASE i = 1
      BY <1>2, <1>4, <2>1, <2>4, <3>1
    <3>2. CASE i # 1
      <4>1. out[i] = list[i - 1] /\ i - 1 \in 1 .. Len(list) - 1
        BY <1>1, <2>1, <2>6, <3>2
      <4>2. QED
        BY <2>6, <4>1 DEF ListLayout
    <3>3. QED
      BY <3>1, <3>2
  <2>7. Len(out) >= 2 /\ RecursiveStart <= out[1].start
    BY <1>1, <1>2, <1>4, <2>1, <2>4
  <2>8. QED
    BY <2>3, <2>5, <2>6, <2>7 DEF ListLayout, out
<1>7. ASSUME NEW k \in 1 .. Len(list), Ended(list, new, out, k)
      PROVE  ListLayout(out)
  <2>1. /\ Len(out) = k + 1 /\ out[k + 1] = new
        /\ \A i \in 1 .. k : out[i] = list[i]
        /\ k = Len(list) => Stops(list, new) = {}
    BY <1>7 DEF Ended
  <2>2. /\ out[1] = list[1] /\ 1 .. k \subseteq 1 .. Len(list)
        /\ \A i \in 1 .. Len(out) : i \in 1 .. k \/ i = k + 1
    BY <1>1, <2>1
  <2>3. \A i \in 1 .. Len(out) : Placed(out[i])
    BY <2>1, <2>2 DEF ListLayout
  <2>4. ASSUME NEW i \in StartingAt(out, HeapStart)
        PROVE  HeapStart + out[i].length <= out[1].start
    <3>1. i \in 1 .. Len(out) /\ out[i].start = HeapStart
      BY <1>3, <2>4 DEF StartingAt
    <3>2. CASE i = k + 1
      BY <2>1, <2>2, <3>1, <3>2
    <3>3. CASE i \in 1 .. k
      <4>1. out[i] = list[i] /\ i \in StartingAt(list, HeapStart)
        BY <1>1, <2>1, <2>2, <3>1, <3>3 DEF StartingAt
      <4>2. QED
        BY <2>2, <4>1 DEF ListLayout
    <3>4. QED
      BY <2>2, <3>1, <3>2, <3>3
  <2>5. ASSUME PageZero.start < IdentityEnd, NEW i \in 1 .. Len(out) - 1
        PROVE  IdentityEnd + Growth <= out[i].start
    <3>1. i \in 1 .. k
      BY <2>1, <2>5
    <3>2. CASE k # Len(list)
      <4>1. i \in 1 .. Len(list) - 1 /\ out[i] = list[i]
        BY <1>1, <2>1, <3>1, <3>2
      <4>2. QED
        BY <2>5, <4>1 DEF ListLayout
    <3>3. CASE k = Len(list)
      <4>1. Len(list) - 1 \notin Stops(list, new) /\ Len(list) - 1 \in 1 .. Len(list) - 1
        BY <1>1, <2>1, <3>3
      <4>2. AfterNext(list, Len(list) - 1) = PageZero
        BY <1>1 DEF AfterNext
      <4>3. ~(new.start > PageZero.start)
        BY <4>1, <4>2 DEF Stops
      <4>4. QED
        BY <1>2, <1>4, <1>5, <2>5, <4>3 DEF Placed
    <3>4. QED
      BY <3>2, <3>3
  <2>6. Len(out) >= 2 /\ RecursiveStart <= out[1].start
    BY <1>1, <2>1, <2>2 DEF ListLayout
  <2>7. QED
    BY <2>3, <2>4, <2>5, <2>6 DEF ListLayout
<1>8. QED
  BY <1>3, <1>6, <1>7 DEF out

(* vmalloc_request_more_memory finds room for an extension only where it   *)
(* ends below the head of the list: it is within the address space.        *)
LEMMA ExtensionPlace ==
  ASSUME Layout, NEW list, ListInv(list), ListLayout(list),
         NEW i \in StartingAt(list, HeapStart)
  PROVE  /\ i \in 1 .. Len(list) /\ list[i] \in Area
         /\ EndOf(list[i]) = HeapStart + list[i].length
         /\ EndOf(list[i]) + Growth < Space
         /\ ~Exists(list, EndOf(list[i]), Growth) =>
              /\ EndOf(list[i]) + Growth <= list[1].start
              /\ \A j \in 1 .. Len(list) : ~Inside(list[j].start, EndOf(list[i]),
                                                   EndOf(list[i]) + Growth)
              /\ \A j \in 1 .. Len(list) : list[j].start # EndOf(list[i]) + Growth
<1> DEFINE end == EndOf(list[i])
<1>1. /\ list \in Seq(Area) /\ Len(list) \in Nat /\ 1 \in 1 .. Len(list)
      /\ i \in 1 .. Len(list) /\ list[i].start = HeapStart
  BY DEF ListInv, ListLayout, StartingAt
<1>2. /\ \A j \in 1 .. Len(list) : list[j].start \in Nat /\ list[j].length \in Nat
      /\ list[i] \in Area
  <2>1. \A j \in 1 .. Len(list) : list[j] \in Area
    BY <1>1
  <2>2. \A a \in Area : a.start \in Nat /\ a.length \in Nat
    BY DEF Area
  <2>3. QED
    BY <1>1, <2>1, <2>2
<1>3. /\ HeapStart \in Nat /\ Growth \in Nat \ {0} /\ Space \in Nat
      /\ \A j \in 1 .. Len(list) : /\ 0 < list[j].length
                                   /\ list[j].start + list[j].length < Space
                                   /\ list[j].start + Growth < Space
      /\ HeapStart + list[i].length <= list[1].start
  BY Sizes DEF ListLayout, Placed
<1>4. \A j \in 1 .. Len(list) : EndOf(list[j]) = list[j].start + list[j].length
  <2>1. \A j \in 1 .. Len(list) : list[j].start + list[j].length \in Nat
    BY <1>2
  <2>2. QED
    BY <1>3, <2>1, WrapSame DEF EndOf
<1>5. end = HeapStart + list[i].length
  BY <1>1, <1>4
<1> HIDE DEF end
<1>6. end + Growth < Space /\ end \in Nat /\ end <= list[1].start
  <2>1. list[i].length \in Nat /\ list[1].start \in Nat /\ list[1].start + Growth < Space
    BY <1>1, <1>2, <1>3
  <2>2. QED
    BY <1>3, <1>5, <2>1
<1>7. Wrap(end + Growth) = end + Growth
  <2>1. end + Growth \in Nat
    BY <1>3, <1>6
  <2>2. QED
    BY <1>6, <2>1, WrapSame
<1>8. ASSUME ~Exists(list, end, Growth)
      PROVE  /\ end + Growth <= list[1].start
             /\ \A j \in 1 .. Len(list) : ~Inside(list[j].start, end, end + Growth)
             /\ \A j \in 1 .. Len(list) : list[j].start # end + Growth
  <2>1. ASSUME NEW j \in 1 .. Len(list)
        PROVE  /\ ~Inside(end + Growth, list[j].start, EndOf(list[j]))
               /\ ~Inside(list[j].start, end, end + Growth)
    <3>1. j \in DOMAIN list
      BY <1>1
    <3>2. QED
      BY <1>7, <1>8, <3>1 DEF Exists
  <2>2. \A j \in 1 .. Len(list) : list[j].start # end + Growth
    BY <1>2, <1>3, <1>4, <2>1 DEF Inside
  <2>3. end + Growth <= list[1].start
    BY <1>1, <1>2, <1>3, <1>6, <2>1 DEF Inside
  <2>4. QED
    BY <2>1, <2>2, <2>3
<1>9. QED
  BY <1>1, <1>2, <1>5, <1>6, <1>8 DEF end

LEMMA LongerLayout ==
  ASSUME Layout, NEW list, ListInv(list), ListLayout(list),
         NEW i \in StartingAt(list, HeapStart),
         ~Exists(list, EndOf(list[i]), Growth),
         NEW out, out = [list EXCEPT ![i].length = @ + Growth]
  PROVE  /\ ListLayout(out) /\ Len(out) = Len(list)
         /\ \A j \in 1 .. Len(list) : out[j].start = list[j].start
         /\ out[i].length = list[i].length + Growth
         /\ \A j \in 1 .. Len(list) : j # i => out[j] = list[j]
<1>1. /\ i \in 1 .. Len(list) /\ list[i] \in Area
      /\ EndOf(list[i]) = HeapStart + list[i].length
      /\ EndOf(list[i]) + Growth < Space
      /\ EndOf(list[i]) + Growth <= list[1].start
  BY ExtensionPlace
<1>2. list \in Seq(Area) /\ Len(list) \in Nat /\ 1 \in 1 .. Len(list)
  BY DEF ListInv, ListLayout
<1>3. /\ Len(out) = Len(list) /\ DOMAIN out = DOMAIN list
      /\ \A j \in 1 .. Len(list) : j # i => out[j] = list[j]
      /\ out[i] = [list[i] EXCEPT !.length = @ + Growth]
  BY <1>1, <1>2
<1>4. out[i].start = list[i].start /\ out[i].length = list[i].length + Growth
  BY <1>1, <1>3 DEF Area
<1>5. \A j \in 1 .. Len(list) : out[j].start = list[j].start
  BY <1>3, <1>4
<1>6. list[i].start = HeapStart /\ list[i].length \in Nat
      /\ HeapStart \in Nat /\ Growth \in Nat
  BY <1>1, Sizes DEF StartingAt, Area
<1>7. ASSUME NEW j \in 1 .. Len(out) PROVE Placed(out[j])
  <2>1. Placed(list[j])
    BY <1>3, <1>7 DEF ListLayout
  <2>2. CASE j # i
    BY <1>3, <1>7, <2>1, <2>2
  <2>3. CASE j = i
    BY <1>1, <1>4, <1>6, <2>1, <2>3 DEF Placed
  <2>4. QED
    BY <2>2, <2>3
<1>8. ASSUME NEW j \in StartingAt(out, HeapStart)
      PROVE  HeapStart + out[j].length <= out[1].start
  <2>1. j \in StartingAt(list, HeapStart) /\ j \in 1 .. Len(list)
    BY <1>2, <1>3, <1>5, <1>8 DEF StartingAt
  <2>2. out[1].start = list[1].start
    BY <1>2, <1>5
  <2>3. CASE j = i
    BY <1>1, <1>4, <1>6, <2>2, <2>3
  <2>4. CASE j # i
    BY <1>3, <2>1, <2>2, <2>4 DEF ListLayout
  <2>5. QED
    BY <2>3, <2>4
<1>9. PageZero.start < IdentityEnd =>
        \A j \in 1 .. Len(out) - 1 : IdentityEnd + Growth <= out[j].start
  <2>1. \A j \in 1 .. Len(list) - 1 : j \in 1 .. Len(list)
    BY <1>2
  <2>2. QED
    BY <1>3, <1>5, <2>1 DEF ListLayout
<1>10. Len(out) >= 2 /\ RecursiveStart <= out[1].start
  BY <1>2, <1>3, <1>5 DEF ListLayout
<1>11. QED
  BY <1>3, <1>4, <1>5, <1>7, <1>8, <1>9, <1>10 DEF ListLayout

(* find_first_alloc returns NULL or what lies right below an area, above   *)
(* the identity map.                                                       *)
LEMMA FoundPlace ==
  ASSUME Layout, NEW list, ListInv(list), ListLayout(list),
         NEW found, found = FindFirstAlloc(list, Growth)
  PROVE  \/ found = Null
         \/ /\ found \in Nat /\ IdentityEnd <= found
            /\ found + Growth <= list[1].start
            /\ \E j \in 1 .. Len(list) : found + Growth = list[j].start
<1> DEFINE below(i) == Wrap(list[i].start - Growth)
           gap(i)   == Wrap(list[i].start - EndOf(AfterNext(list, i)))
           fits     == {i \in 1 .. Len(list) - 1 :
                          /\ gap(i) >= Growth
                          /\ below(i) >= EndOf(AfterNext(list, i))}
           least    == Least(fits)
<1>1. /\ list \in Seq(Area) /\ list # << >> /\ Len(list) \in Nat
      /\ 1 \in 1 .. Len(list) /\ Len(list) \in 1 .. Len(list) /\ Len(list) >= 2
  BY DEF ListInv, ListLayout
<1>2. /\ \A j \in 1 .. Len(list) : list[j] \in Area
      /\ \A j \in 1 .. Len(list) : list[j].start \in Nat /\ list[j].length \in Nat
  <2>1. \A j \in 1 .. Len(list) : list[j] \in Area
    BY <1>1
  <2>2. \A a \in Area : a.start \in Nat /\ a.length \in Nat
    BY DEF Area
  <2>3. QED
    BY <2>1, <2>2
<1>3. /\ IdentityEnd \in Nat /\ Growth \in Nat \ {0} /\ Growth <= IdentityEnd
      /\ Space \in Nat /\ Bottom \in Nat /\ IdentityEnd <= Bottom
      /\ Top \in Nat /\ RecursiveStart \in Nat
  BY Places, Sizes, VmmAssumption
<1>4. \A j \in 1 .. Len(list) :
        /\ IdentityEnd <= list[j].start /\ 0 < list[j].length
        /\ list[j].start + list[j].length < Space
        /\ list[j].start <= list[1].start
  BY DEF ListInv, ListLayout, Placed
<1>5. \A j \in 1 .. Len(list) : EndOf(list[j]) = list[j].start + list[j].length
  <2>1. \A j \in 1 .. Len(list) : list[j].start + list[j].length \in Nat
    BY <1>2
  <2>2. QED
    BY <1>4, <2>1, WrapSame DEF EndOf
<1>6. ASSUME NEW j \in 1 .. Len(list)
      PROVE  below(j) = list[j].start - Growth /\ below(j) \in Nat
  <2>1. list[j].start - Growth \in Nat /\ list[j].start - Growth < Space
    BY <1>2, <1>3, <1>4
  <2>2. QED
    BY <2>1, WrapSame
<1>7. ~(Wrap(Top - Growth) >= EndOf(list[1])) /\ Wrap(Top - Growth) < EndOf(list[1])
  <2>1. /\ Growth <= HeapSize /\ HeapSize < Top /\ HeapSize \in Nat
        /\ Top <= RecursiveStart /\ RecursiveStart < Space
    BY HeapPlace, VmmAssumption, Places
  <2>2. Top - Growth \in Nat /\ Top - Growth < Space
    BY <1>3, <2>1
  <2>3. Wrap(Top - Growth) = Top - Growth
    BY <2>2, WrapSame
  <2>4. EndOf(list[1]) = list[1].start + list[1].length /\ RecursiveStart <= list[1].start
    BY <1>1, <1>5 DEF ListLayout
  <2>5. QED
    BY <1>1, <1>2, <1>3, <1>4, <2>1, <2>3, <2>4
<1>8. ASSUME NEW j \in 1 .. Len(list), found = below(j), IdentityEnd <= below(j)
      PROVE  /\ found \in Nat /\ IdentityEnd <= found
             /\ found + Growth <= list[1].start
             /\ \E k \in 1 .. Len(list) : found + Growth = list[k].start
  <2>1. found \in Nat /\ found + Growth = list[j].start
    BY <1>2, <1>3, <1>6, <1>8
  <2>2. QED
    BY <1>2, <1>4, <1>8, <2>1
<1>9. CASE fits # {}
  <2>1. found = below(least)
    BY <1>1, <1>7, <1>9, Zenon DEF FindFirstAlloc
  <2>2. least \in fits
    <3>1. fits \subseteq Nat
      BY <1>1
    <3> HIDE DEF fits
    <3>2. QED
      BY <1>9, <3>1, LeastIs
  <2> HIDE DEF least
  <2>3. /\ least \in 1 .. Len(list) - 1 /\ least \in 1 .. Len(list)
        /\ below(least) >= EndOf(AfterNext(list, least))
    BY <1>1, <2>2
  <2> HIDE DEF fits
  <2>4. IdentityEnd <= below(least)
    <3>1. CASE least + 2 <= Len(list)
      <4>1. AfterNext(list, least) = list[least + 2] /\ least + 2 \in 1 .. Len(list)
        BY <1>1, <2>3, <3>1 DEF AfterNext
      <4>2. EndOf(list[least + 2]) >= IdentityEnd /\ EndOf(list[least + 2]) \in Nat
        BY <1>2, <1>3, <1>4, <1>5, <4>1
      <4>3. QED
        BY <1>3, <1>6, <2>3, <4>1, <4>2
    <3>2. CASE ~(least + 2 <= Len(list))
      <4>1. AfterNext(list, least) = PageZero
        BY <3>2 DEF AfterNext
      <4>2. CASE PageZero.start < IdentityEnd
        <5>1. IdentityEnd + Growth <= list[least].start
          BY <2>3, <4>2 DEF ListLayout
        <5>2. QED
          BY <1>2, <1>3, <1>6, <2>3, <5>1
      <4>3. CASE IdentityEnd <= EndOf(PageZero)
        <5>1. EndOf(PageZero) \in Int
          <6>1. PageZero.start + PageZero.length \in Nat
            BY VmmAssumption
          <6>2. QED
            BY <6>1, Sizes DEF EndOf, Wrap, Space
        <5>2. QED
          BY <1>3, <1>6, <2>3, <4>1, <4>3, <5>1
      <4>4. QED
        BY <4>2, <4>3 DEF Layout
    <3>3. QED
      BY <3>1, <3>2
  <2>5. QED
    BY <1>8, <2>1, <2>3, <2>4
<1>10. CASE fits = {}
  <2>1. found = IF below(Len(list)) >= Bottom THEN below(Len(list)) ELSE Null
    BY <1>1, <1>7, <1>10, Zenon DEF FindFirstAlloc
  <2> HIDE DEF fits
  <2>2. CASE below(Len(list)) >= Bottom
    <3>1. IdentityEnd <= below(Len(list))
      BY <1>1, <1>3, <1>6, <2>2
    <3> HIDE DEF below
    <3>2. QED
      BY <1>1, <1>8, <2>1, <2>2, <3>1
  <2>3. CASE ~(below(Len(list)) >= Bottom)
    BY <2>1, <2>3
  <2>4. QED
    BY <2>2, <2>3
<1>11. QED
  BY <1>9, <1>10

-----------------------------------------------------------------------------
(* Memory and list together: what is mapped from the start of the heap on. *)

(* The pages of a region above the identity map belong to no table of it.  *)
LEMMA HighRegion ==
  ASSUME NEW a, Whole(a), IdentityEnd <= a, NEW size \in Nat, a + size <= Space
  PROVE  /\ Region(a, size) \subseteq Page
         /\ \A q \in Region(a, size) : TableOf(q) \notin StaticTables
<1>1. a \in Nat
  BY DEF Whole
<1>2. Region(a, size) \subseteq Page
  BY <1>1, RegionInSpace
<1>3. ASSUME NEW q \in Region(a, size) PROVE TableOf(q) \notin StaticTables
  <2>1. q \in Int /\ a <= Addr(q)
    BY RegionIs
  <2>2. q \in Page /\ Addr(q) \in Int /\ IdentityEnd \in Int
    BY <1>2, <2>1, AddrIs, Places
  <2>3. ~(Addr(q) < IdentityEnd)
    BY <1>1, <2>1, <2>2
  <2>4. QED
    BY <2>2, <2>3, PagePlace
<1>4. QED
  BY <1>2, <1>3

Present(m, P) == \A q \in P : m.pte[q] # NoPage

(* Every area taken for the heap is mapped, or memory is exhausted.        *)
HeapMapped(m, list) ==
  m.stop = "no" =>
    \A i \in StartingAt(list, HeapStart) :
      Exhausted(m) \/ Present(m, Region(HeapStart, list[i].length))

Good(m, list) ==
  /\ Fine(m, list) /\ Safe(m) /\ NoRec(m)
  /\ ListLayout(list) /\ HeapMapped(m, list)

(* The region of an area that starts where the heap starts.                *)
LEMMA HeapRegion ==
  ASSUME Layout, NEW list, ListInv(list), ListLayout(list),
         NEW i \in StartingAt(list, HeapStart)
  PROVE  /\ Region(HeapStart, list[i].length) \subseteq Page
         /\ \A q \in Region(HeapStart, list[i].length) : TableOf(q) \notin StaticTables
<1>1. /\ i \in 1 .. Len(list) /\ list[i] \in Area
      /\ EndOf(list[i]) = HeapStart + list[i].length
      /\ EndOf(list[i]) + Growth < Space
  BY ExtensionPlace
<1>2. list[i].length \in Nat /\ Growth \in Nat /\ Space \in Nat /\ HeapStart \in Nat
  BY <1>1, Sizes DEF Area
<1>3. HeapStart + list[i].length <= Space
  BY <1>1, <1>2
<1>4. Whole(HeapStart) /\ IdentityEnd <= HeapStart
  BY WholeConstants, HeapPlace
<1>5. QED
  BY <1>2, <1>3, <1>4, HighRegion

LEMMA PresentStays ==
  ASSUME NEW m, NEW new, Grows(m, new), NEW P, P \subseteq Page, Present(m, P)
  PROVE  Present(new, P)
BY DEF Present, Grows

(* Memory goes on, the list does not change.                               *)
LEMMA MemoryGood ==
  ASSUME Layout, NEW m, NEW list, Good(m, list),
         NEW new \in MemState, Exclusive(new), Grows(m, new), Safe(new), NoRec(new)
  PROVE  Good(new, list)
<1>1. ListInv(list) /\ ListLayout(list) /\ Fine(new, list)
  BY DEF Good, Fine
<1>2. ASSUME new.stop = "no", NEW i \in StartingAt(list, HeapStart)
      PROVE  Exhausted(new) \/ Present(new, Region(HeapStart, list[i].length))
  <2>1. m.stop = "no"
    BY <1>2 DEF Grows
  <2>2. Region(HeapStart, list[i].length) \subseteq Page
    BY <1>1, <1>2, HeapRegion
  <2>3. CASE Exhausted(m)
    BY <2>3, ExhaustedStays
  <2>4. CASE Present(m, Region(HeapStart, list[i].length))
    BY <2>2, <2>4, PresentStays
  <2>5. QED
    BY <1>2, <2>1, <2>3, <2>4 DEF Good, HeapMapped
<1>3. QED
  BY <1>1, <1>2 DEF Good, HeapMapped

(* vmalloc_request_more_memory: nothing, or the area i is extended in both *)
(* memory and list, even when there were not frames enough.                *)
Extends(m, list, r, i) ==
  LET end == HeapStart + list[i].length
  IN  /\ end + Growth <= list[1].start
      /\ \A j \in 1 .. Len(list) : ~Inside(list[j].start, end, end + Growth)
      /\ \A j \in 1 .. Len(list) : list[j].start # end + Growth
      /\ r.addr \in {end, Null}
      /\ Grows(m, r.mem)
      /\ r.mem.stop = "no" => Uses(m, r.mem, Region(end, Growth))
      /\ r.mem.stop = "no" /\ r.addr # Null =>
           Present(r.mem, Region(HeapStart, list[i].length + Growth))
      /\ r.addr = Null => Exhausted(r.mem)
      /\ r.mem.stop = "no" /\ Exhausted(m) => r.mem = m
      /\ Len(r.areas) = Len(list)
      /\ \A j \in 1 .. Len(list) : r.areas[j].start = list[j].start
      /\ \A j \in 1 .. Len(list) : j # i => r.areas[j] = list[j]
      /\ r.areas[i].length = list[i].length + Growth

LEMMA MoreGood ==
  ASSUME Layout, NEW m, NEW list, Good(m, list),
         NEW r, r = RequestMore(m, list)
  PROVE  /\ Good(r.mem, r.areas)
         /\ \/ r.mem = m /\ r.areas = list /\ r.addr = Null
            \/ \E i \in StartingAt(list, HeapStart) :
                 Extends(m, list, r, i) /\ ~Exists(list, EndOf(list[i]), Growth)
<1> DEFINE S == StartingAt(list, HeapStart)
           i == Least(S)
           end == EndOf(list[i])
           got == VmallocCore(m, end, Growth, FALSE)
           longer == [list EXCEPT ![i].length = @ + Growth]
<1>1. CASE S = {} \/ Exists(list, end, Growth)
  <2>1. r = [mem |-> m, areas |-> list, addr |-> Null]
    BY <1>1 DEF RequestMore
  <2>2. QED
    BY <2>1
<1>2. CASE S # {} /\ ~Exists(list, end, Growth)
  <2>1. r = [mem |-> got.mem, addr |-> got.addr, areas |-> longer]
    BY <1>2 DEF RequestMore
  <2>2. /\ m \in MemState /\ Exclusive(m) /\ ListInv(list) /\ ListLayout(list)
        /\ list \in Seq(Area) /\ Safe(m) /\ NoRec(m)
    BY DEF Good, Fine, ListInv
  <2>3. i \in S
    <3>1. S \subseteq Nat
      BY <2>2 DEF StartingAt
    <3> HIDE DEF S
    <3>2. QED
      BY <1>2, <3>1, LeastIs
  <2>4. i \in StartingAt(list, HeapStart) /\ ~Exists(list, EndOf(list[i]), Growth)
    BY <1>2, <2>3
  <2> HIDE DEF i, S
  <2>5. /\ i \in 1 .. Len(list) /\ list[i] \in Area
        /\ end = HeapStart + list[i].length
        /\ end + Growth < Space
        /\ end + Growth <= list[1].start
        /\ \A j \in 1 .. Len(list) : ~Inside(list[j].start, end, end + Growth)
        /\ \A j \in 1 .. Len(list) : list[j].start # end + Growth
    BY <2>2, <2>4, ExtensionPlace
  <2>6. /\ ListLayout(longer) /\ Len(longer) = Len(list)
        /\ \A j \in 1 .. Len(list) : longer[j].start = list[j].start
        /\ longer[i].length = list[i].length + Growth
        /\ \A j \in 1 .. Len(list) : j # i => longer[j] = list[j]
    BY <2>2, <2>4, LongerLayout
  <2>7. ListInv(longer)
    BY <2>2, <2>5, LongerKeeps
  <2>8. /\ Whole(end) /\ end \in Nat /\ end # Null /\ IdentityEnd <= end
        /\ list[i].length \in Nat /\ HeapStart \in Nat
    <3>1. Whole(end) /\ end \in Nat
      BY <2>5, EndIs DEF Whole
    <3>2. list[i].length \in Nat /\ HeapStart \in Nat \ {0} /\ IdentityEnd \in Nat
      BY <2>5, Sizes, Places DEF Area
    <3>3. IdentityEnd <= HeapStart
      BY HeapPlace
    <3>4. QED
      BY <2>5, <3>1, <3>2, <3>3 DEF Null
  <2> HIDE DEF end, longer
  <2>9. Growth \in Nat \ {0} /\ Space \in Nat /\ Whole(HeapStart) /\ FALSE \in BOOLEAN
    BY Sizes, WholeConstants
  <2>10. /\ Region(end, Growth) \subseteq Page
         /\ \A q \in Region(end, Growth) : TableOf(q) \notin StaticTables
    <3>1. end + Growth <= Space
      BY <2>5, <2>8, <2>9
    <3>2. QED
      BY <2>8, <2>9, <3>1, HighRegion
  <2>11. /\ got.mem \in MemState /\ Exclusive(got.mem) /\ got.addr \in {end, Null}
    BY <2>2, <2>8, <2>9, CoreKeeps
  <2>12. /\ Grows(m, got.mem) /\ NoRec(got.mem) /\ Safe(got.mem)
         /\ got.mem.stop = "no" => Uses(m, got.mem, Region(end, Growth))
         /\ got.mem.stop = "no" /\ got.addr # Null => Present(got.mem, Region(end, Growth))
         /\ got.addr = Null => Exhausted(got.mem)
    BY <2>2, <2>8, <2>9, <2>10, CoreDoes DEF Present
  <2>13. ASSUME m.stop = "no", Exhausted(m) PROVE got.mem = m /\ got.addr = Null
    <3>1. NumPages(Growth) \in Nat \ {0}
      BY <2>9, PagesWhole, PagesFit
    <3> DEFINE flag == FALSE
    <3>2. flag \in BOOLEAN /\ ~flag /\ got = VmallocCore(m, end, Growth, flag)
      OBVIOUS
    <3> HIDE DEF got, flag
    <3>3. QED
      BY <2>2, <2>13, <3>1, <3>2, CoreExhausted
  <2> HIDE DEF got
  <2>14. r.mem = got.mem /\ r.addr = got.addr /\ r.areas = longer
    BY <2>1
  <2>15. ASSUME got.mem.stop = "no", got.addr # Null
         PROVE  Present(got.mem, Region(HeapStart, list[i].length + Growth))
    <3>1. m.stop = "no"
      BY <2>12, <2>15 DEF Grows
    <3>2. Present(m, Region(HeapStart, list[i].length))
      BY <2>4, <2>13, <2>15, <3>1 DEF Good, HeapMapped
    <3>3. Region(HeapStart, list[i].length) \subseteq Page
      BY <2>2, <2>4, HeapRegion
    <3>4. Present(got.mem, Region(HeapStart, list[i].length))
      BY <2>12, <3>2, <3>3, PresentStays
    <3>5. list[i].length + Growth \in Nat
      BY <2>8, <2>9
    <3>6. ASSUME NEW q \in Region(HeapStart, list[i].length + Growth)
          PROVE  q \in Region(HeapStart, list[i].length) \/ q \in Region(end, Growth)
      <4>1. /\ q \in Int /\ HeapStart <= Addr(q)
            /\ Addr(q) < HeapStart + (list[i].length + Growth)
        BY <2>9, <3>5, RegionIs
      <4>2. Addr(q) \in Int
        BY <4>1, AddrIs
      <4>3. CASE Addr(q) < HeapStart + list[i].length
        BY <2>8, <2>9, <4>1, <4>3, RegionIs
      <4>4. CASE ~(Addr(q) < HeapStart + list[i].length)
        <5>1. end <= Addr(q) /\ Addr(q) < end + Growth
          BY <2>5, <2>8, <2>9, <4>1, <4>2, <4>4
        <5>2. QED
          BY <2>8, <2>9, <4>1, <5>1, RegionIs
      <4>5. QED
        BY <4>3, <4>4
    <3>7. QED
      BY <2>12, <2>15, <3>4, <3>6 DEF Present
  <2>16. Good(got.mem, list)
    BY <2>2, <2>11, <2>12, MemoryGood
  <2>17. ASSUME got.mem.stop = "no", NEW j \in StartingAt(longer, HeapStart)
         PROVE  Exhausted(got.mem) \/ Present(got.mem, Region(HeapStart, longer[j].length))
    <3>1. j \in 1 .. Len(list) /\ j \in StartingAt(list, HeapStart)
      <4>1. longer \in Seq(Area)
        BY <2>7 DEF ListInv
      <4>2. QED
        BY <2>2, <2>6, <2>17, <4>1 DEF StartingAt
    <3>2. CASE j = i
      BY <2>6, <2>12, <2>15, <2>17, <3>2
    <3>3. CASE j # i
      BY <2>6, <2>16, <2>17, <3>1, <3>3 DEF Good, HeapMapped
    <3>4. QED
      BY <3>2, <3>3
  <2>18. Good(got.mem, longer)
    BY <2>6, <2>7, <2>11, <2>12, <2>17 DEF Good, HeapMapped, Fine
  <2>19. got.mem.stop = "no" /\ Exhausted(m) => got.mem = m
    BY <2>12, <2>13 DEF Grows
  <2>20. Extends(m, list, r, i)
    BY <2>5, <2>6, <2>11, <2>12, <2>14, <2>15, <2>19 DEF Extends
  <2>21. QED
    BY <2>4, <2>14, <2>18, <2>20
<1>3. QED
  BY <1>1, <1>2

(* One call of vmalloc inside kmalloc.                                     *)
LEMMA NewRangeGood ==
  ASSUME Layout, NEW s, Good(s.mem, s.areas), NEW mmio \in BOOLEAN,
         NEW t, t = NewRange(s, mmio)
  PROVE  Good(t.mem, t.areas) /\ t.areas[1].start = s.areas[1].start
<1> DEFINE more  == RequestMore(s.mem, s.areas)
           found == FindFirstAlloc(more.areas, Growth)
           core  == VmallocCore(more.mem, found, Growth, mmio)
           null  == [core.mem EXCEPT !.stop = "null"]
           P     == Region(found, Growth)
<1>1. t = [mem |-> IF core.addr = Null THEN null ELSE core.mem, areas |-> more.areas]
  BY DEF NewRange
<1>2. /\ Good(more.mem, more.areas)
      /\ \/ more.areas = s.areas
         \/ \E i \in StartingAt(s.areas, HeapStart) : Extends(s.mem, s.areas, more, i)
  BY MoreGood
<1> HIDE DEF more
<1>3. more.areas[1].start = s.areas[1].start
  <2>1. 1 \in 1 .. Len(s.areas)
    BY DEF Good, Fine, ListInv, ListLayout
  <2>2. QED
    BY <1>2, <2>1 DEF Extends
<1>4. /\ more.mem \in MemState /\ Exclusive(more.mem)
      /\ ListInv(more.areas) /\ ListLayout(more.areas)
      /\ Safe(more.mem) /\ NoRec(more.mem)
  BY <1>2 DEF Good, Fine
<1>5. /\ Whole(found) /\ found \in Nat
      /\ \/ found = Null
         \/ /\ IdentityEnd <= found
            /\ found + Growth <= more.areas[1].start
  BY <1>4, FoundWhole, FoundPlace DEF Whole
<1>6. /\ Growth \in Nat \ {0} /\ Space \in Nat /\ more.areas[1].start \in Nat
      /\ more.areas[1].start < Space /\ Growth <= Space
  <2>1. more.areas[1] \in Area /\ Placed(more.areas[1])
    BY <1>4 DEF ListInv, ListLayout
  <2>2. /\ Growth <= TableSize /\ RecursiveStart + TableSize < Space
        /\ RecursiveStart \in Nat /\ TableSize \in Nat
    BY Places
  <2>3. QED
    BY <2>1, <2>2, Sizes DEF Area, Placed
<1> HIDE DEF found
<1>7. found + Growth <= Space /\ P \subseteq Page
  <2>1. found + Growth <= Space
    BY <1>5, <1>6 DEF Null
  <2>2. QED
    BY <1>5, <1>6, <2>1, RegionInSpace
<1>8. /\ core.mem \in MemState /\ Exclusive(core.mem) /\ core.addr \in {found, Null}
  BY <1>4, <1>5, <1>6, CoreKeeps
<1>9. /\ Grows(more.mem, core.mem) /\ NoRec(core.mem)
      /\ (\A q \in P : TableOf(q) \notin StaticTables) => Safe(core.mem)
  BY <1>4, <1>5, <1>6, <1>7, CoreDoes
<1> HIDE DEF core
<1>10. CASE core.addr = Null
  <2>1. t.mem = null /\ t.areas = more.areas
    BY <1>1, <1>10
  <2>2. /\ null \in MemState
        /\ null.pde = core.mem.pde /\ null.pte = core.mem.pte
        /\ null.bitmap = core.mem.bitmap /\ null.stop = "null"
    BY <1>8 DEF MemState, Reason
  <2> HIDE DEF null
  <2>3. Exclusive(null)
    BY <1>8, <2>2 DEF Exclusive, Backed, HasFrame
  <2>4. Good(null, more.areas)
    BY <1>4, <1>9, <2>2, <2>3 DEF Good, Fine, Safe, NoRec, HeapMapped
  <2>5. QED
    BY <1>3, <2>1, <2>4
<1>11. CASE core.addr # Null
  <2>1. IdentityEnd <= found
    BY <1>5, <1>8, <1>11
  <2>2. \A q \in P : TableOf(q) \notin StaticTables
    BY <1>5, <1>6, <1>7, <2>1, HighRegion
  <2>3. Good(core.mem, more.areas)
    BY <1>2, <1>8, <1>9, <2>2, MemoryGood
  <2>4. t.mem = core.mem /\ t.areas = more.areas
    BY <1>1, <1>11
  <2>5. QED
    BY <1>3, <2>3, <2>4
<1>12. QED
  BY <1>10, <1>11

(* kmalloc of an area struct.                                              *)
LEMMA KmallocGood ==
  ASSUME Layout, NEW m, NEW list, Good(m, list), NEW s \in AfterKmalloc(m, list)
  PROVE  /\ Good(s.mem, s.areas)
         /\ s.mem.stop = "no" => Grows(m, s.mem)
         /\ s.areas[1].start = list[1].start
<1> DEFINE grown == RequestMore(m, list)
<1>1. /\ Good(grown.mem, grown.areas)
      /\ \/ grown.mem = m /\ grown.areas = list /\ grown.addr = Null
         \/ \E i \in StartingAt(list, HeapStart) : Extends(m, list, grown, i)
  BY MoreGood
<1>2. 1 \in 1 .. Len(list)
  BY DEF Good, Fine, ListInv, ListLayout
<1> HIDE DEF grown
<1>3. Grows(m, grown.mem) /\ grown.areas[1].start = list[1].start
  BY <1>1, <1>2, GrowsSelf DEF Extends
<1>4. \/ s = [mem |-> m, areas |-> list]
      \/ s = [mem |-> grown.mem, areas |-> grown.areas]
      \/ s \in OutOfMemory(m, list)
  BY DEF AfterKmalloc, grown
<1>5. CASE s \in OutOfMemory(m, list)
  <2> DEFINE I == {t \in [mem : MemState, areas : Seq(Area)] :
                     Good(t.mem, t.areas) /\ t.areas[1].start = list[1].start}
             start == [mem |-> m, areas |-> list]
  <2>1. start \in I
    BY DEF Good, Fine, ListInv
  <2>2. ASSUME NEW t \in I, NEW mmio \in BOOLEAN PROVE NewRange(t, mmio) \in I
    <3> DEFINE new == NewRange(t, mmio)
    <3>1. Good(new.mem, new.areas) /\ new.areas[1].start = list[1].start
      BY NewRangeGood
    <3>2. new = [mem |-> new.mem, areas |-> new.areas]
      BY DEF NewRange
    <3> HIDE DEF new
    <3>3. new \in I
      BY <3>1, <3>2 DEF Good, Fine, ListInv
    <3>4. QED
      BY <3>3 DEF new
  <2> HIDE DEF I
  <2>3. s \in I /\ s.mem.stop # "no"
    BY <1>5, <2>1, <2>2, DeepKeeps
  <2>4. QED
    BY <2>3 DEF I
<1>6. QED
  BY <1>1, <1>3, <1>4, <1>5, GrowsSelf

LEMMA RegionWhole ==
  ASSUME NEW a, NEW size \in Nat
  PROVE  Region(a, NumPages(size) * PageSize) = Region(a, size)
<1> DEFINE n == NumPages(size)
           b == n * PageSize
           k == NumPages(b)
<1>1. n \in Nat /\ Whole(b) /\ b \in Nat /\ PageSize \in Nat \ {0}
  BY PagesWhole, Sizes DEF Whole
<1> HIDE DEF n
<1>2. k \in Nat /\ k * PageSize = b
  <2> HIDE DEF b
  <2>1. QED
    BY <1>1, PagesWhole, PagesFit
<1> HIDE DEF k
<1>3. k <= n /\ n <= k
  <2>1. k <= n <=> k * PageSize <= n * PageSize
    BY <1>1, <1>2, MulOrder
  <2>2. n <= k <=> n * PageSize <= k * PageSize
    BY <1>1, <1>2, MulOrder
  <2>3. QED
    BY <1>1, <1>2, <2>1, <2>2
<1>4. k = n
  BY <1>1, <1>2, <1>3
<1>5. QED
  BY <1>4 DEF Region, n, k, b

(* insert_new_vm_area makes no area but the new one.                       *)
LEMMA InsertFrom ==
  ASSUME NEW list \in Seq(Area), list # << >>, NEW new \in Area,
         NEW out, out = InsertNewArea(list, new)
  PROVE  /\ out \in Seq(Area)
         /\ \A i \in 1 .. Len(out) : out[i] = new \/ \E j \in 1 .. Len(list) : out[i] = list[j]
<1>1. Len(list) \in Nat
  OBVIOUS
<1>2. /\ out \in Seq(Area)
      /\ \/ Longer(list, new, out)
         \/ \E k \in 1 .. Len(list) : Ended(list, new, out, k)
         \/ out = list
  BY InsertCases
<1>3. ASSUME Longer(list, new, out), NEW i \in 1 .. Len(out)
      PROVE  out[i] = new \/ \E j \in 1 .. Len(list) : out[i] = list[j]
  <2>1. i = 1 \/ (i \in 2 .. 1 + Len(list) /\ i - 1 \in 1 .. Len(list))
    <3>1. Len(out) = 1 + Len(list) /\ Len(list) \in Nat
      BY <1>1, <1>3 DEF Longer
    <3>2. QED
      BY <1>3, <3>1
  <2>2. QED
    BY <1>3, <2>1 DEF Longer
<1>4. ASSUME NEW k \in 1 .. Len(list), Ended(list, new, out, k), NEW i \in 1 .. Len(out)
      PROVE  out[i] = new \/ \E j \in 1 .. Len(list) : out[i] = list[j]
  <2>1. i = k + 1 \/ (i \in 1 .. k /\ i \in 1 .. Len(list))
    <3>1. Len(out) = k + 1 /\ Len(list) \in Nat
      BY <1>1, <1>4 DEF Ended
    <3>2. QED
      BY <1>4, <3>1
  <2>2. QED
    BY <1>4, <2>1 DEF Ended
<1>5. QED
  BY <1>2, <1>3, <1>4

(* An area whose region is mapped enters the list.                         *)
LEMMA InsertGood ==
  ASSUME Layout, NEW m, NEW list, Good(m, list),
         NEW start, Whole(start), NEW size \in Nat,
         NEW new, new = NewArea(start, size), Placed(new),
         start = HeapStart => HeapStart + new.length <= list[1].start,
         m.stop = "no" => Present(m, Region(start, size)),
         NEW after, after = AfterInsert(m, list, new),
         NEW out, out = InsertNewArea(list, new)
  PROVE  Good(after, out) /\ (after.stop = "no" => after = m)
<1>1. /\ m \in MemState /\ Exclusive(m) /\ ListInv(list) /\ ListLayout(list)
      /\ list \in Seq(Area) /\ list # << >> /\ Len(list) \in Nat
      /\ Safe(m) /\ NoRec(m) /\ Fine(m, list)
  BY DEF Good, Fine, ListInv
<1>2. new \in Area /\ new.start = start
  BY NewAreaIs
<1>3. new.length = NumPages(size) * PageSize
  BY DEF NewArea
<1>4. Fine(after, out)
  BY <1>1, InsertFine
<1>5. after = m \/ after = [m EXCEPT !.stop = "insertion"]
  BY DEF AfterInsert
<1>6. (after.stop = "no" => after = m) /\ Safe(after) /\ NoRec(after)
  <2>1. CASE after = m
    BY <1>1, <2>1
  <2>2. CASE after = [m EXCEPT !.stop = "insertion"]
    <3>1. after.stop = "insertion" /\ after.pte = m.pte
      BY <1>1, <2>2 DEF MemState
    <3>2. QED
      BY <1>1, <3>1 DEF Safe, NoRec
  <2>3. QED
    BY <1>5, <2>1, <2>2
<1>7. ListLayout(out)
  BY <1>1, <1>2, InsertLayout
<1>8. /\ out \in Seq(Area)
      /\ \A i \in 1 .. Len(out) : out[i] = new \/ \E j \in 1 .. Len(list) : out[i] = list[j]
  BY <1>1, <1>2, InsertFrom
<1>9. ASSUME after.stop = "no", NEW i \in StartingAt(out, HeapStart)
       PROVE  Exhausted(after) \/ Present(after, Region(HeapStart, out[i].length))
  <2>1. after = m /\ m.stop = "no"
    BY <1>6, <1>9
  <2>2. i \in 1 .. Len(out) /\ out[i].start = HeapStart
    BY <1>8, <1>9 DEF StartingAt
  <2>3. CASE out[i] = new
    <3>1. Present(m, Region(HeapStart, size))
      BY <1>2, <2>1, <2>2, <2>3
    <3>2. QED
      BY <1>3, <2>1, <2>3, <3>1, RegionWhole
  <2>4. ASSUME NEW j \in 1 .. Len(list), out[i] = list[j]
        PROVE  Exhausted(m) \/ Present(m, Region(HeapStart, out[i].length))
    <3>1. j \in StartingAt(list, HeapStart)
      BY <1>1, <2>2, <2>4 DEF StartingAt
    <3>2. QED
      BY <2>1, <2>4, <3>1 DEF Good, HeapMapped
  <2>5. QED
    BY <1>8, <2>1, <2>2, <2>3, <2>4
<1>10. QED
  BY <1>4, <1>6, <1>7, <1>9 DEF Good, HeapMapped

GoodInv == Good(mem, areas) /\ ReturnedIsMapped

LEMMA DeviceGood ==
  ASSUME Layout, GoodInv, NEW d \in Devices, MapDevice(d[1], d[2])
  PROVE  GoodInv'
<1> DEFINE a == d[1]
           size == d[2]
           got == VmallocCore(mem, a, size, TRUE)
           new == NewArea(a, size)
           P == Region(a, size)
<1>1. /\ Whole(a) /\ a \in Nat /\ size \in Nat \ {0} /\ IdentityEnd <= a
      /\ a + NumPages(size) * PageSize < Space /\ a + Growth < Space
  BY WholeConstants, VmmAssumption, Places DEF Layout, Whole
<1>2. /\ ~Exists(areas, a, size)
      /\ ret' = Result("mmio", a, size, a)
  BY DEF MapDevice
<1>3. PICK s \in AfterKmalloc(got.mem, areas) :
        /\ mem' = AfterInsert(s.mem, s.areas, new)
        /\ areas' = InsertNewArea(s.areas, new)
  BY DEF MapDevice
<1>4. /\ mem \in MemState /\ Exclusive(mem) /\ ListInv(areas) /\ ListLayout(areas)
      /\ areas \in Seq(Area) /\ Safe(mem) /\ NoRec(mem) /\ Good(mem, areas)
  BY DEF GoodInv, Good, Fine, ListInv
<1> HIDE DEF a, size
<1>5. /\ NumPages(size) * PageSize \in Nat /\ size <= NumPages(size) * PageSize
      /\ Space \in Nat /\ IdentityEnd \in Nat /\ HeapStart \in Nat
  BY <1>1, PagesFit, Sizes, Places
<1>6. a + size < Space /\ a + size <= Space /\ a + size \in Nat
  BY <1>1, <1>5
<1>7. /\ P \subseteq Page
      /\ \A q \in P : TableOf(q) \notin StaticTables
  BY <1>1, <1>6, HighRegion
<1>8. /\ got.mem \in MemState /\ Exclusive(got.mem) /\ got.addr \in {a, Null}
  BY <1>1, <1>4, CoreKeeps
<1>9. /\ Grows(mem, got.mem) /\ NoRec(got.mem) /\ Safe(got.mem)
      /\ got.mem.stop = "no" /\ got.addr # Null => Present(got.mem, P)
  BY <1>1, <1>4, <1>7, CoreDoes DEF Present
<1>10. got.addr = a /\ a # Null
  <2>1. got.addr = a
    BY DEF VmallocCore, CoreMmio
  <2>2. IdentityEnd \in Nat \ {0}
    BY Places
  <2>3. a # Null
    BY <1>1, <2>2 DEF Null
  <2>4. QED
    BY <2>1, <2>3
<1> HIDE DEF got
<1>11. Good(got.mem, areas)
  BY <1>4, <1>8, <1>9, MemoryGood
<1>12. /\ Good(s.mem, s.areas)
       /\ s.mem.stop = "no" => Grows(got.mem, s.mem)
       /\ s.areas[1].start = areas[1].start
  BY <1>11, KmallocGood
<1>13. s.mem.stop = "no" => Present(s.mem, P)
  BY <1>7, <1>9, <1>10, <1>12, PresentStays DEF Grows
<1>14. new.start = a /\ new.length = NumPages(size) * PageSize
  BY DEF NewArea
<1>15. Placed(new)
  <2>1. NumPages(size) * PageSize > 0
    BY <1>1, <1>5
  <2>2. QED
    BY <1>1, <1>14, <2>1 DEF Placed
<1>16. a = HeapStart => HeapStart + new.length <= s.areas[1].start
  <2>1. SUFFICES ASSUME a = HeapStart PROVE HeapStart + new.length <= areas[1].start
    BY <1>12
  <2>2. 1 \in DOMAIN areas /\ areas[1] \in Area
    BY <1>4 DEF ListInv
  <2>3. Whole(areas[1].start) /\ areas[1].start \in Nat
    BY <2>2 DEF Area
  <2>4. Wrap(a + size) = a + size
    BY <1>6, WrapSame
  <2>5. ~Inside(areas[1].start, a, a + size)
    BY <1>2, <2>2, <2>4 DEF Exists
  <2>6. RecursiveStart <= areas[1].start /\ HeapStart < RecursiveStart
        /\ RecursiveStart \in Nat
    BY <1>4, HeapPlace, Places DEF ListLayout
  <2>7. a + size <= areas[1].start
    BY <1>5, <1>6, <2>1, <2>3, <2>5, <2>6 DEF Inside
  <2> DEFINE gap == areas[1].start - a
  <2>8. Whole(gap) /\ size <= gap
    <3>1. areas[1].start >= a
      BY <1>1, <2>3, <2>7
    <3>2. Whole(gap)
      BY <1>1, <2>3, <3>1, WholeSum
    <3>3. QED
      BY <1>1, <2>3, <2>7, <3>2
  <2> HIDE DEF gap
  <2>9. NumPages(size) * PageSize <= gap
    BY <1>1, <2>8, PagesFit
  <2>10. QED
    BY <1>1, <1>5, <1>14, <2>1, <2>3, <2>9 DEF gap
<1> HIDE DEF P
<1>17. Good(mem', areas') /\ (mem'.stop = "no" => mem' = s.mem)
  BY <1>1, <1>3, <1>12, <1>13, <1>15, <1>16, InsertGood DEF P
<1>18. /\ ret'.op = "mmio" /\ ret'.addr = a /\ ret'.size = size
  BY <1>2 DEF Result
<1>19. mem'.stop = "no" => P \subseteq Mapped'
  BY <1>7, <1>13, <1>17 DEF Mapped, Present
<1>20. ReturnedIsMapped'
  BY <1>18, <1>19 DEF ReturnedIsMapped, HeapStaysWhole, P
<1>21. QED
  BY <1>17, <1>20 DEF GoodInv

LEMMA HeapGrowsGood ==
  ASSUME Layout, GoodInv, HeapGrows
  PROVE  GoodInv'
<1> DEFINE more == RequestMore(mem, areas)
<1>1. /\ mem' = more.mem /\ areas' = more.areas /\ more.addr # Null
      /\ ret' = Result("more", more.addr, Growth, more.addr)
  BY DEF HeapGrows
<1>2. Good(mem, areas)
  BY DEF GoodInv
<1>3. /\ Good(more.mem, more.areas)
      /\ \/ more.mem = mem /\ more.areas = areas /\ more.addr = Null
         \/ \E i \in StartingAt(areas, HeapStart) : Extends(mem, areas, more, i)
  BY <1>2, MoreGood
<1> HIDE DEF more
<1>4. PICK i \in StartingAt(areas, HeapStart) : Extends(mem, areas, more, i)
  BY <1>1, <1>3
<1> DEFINE length == areas[i].length
           end == HeapStart + length
           P == Region(HeapStart, length + Growth)
<1>5. ListInv(areas) /\ ListLayout(areas)
  BY <1>2 DEF Good, Fine
<1>6. /\ i \in 1 .. Len(areas) /\ areas[i] \in Area
      /\ end = EndOf(areas[i]) /\ end + Growth < Space
  BY <1>5, ExtensionPlace
<1>7. /\ length \in Nat /\ Growth \in Nat /\ HeapStart \in Nat /\ Space \in Nat
      /\ Whole(HeapStart) /\ IdentityEnd <= HeapStart /\ Whole(end)
  BY <1>6, Sizes, WholeConstants, HeapPlace, EndIs DEF Area
<1>8. /\ more.addr = end
      /\ more.mem.stop = "no" => Present(more.mem, P)
  BY <1>1, <1>4 DEF Extends
<1> HIDE DEF length
<1>9. /\ P \subseteq Page
      /\ \A q \in P : TableOf(q) \notin StaticTables
  <2>1. length + Growth \in Nat /\ HeapStart + (length + Growth) <= Space
    BY <1>6, <1>7
  <2>2. QED
    BY <1>7, <2>1, HighRegion
<1>10. end + Growth - HeapStart = length + Growth
  BY <1>7
<1> HIDE DEF P
<1>11. mem'.stop = "no" => P \subseteq Mapped'
  BY <1>1, <1>8, <1>9 DEF Mapped, Present
<1>12. Region(end, Growth) \subseteq P
  <2>1. ASSUME NEW q \in Region(end, Growth) PROVE q \in P
    <3>1. q \in Int /\ end <= Addr(q) /\ Addr(q) < end + Growth
      BY <1>7, RegionIs
    <3>2. Addr(q) \in Int /\ length + Growth \in Nat
      BY <1>7, <3>1, AddrIs
    <3>3. HeapStart <= Addr(q) /\ Addr(q) < HeapStart + (length + Growth)
      BY <1>7, <3>1, <3>2
    <3>4. QED
      BY <1>7, <3>1, <3>2, <3>3, RegionIs DEF P
  <2>2. QED
    BY <2>1
<1>13. ret'.op = "more" /\ ret'.addr = end /\ ret'.size = Growth
  BY <1>1, <1>8 DEF Result
<1>14. ReturnedIsMapped'
  <2>1. mem'.stop = "no" => Region(ret'.addr, ret'.size) \subseteq Mapped'
    BY <1>11, <1>12, <1>13
  <2>2. mem'.stop = "no" =>
          Region(HeapStart, ret'.addr + ret'.size - HeapStart) \subseteq Mapped'
    BY <1>10, <1>11, <1>13 DEF P
  <2>3. QED
    BY <2>1, <2>2 DEF ReturnedIsMapped, HeapStaysWhole
<1>15. QED
  BY <1>1, <1>3, <1>14 DEF GoodInv

LEMMA MovesOnGood ==
  ASSUME Layout, GoodInv, NEW mmio \in BOOLEAN, HeapMovesOn(mmio)
  PROVE  GoodInv'
<1> DEFINE more  == RequestMore(mem, areas)
           found == FindFirstAlloc(more.areas, Growth)
           core  == VmallocCore(more.mem, found, Growth, mmio)
           new   == NewArea(found, Growth)
           P     == Region(found, Growth)
<1>1. /\ IF core.addr = Null
         THEN mem' = [core.mem EXCEPT !.stop = "null"] /\ areas' = more.areas
         ELSE /\ mem' = AfterInsert(core.mem, more.areas, new)
              /\ areas' = InsertNewArea(more.areas, new)
      /\ ret' = Result("vmalloc", found, Growth, core.addr)
  BY DEF HeapMovesOn
<1>2. Good(more.mem, more.areas)
  BY MoreGood DEF GoodInv
<1> HIDE DEF more
<1>3. /\ more.mem \in MemState /\ Exclusive(more.mem)
      /\ ListInv(more.areas) /\ ListLayout(more.areas)
      /\ Safe(more.mem) /\ NoRec(more.mem)
  BY <1>2 DEF Good, Fine
<1>4. /\ Whole(found) /\ found \in Nat
      /\ \/ found = Null
         \/ /\ IdentityEnd <= found
            /\ found + Growth <= more.areas[1].start
  BY <1>3, FoundWhole, FoundPlace DEF Whole
<1>5. /\ Growth \in Nat \ {0} /\ Space \in Nat /\ HeapStart \in Nat
      /\ more.areas[1].start \in Nat
      /\ more.areas[1].start + Growth < Space /\ more.areas[1].start < Space
      /\ Growth <= Space
  <2>1. more.areas[1] \in Area /\ Placed(more.areas[1])
    BY <1>3 DEF ListInv, ListLayout
  <2>2. /\ Growth <= TableSize /\ RecursiveStart + TableSize < Space
        /\ RecursiveStart \in Nat /\ TableSize \in Nat
    BY Places
  <2>3. QED
    BY <2>1, <2>2, Sizes DEF Area, Placed
<1> HIDE DEF found
<1>6. P \subseteq Page
  <2>1. found + Growth <= Space
    BY <1>4, <1>5 DEF Null
  <2>2. QED
    BY <1>4, <1>5, <2>1, RegionInSpace
<1>7. /\ core.mem \in MemState /\ Exclusive(core.mem) /\ core.addr \in {found, Null}
  BY <1>3, <1>4, <1>5, CoreKeeps
<1>8. /\ Grows(more.mem, core.mem) /\ NoRec(core.mem)
      /\ (\A q \in P : TableOf(q) \notin StaticTables) => Safe(core.mem)
      /\ core.mem.stop = "no" /\ core.addr # Null => Present(core.mem, P)
  BY <1>3, <1>4, <1>5, <1>6, CoreDoes DEF Present
<1> HIDE DEF core
<1>9. CASE core.addr = Null
  <2> DEFINE m == [core.mem EXCEPT !.stop = "null"]
  <2>1. mem' = m /\ areas' = more.areas /\ ret'.addr = Null /\ ret'.op = "vmalloc"
    BY <1>1, <1>9 DEF Result
  <2>2. /\ m \in MemState
        /\ m.pde = core.mem.pde /\ m.pte = core.mem.pte
        /\ m.bitmap = core.mem.bitmap /\ m.stop = "null"
    BY <1>7 DEF MemState, Reason
  <2> HIDE DEF m
  <2>3. Exclusive(m)
    BY <1>7, <2>2 DEF Exclusive, Backed, HasFrame
  <2>4. Good(m, more.areas)
    BY <1>3, <1>8, <2>2, <2>3 DEF Good, Fine, Safe, NoRec, HeapMapped
  <2>5. ReturnedIsMapped'
    BY <2>1 DEF ReturnedIsMapped, HeapStaysWhole
  <2>6. QED
    BY <2>1, <2>4, <2>5 DEF GoodInv
<1>10. CASE core.addr # Null
  <2>1. core.addr = found /\ found # Null
    BY <1>7, <1>10
  <2>2. IdentityEnd <= found /\ found + Growth <= more.areas[1].start
    BY <1>4, <2>1
  <2>3. \A q \in P : TableOf(q) \notin StaticTables
    <3>1. found + Growth <= Space
      BY <1>4, <1>5, <2>2
    <3>2. QED
      BY <1>4, <1>5, <2>2, <3>1, HighRegion
  <2>4. Good(core.mem, more.areas)
    BY <1>2, <1>7, <1>8, <2>3, MemoryGood
  <2>5. new.start = found /\ new.length = Growth
    <3>1. NumPages(Growth) * PageSize = Growth
      BY <1>5, PagesFit, WholeConstants
    <3>2. QED
      BY <3>1 DEF NewArea
  <2>6. Placed(new)
    BY <1>4, <1>5, <2>2, <2>5 DEF Placed
  <2>7. found = HeapStart => HeapStart + new.length <= more.areas[1].start
    BY <2>2, <2>5
  <2> HIDE DEF P, new
  <2>8. mem' = AfterInsert(core.mem, more.areas, new)
        /\ areas' = InsertNewArea(more.areas, new)
    BY <1>1, <1>10
  <2>9. Good(mem', areas') /\ (mem'.stop = "no" => mem' = core.mem)
    BY <1>4, <1>5, <1>8, <1>10, <2>4, <2>6, <2>7, <2>8, InsertGood DEF P, new
  <2>10. ret'.op = "vmalloc" /\ ret'.addr = found /\ ret'.size = Growth
    BY <1>1, <2>1 DEF Result
  <2>11. mem'.stop = "no" => P \subseteq Mapped'
    BY <1>6, <1>8, <1>10, <2>3, <2>9 DEF Mapped, Present
  <2>12. ReturnedIsMapped'
    BY <2>10, <2>11 DEF ReturnedIsMapped, HeapStaysWhole, P
  <2>13. QED
    BY <2>9, <2>12 DEF GoodInv
<1>11. QED
  BY <1>9, <1>10

(* The areas of init_vmm: the heap, with the recursive region as the head. *)
LEMMA FirstAreas ==
  ASSUME Layout,
         NEW heap, heap = NewArea(HeapStart, HeapSize),
         NEW rec, rec = NewArea(RecursiveStart, TableSize),
         NEW one \in Seq(Area), one # << >>, Len(one) = 1, one[1] = heap,
         NEW list, list = InsertNewArea(one, rec)
  PROVE  /\ ListInv(list) /\ ListLayout(list)
         /\ \A i \in StartingAt(list, HeapStart) : list[i] = heap
         /\ Len(list) = 2 /\ list[1] = rec /\ list[2] = heap
         /\ heap.length = HeapSize
<1>1. /\ heap \in Area /\ heap.start = HeapStart
      /\ rec \in Area /\ rec.start = RecursiveStart
  <2>1. TableSize \in Nat
    BY Places
  <2>2. QED
    BY <2>1, NewAreaIs, Sizes, WholeConstants
<1>2. heap.length = HeapSize /\ rec.length = TableSize
  <2>1. Whole(HeapSize) /\ Whole(TableSize) /\ HeapSize \in Nat /\ TableSize \in Nat
    BY VmmAssumption, WholeConstants, Places DEF Whole
  <2>2. QED
    BY <2>1, PagesFit DEF NewArea
<1>3. one \in Seq(Area) /\ one # << >> /\ Len(one) = 1 /\ one[1] = heap
  OBVIOUS
<1>4. list = InsertNewArea(one, rec)
  OBVIOUS
<1>5. /\ HeapStart \in Nat \ {0} /\ RecursiveStart \in Nat /\ IdentityEnd \in Nat
      /\ HeapSize \in Nat \ {0} /\ TableSize \in Nat \ {0} /\ Growth \in Nat \ {0}
      /\ Space \in Nat /\ Growth <= TableSize
      /\ IdentityEnd <= HeapStart /\ HeapStart < RecursiveStart
      /\ IdentityEnd + Growth <= RecursiveStart
      /\ HeapStart + Growth <= RecursiveStart
      /\ HeapStart + HeapSize <= RecursiveStart
      /\ RecursiveStart + TableSize < Space
  BY Sizes, Places, HeapPlace
<1>6. /\ list \in Seq(Area)
      /\ \/ Longer(one, rec, list)
         \/ \E k \in 1 .. Len(one) : Ended(one, rec, list, k)
         \/ list = one
  BY <1>1, <1>3, <1>4, InsertCases
<1>7. ListInv(one)
  <2>1. \A i \in 1 .. Len(one) : one[i].start <= one[1].start
    BY <1>1, <1>3, <1>5
  <2>2. QED
    BY <1>3, <2>1 DEF ListInv
<1>8. ListInv(list)
  BY <1>1, <1>4, <1>7, InsertKeeps
<1>9. rec.start > one[1].start
  BY <1>1, <1>3, <1>5
<1>10. list = <<rec>> \o one
  <2>1. ~(rec.start <= one[1].start)
    BY <1>1, <1>3, <1>5
  <2>2. QED
    BY <1>3, <1>4, <1>9, <2>1, Zenon DEF InsertNewArea
<1>11. Len(list) = 2 /\ list[1] = rec /\ list[2] = heap
  <2> DEFINE head == <<rec>>
  <2>1. head \in Seq(Area) /\ Len(head) = 1 /\ head[1] = rec
    BY <1>1
  <2>2. list = head \o one
    BY <1>10
  <2> HIDE DEF head
  <2>3. /\ Len(head \o one) = Len(head) + Len(one)
        /\ \A i \in 1 .. Len(head) + Len(one) :
             (head \o one)[i] = IF i <= Len(head) THEN head[i]
                                ELSE one[i - Len(head)]
    BY <1>3, <2>1, ConcatProperties
  <2>4. /\ Len(list) = 2
        /\ \A i \in 1 .. 2 : list[i] = IF i <= 1 THEN head[i] ELSE one[i - 1]
    BY <1>3, <2>1, <2>2, <2>3
  <2>5. QED
    BY <1>3, <2>1, <2>4
<1>12. /\ \A i \in 1 .. Len(list) : i = 1 \/ i = 2
       /\ \A i \in 1 .. Len(list) - 1 : i = 1
  <2>1. Len(list) = 2
    BY <1>11
  <2>2. QED
    BY <2>1
<1>13. \A i \in StartingAt(list, HeapStart) : list[i] = heap
  <2>1. ASSUME NEW i \in StartingAt(list, HeapStart) PROVE list[i] = heap
    <3>1. i \in 1 .. Len(list) /\ list[i].start = HeapStart
      BY <1>6, <2>1 DEF StartingAt
    <3>2. QED
      BY <1>1, <1>5, <1>11, <1>12, <3>1
  <2>2. QED
    BY <2>1
<1>14. Placed(heap) /\ Placed(rec)
  BY <1>1, <1>2, <1>5 DEF Placed
<1>15. ListLayout(list)
  <2>1. \A i \in 1 .. Len(list) : Placed(list[i])
    BY <1>11, <1>12, <1>14
  <2>2. \A i \in StartingAt(list, HeapStart) : HeapStart + list[i].length <= list[1].start
    BY <1>1, <1>2, <1>5, <1>11, <1>13
  <2>3. \A i \in 1 .. Len(list) - 1 : IdentityEnd + Growth <= list[i].start
    BY <1>1, <1>5, <1>11, <1>12
  <2>4. Len(list) >= 2 /\ RecursiveStart <= list[1].start
    BY <1>1, <1>5, <1>11
  <2>5. QED
    BY <2>1, <2>2, <2>3, <2>4 DEF ListLayout
<1>16. QED
  BY <1>2, <1>8, <1>11, <1>13, <1>15

LEMMA InitGood ==
  ASSUME Layout, Init
  PROVE  GoodInv
<1> DEFINE boot(marked) ==
             [bitmap |-> [i \in 0 .. NumBits |-> i \in marked],
              pde    |-> [d \in 0 .. NumTables - 1 |-> NoFrame],
              pte    |-> [p \in Page |-> IF TableOf(p) \in StaticTables
                                         THEN p ELSE NoPage],
              stop   |-> "no"]
           heap(marked) == VmallocCore(boot(marked), HeapStart, HeapSize, FALSE)
           P == Region(HeapStart, HeapSize)
<1>1. PICK marked : /\ mem = heap(marked).mem
                    /\ heap(marked).addr # Null /\ heap(marked).mem.stop = "no"
                    /\ areas = InsertNewArea(<<NewArea(HeapStart, HeapSize)>>,
                                 NewArea(RecursiveStart, TableSize))
                    /\ ret = Result("boot", HeapStart, HeapSize, HeapStart)
  BY DEF Init
<1>2. boot(marked) \in MemState /\ Exclusive(boot(marked))
  BY BootFine
<1>3. Safe(boot(marked)) /\ NoRec(boot(marked))
  <2>1. RecursivePde \notin StaticTables
    BY VmmAssumption DEF StaticTables
  <2>2. QED
    BY <2>1 DEF Safe, NoRec
<1> HIDE DEF boot
<1>4. /\ HeapStart \in Nat /\ HeapSize \in Nat /\ Whole(HeapStart) /\ FALSE \in BOOLEAN
      /\ IdentityEnd <= HeapStart /\ HeapStart + HeapSize <= Space
  <2>1. /\ HeapStart + HeapSize = Top /\ Top <= RecursiveStart /\ IdentityEnd <= HeapStart
    BY HeapPlace
  <2>2. /\ RecursiveStart + TableSize < Space /\ TableSize \in Nat
        /\ RecursiveStart \in Nat /\ Top \in Nat /\ Space \in Nat
    BY Places, Sizes
  <2>3. QED
    BY <2>1, <2>2, Sizes, WholeConstants
<1>5. /\ P \subseteq Page
      /\ \A q \in P : TableOf(q) \notin StaticTables
  BY <1>4, HighRegion
<1>6. mem \in MemState /\ Exclusive(mem)
  BY <1>1, <1>2, <1>4, CoreKeeps
<1>7. /\ NoRec(mem) /\ Safe(mem)
      /\ Present(mem, P)
  BY <1>1, <1>2, <1>3, <1>4, <1>5, CoreDoes DEF Present
<1>8. mem.stop = "no"
  BY <1>1
<1> DEFINE area == NewArea(HeapStart, HeapSize)
           one  == <<area>>
<1>9. one \in Seq(Area) /\ one # << >> /\ Len(one) = 1 /\ one[1] = area
  <2>1. area \in Area
    BY <1>4, NewAreaIs
  <2> HIDE DEF area
  <2>2. QED
    BY <2>1
<1>10. areas = InsertNewArea(one, NewArea(RecursiveStart, TableSize))
  BY <1>1
<1> HIDE DEF one
<1>11. /\ ListInv(areas) /\ ListLayout(areas)
      /\ \A i \in StartingAt(areas, HeapStart) : areas[i] = area
      /\ area.length = HeapSize
  BY <1>9, <1>10, FirstAreas
<1> HIDE DEF area, P
<1>12. HeapMapped(mem, areas)
  BY <1>7, <1>11 DEF HeapMapped, P
<1>13. ret.op = "boot" /\ ret.addr = HeapStart /\ ret.size = HeapSize
  BY <1>1 DEF Result
<1>14. P \subseteq Mapped
  BY <1>5, <1>7 DEF Mapped, Present
<1>15. ReturnedIsMapped
  BY <1>13, <1>14 DEF ReturnedIsMapped, HeapStaysWhole, P
<1>16. QED
  BY <1>6, <1>7, <1>11, <1>12, <1>15 DEF GoodInv, Good, Fine

LEMMA GoodAlways ==
  ASSUME Layout
  PROVE  Spec => []GoodInv
<1>1. Init => GoodInv
  BY InitGood
<1>2. GoodInv /\ [Next]_vars => GoodInv'
  <2> SUFFICES ASSUME GoodInv, [Next]_vars PROVE GoodInv'
    OBVIOUS
  <2>1. ASSUME NEW d \in Devices, MapDevice(d[1], d[2]) PROVE GoodInv'
    BY <2>1, DeviceGood
  <2>2. ASSUME NEW d \in Devices, DeviceKnown(d[1], d[2]) PROVE GoodInv'
    <3>1. mem' = mem /\ areas' = areas /\ ret'.op = "known"
      BY <2>2 DEF DeviceKnown, Result
    <3>2. QED
      BY <3>1 DEF GoodInv, ReturnedIsMapped, HeapStaysWhole
  <2>3. CASE HeapGrows
    BY <2>3, HeapGrowsGood
  <2>4. ASSUME NEW mmio \in BOOLEAN, HeapMovesOn(mmio) PROVE GoodInv'
    BY <2>4, MovesOnGood
  <2>5. CASE UNCHANGED vars
    BY <2>5 DEF vars, GoodInv, ReturnedIsMapped, HeapStaysWhole, Mapped
  <2>6. QED
    BY <2>1, <2>2, <2>3, <2>4, <2>5 DEF Next
<1>3. QED
  BY <1>1, <1>2, PTL DEF Spec

(* Whatever region vmalloc_core has newly mapped for a caller is mapped,   *)
(* every page of it, above the identity map; so is the heap from its start *)
(* to the end of an extension, also after one that failed and whose pages  *)
(* the area counts all the same: from then on no frame is left, and no     *)
(* later extension can succeed above the hole.                             *)
THEOREM ReturnedStaysMapped ==
  ASSUME Layout
  PROVE  Spec => []ReturnedIsMapped
<1>1. GoodInv => ReturnedIsMapped
  BY DEF GoodInv
<1>2. QED
  BY GoodAlways, <1>1, PTL

(* alloc_page_table goes wrong only when no two frames in a row are left   *)
(* below the end of the identity map: nothing vmm.c maps replaces an entry *)
(* of the identity map through which it clears the new table.              *)
THEOREM TablesFromLow ==
  ASSUME Layout
  PROVE  Spec => []TablesFromLowMemory
<1>1. GoodInv => TablesFromLowMemory
  BY DEF GoodInv, Good, Safe, TablesFromLowMemory
<1>2. QED
  BY GoodAlways, <1>1, PTL

-----------------------------------------------------------------------------
(* What a successful call marks, it uses.                                  *)
LEMMA UsesMore ==
  ASSUME NEW m, NEW new, NEW P, NEW Q, Uses(m, new, P), P \subseteq Q
  PROVE  Uses(m, new, Q)
BY DEF Uses

LEMMA HeapGrowsUses ==
  ASSUME Layout, GoodInv, HeapGrows, mem'.stop = "no"
  PROVE  Uses(mem, mem', Page)
<1> DEFINE more == RequestMore(mem, areas)
<1>1. mem' = more.mem /\ more.addr # Null
  BY DEF HeapGrows
<1>2. /\ Good(mem, areas)
      /\ \/ more.mem = mem /\ more.areas = areas /\ more.addr = Null
         \/ \E i \in StartingAt(areas, HeapStart) : Extends(mem, areas, more, i)
  BY MoreGood DEF GoodInv
<1> HIDE DEF more
<1>3. PICK i \in StartingAt(areas, HeapStart) : Extends(mem, areas, more, i)
  BY <1>1, <1>2
<1> DEFINE end == HeapStart + areas[i].length
           Q   == Region(end, Growth)
<1>4. Uses(mem, more.mem, Q)
  BY <1>1, <1>3 DEF Extends
<1>5. Q \subseteq Page
  <2>1. /\ areas[i] \in Area /\ end = EndOf(areas[i]) /\ end + Growth < Space
    BY <1>2, ExtensionPlace DEF Good, Fine
  <2>2. /\ end \in Nat /\ Whole(end) /\ Growth \in Nat /\ Space \in Nat
    BY <2>1, Sizes, EndIs DEF Whole
  <2> HIDE DEF end
  <2>3. end + Growth <= Space
    BY <2>1, <2>2
  <2>4. QED
    BY <2>1, <2>2, <2>3, RegionInSpace
<1> HIDE DEF Q
<1>6. QED
  BY <1>1, <1>4, <1>5, UsesMore

(* A new range after an extension that failed and had mapped some pages,   *)
(* apart from them.  (It succeeds where the stray MMIO flag is set: no     *)
(* frame is left.)                                                         *)
LEMMA AfterExtension ==
  ASSUME Layout, GoodInv, mem.stop = "no",
         NEW more, more = RequestMore(mem, areas), more.addr = Null,
         more.mem # mem, more.mem.stop = "no",
         NEW found \in Nat, ~GrowsInto(Region(found, Growth)),
         Region(found, Growth) \subseteq Page,
         NEW core, Uses(more.mem, core, Region(found, Growth)),
         Grows(more.mem, core), core \in MemState,
         Apart(more.mem, core, Region(found, Growth))
  PROVE  Uses(mem, core, Page)
<1> DEFINE P == Region(found, Growth)
<1>1. /\ Good(mem, areas) /\ Good(more.mem, more.areas)
      /\ \/ more.mem = mem /\ more.areas = areas /\ more.addr = Null
         \/ \E i \in StartingAt(areas, HeapStart) :
              Extends(mem, areas, more, i) /\ ~Exists(areas, EndOf(areas[i]), Growth)
  BY MoreGood DEF GoodInv
<1>2. PICK i \in StartingAt(areas, HeapStart) :
        Extends(mem, areas, more, i) /\ ~Exists(areas, EndOf(areas[i]), Growth)
  BY <1>1
<1> DEFINE end == HeapStart + areas[i].length
           Q   == Region(end, Growth)
<1>3. /\ mem \in MemState /\ more.mem \in MemState
      /\ ListInv(areas) /\ ListLayout(areas)
  BY <1>1 DEF Good, Fine
<1>4. /\ areas[i] \in Area /\ end = EndOf(areas[i]) /\ end + Growth < Space
  BY <1>3, ExtensionPlace
<1>5. /\ Whole(end) /\ end \in Nat /\ Growth \in Nat /\ Space \in Nat
  BY <1>4, EndIs, Sizes DEF Whole
<1>6. Uses(mem, more.mem, Q)
  BY <1>2 DEF Extends
<1>7. Q \cap P = {}
  BY <1>2, <1>4 DEF GrowsInto
<1> HIDE DEF end
<1>8. Q \subseteq Page
  BY <1>4, <1>5, RegionInSpace
<1> HIDE DEF Q, P
<1>9. /\ Uses(more.mem, core, P) /\ Apart(more.mem, core, P) /\ P \subseteq Page
  BY DEF P
<1>10. Uses(mem, core, Q \cup P)
  BY <1>3, <1>6, <1>7, <1>8, <1>9, UsesOn
<1>11. Q \cup P \subseteq Page
  BY <1>8, <1>9
<1>12. QED
  BY <1>10, <1>11, UsesMore

LEMMA MovesOnUses ==
  ASSUME Layout, GoodInv,
         NEW mmio \in BOOLEAN, HeapMovesOn(mmio), mem'.stop = "no",
         ~GrowsInto(Region(ret'.addr, ret'.size))
  PROVE  Uses(mem, mem', Page)
<1> DEFINE more  == RequestMore(mem, areas)
           found == FindFirstAlloc(more.areas, Growth)
           core  == VmallocCore(more.mem, found, Growth, mmio)
           P     == Region(found, Growth)
<1>1. /\ mem.stop = "no" /\ more.addr = Null
      /\ IF core.addr = Null
         THEN mem' = [core.mem EXCEPT !.stop = "null"]
         ELSE mem' = AfterInsert(core.mem, more.areas, NewArea(found, Growth))
      /\ ret'.addr = core.addr /\ ret'.size = Growth
  BY DEF HeapMovesOn, Result
<1>2. /\ Good(more.mem, more.areas)
      /\ \/ more.mem = mem
         \/ \E i \in StartingAt(areas, HeapStart) : Extends(mem, areas, more, i)
  BY <1>1, MoreGood DEF GoodInv
<1>3. more = RequestMore(mem, areas)
  OBVIOUS
<1> HIDE DEF more
<1>4. /\ more.mem \in MemState /\ Exclusive(more.mem)
      /\ ListInv(more.areas) /\ ListLayout(more.areas)
  BY <1>2 DEF Good, Fine
<1>5. /\ Whole(found) /\ found \in Nat /\ Growth \in Nat \ {0}
      /\ found = FindFirstAlloc(more.areas, Growth)
  BY <1>4, FoundWhole, Sizes DEF Whole
<1>6. found # Null => found + Growth < Space
  <2>1. SUFFICES ASSUME found # Null PROVE found + Growth < Space
    OBVIOUS
  <2>2. found + Growth <= more.areas[1].start
    BY <1>4, <2>1, FoundPlace
  <2>3. more.areas[1] \in Area /\ Placed(more.areas[1])
    BY <1>4 DEF ListInv, ListLayout
  <2>4. more.areas[1].start \in Nat /\ more.areas[1].start < Space /\ Space \in Nat
    BY <1>5, <2>3, Sizes DEF Area, Placed
  <2> HIDE DEF found
  <2>5. QED
    BY <1>5, <2>2, <2>4
<1> HIDE DEF found
<1>7. /\ core.mem \in MemState /\ core.addr \in {found, Null}
      /\ Apart(more.mem, core.mem, P)
  BY <1>4, <1>5, CoreKeeps
<1>8. core.addr # Null /\ mem' = core.mem /\ core.mem.stop = "no"
  <2>1. /\ mem' = [core.mem EXCEPT !.stop = "null"] => mem'.stop = "null"
        /\ mem' = [core.mem EXCEPT !.stop = "insertion"] => mem'.stop = "insertion"
    BY <1>7 DEF MemState
  <2>2. QED
    BY <1>1, <2>1 DEF AfterInsert
<1>9. found # Null /\ P \subseteq Page
  <2>1. found # Null
    BY <1>7, <1>8
  <2>2. found + Growth <= Space
    BY <1>5, <1>6, <2>1, Sizes
  <2>3. QED
    BY <1>5, <2>1, <2>2, RegionInSpace
<1>10. Grows(more.mem, core.mem) /\ Uses(more.mem, core.mem, P)
  BY <1>4, <1>5, <1>8, <1>9, CoreDoes
<1>11. more.mem.stop = "no"
  BY <1>8, <1>10 DEF Grows
<1>15. ~GrowsInto(P) /\ more.addr = Null /\ mem.stop = "no"
  BY <1>1, <1>7, <1>8
<1> HIDE DEF core
<1>12. CASE more.mem = mem
  <2> HIDE DEF P
  <2>1. QED
    BY <1>8, <1>9, <1>10, <1>12, UsesMore
<1>13. CASE more.mem # mem
  BY <1>3, <1>5, <1>7, <1>8, <1>9, <1>10, <1>11, <1>13, <1>15, AfterExtension
<1>14. QED
  BY <1>12, <1>13

(* vmalloc_core, for the heap and for new ranges alike: the frames a call  *)
(* has marked when it succeeds back pages or are tables.  Two calls mark   *)
(* frames in one action when an extension failed, for want of frames, and  *)
(* the new range came after it: what was mapped for the extension is left  *)
(* alone by the range unless the range lies across it.                     *)
THEOREM SuccessUsesAll ==
  ASSUME Layout
  PROVE  Spec => SuccessLeaksNothing
<1> DEFINE AllUsed ==
             \A f \in Frame : mem'.bitmap[f] /\ ~mem.bitmap[f] =>
               \/ \E p \in Page : mem'.pte[p] = f
               \/ \E d \in DOMAIN mem.pde : mem'.pde[d] = f
           Step ==
             ret'.op \in {"more", "vmalloc"} /\ mem'.stop = "no" =>
               \/ ret'.op = "vmalloc" /\ GrowsInto(Region(ret'.addr, ret'.size))
               \/ AllUsed
<1>1. GoodInv /\ [Next]_vars => [Step]_vars
  <2> SUFFICES ASSUME GoodInv, [Next]_vars PROVE [Step]_vars
    OBVIOUS
  <2>1. DOMAIN mem.pde = 0 .. NumTables - 1
    BY DEF GoodInv, Good, Fine, MemState
  <2>2. Uses(mem, mem', Page) => AllUsed
    BY <2>1 DEF Uses, IsTable
  <2> HIDE DEF AllUsed
  <2>3. ASSUME NEW d \in Devices, MapDevice(d[1], d[2]) PROVE Step
    BY <2>3 DEF MapDevice, Result
  <2>4. ASSUME NEW d \in Devices, DeviceKnown(d[1], d[2]) PROVE Step
    BY <2>4 DEF DeviceKnown, Result
  <2>5. CASE HeapGrows
    BY <2>2, <2>5, HeapGrowsUses
  <2>6. ASSUME NEW mmio \in BOOLEAN, HeapMovesOn(mmio) PROVE Step
    <3>1. ret'.op = "vmalloc"
      BY <2>6 DEF HeapMovesOn, Result
    <3>2. QED
      BY <2>2, <2>6, <3>1, MovesOnUses
  <2>7. CASE UNCHANGED vars
    BY <2>7
  <2> HIDE DEF Step
  <2>8. QED
    BY <2>3, <2>4, <2>5, <2>6, <2>7 DEF Next
<1>2. Spec => [][Step]_vars
  <2> HIDE DEF Step
  <2>1. QED
    BY <1>1, GoodAlways, PTL DEF Spec
<1>3. QED
  BY <1>2 DEF SuccessLeaksNothing
=============================================================================
