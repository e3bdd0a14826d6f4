--------------------------- MODULE BootInfoProofs ---------------------------
(***************************************************************************)
(* The start-up up to the interrupts, for every memory map, every order of *)
(* the tags and every size of page and address space.                      *)
(*                                                                         *)
(* What init_memory stores and adds up is known entry by entry, along its  *)
(* loop; from it follows which frames become free.  Each step behind it    *)
(* only adds areas, pages and owners of frames.                            *)
(***************************************************************************)
EXTENDS BootInfo, WellFoundedInduction, FiniteSetTheorems, SequenceTheorems, TLAPS

-----------------------------------------------------------------------------
(* Induction along a loop, for sets.                                       *)
LEMMA LeastNat ==
  ASSUME NEW T, T \subseteq Nat, T # {}
  PROVE  \E n \in T : \A y \in T : n <= y
<1> DEFINE less == OpToRel(<, Nat)
<1>1. PICK n \in T : \A y \in T : <<y, n>> \notin less
  <2> HIDE DEF less
  <2>1. IsWellFoundedOn(less, Nat)
    BY NatLessThanWellFounded DEF less
  <2>2. QED
    BY <2>1, WFMin
<1>2. ASSUME NEW y \in T, y < n PROVE FALSE
  <2>1. y \in Nat /\ n \in Nat
    OBVIOUS
  <2>2. <<y, n>> \in less
    BY <2>1, <1>2 DEF OpToRel
  <2>3. QED
    BY <1>1, <2>2
<1>3. QED
  BY <1>2

LEMMA Loop ==
  ASSUME NEW n \in Nat, NEW T, 0 \in T,
         \A k \in 1 .. n : k - 1 \in T => k \in T
  PROVE  \A k \in 0 .. n : k \in T
<1> DEFINE B == {k \in 0 .. n : k \notin T}
<1>1. SUFFICES ASSUME B # {} PROVE FALSE
  OBVIOUS
<1>2. PICK k \in B : \A y \in B : k <= y
  <2>1. B \subseteq Nat
    OBVIOUS
  <2> HIDE DEF B
  <2>2. QED
    BY <1>1, <2>1, LeastNat
<1>3. k # 0 /\ k \in 1 .. n
  OBVIOUS
<1>4. k - 1 \in T
  BY <1>2, <1>3
<1>5. QED
  BY <1>3, <1>4

LEMMA GreatestIs ==
  ASSUME NEW s, s \subseteq Nat, NEW j \in s, \A x \in s : x <= j
  PROVE  Max(s) = j
<1>1. Max(s) = CHOOSE x \in s : \A y \in s : x >= y
  BY DEF Max
<1>2. \A y \in s : j >= y
  OBVIOUS
<1>3. Max(s) \in s /\ \A y \in s : Max(s) >= y
  BY <1>1, <1>2
<1>4. PICK m \in s : m = Max(s)
  BY <1>3
<1>5. QED
  BY <1>3, <1>4

Lengths(w) == FoldLeft(LAMBDA sum, e : sum + e.len, 0, w)

(* OfType of any sequence of entries.                                      *)
Selected(type, w) ==
  FoldLeft(LAMBDA seq, e : IF e.type = type THEN Append(seq, e) ELSE seq, <<>>, w)

(* A round of one of the two loops over the memory map, or of the plain sum.*)
Round(does, type, s, e) ==
  IF does = "sum" THEN Wrap(s + e.len)
  ELSE IF does = "total" THEN s + e.len
  ELSE IF e.type = type THEN Append(s, e) ELSE s

(* g holds what the rounds make of s, one after the other.                 *)
Steps(g, does, type, s, w, n) ==
  g[0] = s /\ \A k \in 1 .. n : g[k] = Round(does, type, g[k - 1], w[k])

(* And its last value is what the loop, begun with s, is for.              *)
Makes(g, does, type, s, w, n) ==
  /\ Steps(g, does, type, s, w, n)
  /\ does = "sum" /\ s = 0 => SumOfLengths(w) = g[n]
  /\ does = "total" /\ s = 0 => Lengths(w) = g[n]
  /\ does = "select" /\ s = <<>> => Selected(type, w) = g[n]

LEMMA Rounds ==
  ASSUME NEW does, NEW type, NEW s, NEW w,
         NEW n \in Nat, DOMAIN w = 1 .. n
  PROVE  \E g : Makes(g, does, type, s, w, n)
<1> DEFINE Upto(g, j) ==
             g = [x \in SUBSET (1 .. j) |->
                    IF x = {} THEN s ELSE Round(does, type, g[x \ {Max(x)}], w[Max(x)])]
           T == {j \in 0 .. n : \E g : Upto(g, j)}
<1>1. 0 \in T
  <2> DEFINE g == [x \in SUBSET (1 .. 0) |-> s]
  <2>1. Upto(g, 0)
    OBVIOUS
  <2> HIDE DEF g, Upto
  <2>2. QED
    BY <2>1
<1>2. ASSUME NEW j \in 1 .. n, j - 1 \in T PROVE j \in T
  <2>1. PICK g : Upto(g, j - 1)
    BY <1>2
  <2> DEFINE h == [x \in SUBSET (1 .. j) |->
                     IF j \in x THEN Round(does, type, g[x \ {j}], w[j]) ELSE g[x]]
  <2>2. ASSUME NEW x \in SUBSET (1 .. j)
        PROVE  h[x] = IF x = {} THEN s ELSE Round(does, type, h[x \ {Max(x)}], w[Max(x)])
    <3>1. CASE j \in x
      <4>1. Max(x) = j
        <5>1. x \subseteq Nat /\ \A y \in x : y <= j
          OBVIOUS
        <5> QED
          BY <3>1, <5>1, GreatestIs
      <4>2. x \ {j} \in SUBSET (1 .. j) /\ j \notin x \ {j} /\ x # {}
        BY <3>1
      <4>3. h[x \ {j}] = g[x \ {j}]
        BY <4>2
      <4> QED
        BY <3>1, <4>1, <4>2, <4>3
    <3>2. CASE j \notin x
      <4>1. x \in SUBSET (1 .. j - 1) /\ h[x] = g[x]
        BY <3>2
      <4>2. g[x] = IF x = {} THEN s ELSE Round(does, type, g[x \ {Max(x)}], w[Max(x)])
        BY <2>1, <4>1
      <4>3. x \ {Max(x)} \in SUBSET (1 .. j) /\ j \notin x \ {Max(x)}
        <5> DEFINE m == Max(x)
        <5> HIDE DEF m
        <5>1. x \ {m} \in SUBSET (1 .. j) /\ j \notin x \ {m}
          BY <3>2
        <5> QED
          BY <5>1 DEF m
      <4>4. h[x \ {Max(x)}] = g[x \ {Max(x)}]
        BY <4>3
      <4> QED
        BY <4>1, <4>2, <4>4
    <3> QED
      BY <3>1, <3>2
  <2>3. h = [x \in SUBSET (1 .. j) |-> h[x]]
    OBVIOUS
  <2> HIDE DEF h
  <2>4. Upto(h, j)
    BY <2>2, <2>3
  <2> HIDE DEF Upto
  <2>5. QED
    BY <2>4
<1>3. n \in T
  <2> HIDE DEF T
  <2>1. QED
    BY <1>1, <1>2, Loop
<1>4. \E g : Upto(g, n)
  BY <1>3
<1> DEFINE f == CHOOSE g : Upto(g, n)
<1>5. Upto(f, n)
  BY <1>4
<1>6. does = "sum" /\ s = 0 => SumOfLengths(w) = f[1 .. n]
  BY DEF SumOfLengths, FoldLeft, MapThenFoldSet, Round
<1>12. does = "total" /\ s = 0 => Lengths(w) = f[1 .. n]
  BY DEF Lengths, FoldLeft, MapThenFoldSet, Round
<1>11. does = "select" /\ s = <<>> => Selected(type, w) = f[1 .. n]
  BY DEF Selected, FoldLeft, MapThenFoldSet, Round
<1> HIDE DEF f
<1> DEFINE r == [k \in 0 .. n |-> f[1 .. k]]
<1>7. r[0] = s
  BY <1>5
<1>8. ASSUME NEW k \in 1 .. n PROVE r[k] = Round(does, type, r[k - 1], w[k])
  <2> DEFINE x == 1 .. k
  <2>1. /\ x \in SUBSET (1 .. n) /\ x # {} /\ x \ {k} = 1 .. k - 1
        /\ k \in x /\ x \subseteq Nat /\ \A y \in x : y <= k
    OBVIOUS
  <2>2. r[k] = f[x] /\ r[k - 1] = f[x \ {k}]
    <3>1. r[k] = f[x] /\ r[k - 1] = f[1 .. k - 1]
      OBVIOUS
    <3> HIDE DEF x, r
    <3> QED
      BY <2>1, <3>1
  <2> HIDE DEF x, r
  <2>3. Max(x) = k
    BY <2>1, GreatestIs
  <2>4. QED
    BY <1>5, <2>1, <2>2, <2>3
<1>9. r[n] = f[1 .. n]
  OBVIOUS
<1> HIDE DEF r
<1>10. QED
  BY <1>6, <1>7, <1>8, <1>9, <1>11, <1>12 DEF Steps, Makes

-----------------------------------------------------------------------------
(* Numbers.                                                                *)
LEMMA DivMod ==
  ASSUME NEW x \in Int, NEW y \in Nat \ {0}
  PROVE  /\ x = y * (x \div y) + (x % y)
         /\ x \div y \in Int /\ x % y \in Nat
<1>1. x = y * (x \div y) + (x % y)
  BY Z3
<1>2. x \div y \in Int /\ x % y \in Nat
  OBVIOUS
<1>3. QED
  BY <1>1, <1>2

LEMMA OfTypeIs == \A type : OfType(type) = Selected(type, info.mmap)
  BY DEF OfType, Selected

LEMMA Times ==
  ASSUME NEW a \in Int, NEW b \in Int, NEW c \in Nat, a <= b
  PROVE  a * c <= b * c
<1>1. b - a \in Nat
  OBVIOUS
<1>2. (b - a) * c \in Nat
  BY <1>1
<1>3. (b - a) * c = b * c - a * c
  BY Z3
<1>4. a * c \in Int /\ b * c \in Int
  OBVIOUS
<1>5. QED
  BY <1>2, <1>3, <1>4

LEMMA Divided ==
  ASSUME NEW a \in Int, PageSize \in Nat \ {0}
  PROVE  a = PageOf(a) * PageSize + (a % PageSize)
<1>1. a = PageSize * (a \div PageSize) + (a % PageSize) /\ a \div PageSize \in Int
  BY DivMod
<1>2. PageSize * (a \div PageSize) = (a \div PageSize) * PageSize
  BY <1>1
<1>3. QED
  BY <1>1, <1>2 DEF PageOf

LEMMA Sizes ==
  /\ PageSize \in Nat \ {0} /\ AddressSpace \in Nat \ {0}
  /\ {ByteBits, LowFrames, LowPages, BitmapFirst, BitmapPages, HeapPages, MaxRegions,
      IoapicLength} \subseteq Nat \ {0}
  /\ AddressSpace = PageOf(AddressSpace) * PageSize
  /\ PageOf(AddressSpace) \in Nat /\ LowPages <= PageOf(AddressSpace)
<1>1. /\ PageSize \in Nat \ {0} /\ AddressSpace \in Nat
      /\ LowPages * PageSize <= AddressSpace /\ AddressSpace % PageSize = 0
      /\ {ByteBits, LowFrames, LowPages, BitmapFirst, BitmapPages, HeapPages, MaxRegions,
          IoapicLength} \subseteq Nat \ {0}
  BY BootInfoAssumption
<1>2. 1 * PageSize <= LowPages * PageSize
  BY <1>1, Times
<1>3. AddressSpace # 0
  BY <1>1, <1>2
<1>4. PageOf(AddressSpace) \in Nat
  BY <1>1 DEF PageOf
<1>5. AddressSpace = PageOf(AddressSpace) * PageSize
  BY <1>1, <1>4, Divided
<1>6. LowPages <= PageOf(AddressSpace)
  <2>1. SUFFICES ASSUME PageOf(AddressSpace) + 1 <= LowPages PROVE FALSE
    BY <1>1, <1>4
  <2>2. (PageOf(AddressSpace) + 1) * PageSize <= LowPages * PageSize
    BY <1>1, <1>4, <2>1, Times
  <2>3. (PageOf(AddressSpace) + 1) * PageSize = PageOf(AddressSpace) * PageSize + PageSize
    BY <1>1, <1>4
  <2>4. QED
    BY <1>1, <1>5, <2>2, <2>3
<1>7. QED
  BY <1>1, <1>3, <1>4, <1>5, <1>6

(* The page of an address, and addresses of a page.                        *)
LEMMA PageIs ==
  ASSUME NEW a \in Nat
  PROVE  /\ PageOf(a) \in Nat
         /\ PageOf(a) * PageSize <= a /\ a < PageOf(a) * PageSize + PageSize
<1>1. PageSize \in Nat \ {0}
  BY Sizes
<1>2. PageOf(a) \in Nat
  BY <1>1 DEF PageOf
<1>3. a = PageOf(a) * PageSize + (a % PageSize)
  BY <1>1, Divided
<1>4. a % PageSize \in 0 .. PageSize - 1
  BY <1>1
<1>5. PageOf(a) * PageSize \in Int
  BY <1>1, <1>2
<1>6. QED
  BY <1>1, <1>2, <1>3, <1>4, <1>5

LEMMA PageUnique ==
  ASSUME NEW a \in Nat, NEW q \in Int,
         q * PageSize <= a, a < q * PageSize + PageSize
  PROVE  PageOf(a) = q
<1> DEFINE p == PageOf(a)
<1>1. /\ PageSize \in Nat \ {0} /\ p \in Nat
      /\ p * PageSize <= a /\ a < p * PageSize + PageSize
  BY Sizes, PageIs
<1> HIDE DEF p
<1>2. p * PageSize \in Int /\ q * PageSize \in Int
      /\ (p + 1) * PageSize = p * PageSize + PageSize
      /\ (q + 1) * PageSize = q * PageSize + PageSize
  BY <1>1
<1>3. ASSUME p + 1 <= q PROVE FALSE
  <2>1. (p + 1) * PageSize <= q * PageSize
    BY <1>1, <1>3, Times
  <2>2. QED
    BY <1>1, <1>2, <2>1
<1>4. ASSUME q + 1 <= p PROVE FALSE
  <2>1. (q + 1) * PageSize <= p * PageSize
    BY <1>1, <1>4, Times
  <2>2. QED
    BY <1>1, <1>2, <2>1
<1>5. p = q
  BY <1>1, <1>3, <1>4
<1>6. QED
  BY <1>5 DEF p

LEMMA PageMono ==
  ASSUME NEW a \in Nat, NEW b \in Nat, a <= b
  PROVE  PageOf(a) <= PageOf(b)
<1> DEFINE p == PageOf(a)
           q == PageOf(b)
<1>1. /\ PageSize \in Nat \ {0} /\ p \in Nat /\ q \in Nat
      /\ p * PageSize <= a /\ a < p * PageSize + PageSize
      /\ q * PageSize <= b /\ b < q * PageSize + PageSize
  BY Sizes, PageIs
<1> HIDE DEF p, q
<1>2. p * PageSize \in Int /\ q * PageSize \in Int
      /\ (q + 1) * PageSize = q * PageSize + PageSize
  BY <1>1
<1>3. ASSUME q + 1 <= p PROVE FALSE
  <2>1. (q + 1) * PageSize <= p * PageSize
    BY <1>1, <1>3, Times
  <2>2. QED
    BY <1>1, <1>2, <2>1
<1>4. QED
  BY <1>1, <1>3 DEF p, q

LEMMA PageShift ==
  ASSUME NEW a \in Nat, NEW i \in Nat
  PROVE  a + i * PageSize \in Nat /\ PageOf(a + i * PageSize) = PageOf(a) + i
<1> DEFINE p == PageOf(a)
<1>1. /\ PageSize \in Nat \ {0} /\ p \in Nat
      /\ p * PageSize <= a /\ a < p * PageSize + PageSize
  BY Sizes, PageIs
<1> HIDE DEF p
<1>2. /\ (p + i) * PageSize = p * PageSize + i * PageSize
      /\ p * PageSize \in Nat /\ i * PageSize \in Nat
  BY <1>1
<1>3. a + i * PageSize \in Nat
  BY <1>2
<1>4. (p + i) * PageSize <= a + i * PageSize
      /\ a + i * PageSize < (p + i) * PageSize + PageSize
  BY <1>1, <1>2
<1>5. PageOf(a + i * PageSize) = p + i
  BY <1>1, <1>3, <1>4, PageUnique
<1>6. QED
  BY <1>3, <1>5 DEF p

LEMMA WrapIs ==
  ASSUME NEW a \in Nat
  PROVE  Wrap(a) \in Word /\ (a < AddressSpace => Wrap(a) = a)
BY Sizes DEF Wrap, Word

(* What a sum wraps to can be added before or after.                       *)
LEMMA WrapUnique ==
  ASSUME NEW a \in Nat, NEW q \in Int, NEW r \in 0 .. AddressSpace - 1,
         a = AddressSpace * q + r
  PROVE  Wrap(a) = r
<1>1. PICK m \in Nat \ {0} : m = AddressSpace
  BY Sizes
<1>2. PICK p : p = a \div m
  OBVIOUS
<1>3. PICK s : s = a % m
  OBVIOUS
<1>4. a = m * p + s /\ p \in Int /\ s \in 0 .. m - 1
  <2>1. a = m * (a \div m) + (a % m) /\ a \div m \in Int
    <3>1. a \in Int
      OBVIOUS
    <3>2. QED
      BY <3>1, DivMod
  <2>2. s \in 0 .. m - 1
    BY <1>3
  <2>3. QED
    BY <1>2, <1>3, <2>1, <2>2
<1>5. m * p \in Int /\ m * q \in Int /\ a = m * q + r /\ r \in 0 .. m - 1
  BY <1>1, <1>4
<1>6. m * p = p * m /\ m * q = q * m
  BY <1>4
<1>7. ASSUME NEW x \in Int, NEW y \in Int, x + 1 <= y PROVE x * m + m <= y * m
  <2>1. (x + 1) * m <= y * m
    BY <1>7, Times
  <2>2. (x + 1) * m = x * m + m
    OBVIOUS
  <2>3. QED
    BY <2>1, <2>2
<1>8. ~(p + 1 <= q) /\ ~(q + 1 <= p)
  <2>1. p + 1 <= q => p * m + m <= q * m
    BY <1>4, <1>7
  <2>2. q + 1 <= p => q * m + m <= p * m
    BY <1>4, <1>7
  <2>3. QED
    BY <1>4, <1>5, <1>6, <2>1, <2>2
<1>9. p = q
  BY <1>4, <1>8
<1>10. s = r
  BY <1>4, <1>5, <1>9
<1>11. QED
  BY <1>1, <1>3, <1>10 DEF Wrap

LEMMA WrapAgain ==
  ASSUME NEW a \in Nat, NEW b \in Nat
  PROVE  Wrap(Wrap(a) + b) = Wrap(a + b) /\ a + b \in Nat
<1>1. PICK m \in Nat \ {0} : m = AddressSpace
  BY Sizes
<1>2. PICK p \in Int : a = m * p + (a % m)
  <2>1. a = m * (a \div m) + (a % m) /\ a \div m \in Int
    BY DivMod
  <2>2. QED
    BY <2>1
<1>3. PICK s : s = a % m
  OBVIOUS
<1>4. PICK t : t = s + b
  OBVIOUS
<1>5. s \in 0 .. m - 1 /\ t \in Nat
  BY <1>3, <1>4
<1>6. PICK q \in Int : t = m * q + (t % m)
  <2>1. t = m * (t \div m) + (t % m) /\ t \div m \in Int
    BY <1>5, DivMod
  <2>2. QED
    BY <2>1
<1>7. PICK r : r = t % m
  OBVIOUS
<1>8. r \in 0 .. m - 1
  BY <1>5, <1>7
<1>9. a + b = m * (p + q) + r
  <2>1. a + b = m * p + s + b /\ s + b = m * q + r
    BY <1>2, <1>3, <1>4, <1>6, <1>7
  <2>2. m * (p + q) = m * p + m * q /\ m * p \in Int /\ m * q \in Int
    OBVIOUS
  <2>3. QED
    BY <1>5, <1>8, <2>1, <2>2
<1>10. Wrap(a + b) = r
  BY <1>1, <1>8, <1>9, WrapUnique
<1>11. Wrap(a) = s /\ Wrap(t) = r
  BY <1>1, <1>3, <1>7 DEF Wrap
<1>12. QED
  BY <1>4, <1>10, <1>11

LEMMA WordPage ==
  ASSUME NEW a \in Word
  PROVE  a \in Nat /\ PageOf(a) \in 0 .. PageOf(AddressSpace) - 1
<1> DEFINE p == PageOf(a)
           q == PageOf(AddressSpace)
<1>1. /\ PageSize \in Nat \ {0} /\ AddressSpace \in Nat \ {0} /\ q \in Nat
      /\ AddressSpace = q * PageSize
  BY Sizes
<1>2. a \in Nat /\ a < AddressSpace
  BY <1>1 DEF Word
<1>3. p \in Nat /\ p * PageSize <= a
  BY <1>2, PageIs
<1> HIDE DEF p, q
<1>4. ASSUME q <= p PROVE FALSE
  <2>1. q * PageSize <= p * PageSize
    BY <1>1, <1>3, <1>4, Times
  <2>2. p * PageSize \in Int /\ q * PageSize \in Int
    BY <1>1, <1>3
  <2>3. QED
    BY <1>1, <1>2, <1>3, <2>1, <2>2
<1>5. QED
  BY <1>1, <1>2, <1>3, <1>4 DEF p, q

-----------------------------------------------------------------------------
(* What init_memory stores and adds up.                                    *)

(* q holds the entries of a type among the first k, in order.              *)
Selects(q, type, mmap, k) ==
  /\ q \in Seq(MmapEntry)
  /\ \A j \in DOMAIN q : \E i \in 1 .. k : mmap[i].type = type /\ q[j] = mmap[i]
  /\ \A i \in 1 .. k : mmap[i].type = type => \E j \in DOMAIN q : q[j] = mmap[i]
  /\ \A i \in 1 .. k : mmap[i].type = type /\ (\A j \in i + 1 .. k : mmap[j].type # type)
       => q # <<>> /\ q[Len(q)] = mmap[i]
  /\ Len(q) = Cardinality({i \in 1 .. k : mmap[i].type = type})

LEMMA SelectedRounds ==
  ASSUME NEW mmap, NEW n \in Nat, DOMAIN mmap = 1 .. n, NEW type
  PROVE  \E g : Steps(g, "select", type, <<>>, mmap, n) /\ Selected(type, mmap) = g[n]
<1>1. PICK g : Makes(g, "select", type, <<>>, mmap, n)
  BY Rounds
<1>2. QED
  BY <1>1 DEF Makes

LEMMA SumRounds ==
  ASSUME NEW mmap, NEW n \in Nat, DOMAIN mmap = 1 .. n
  PROVE  \E g : Steps(g, "sum", "any", 0, mmap, n) /\ SumOfLengths(mmap) = g[n]
<1>1. PICK g : Makes(g, "sum", "any", 0, mmap, n)
  BY Rounds
<1>2. QED
  BY <1>1 DEF Makes

LEMMA TotalRounds ==
  ASSUME NEW mmap, NEW n \in Nat, DOMAIN mmap = 1 .. n
  PROVE  \E g : Steps(g, "total", "any", 0, mmap, n) /\ Lengths(mmap) = g[n]
<1>1. PICK g : Makes(g, "total", "any", 0, mmap, n)
  BY Rounds
<1>2. QED
  BY <1>1 DEF Makes

LEMMA SelectsNext ==
  ASSUME NEW q, NEW type, NEW mmap \in Seq(MmapEntry), NEW k \in 1 .. Len(mmap),
         Selects(q, type, mmap, k - 1)
  PROVE  Selects(IF mmap[k].type = type THEN Append(q, mmap[k]) ELSE q, type, mmap, k)
<1> DEFINE Of(n) == {i \in 1 .. n : mmap[i].type = type}
<1>1. /\ q \in Seq(MmapEntry) /\ mmap[k] \in MmapEntry /\ k \in Nat \ {0}
      /\ 1 .. k = (1 .. k - 1) \cup {k} /\ k \notin 1 .. k - 1
  BY DEF Selects
<1>2. IsFiniteSet(Of(k - 1)) /\ Cardinality(Of(k - 1)) = Len(q)
  <2>1. IsFiniteSet(1 .. k - 1)
    BY <1>1, FS_Interval
  <2>2. QED
    BY <2>1, FS_Subset DEF Selects
<1>3. CASE mmap[k].type = type
  <2> DEFINE r == Append(q, mmap[k])
  <2>1. /\ r \in Seq(MmapEntry) /\ Len(r) = Len(q) + 1 /\ Len(q) \in Nat
        /\ DOMAIN r = 1 .. Len(q) + 1 /\ DOMAIN q = 1 .. Len(q)
        /\ r[Len(q) + 1] = mmap[k] /\ \A j \in DOMAIN q : r[j] = q[j]
    BY <1>1
  <2> HIDE DEF r
  <2>2. Of(k) = Of(k - 1) \cup {k} /\ k \notin Of(k - 1)
    BY <1>1, <1>3
  <2>3. Cardinality(Of(k)) = Len(r)
    <3> HIDE DEF Of
    <3> QED
      BY <1>2, <2>1, <2>2, FS_AddElement
  <2>4. \A j \in DOMAIN r : \E i \in 1 .. k : mmap[i].type = type /\ r[j] = mmap[i]
    <3>1. TAKE j \in DOMAIN r
    <3>2. CASE j = Len(q) + 1
      BY <1>1, <1>3, <2>1, <3>2
    <3>3. CASE j \in DOMAIN q
      <4>1. PICK i \in 1 .. k - 1 : mmap[i].type = type /\ q[j] = mmap[i]
        BY <3>3 DEF Selects
      <4>2. QED
        BY <1>1, <2>1, <3>3, <4>1
    <3>4. QED
      BY <2>1, <3>2, <3>3
  <2>5. \A i \in 1 .. k : mmap[i].type = type => \E j \in DOMAIN r : r[j] = mmap[i]
    <3>1. TAKE i \in 1 .. k
    <3>2. HAVE mmap[i].type = type
    <3>3. CASE i = k
      BY <2>1, <3>3
    <3>4. CASE i \in 1 .. k - 1
      <4>1. PICK j \in DOMAIN q : q[j] = mmap[i]
        BY <3>2, <3>4 DEF Selects
      <4>2. j \in DOMAIN r /\ r[j] = mmap[i]
        BY <2>1, <4>1
      <4>3. QED
        BY <4>2
    <3>5. QED
      BY <1>1, <3>3, <3>4
  <2>6. ASSUME NEW i \in 1 .. k, \A j \in i + 1 .. k : mmap[j].type # type
        PROVE  r # <<>> /\ r[Len(r)] = mmap[i]
    <3>1. i = k
      <4>1. SUFFICES ASSUME i < k PROVE FALSE
        BY <1>1
      <4>2. k \in i + 1 .. k
        BY <1>1, <4>1
      <4>3. QED
        BY <1>3, <2>6, <4>2
    <3>2. QED
      BY <2>1, <3>1
  <2>7. Selects(r, type, mmap, k)
    BY <2>1, <2>3, <2>4, <2>5, <2>6 DEF Selects
  <2>8. QED
    BY <1>3, <2>7 DEF r
<1>4. CASE mmap[k].type # type
  <2>1. Of(k) = Of(k - 1)
    BY <1>1, <1>4
  <2>2. Len(q) = Cardinality(Of(k))
    BY <1>2, <2>1
  <2>3. \A j \in DOMAIN q : \E i \in 1 .. k : mmap[i].type = type /\ q[j] = mmap[i]
    BY <1>1 DEF Selects
  <2>4. \A i \in 1 .. k : mmap[i].type = type => \E j \in DOMAIN q : q[j] = mmap[i]
    BY <1>1, <1>4 DEF Selects
  <2>5. ASSUME NEW i \in 1 .. k, mmap[i].type = type,
               \A j \in i + 1 .. k : mmap[j].type # type
        PROVE  q # <<>> /\ q[Len(q)] = mmap[i]
    <3>1. i \in 1 .. k - 1 /\ \A j \in i + 1 .. k - 1 : mmap[j].type # type
      BY <1>1, <1>4, <2>5
    <3>2. QED
      BY <2>5, <3>1 DEF Selects
  <2>6. Selects(q, type, mmap, k)
    BY <1>1, <2>2, <2>3, <2>4, <2>5 DEF Selects
  <2>7. QED
    BY <1>4, <2>6
<1>5. QED
  BY <1>3, <1>4

LEMMA SelectsAll ==
  ASSUME info.mmap \in Seq(MmapEntry), NEW type
  PROVE  Selects(OfType(type), type, info.mmap, Len(info.mmap))
<1>1. PICK n : n = Len(info.mmap)
  OBVIOUS
<1>2. PICK mmap \in Seq(MmapEntry) : mmap = info.mmap
  OBVIOUS
<1>3. n \in Nat /\ DOMAIN mmap = 1 .. n /\ n \in 0 .. n
  BY <1>1, <1>2
<1>4. PICK g : Steps(g, "select", type, <<>>, mmap, n) /\ Selected(type, mmap) = g[n]
  BY <1>3, SelectedRounds
<1> DEFINE T == {k \in 0 .. n : Selects(g[k], type, mmap, k)}
<1>5. 0 \in T
  <2>1. g[0] = <<>> /\ {i \in 1 .. 0 : mmap[i].type = type} = {}
    BY <1>4 DEF Steps
  <2>2. Cardinality({i \in 1 .. 0 : mmap[i].type = type}) = 0
    BY <2>1, FS_EmptySet
  <2>3. Selects(<<>>, type, mmap, 0)
    BY <2>2 DEF Selects
  <2>4. QED
    BY <1>3, <2>1, <2>3
<1>6. ASSUME NEW k \in 1 .. n, k - 1 \in T PROVE k \in T
  <2>1. g[k] = IF mmap[k].type = type THEN Append(g[k - 1], mmap[k]) ELSE g[k - 1]
    BY <1>4 DEF Steps, Round
  <2>2. k \in 1 .. Len(mmap)
    BY <1>1, <1>2
  <2>3. Selects(g[k], type, mmap, k)
    BY <1>6, <2>1, <2>2, SelectsNext
  <2>4. QED
    BY <1>3, <2>3
<1>7. n \in T
  <2> HIDE DEF T
  <2>1. \A k \in 0 .. n : k \in T
    BY <1>3, <1>5, <1>6, Loop
  <2>2. QED
    BY <1>3, <2>1
<1>8. QED
  BY <1>1, <1>2, <1>4, <1>7, OfTypeIs

LEMMA SumInWord ==
  ASSUME NEW mmap \in Seq(MmapEntry)
  PROVE  SumOfLengths(mmap) \in Word
<1>1. PICK n : n = Len(mmap)
  OBVIOUS
<1>2. n \in Nat /\ DOMAIN mmap = 1 .. n /\ n \in 0 .. n
  BY <1>1
<1>3. PICK g : Steps(g, "sum", "any", 0, mmap, n) /\ SumOfLengths(mmap) = g[n]
  BY <1>2, SumRounds
<1> DEFINE T == {k \in 0 .. n : g[k] \in Word}
<1>4. 0 \in T
  BY <1>2, <1>3, Sizes DEF Steps, Word
<1>5. ASSUME NEW k \in 1 .. n, k - 1 \in T PROVE k \in T
  <2>1. g[k] = Wrap(g[k - 1] + mmap[k].len) /\ k \in 0 .. n
    BY <1>2, <1>3 DEF Steps, Round
  <2>2. mmap[k] \in MmapEntry /\ g[k - 1] \in Nat
    BY <1>2, <1>5, WordPage
  <2>3. mmap[k].len \in Nat
    BY <2>2 DEF MmapEntry
  <2>4. g[k] \in Word
    BY <2>1, <2>2, <2>3, WrapIs
  <2>5. QED
    BY <2>1, <2>4
<1>6. n \in T
  <2> HIDE DEF T
  <2>1. \A k \in 0 .. n : k \in T
    BY <1>2, <1>4, <1>5, Loop
  <2>2. QED
    BY <1>2, <2>1
<1>7. QED
  BY <1>3, <1>6

(* Cut in every round or once at the end, the sum is the same.             *)
LEMMA SumIsTotal ==
  ASSUME NEW mmap \in Seq(MmapEntry)
  PROVE  SumOfLengths(mmap) = Wrap(Lengths(mmap))
<1>1. PICK n : n = Len(mmap)
  OBVIOUS
<1>2. n \in Nat /\ DOMAIN mmap = 1 .. n /\ n \in 0 .. n
  BY <1>1
<1>3. PICK g : Steps(g, "sum", "any", 0, mmap, n) /\ SumOfLengths(mmap) = g[n]
  BY <1>2, SumRounds
<1>4. PICK h : Steps(h, "total", "any", 0, mmap, n) /\ Lengths(mmap) = h[n]
  BY <1>2, TotalRounds
<1> DEFINE T == {k \in 0 .. n : h[k] \in Nat /\ g[k] = Wrap(h[k])}
<1>5. 0 \in T
  <2>1. g[0] = 0 /\ h[0] = 0 /\ Wrap(0) = 0
    BY <1>3, <1>4, Sizes, WrapIs DEF Steps
  <2>2. QED
    BY <1>2, <2>1
<1>6. ASSUME NEW k \in 1 .. n, k - 1 \in T PROVE k \in T
  <2>1. g[k] = Wrap(g[k - 1] + mmap[k].len) /\ h[k] = h[k - 1] + mmap[k].len
        /\ k \in 0 .. n
    BY <1>2, <1>3, <1>4 DEF Steps, Round
  <2>2. mmap[k] \in MmapEntry
    BY <1>2
  <2>3. PICK b \in Nat : b = mmap[k].len
    BY <2>2 DEF MmapEntry
  <2>4. PICK a \in Nat : a = h[k - 1] /\ g[k - 1] = Wrap(a)
    BY <1>6
  <2>5. Wrap(Wrap(a) + b) = Wrap(a + b) /\ a + b \in Nat
    BY WrapAgain
  <2>6. QED
    BY <2>1, <2>3, <2>4, <2>5
<1>7. n \in T
  <2> HIDE DEF T
  <2>1. \A k \in 0 .. n : k \in T
    BY <1>2, <1>5, <1>6, Loop
  <2>2. QED
    BY <1>2, <2>1
<1>8. QED
  BY <1>3, <1>4, <1>7

-----------------------------------------------------------------------------
(* Which frames are free.                                                  *)
Stores == [i \in DOMAIN OfType("available") |-> Stored(OfType("available")[i])]

Top   == SumOfLengths(info.mmap)
Known == {Recursive, HeapRange(Top)}

(* What the loader handed over stays.                                      *)
InfoOK ==
  /\ info.tags \in TagOrders /\ info.mmap \in MemoryMaps /\ info.madt \in Madts
  /\ info.rsdt \in Places
  /\ \E apic \in Places :
       info.tables = <<[sig |-> "other", addr |-> info.rsdt],
                       [sig |-> "APIC", addr |-> apic]>>

LEMMA MapIs ==
  ASSUME InfoOK
  PROVE  /\ info.mmap \in Seq(MmapEntry) /\ Top \in Word
         /\ \A i \in DOMAIN info.mmap :
              info.mmap[i].addr \in Nat /\ info.mmap[i].len \in Nat
<1>1. info.mmap \in Seq(MmapEntry)
  BY BootInfoAssumption DEF InfoOK
<1>2. \A i \in DOMAIN info.mmap : info.mmap[i] \in MmapEntry
  BY <1>1
<1>3. QED
  BY <1>1, <1>2, SumInWord DEF Top, MmapEntry

(* The regions stored and the available entries are the same, cut to 32    *)
(* bits.                                                                   *)
LEMMA StoresAre ==
  ASSUME InfoOK
  PROVE  /\ DOMAIN Stores = 1 .. Len(Stores) /\ Len(Stores) \in Nat
         /\ Len(Stores) = Cardinality(Available)
         /\ \A j \in DOMAIN Stores :
              \E i \in Available : Stores[j] = Stored(info.mmap[i])
         /\ \A i \in Available :
              \E j \in DOMAIN Stores : Stores[j] = Stored(info.mmap[i])
<1>1. PICK mmap \in Seq(MmapEntry) : mmap = info.mmap
  BY MapIs
<1>2. PICK q : q = OfType("available")
  OBVIOUS
<1>3. Selects(q, "available", mmap, Len(mmap)) /\ DOMAIN mmap = 1 .. Len(mmap)
  BY <1>1, <1>2, SelectsAll
<1>4. q \in Seq(MmapEntry) /\ DOMAIN q = 1 .. Len(q) /\ Len(q) \in Nat
  BY <1>3 DEF Selects
<1>5. Stores = [i \in 1 .. Len(q) |-> Stored(q[i])]
  BY <1>2, <1>4 DEF Stores
<1>6. DOMAIN Stores = 1 .. Len(q) /\ Len(Stores) = Len(q)
  BY <1>4, <1>5
<1>7. Available = {i \in 1 .. Len(mmap) : mmap[i].type = "available"}
  BY <1>1, <1>3 DEF Available
<1>8. ASSUME NEW j \in DOMAIN Stores
      PROVE  \E i \in Available : Stores[j] = Stored(info.mmap[i])
  <2>1. PICK i \in 1 .. Len(mmap) : mmap[i].type = "available" /\ q[j] = mmap[i]
    BY <1>3, <1>4, <1>6 DEF Selects
  <2>2. i \in Available /\ Stores[j] = Stored(info.mmap[i])
    BY <1>1, <1>5, <1>6, <1>7, <2>1
  <2>3. QED
    BY <2>2
<1>9. ASSUME NEW i \in Available
      PROVE  \E j \in DOMAIN Stores : Stores[j] = Stored(info.mmap[i])
  <2>1. PICK j \in DOMAIN q : q[j] = mmap[i]
    BY <1>3, <1>7 DEF Selects
  <2>2. j \in DOMAIN Stores /\ Stores[j] = Stored(info.mmap[i])
    BY <1>1, <1>4, <1>5, <1>6, <2>1
  <2>3. QED
    BY <2>2
<1>10. Len(q) = Cardinality(Available)
  BY <1>3, <1>7 DEF Selects
<1>11. QED
  BY <1>4, <1>6, <1>8, <1>9, <1>10

LEMMA StoredIs ==
  ASSUME NEW e, e.addr \in Nat, e.len \in Nat
  PROVE  /\ Stored(e).addr \in Word /\ Stored(e).len \in Word
         /\ Stored(e).addr = Wrap(e.addr) /\ Stored(e).len = Wrap(e.len)
         /\ End(Stored(e)) = Wrap(e.addr) + Wrap(e.len)
         /\ End(Stored(e)) \in Nat /\ End(e) = e.addr + e.len
<1>1. Wrap(e.addr) \in Word /\ Wrap(e.len) \in Word
  BY WrapIs
<1>2. Wrap(e.addr) \in Nat /\ Wrap(e.len) \in Nat
  BY <1>1, WordPage
<1>3. QED
  BY <1>1, <1>2 DEF Stored, End

(* An address in a region is one of the entry, if that ends below 4 GiB.   *)
LEMMA CutIsInside ==
  ASSUME NEW e, e.addr \in Nat, e.len \in Nat, End(e) <= AddressSpace,
         NEW a \in Nat, Within(a, Stored(e))
  PROVE  Inside(a, e)
<1>1. AddressSpace \in Nat \ {0}
  BY Sizes
<1>2. /\ Stored(e).addr = Wrap(e.addr) /\ Stored(e).len = Wrap(e.len)
      /\ Wrap(e.addr) \in 0 .. AddressSpace - 1 /\ Wrap(e.len) \in 0 .. AddressSpace - 1
      /\ End(Stored(e)) = Wrap(e.addr) + Wrap(e.len)
      /\ End(e) = e.addr + e.len
  BY StoredIs DEF Word
<1>3. Wrap(e.addr) <= a /\ a < Wrap(Wrap(e.addr) + Wrap(e.len))
  BY <1>2 DEF Within
<1>4. CASE End(e) < AddressSpace
  <2>1. Wrap(e.addr) = e.addr /\ Wrap(e.len) = e.len
    BY <1>1, <1>2, <1>4, WrapIs
  <2>2. Wrap(e.addr + e.len) = e.addr + e.len
    BY <1>1, <1>2, <1>4, WrapIs
  <2>3. QED
    BY <1>2, <1>3, <2>1, <2>2 DEF Inside
<1>5. CASE End(e) = AddressSpace
  <2>1. Wrap(AddressSpace) = 0 /\ Wrap(0) = 0
    BY <1>1 DEF Wrap
  <2>2. CASE e.addr = AddressSpace
    <3>1. e.len = 0
      BY <1>1, <1>2, <1>5, <2>2
    <3>2. QED
      BY <1>3, <2>1, <2>2, <3>1
  <2>3. CASE e.len = AddressSpace
    <3>1. e.addr = 0
      BY <1>1, <1>2, <1>5, <2>3
    <3>2. QED
      BY <1>3, <2>1, <2>3, <3>1
  <2>4. CASE e.addr < AddressSpace /\ e.len < AddressSpace
    <3>1. Wrap(e.addr) = e.addr /\ Wrap(e.len) = e.len
      BY <2>4, WrapIs
    <3>2. QED
      BY <1>2, <1>3, <1>5, <2>1, <3>1
  <2>5. QED
    BY <1>1, <1>2, <1>5, <2>2, <2>3, <2>4
<1>6. QED
  BY <1>1, <1>2, <1>4, <1>5

LEMMA InsideIsCut ==
  ASSUME NEW e, e.addr \in Nat, e.len \in Nat, End(e) < AddressSpace,
         NEW a \in Nat, Inside(a, e)
  PROVE  Within(a, Stored(e))
<1>1. AddressSpace \in Nat \ {0}
  BY Sizes
<1>2. /\ Stored(e).addr = Wrap(e.addr)
      /\ End(Stored(e)) = Wrap(e.addr) + Wrap(e.len)
      /\ End(e) = e.addr + e.len
  BY StoredIs
<1>3. Wrap(e.addr) = e.addr /\ Wrap(e.len) = e.len
      /\ Wrap(e.addr + e.len) = e.addr + e.len
  BY <1>1, <1>2, WrapIs
<1>4. QED
  BY <1>2, <1>3 DEF Inside, Within

LEMMA MemoryIs ==
  ASSUME NEW f \in Nat
  PROVE  /\ Memory(f) \subseteq Nat
         /\ f * PageSize \in Nat /\ f * PageSize \in Memory(f)
         /\ f * PageSize + (PageSize - 1) \in Memory(f)
         /\ PageSize \in Nat \ {0}
<1>1. PageSize \in Nat \ {0}
  BY Sizes
<1>2. f * PageSize \in Nat
  BY <1>1
<1>3. 0 \in 0 .. PageSize - 1 /\ PageSize - 1 \in 0 .. PageSize - 1
      /\ f * PageSize + 0 = f * PageSize
  BY <1>1, <1>2
<1>4. QED
  BY <1>1, <1>2, <1>3 DEF Memory

LEMMA UsableIsRam ==
  ASSUME InfoOK, NEW f \in Nat, is_page_usable(Stores, f)
  PROVE  IsRam(f) \/ CutFrom(f)
<1>1. PICK j \in DOMAIN Stores : \A a \in Memory(f) : Within(a, Stores[j])
  BY DEF is_page_usable
<1>2. PICK i \in Available : Stores[j] = Stored(info.mmap[i])
  BY <1>1, StoresAre
<1>3. /\ info.mmap[i].addr \in Nat /\ info.mmap[i].len \in Nat
      /\ End(info.mmap[i]) \in Nat /\ AddressSpace \in Nat
  <2>1. info.mmap[i].addr \in Nat /\ info.mmap[i].len \in Nat
    BY MapIs DEF Available
  <2>2. End(info.mmap[i]) \in Nat
    BY <2>1 DEF End
  <2>3. QED
    BY <2>1, <2>2, Sizes
<1>4. CASE End(info.mmap[i]) <= AddressSpace
  <2>1. ASSUME NEW a \in Memory(f) PROVE Inside(a, info.mmap[i])
    <3>1. a \in Nat /\ Within(a, Stored(info.mmap[i]))
      BY <1>1, <1>2, MemoryIs
    <3>2. QED
      BY <1>3, <1>4, <3>1, CutIsInside
  <2>2. QED
    BY <2>1 DEF IsRam
<1>5. CASE End(info.mmap[i]) > AddressSpace
  <2>1. \A a \in Memory(f) : Within(a, Stored(info.mmap[i]))
    BY <1>1, <1>2
  <2>2. QED
    BY <1>5, <2>1 DEF CutFrom
<1>6. QED
  BY <1>3, <1>4, <1>5

LEMMA RamIsUsable ==
  ASSUME InfoOK, NoneEmpty, NEW f \in Nat, InOneEntry(f)
  PROVE  is_page_usable(Stores, f)
<1>1. PICK i \in Available : /\ End(info.mmap[i]) < AddressSpace
                            /\ \A a \in Memory(f) : Inside(a, info.mmap[i])
  BY DEF InOneEntry
<1>2. PICK j \in DOMAIN Stores : Stores[j] = Stored(info.mmap[i])
  BY StoresAre
<1>3. \A k \in Available : info.mmap[k].addr \in Nat /\ info.mmap[k].len \in Nat
  BY MapIs DEF Available
<1>4. ASSUME NEW a \in Memory(f) PROVE Within(a, Stores[j])
  <2>1. a \in Nat /\ Inside(a, info.mmap[i]) /\ End(info.mmap[i]) < AddressSpace
    BY <1>1, MemoryIs
  <2>2. QED
    BY <1>2, <1>3, <2>1, InsideIsCut
<1>5. ASSUME NEW k \in 1 .. j PROVE Stores[k].len # 0
  <2>1. k \in DOMAIN Stores
    BY StoresAre
  <2>2. PICK h \in Available : Stores[k] = Stored(info.mmap[h])
    BY <2>1, StoresAre
  <2>3. Wrap(info.mmap[h].len) # 0
    BY DEF NoneEmpty
  <2>4. Stores[k].len = Wrap(info.mmap[h].len)
    BY <1>3, <2>2, StoredIs
  <2>5. QED
    BY <2>3, <2>4
<1>6. QED
  BY <1>4, <1>5 DEF is_page_usable

LEMMA MinIsLeast ==
  ASSUME NEW S, S \subseteq Nat, S # {}
  PROVE  Min(S) \in S /\ \A x \in S : Min(S) <= x
<1>1. \E n \in S : \A y \in S : n <= y
  BY LeastNat
<1>2. QED
  BY <1>1 DEF Min

LEMMA RequestedIs ==
  ASSUME NEW n \in Nat, NEW f, f \subseteq 0 .. n,
         NEW first \in Nat, NEW count \in Nat
  PROVE  /\ Requested(f, n, first, count) \subseteq f
         /\ \A x \in f \ Requested(f, n, first, count) :
              x \in first .. first + count - 1 /\ first + count < n
<1>1. CASE Bitmap(n)!CanRequest(Marked(f, n), first, count)
  <2>1. first + count < n
    BY <1>1 DEF Bitmap!CanRequest
  <2>2. Requested(f, n, first, count) = f \ (first .. first + count - 1)
    BY <1>1 DEF Requested, Bitmap!Run
  <2>3. QED
    BY <2>1, <2>2
<1>2. CASE ~Bitmap(n)!CanRequest(Marked(f, n), first, count)
  BY <1>2 DEF Requested
<1>3. QED
  BY <1>1, <1>2

(* The heap is the lowest run of frames that have a free one behind them.  *)
LEMMA HeapIs ==
  ASSUME NEW n \in Nat, NEW f, f \subseteq 0 .. n, HeapRuns(f, n) # {}
  PROVE  \E b \in 0 .. n - 1 :
           /\ HeapFrames(f, n) = b .. b + HeapPages - 1 /\ b + HeapPages <= n
           /\ b .. b + HeapPages \subseteq f
           /\ \A c \in Nat : c .. c + HeapPages \subseteq f => b <= c
<1>1. HeapPages \in Nat \ {0}
  BY Sizes
<1>2. ASSUME NEW c \in 0 .. n - 1
      PROVE  /\ c \in HeapRuns(f, n) <=> c .. c + HeapPages \subseteq f
             /\ c .. c + HeapPages \subseteq f => c + HeapPages <= n
  <2>1. c \in HeapRuns(f, n) <=>
          /\ c + HeapPages - 1 < n
          /\ \A i \in c .. c + HeapPages : ~Marked(f, n)[i]
    BY DEF HeapRuns, Bitmap!Avail
  <2>2. ASSUME c + HeapPages - 1 < n, NEW i \in c .. c + HeapPages
        PROVE  Marked(f, n)[i] <=> i \notin f
    <3>1. i \in 0 .. n
      BY <1>1, <2>2
    <3>2. QED
      BY <3>1 DEF Marked
  <2>3. ASSUME c .. c + HeapPages \subseteq f PROVE c + HeapPages - 1 < n
    <3>1. c + HeapPages \in c .. c + HeapPages
      BY <1>1
    <3>2. c + HeapPages \in 0 .. n
      BY <2>3, <3>1
    <3>3. QED
      BY <1>1, <3>2
  <2>4. c + HeapPages - 1 < n => c + HeapPages <= n
    BY <1>1
  <2>5. QED
    BY <2>1, <2>2, <2>3, <2>4
<1>3. HeapRuns(f, n) \subseteq 0 .. n - 1
  BY DEF HeapRuns
<1>4. PICK b : b = Min(HeapRuns(f, n))
  OBVIOUS
<1>5. b \in HeapRuns(f, n) /\ \A c \in HeapRuns(f, n) : b <= c
  <2>1. HeapRuns(f, n) \subseteq Nat
    BY <1>3
  <2>2. QED
    BY <1>4, <2>1, MinIsLeast
<1>6. b \in 0 .. n - 1 /\ b .. b + HeapPages \subseteq f /\ b + HeapPages <= n
  BY <1>2, <1>3, <1>5
<1>7. HeapFrames(f, n) = b .. b + HeapPages - 1
  BY <1>4 DEF HeapFrames, Bitmap!Run
<1>9. ASSUME NEW c \in Nat, c .. c + HeapPages \subseteq f PROVE b <= c
  <2>1. c \in c .. c + HeapPages
    BY <1>1
  <2>2. c + HeapPages \in c .. c + HeapPages
    BY <1>1
  <2>3. c \in 0 .. n - 1
    BY <1>1, <1>9, <2>1, <2>2
  <2>4. QED
    BY <1>2, <1>5, <1>9, <2>3
<1>10. QED
  BY <1>6, <1>7, <1>9

(* init_pmm leaves usable frames free, all but some of the bitmap.         *)
LEMMA AfterIs ==
  ASSUME NEW rs, NEW n \in Nat, NEW beyond, NEW raw \in SUBSET Unreached(n)
  PROVE  /\ AfterInitPmm(rs, n, beyond, raw) \subseteq 0 .. n
         /\ \A f \in AfterInitPmm(rs, n, beyond, raw) :
              is_page_usable(rs, f) \/ f \in beyond \/ f \in Unreached(n)
         /\ \A f \in LowFrames .. n - 1 : is_page_usable(rs, f) /\ f \notin BitmapFrames
              => f \in AfterInitPmm(rs, n, beyond, raw)
<1> DEFINE v == Usable(rs, n, beyond)
           u == v \cup raw
           r == AfterInitPmm(rs, n, beyond, raw)
<1>1. LowFrames \in Nat /\ BitmapFirst \in Nat /\ BitmapPages \in Nat
      /\ ByteBits \in Nat \ {0}
  BY Sizes
<1>2. /\ v \subseteq LowFrames .. n - 1
      /\ \A f \in v : is_page_usable(rs, f) \/ f \in beyond
      /\ \A f \in LowFrames .. n - 1 : is_page_usable(rs, f) => f \in v
  BY DEF Usable
<1>3. r = Requested(u, n, BitmapFirst, BitmapPages)
  BY DEF AfterInitPmm
<1>4. Unreached(n) \subseteq 0 .. n
  <2>1. PICK q : q = n \div ByteBits
    OBVIOUS
  <2>2. q \in Nat
    BY <1>1, <2>1
  <2>3. q * ByteBits \in Nat
    BY <1>1, <2>2
  <2>4. Unreached(n) = q * ByteBits .. n
    BY <2>1 DEF Unreached
  <2>5. QED
    BY <2>3, <2>4
<1> HIDE DEF v, r
<1>5. u \subseteq 0 .. n
  <2>1. LowFrames .. n - 1 \subseteq 0 .. n
    BY <1>1
  <2>2. QED
    BY <1>2, <1>4, <2>1
<1>6. r \subseteq u /\ \A x \in u \ r : x \in BitmapFrames
  <2> HIDE DEF u
  <2>1. QED
    BY <1>1, <1>3, <1>5, RequestedIs DEF BitmapFrames
<1>7. \A f \in r : is_page_usable(rs, f) \/ f \in beyond \/ f \in Unreached(n)
  BY <1>2, <1>6
<1>8. QED
  BY <1>2, <1>5, <1>6, <1>7 DEF r

LEMMA InSpace ==
  ASSUME NEW a \in Nat, PageOf(a) < PageOf(AddressSpace)
  PROVE  a < AddressSpace /\ Wrap(a) = a
<1>1. a < AddressSpace
  <2>1. SUFFICES ASSUME AddressSpace <= a PROVE FALSE
    BY Sizes
  <2>2. PageOf(AddressSpace) <= PageOf(a)
    BY <2>1, Sizes, PageMono
  <2>3. QED
    BY <2>2, Sizes, PageIs
<1>2. QED
  BY <1>1, WrapIs

LEMMA NumPagesIs ==
  ASSUME NEW len \in Nat
  PROVE  /\ NumPages(len) \in Nat
         /\ NumPages(len) * PageSize \in Word
         /\ len + PageSize - 1 < AddressSpace => len <= NumPages(len) * PageSize
<1>1. PageSize \in Nat \ {0} /\ AddressSpace \in Nat \ {0}
  BY Sizes
<1>2. PICK a : a = len + (PageSize - 1)
  OBVIOUS
<1>3. a \in Nat /\ len + PageSize - 1 = a /\ Wrap(a) \in Word
      /\ (a < AddressSpace => Wrap(a) = a)
  BY <1>1, <1>2, WrapIs
<1>4. PICK w : w = Wrap(a)
  OBVIOUS
<1>5. w \in Nat /\ w < AddressSpace
  BY <1>1, <1>3, <1>4 DEF Word
<1>6. PICK p : p = NumPages(len)
  OBVIOUS
<1>7. p = PageOf(w)
  BY <1>3, <1>4, <1>6 DEF NumPages, PageOf
<1>8. p \in Nat /\ p * PageSize <= w /\ w < p * PageSize + PageSize
  BY <1>5, <1>7, PageIs
<1>9. p * PageSize \in Nat
  BY <1>1, <1>8
<1>10. p * PageSize \in Word
  BY <1>1, <1>5, <1>8, <1>9 DEF Word
<1>11. ASSUME len + PageSize - 1 < AddressSpace PROVE len <= p * PageSize
  BY <1>1, <1>2, <1>3, <1>4, <1>8, <1>9, <1>11
<1>12. QED
  BY <1>6, <1>8, <1>10, <1>11

LEMMA PagesInSpace ==
  ASSUME NEW r, r.addr \in Nat, r.len \in Nat
  PROVE  Pages(r) \subseteq 0 .. PageOf(AddressSpace) - 1
<1>1. ASSUME NEW i \in 0 .. NumPages(r.len) - 1
      PROVE  PageOf(Wrap(r.addr + i * PageSize)) \in 0 .. PageOf(AddressSpace) - 1
  <2>1. i \in Nat
    BY NumPagesIs
  <2>2. r.addr + i * PageSize \in Nat
    BY <2>1, PageShift
  <2>3. QED
    BY <2>2, WrapIs, WordPage
<1>2. QED
  BY <1>1 DEF Pages

(* The i-th page of a range, where it lies in the address space.           *)
LEMMA PageOfRange ==
  ASSUME NEW r, r.addr \in Nat, r.len \in Nat, NEW i \in 0 .. NumPages(r.len) - 1,
         PageOf(r.addr) + i < PageOf(AddressSpace)
  PROVE  PageOf(r.addr) + i \in Pages(r)
<1>1. i \in Nat
  BY NumPagesIs
<1>2. r.addr + i * PageSize \in Nat /\ PageOf(r.addr + i * PageSize) = PageOf(r.addr) + i
  BY <1>1, PageShift
<1>3. Wrap(r.addr + i * PageSize) = r.addr + i * PageSize
  BY <1>2, InSpace
<1>4. QED
  BY <1>2, <1>3 DEF Pages

LEMMA FreeIs ==
  ASSUME NEW r, r.addr \in Nat, r.len \in Nat, NEW known, NEW top \in Word,
         NEW f, f \subseteq 0 .. PageOf(top)
  PROVE  /\ FreeWith(r, known, f, top) \subseteq f
         /\ f \ FreeWith(r, known, f, top) \subseteq Pages(r)
<1>1. PICK n : n = PageOf(top)
  OBVIOUS
<1>2. n \in Nat /\ n < PageOf(AddressSpace) /\ PageOf(AddressSpace) \in Nat
  BY <1>1, WordPage, Sizes
<1>3. PICK first : first = PageOf(r.addr)
  OBVIOUS
<1>4. PICK count : count = NumPages(r.len)
  OBVIOUS
<1>5. first \in Nat /\ count \in Nat
  BY <1>3, <1>4, PageIs, NumPagesIs
<1>6. CASE Exists(r, known)
  BY <1>6 DEF FreeWith
<1>7. CASE ~Exists(r, known)
  <2>1. FreeWith(r, known, f, top) = Requested(f, n, first, count)
    BY <1>1, <1>3, <1>4, <1>7 DEF FreeWith
  <2>2. ASSUME NEW x \in f \ Requested(f, n, first, count) PROVE x \in Pages(r)
    <3>1. x \in first .. first + count - 1 /\ first + count < n
      BY <1>1, <1>2, <1>5, RequestedIs
    <3>2. PICK i : i = x - first
      OBVIOUS
    <3>3. i \in 0 .. count - 1 /\ x = first + i /\ first + i < PageOf(AddressSpace)
      BY <1>2, <1>5, <3>1, <3>2
    <3>4. QED
      BY <1>3, <1>4, <3>3, PageOfRange
  <2>3. Requested(f, n, first, count) \subseteq f
    BY <1>1, <1>2, <1>5, RequestedIs
  <2>4. QED
    BY <2>1, <2>2, <2>3
<1>8. QED
  BY <1>6, <1>7

-----------------------------------------------------------------------------
(* Areas and pages.                                                        *)
LEMMA RangesAre ==
  /\ Recursive \in Ranges /\ Framebuffer \in Ranges /\ Lapic \in Ranges
  /\ \A r \in Ranges : r.addr \in Word /\ r.len \in Word /\ r.addr \in Nat
                       /\ r.len \in Nat /\ End(r) \in Nat
                       /\ End(r) = r.addr + r.len
  /\ \A a \in Word : IoapicRange(a) \in Ranges
<1>1. Recursive \in Ranges /\ Framebuffer \in Ranges /\ Lapic \in Ranges
      /\ IoapicLength \in Word
  BY BootInfoAssumption
<1>2. ASSUME NEW r \in Ranges
      PROVE  /\ r.addr \in Word /\ r.len \in Word /\ r.addr \in Nat
             /\ r.len \in Nat /\ End(r) \in Nat /\ End(r) = r.addr + r.len
  <2>1. r.addr \in Word /\ r.len \in Word
    BY DEF Ranges
  <2>2. QED
    BY <2>1, WordPage DEF End
<1>3. QED
  BY <1>1, <1>2 DEF IoapicRange, Ranges

LEMMA AreaIs ==
  ASSUME NEW r \in Ranges
  PROVE  Area(r) \in Ranges
BY RangesAre, NumPagesIs DEF Area, Ranges

LEMMA HeapRangeIs ==
  ASSUME NEW top \in Word, (HeapPages + LowPages) * PageSize <= top
  PROVE  /\ HeapRange(top) \in Ranges /\ End(HeapRange(top)) = top
         /\ LowPages * PageSize <= HeapRange(top).addr
         /\ PageSize <= HeapRange(top).len
         /\ PageSize <= HeapRange(top).addr
<1>1. /\ PageSize \in Nat \ {0} /\ HeapPages \in Nat \ {0} /\ LowPages \in Nat \ {0}
      /\ top \in Nat /\ AddressSpace \in Nat \ {0} /\ top < AddressSpace
  BY Sizes, WordPage DEF Word
<1>2. PICK h \in Nat : h = HeapPages * PageSize
  BY <1>1
<1>3. PICK l \in Nat : l = LowPages * PageSize
  BY <1>1
<1>4. (HeapPages + LowPages) * PageSize = h + l
  BY <1>1, <1>2, <1>3
<1>5. PageSize <= h /\ PageSize <= l
  <2>1. 1 * PageSize <= HeapPages * PageSize /\ 1 * PageSize <= LowPages * PageSize
    BY <1>1, Times
  <2>2. QED
    BY <1>1, <1>2, <1>3, <2>1
<1>6. HeapRange(top) = [addr |-> top - h, len |-> h]
  BY <1>2 DEF HeapRange
<1>7. top - h \in Word /\ h \in Word
  BY <1>1, <1>2, <1>3, <1>4 DEF Word
<1>8. HeapRange(top) \in Ranges
  BY <1>6, <1>7 DEF Ranges
<1>9. QED
  BY <1>1, <1>2, <1>3, <1>4, <1>5, <1>6, <1>8 DEF End

LEMMA WrapLess ==
  ASSUME NEW a \in Nat
  PROVE  Wrap(a) \in Nat /\ Wrap(a) <= a
<1>1. AddressSpace \in Nat \ {0}
  BY Sizes
<1>2. Wrap(a) \in Nat
  BY WrapIs, WordPage
<1>3. CASE a < AddressSpace
  BY <1>3, WrapIs
<1>4. CASE AddressSpace <= a
  <2>1. Wrap(a) < AddressSpace
    BY <1>1, WrapIs DEF Word
  <2>2. QED
    BY <1>1, <1>2, <1>4, <2>1
<1>5. QED
  BY <1>1, <1>2, <1>3, <1>4

(* A range apart from every area is not found.                             *)
LEMMA ApartIsNew ==
  ASSUME NEW r, r.addr \in Nat, r.len \in Nat, End(r) < AddressSpace,
         NEW known, known \subseteq Ranges, \A a \in known : Apart(r, a)
  PROVE  ~Exists(r, known)
<1>1. End(r) = r.addr + r.len /\ End(r) \in Nat /\ Wrap(End(r)) = End(r)
  BY WrapIs DEF End
<1>2. ASSUME NEW a \in known,
             Within(r.addr, a) \/ Within(Wrap(End(r)), a) \/ Within(a.addr, r)
      PROVE  FALSE
  <2>1. /\ a.addr \in Nat /\ a.len \in Nat /\ End(a) = a.addr + a.len
        /\ Wrap(End(a)) \in Nat /\ Wrap(End(a)) <= End(a)
    BY RangesAre, WrapLess
  <2>2. End(r) < a.addr \/ (a.addr < r.addr /\ End(a) <= r.addr)
    BY DEF Apart
  <2>3. CASE Within(r.addr, a)
    BY <1>1, <2>1, <2>2, <2>3 DEF Within
  <2>4. CASE Within(Wrap(End(r)), a)
    BY <1>1, <2>1, <2>2, <2>4 DEF Within
  <2>5. CASE Within(a.addr, r)
    BY <1>1, <2>1, <2>2, <2>5 DEF Within
  <2>6. QED
    BY <1>2, <2>3, <2>4, <2>5
<1>3. QED
  BY <1>2 DEF Exists

(* The page of an address of a range is mapped with it.                    *)
LEMMA PageMapped ==
  ASSUME NEW r, r.addr \in Nat, r.len \in Nat, End(r) < AddressSpace,
         NEW top \in Word, (HeapPages + LowPages) * PageSize <= top,
         Apart(r, HeapRange(top)), NEW a \in Nat, Inside(a, r),
         r.addr % PageSize = 0 \/ PageOf(a) < PageOf(End(r))
  PROVE  PageOf(a) \in Pages(r)
<1>1. /\ PageSize \in Nat \ {0} /\ AddressSpace \in Nat \ {0} /\ top < AddressSpace
      /\ top \in Nat
  BY Sizes, WordPage DEF Word
<1>2. r.addr <= a /\ a < r.addr + r.len /\ End(r) = r.addr + r.len
  BY DEF Inside, End
<1>3. r.len + PageSize - 1 < AddressSpace
  <2>1. PICK s : s = HeapRange(top)
    OBVIOUS
  <2>2. /\ s.addr \in Nat /\ s.len \in Nat /\ End(s) = s.addr + s.len /\ End(s) = top
        /\ PageSize <= s.len /\ PageSize <= s.addr
    BY <2>1, HeapRangeIs, RangesAre
  <2>3. End(r) < s.addr \/ End(s) <= r.addr
    BY <2>1 DEF Apart
  <2>4. QED
    BY <1>1, <1>2, <2>2, <2>3
<1>4. PICK q \in Nat : q = NumPages(r.len)
  BY NumPagesIs
<1>5. r.len <= q * PageSize /\ q * PageSize \in Nat
  BY <1>1, <1>3, <1>4, NumPagesIs
<1>6. PICK p \in Nat : p = PageOf(r.addr)
  BY PageIs
<1>7. PICK t \in Nat : t = PageOf(a)
  BY PageIs
<1>8. p * PageSize <= r.addr /\ r.addr < p * PageSize + PageSize /\ t * PageSize <= a
      /\ p * PageSize \in Nat /\ t * PageSize \in Nat
  BY <1>1, <1>6, <1>7, PageIs
<1>9. p <= t /\ t < PageOf(AddressSpace) /\ PageOf(AddressSpace) \in Nat
  <2>1. a \in Word
    BY <1>1, <1>2 DEF Word
  <2>2. QED
    BY <1>2, <1>6, <1>7, <2>1, PageMono, WordPage, Sizes
<1>10. PICK i \in Nat : i = t - p
  BY <1>9
<1>11. i < q
  <2>1. SUFFICES ASSUME q <= i PROVE FALSE
    OBVIOUS
  <2>2. (p + q) * PageSize <= t * PageSize
    BY <1>1, <1>10, <2>1, Times
  <2>3. (p + q) * PageSize = p * PageSize + q * PageSize
    BY <1>1
  <2>4. CASE r.addr % PageSize = 0
    <3>1. r.addr = p * PageSize + (r.addr % PageSize)
      BY <1>1, <1>6, Divided
    <3>2. r.addr = p * PageSize
      BY <1>8, <2>4, <3>1
    <3>3. QED
      BY <1>1, <1>2, <1>5, <1>8, <2>2, <2>3, <3>2
  <2>5. CASE t < PageOf(End(r))
    <3>1. PICK e \in Nat : e = PageOf(End(r))
      BY <1>2, PageIs
    <3>2. e * PageSize <= r.addr + r.len /\ e * PageSize \in Nat
      BY <1>1, <1>2, <3>1, PageIs
    <3>3. (t + 1) * PageSize <= e * PageSize
      BY <1>1, <2>5, <3>1, Times
    <3>4. (t + 1) * PageSize = t * PageSize + PageSize
      BY <1>1
    <3>5. QED
      BY <1>1, <1>2, <1>5, <1>8, <2>2, <2>3, <3>2, <3>3, <3>4
  <2>6. QED
    BY <1>7, <2>4, <2>5
<1>12. i \in 0 .. NumPages(r.len) - 1 /\ PageOf(r.addr) + i = PageOf(a)
  BY <1>4, <1>6, <1>7, <1>10, <1>11
<1>13. PageOf(r.addr) + i < PageOf(AddressSpace)
  BY <1>7, <1>9, <1>12
<1>14. QED
  BY <1>12, <1>13, PageOfRange

-----------------------------------------------------------------------------
(* The inductive invariant.                                                *)
Claimed == Devices \cup AcpiEntry

(* The tags not yet seen are the last ones; the memory map is seen once,   *)
(* and init_memory leaves a heap or nothing to go on with.                 *)
TagsInv ==
  /\ \E i \in 0 .. Len(info.tags) : todo = SubSeq(info.tags, i + 1, Len(info.tags))
  /\ "mmap" \in Range(todo) => heap = {}
  /\ stop = "no" /\ "mmap" \in Range(info.tags) \ Range(todo) => heap # {}

(* The frames f that init_pmm left free: the heap took its run of them,    *)
(* and what else is gone a device has, but for the bit past the bitmap.    *)
TakenFrom(f) ==
  /\ HeapRuns(f, PageOf(Top)) # {} /\ heap = HeapFrames(f, PageOf(Top))
  /\ free \subseteq f \ (heap \cup {PageOf(Top)})
  /\ (f \ (heap \cup {PageOf(Top)})) \ free
       \subseteq UNION {Pages(r) : r \in Claimed}

(* What init_pmm may leave free.                                           *)
Sweeps(n) ==
  {AfterInitPmm(Stores, n, beyond, raw) :
     beyond \in Beyond(Stores, n), raw \in SUBSET Unreached(n)}

KnownArea(a) == a \in Known \/ a = [addr |-> 0, len |-> 0]
                \/ \E r \in Claimed : a = Area(r)

(* Before init_memory no device is set up.                                 *)
NoMemory ==
  /\ regions = <<>> /\ length = 0 /\ free = {} /\ areas = {}
  /\ mapped = EarlyMapped
  /\ stop \notin {"early", "regions", "heap"} => Devices = {}

WithMemory ==
  /\ regions = Stores /\ length = Top /\ Len(Stores) <= MaxRegions
  /\ (HeapPages + LowPages) * PageSize <= Top
  /\ \E f \in Sweeps(PageOf(Top)) : TakenFrom(f)
  /\ \A a \in areas : a \in Ranges /\ KnownArea(a)
  /\ EarlyMapped \ Pages(HeapRange(Top)) \subseteq mapped
  /\ \A e \in AcpiEntry : Exists(e, Known) \/ Pages(e) \subseteq mapped

MemoryInv == IF heap = {} THEN NoMemory ELSE WithMemory

ControlInv ==
  /\ pc \in {"tags", "lapic", "ioapic", "sti"}
  /\ madt \in Word \cup {NULL} /\ ioapic \in Word \cup {NULL}
  /\ pc # "sti" => ioapic = NULL
  /\ stop \in {"no", "early", "regions", "null", "heap", "acpi", "lapic",
               "array", "ioapic"}
  /\ mapped \subseteq 0 .. PageOf(AddressSpace) - 1

BootInv == InfoOK /\ TagsInv /\ ControlInv /\ MemoryInv

-----------------------------------------------------------------------------
(* What the invariant says.                                                *)
LEMMA AcpiIs ==
  ASSUME InfoOK
  PROVE  /\ AcpiEntry \subseteq Ranges
         /\ \A i \in DOMAIN info.mmap :
              info.mmap[i].type = "acpi"
              /\ (\A j \in i + 1 .. Len(info.mmap) : info.mmap[j].type # "acpi")
                => AcpiEntry = {Stored(info.mmap[i])}
<1>1. PICK mmap \in Seq(MmapEntry) : mmap = info.mmap
  BY MapIs
<1>2. PICK q : q = OfType("acpi")
  OBVIOUS
<1>3. Selects(q, "acpi", mmap, Len(mmap)) /\ DOMAIN mmap = 1 .. Len(mmap)
  BY <1>1, <1>2, SelectsAll
<1>4. q \in Seq(MmapEntry) /\ DOMAIN q = 1 .. Len(q) /\ Len(q) \in Nat
  BY <1>3 DEF Selects
<1>5. AcpiEntry = IF q = <<>> THEN {} ELSE {Stored(q[Len(q)])}
  BY <1>2 DEF AcpiEntry, Last
<1>6. AcpiEntry \subseteq Ranges
  <2>1. ASSUME q # <<>> PROVE Stored(q[Len(q)]) \in Ranges
    <3>1. Len(q) \in DOMAIN q
      BY <1>4, <2>1
    <3>2. q[Len(q)] \in MmapEntry
      BY <1>4, <3>1
    <3>3. q[Len(q)].addr \in Nat /\ q[Len(q)].len \in Nat
      BY <3>2 DEF MmapEntry
    <3>4. Wrap(q[Len(q)].addr) \in Word /\ Wrap(q[Len(q)].len) \in Word
      BY <3>3, WrapIs
    <3>5. QED
      BY <3>4 DEF Stored, Ranges
  <2>2. QED
    BY <1>5, <2>1
<1>7. ASSUME NEW i \in DOMAIN mmap, mmap[i].type = "acpi",
             \A j \in i + 1 .. Len(mmap) : mmap[j].type # "acpi"
      PROVE  AcpiEntry = {Stored(mmap[i])}
  <2>1. q # <<>> /\ q[Len(q)] = mmap[i]
    BY <1>3, <1>7 DEF Selects
  <2>2. QED
    BY <1>5, <2>1
<1>8. QED
  BY <1>1, <1>6, <1>7

(* Every sweep.                                                            *)
LEMMA SweepIs ==
  ASSUME NEW n \in Nat, NEW f \in Sweeps(n)
  PROVE  /\ f \subseteq 0 .. n
         /\ \A x \in f : is_page_usable(Stores, x) \/ x \in Unreached(n)
                       \/ \E beyond \in Beyond(Stores, n) : x \in beyond
         /\ \A x \in LowFrames .. n - 1 :
              is_page_usable(Stores, x) /\ x \notin BitmapFrames => x \in f
<1>1. PICK beyond \in Beyond(Stores, n), raw \in SUBSET Unreached(n) :
        f = AfterInitPmm(Stores, n, beyond, raw)
  BY DEF Sweeps
<1>2. QED
  BY <1>1, AfterIs

LEMMA HeldIs ==
  ASSUME BootInv, heap # {}
  PROVE  /\ WithMemory /\ Top \in Word /\ PageOf(Top) \in Nat
         /\ Frames = 0 .. PageOf(Top) - 1
         /\ \E f \in Sweeps(PageOf(Top)) :
              /\ TakenFrom(f) /\ f \subseteq 0 .. PageOf(Top)
              /\ f \ {PageOf(Top)} \subseteq Frames
              /\ heap \subseteq f \ {PageOf(Top)}
<1>1. WithMemory
  BY DEF BootInv, MemoryInv
<1>2. Top \in Word /\ PageOf(Top) \in Nat
  BY MapIs, WordPage DEF BootInv
<1>3. Frames = 0 .. PageOf(Top) - 1
  BY <1>1 DEF WithMemory, Frames, PageOf
<1>4. PICK f \in Sweeps(PageOf(Top)) : TakenFrom(f)
  BY <1>1 DEF WithMemory
<1>5. f \subseteq 0 .. PageOf(Top)
  <2>1. PICK n \in Nat : n = PageOf(Top)
    BY <1>2
  <2>2. f \in Sweeps(n)
    BY <2>1
  <2>3. f \subseteq 0 .. n
    BY <2>2, SweepIs
  <2>4. QED
    BY <2>1, <2>3
<1>6. f \ {PageOf(Top)} \subseteq Frames
  <2>1. PICK n \in Nat : n = PageOf(Top)
    BY <1>2
  <2>2. \A x \in 0 .. n : x # n => x \in 0 .. n - 1
    OBVIOUS
  <2>3. QED
    BY <1>3, <1>5, <2>1, <2>2
<1>7. heap \subseteq f \ {PageOf(Top)}
  <2>1. HeapRuns(f, PageOf(Top)) # {} /\ heap = HeapFrames(f, PageOf(Top))
    BY <1>4 DEF TakenFrom
  <2>2. PICK b \in 0 .. PageOf(Top) - 1 :
          /\ heap = b .. b + HeapPages - 1 /\ b + HeapPages <= PageOf(Top)
          /\ b .. b + HeapPages \subseteq f
    BY <1>2, <1>5, <2>1, HeapIs
  <2>3. b .. b + HeapPages - 1 \subseteq b .. b + HeapPages
        /\ PageOf(Top) \notin b .. b + HeapPages - 1
    BY <1>2, <2>2, Sizes
  <2>4. QED
    BY <2>2, <2>3
<1>8. QED
  BY <1>1, <1>2, <1>3, <1>4, <1>5, <1>6, <1>7

LEMMA TypeFollows == BootInv => TypeOK
<1>1. SUFFICES ASSUME BootInv PROVE TypeOK
  OBVIOUS
<1>2. /\ info.mmap \in MemoryMaps /\ pc \in {"tags", "lapic", "ioapic", "sti"}
      /\ \E i \in 0 .. Len(info.tags) : todo = SubSeq(info.tags, i + 1, Len(info.tags))
      /\ mapped \subseteq 0 .. PageOf(AddressSpace) - 1
      /\ stop \in {"no", "early", "regions", "null", "heap", "acpi", "lapic",
                   "array", "ioapic"}
  BY <1>1 DEF BootInv, InfoOK, TagsInv, ControlInv
<1>3. {madt, ioapic} \subseteq Nat \cup {NULL}
  BY <1>1, WordPage DEF BootInv, ControlInv
<1>4. CASE heap = {}
  <2>1. regions = <<>> /\ length = 0 /\ free = {} /\ areas = {}
    BY <1>1, <1>4 DEF BootInv, MemoryInv, NoMemory
  <2>2. 0 \in 0 .. AddressSpace - 1 /\ Len(<<>>) <= MaxRegions
    BY Sizes
  <2>3. QED
    BY <1>2, <1>3, <1>4, <2>1, <2>2 DEF TypeOK
<1>5. CASE heap # {}
  <2>1. /\ Len(regions) <= MaxRegions /\ length \in 0 .. AddressSpace - 1
        /\ \A a \in areas : a \in Ranges
    BY <1>1, <1>5, HeldIs DEF WithMemory, Word
  <2>2. free \subseteq Frames /\ heap \subseteq Frames \ free
    <3>1. PICK f : /\ TakenFrom(f) /\ f \ {PageOf(Top)} \subseteq Frames
                   /\ heap \subseteq f \ {PageOf(Top)}
      BY <1>1, <1>5, HeldIs
    <3>2. QED
      BY <3>1 DEF TakenFrom
  <2>3. QED
    BY <1>2, <1>3, <2>1, <2>2 DEF TypeOK
<1>6. QED
  BY <1>4, <1>5

LEMMA RamFollows == BootInv => HandsOutRam
<1>1. SUFFICES ASSUME BootInv, Cardinality(Available) < MaxRegions
               PROVE  /\ \A f \in free \cup heap :
                           IsRam(f) \/ f \in Unreached(PageOf(length)) \/ CutFrom(f)
                      /\ HeapSparesImage
  BY DEF HandsOutRam
<1>2. CASE heap = {}
  <2>1. free = {}
    BY <1>1, <1>2 DEF BootInv, MemoryInv, NoMemory
  <2>2. QED
    BY <1>2, <2>1 DEF HeapSparesImage
<1>3. CASE heap # {}
  <2>1. PICK n : n = PageOf(Top)
    OBVIOUS
  <2>2. PICK f \in Sweeps(n) :
          TakenFrom(f) /\ f \subseteq 0 .. n /\ heap \subseteq f
    BY <1>1, <1>3, <2>1, HeldIs
  <2>4. HeapRuns(f, n) # {} /\ heap = HeapFrames(f, n) /\ free \subseteq f
    BY <2>1, <2>2 DEF TakenFrom
  <2>5. InfoOK /\ n \in Nat /\ LowFrames \in Nat /\ HeapPages \in Nat \ {0}
        /\ length = Top
    BY <1>1, <1>3, <2>1, HeldIs, Sizes DEF BootInv, WithMemory
  <2>6. Beyond(Stores, n) = {{}}
    <3>1. Len(Stores) # MaxRegions
      BY <1>1, <2>5, StoresAre, Sizes
    <3>2. QED
      BY <3>1 DEF Beyond
  <2>7. ASSUME NEW x \in free \cup heap
        PROVE  IsRam(x) \/ x \in Unreached(PageOf(length)) \/ CutFrom(x)
    <3>1. x \in f /\ x \in Nat
      BY <2>2, <2>4, <2>5
    <3>2. is_page_usable(Stores, x) \/ x \in Unreached(n)
      BY <2>2, <2>5, <2>6, <3>1, SweepIs
    <3>3. QED
      BY <2>1, <2>5, <3>1, <3>2, UsableIsRam
  <2>8. ASSUME NoneEmpty, LowFrames + HeapPages <= Min(Image),
               \A x \in LowFrames .. LowFrames + HeapPages :
                 InOneEntry(x) /\ x \notin BitmapFrames
        PROVE  heap \cap Image = {}
    <3>1. PICK b \in 0 .. n - 1 :
            /\ heap = b .. b + HeapPages - 1 /\ b + HeapPages <= n
            /\ b .. b + HeapPages \subseteq f
            /\ \A c \in Nat : c .. c + HeapPages \subseteq f => b <= c
      BY <2>2, <2>4, <2>5, HeapIs
    <3>2. b <= LowFrames
      <4>1. SUFFICES ASSUME LowFrames < b PROVE FALSE
        BY <2>5, <3>1
      <4>2. ASSUME NEW x \in LowFrames .. LowFrames + HeapPages PROVE x \in f
        <5>1. x \in Nat /\ x \in LowFrames .. n - 1
          BY <2>5, <3>1, <4>1
        <5>2. is_page_usable(Stores, x)
          BY <2>5, <2>8, <5>1, RamIsUsable
        <5>3. QED
          BY <2>2, <2>5, <2>8, <5>1, <5>2, SweepIs
      <4>3. LowFrames .. LowFrames + HeapPages \subseteq f
        BY <4>2
      <4>4. b <= LowFrames
        BY <2>5, <3>1, <4>3
      <4>5. QED
        BY <2>5, <3>1, <4>1, <4>4
    <3>3. SUFFICES ASSUME NEW x \in heap, x \in Image PROVE FALSE
      OBVIOUS
    <3>4. Min(Image) <= x /\ Min(Image) \in Nat
      BY <3>3, BootInfoAssumption, MinIsLeast
    <3>5. QED
      BY <2>5, <2>8, <3>1, <3>2, <3>3, <3>4
  <2>9. QED
    BY <2>7, <2>8 DEF HeapSparesImage
<1>4. QED
  BY <1>2, <1>3

LEMMA TopIsTotal ==
  ASSUME InfoOK
  PROVE  Top = Total
<1>1. Total = Wrap(Lengths(info.mmap))
  BY DEF Total, Lengths
<1>2. QED
  BY <1>1, MapIs, SumIsTotal DEF Top

LEMMA LostFollows == BootInv => NoRamLost
<1>1. SUFFICES ASSUME BootInv, NoneEmpty, heap # {},
                      NEW x \in LowFrames .. PageOf(Total) - 1, InOneEntry(x)
               PROVE  x \in free \cup heap \cup BitmapFrames
                            \cup UNION {Pages(r) : r \in Devices \cup AcpiEntry}
  BY DEF NoRamLost
<1>2. PICK n : n = PageOf(Top)
  OBVIOUS
<1>3. InfoOK /\ LowFrames \in Nat /\ n \in Nat /\ n = PageOf(Total)
  BY <1>1, <1>2, HeldIs, TopIsTotal, Sizes DEF BootInv
<1>4. x \in Nat /\ x \in LowFrames .. n - 1 /\ x # n
  BY <1>1, <1>3
<1>5. PICK f \in Sweeps(n) : TakenFrom(f)
  BY <1>1, <1>2, HeldIs
<1>6. is_page_usable(Stores, x)
  BY <1>1, <1>3, <1>4, RamIsUsable
<1>7. x \in f \/ x \in BitmapFrames
  BY <1>3, <1>4, <1>5, <1>6, SweepIs
<1>8. QED
  BY <1>2, <1>4, <1>5, <1>7 DEF TakenFrom, Claimed

-----------------------------------------------------------------------------
(* Steps.                                                                  *)
LEMMA TagStep ==
  ASSUME BootInv, NEW type, Tag(type)
  PROVE  /\ \E i \in 0 .. Len(info.tags) : todo' = SubSeq(info.tags, i + 1, Len(info.tags))
         /\ Range(todo) = Range(todo') \cup {type}
         /\ type # "other" => type \notin Range(todo')
         /\ type \in Range(info.tags)
         /\ Before("mmap", type) /\ type = "acpi" => "mmap" \in Range(info.tags) \ Range(todo)
<1>1. PICK tags : tags = info.tags
  OBVIOUS
<1>2. /\ tags \in Seq(TagType)
      /\ \A i, j \in DOMAIN tags : tags[i] = tags[j] /\ tags[i] # "other" => i = j
  BY <1>1, BootInfoAssumption DEF BootInv, InfoOK
<1>3. PICK n : n = Len(tags)
  OBVIOUS
<1>4. n \in Nat /\ DOMAIN tags = 1 .. n
  BY <1>2, <1>3
<1>5. PICK i \in 0 .. n : todo = SubSeq(tags, i + 1, n)
  BY <1>1, <1>3 DEF BootInv, TagsInv
<1>6. todo # <<>> /\ Head(todo) = type /\ todo' = Tail(todo)
  BY DEF Tag
<1>7. ASSUME NEW k \in 0 .. n
      PROVE  Range(SubSeq(tags, k + 1, n)) = {tags[j] : j \in k + 1 .. n}
  <2>1. PICK t : t = SubSeq(tags, k + 1, n)
    OBVIOUS
  <2>2. \A j \in k + 1 .. n : tags[j] \in TagType
    BY <1>2, <1>4
  <2>3. PICK m \in Nat : m = n - k
    BY <1>4
  <2>4. k + 1 \in Int /\ n - (k + 1) + 1 = m /\ (IF k + 1 <= n THEN n - (k + 1) + 1 ELSE 0) = m
    BY <1>4, <2>3
  <2>5. /\ t \in Seq(TagType) /\ Len(t) = m
        /\ \A j \in 1 .. m : t[j] = tags[k + 1 + j - 1]
    BY <1>4, <2>1, <2>2, <2>4, SubSeqProperties
  <2>6. DOMAIN t = 1 .. m
    BY <2>5
  <2>7. ASSUME NEW j \in 1 .. m PROVE k + j \in k + 1 .. n /\ t[j] = tags[k + j]
    <3>1. k + 1 + j - 1 = k + j
      BY <1>4
    <3>2. QED
      BY <1>4, <2>3, <2>5, <3>1
  <2>8. ASSUME NEW j \in k + 1 .. n PROVE j - k \in 1 .. m /\ k + (j - k) = j
    BY <1>4, <2>3
  <2>9. Range(t) = {t[j] : j \in 1 .. m}
    BY <2>6 DEF Range
  <2>10. ASSUME NEW x \in Range(t) PROVE x \in {tags[j] : j \in k + 1 .. n}
    <3>1. PICK j \in 1 .. m : x = t[j]
      BY <2>9, <2>10
    <3>2. QED
      BY <2>7, <3>1
  <2>11. ASSUME NEW x \in {tags[j] : j \in k + 1 .. n} PROVE x \in Range(t)
    <3>1. PICK j \in k + 1 .. n : x = tags[j]
      BY <2>11
    <3>2. PICK q \in 1 .. m : q = j - k
      BY <2>8
    <3>3. k + q = j
      BY <1>4, <3>2
    <3>4. x = t[q]
      BY <2>7, <3>1, <3>3
    <3>5. QED
      BY <2>9, <3>4
  <2>12. QED
    BY <2>1, <2>10, <2>11
<1>8. i < n
  <2>1. SUFFICES ASSUME i = n PROVE FALSE
    BY <1>4
  <2>2. todo = <<>>
    BY <1>4, <1>5, <2>1, SubSeqEmpty
  <2>3. QED
    BY <1>6, <2>2
<1>9. PICK h \in 1 .. n : h = i + 1
  BY <1>4, <1>8
<1>10. type = tags[h] /\ todo' = SubSeq(tags, h + 1, n)
  <2>1. h \in 1 .. Len(tags) /\ n \in h .. Len(tags)
    BY <1>3, <1>4, <1>9
  <2>2. Head(SubSeq(tags, h, n)) = tags[h] /\ Tail(SubSeq(tags, h, n)) = SubSeq(tags, h + 1, n)
    BY <1>2, <2>1, HeadTailOfSubSeq
  <2>3. QED
    BY <1>5, <1>6, <1>9, <2>2
<1>11. /\ Range(todo) = {tags[j] : j \in h .. n}
       /\ Range(todo') = {tags[j] : j \in h + 1 .. n}
  <2>1. Range(SubSeq(tags, i + 1, n)) = {tags[j] : j \in i + 1 .. n}
    BY <1>7
  <2>2. Range(todo) = {tags[j] : j \in h .. n}
    BY <1>5, <1>9, <2>1
  <2>3. h \in 0 .. n
    BY <1>4
  <2>4. Range(SubSeq(tags, h + 1, n)) = {tags[j] : j \in h + 1 .. n}
    BY <1>7, <2>3
  <2>5. QED
    BY <1>10, <2>2, <2>4
<1>12. Range(todo) = Range(todo') \cup {type}
  <2>1. h .. n = (h + 1 .. n) \cup {h}
    BY <1>4
  <2>2. QED
    BY <1>10, <1>11, <2>1
<1>13. ASSUME type # "other" PROVE type \notin Range(todo')
  <2>1. SUFFICES ASSUME NEW j \in h + 1 .. n, tags[j] = type PROVE FALSE
    BY <1>11
  <2>2. j \in DOMAIN tags /\ h \in DOMAIN tags /\ j # h
    BY <1>4, <2>1
  <2>3. QED
    BY <1>2, <1>10, <1>13, <2>1, <2>2
<1>14. ASSUME Before("mmap", type), type = "acpi"
       PROVE  "mmap" \in Range(info.tags) \ Range(todo)
  <2>1. h \in DOMAIN tags
    BY <1>4
  <2>2. PICK k \in 1 .. h - 1 : tags[k] = "mmap"
    BY <1>1, <1>10, <1>14, <2>1 DEF Before
  <2>3. k \in DOMAIN tags
    BY <1>4, <2>2
  <2>4. ASSUME NEW j \in h .. n, tags[j] = "mmap" PROVE FALSE
    <3>1. j \in DOMAIN tags /\ j # k
      BY <1>4, <2>2
    <3>2. tags[j] = tags[k] /\ tags[j] # "other"
      BY <2>2, <2>4
    <3>3. QED
      BY <1>2, <2>3, <3>1, <3>2
  <2>5. "mmap" \notin Range(todo)
    BY <1>11, <2>4
  <2>6. "mmap" \in Range(tags)
    BY <2>2, <2>3 DEF Range
  <2>7. QED
    BY <1>1, <2>5, <2>6
<1>15. type \in Range(info.tags)
  BY <1>1, <1>4, <1>10 DEF Range
<1>16. h \in 0 .. n
  BY <1>4
<1>17. QED
  BY <1>1, <1>3, <1>10, <1>12, <1>13, <1>14, <1>15, <1>16

(* Which devices count as set up behind a tag.                             *)
LEMMA TagDevices ==
  ASSUME BootInv, NEW type, Tag(type)
  PROVE  /\ type # "framebuffer" => Devices' = Devices
         /\ type = "framebuffer" => Devices' = Devices \cup {Framebuffer}
<1>1. /\ info' = info /\ pc' = pc /\ ioapic' = ioapic
      /\ Range(todo) = Range(todo') \cup {type}
      /\ type # "other" => type \notin Range(todo')
      /\ type \in Range(info.tags)
  BY TagStep DEF Tag
<1>2. PICK new : new = {r \in {Lapic} : pc \in {"ioapic", "sti"}}
                       \cup {IoapicRange(a) : a \in {ioapic} \ {NULL}}
  OBVIOUS
<1>3. Devices = {r \in {Framebuffer} : "framebuffer" \in Range(info.tags) \ Range(todo)}
                \cup new
  BY <1>2 DEF Devices
<1>4. Devices' = {r \in {Framebuffer} : "framebuffer" \in Range(info.tags) \ Range(todo')}
                 \cup new
  BY <1>1, <1>2 DEF Devices
<1>5. CASE type # "framebuffer"
  <2>1. "framebuffer" \in Range(todo) <=> "framebuffer" \in Range(todo')
    BY <1>1, <1>5
  <2>2. QED
    BY <1>3, <1>4, <1>5, <2>1
<1>6. CASE type = "framebuffer"
  <2>1. "framebuffer" \in Range(info.tags) \ Range(todo')
    BY <1>1, <1>6
  <2>2. QED
    BY <1>3, <1>4, <1>6, <2>1
<1>7. QED
  BY <1>5, <1>6

LEMMA OfTypeNext == (\A type : OfType(type) = Selected(type, info.mmap))'
<1>1. \A type : OfType(type) = Selected(type, info.mmap)
  BY OfTypeIs
<1>2. QED
  BY <1>1, PTL

(* What the loader handed over stays, and what is made of it.              *)
LEMMA InfoStays ==
  ASSUME info' = info
  PROVE  /\ Stores' = Stores /\ Top' = Top /\ Known' = Known
         /\ AcpiEntry' = AcpiEntry /\ (InfoOK => InfoOK')
<1>1. ASSUME NEW type PROVE OfType(type)' = OfType(type)
  <2>1. OfType(type) = Selected(type, info.mmap)
    BY OfTypeIs
  <2>2. OfType(type)' = Selected(type, info'.mmap)
    BY OfTypeNext
  <2>3. QED
    BY <2>1, <2>2
<1>2. OfType("available")' = OfType("available") /\ OfType("acpi")' = OfType("acpi")
  BY <1>1
<1>3. Top' = Top
  BY DEF Top
<1>4. Stores' = Stores
  BY <1>2 DEF Stores
<1>5. AcpiEntry' = AcpiEntry
  BY <1>2 DEF AcpiEntry
<1>6. Known' = Known
  BY <1>3 DEF Known
<1>7. InfoOK => InfoOK'
  BY DEF InfoOK
<1>8. QED
  BY <1>3, <1>4, <1>5, <1>6, <1>7

(* Behind init_memory areas, pages and owners of frames are only added.    *)
LEMMA MemoryGrows ==
  ASSUME BootInv, heap # {}, info' = info,
         regions' = regions, length' = length, heap' = heap,
         Devices \subseteq Devices', mapped \subseteq mapped', free' \subseteq free,
         free \ free' \subseteq UNION {Pages(r) : r \in Claimed'},
         \A a \in areas' : a \in areas
                           \/ (a \in Ranges /\ \E r \in Claimed' : a = Area(r))
  PROVE  MemoryInv'
<1>1. WithMemory
  BY DEF BootInv, MemoryInv
<1>2. /\ Stores' = Stores /\ Top' = Top /\ Known' = Known /\ AcpiEntry' = AcpiEntry
  BY InfoStays
<1>3. Claimed \subseteq Claimed'
  BY <1>2 DEF Claimed
<1>4. ASSUME NEW f, TakenFrom(f) PROVE TakenFrom(f)'
  <2>1. HeapRuns(f, PageOf(Top')) # {} /\ heap' = HeapFrames(f, PageOf(Top'))
    BY <1>2, <1>4 DEF TakenFrom
  <2>2. free' \subseteq f \ (heap' \cup {PageOf(Top')})
    BY <1>2, <1>4 DEF TakenFrom
  <2>3. (f \ (heap \cup {PageOf(Top)})) \ free \subseteq UNION {Pages(r) : r \in Claimed}
    BY <1>4 DEF TakenFrom
  <2>4. (f \ (heap' \cup {PageOf(Top')})) \ free'
          \subseteq UNION {Pages(r) : r \in Claimed'}
    BY <1>2, <1>3, <2>3
  <2>5. QED
    BY <2>1, <2>2, <2>4 DEF TakenFrom
<1>5. PICK f \in Sweeps(PageOf(Top)) : TakenFrom(f)
  BY <1>1 DEF WithMemory
<1>7. TakenFrom(f)'
  BY <1>4, <1>5
<1>8. (\E g \in Sweeps(PageOf(Top)) : TakenFrom(g))'
  <2>1. f \in Sweeps(PageOf(Top))'
    BY <1>2, <1>5 DEF Sweeps
  <2>2. QED
    BY <1>7, <2>1
<1>9. ASSUME NEW a \in areas' PROVE a \in Ranges /\ KnownArea(a)'
  <2>1. CASE a \in areas
    <3>1. a \in Ranges /\ KnownArea(a)
      BY <1>1, <2>1 DEF WithMemory
    <3>2. QED
      BY <1>2, <1>3, <3>1 DEF KnownArea
  <2>2. CASE a \in Ranges /\ \E r \in Claimed' : a = Area(r)
    BY <2>2 DEF KnownArea
  <2>3. QED
    BY <1>9, <2>1, <2>2
<1>10. /\ EarlyMapped \ Pages(HeapRange(Top')) \subseteq mapped'
       /\ \A e \in AcpiEntry' : Exists(e, Known') \/ Pages(e) \subseteq mapped'
  BY <1>1, <1>2 DEF WithMemory
<1>11. /\ regions' = Stores' /\ length' = Top' /\ Len(Stores') <= MaxRegions
       /\ (HeapPages + LowPages) * PageSize <= Top'
  BY <1>1, <1>2 DEF WithMemory
<1>12. WithMemory'
  BY <1>8, <1>9, <1>10, <1>11 DEF WithMemory
<1>13. QED
  BY <1>12 DEF MemoryInv

(* The pages of a range are mapped, as DevicesMapped has it.               *)
Shown(r, m) ==
  \A a \in r.addr .. End(r) - 1 :
    r.addr % PageSize = 0 \/ PageOf(a) < PageOf(End(r)) => PageOf(a) \in m

LEMMA DevicesStay ==
  ASSUME DevicesMapped, stop = "no" \/ stop' = stop, info' = info, length' = length,
         mapped \subseteq mapped', Devices \subseteq Devices',
         \A r \in Devices' \ Devices : Alone(r)' => Shown(r, mapped')
  PROVE  DevicesMapped'
<1>1. AcpiEntry' = AcpiEntry
  BY InfoStays
<1>2. SUFFICES ASSUME stop' \notin {"early", "regions", "heap"},
                      NEW r \in Devices', Alone(r)'
               PROVE  Shown(r, mapped')
  BY DEF DevicesMapped, Shown
<1>3. CASE r \in Devices
  <2>1. /\ r.addr > 0 /\ End(r) < AddressSpace
        /\ \A s \in {Recursive, HeapRange(length)} : Apart(r, s)
        /\ \A s \in AcpiEntry \cup (Devices' \ {r}) : Apart(r, Area(s))
    BY <1>1, <1>2 DEF Alone
  <2>2. Alone(r)
    BY <2>1 DEF Alone
  <2>3. Shown(r, mapped)
    BY <1>2, <1>3, <2>2 DEF DevicesMapped, Shown
  <2>4. QED
    BY <2>3 DEF Shown
<1>4. QED
  BY <1>2, <1>3

(* A device that is alone is mapped: none of the areas reaches to it.      *)
LEMMA DeviceIsNew ==
  ASSUME BootInv, heap # {}, info' = info, length' = length,
         NEW r \in Ranges, Devices \subseteq Devices', r \notin Devices, Alone(r)'
  PROVE  ~Exists(r, areas) /\ Shown(r, Pages(r))
<1>1. /\ length = Top /\ (HeapPages + LowPages) * PageSize <= Top /\ Top \in Word
      /\ \A a \in areas : a \in Ranges /\ KnownArea(a)
  BY HeldIs DEF WithMemory
<1>2. AcpiEntry' = AcpiEntry
  BY InfoStays
<1>3. /\ r.addr > 0 /\ End(r) < AddressSpace
      /\ Apart(r, Recursive) /\ Apart(r, HeapRange(Top))
      /\ \A s \in AcpiEntry \cup (Devices' \ {r}) : Apart(r, Area(s))
  BY <1>1, <1>2 DEF Alone
<1>4. r.addr \in Nat /\ r.len \in Nat /\ End(r) = r.addr + r.len /\ End(r) \in Nat
  BY RangesAre
<1>5. ASSUME NEW a \in areas PROVE Apart(r, a)
  <2>1. KnownArea(a)
    BY <1>1
  <2>2. CASE a \in Known
    BY <1>3, <2>2 DEF Known
  <2>3. CASE a = [addr |-> 0, len |-> 0]
    BY <1>3, <1>4, <2>3 DEF Apart, End
  <2>4. CASE \E s \in Claimed : a = Area(s)
    <3>1. PICK s \in Claimed : a = Area(s)
      BY <2>4
    <3>2. s \in AcpiEntry \cup (Devices' \ {r})
      BY <3>1 DEF Claimed
    <3>3. QED
      BY <1>3, <3>1, <3>2
  <2>5. QED
    BY <2>1, <2>2, <2>3, <2>4 DEF KnownArea
<1>6. ~Exists(r, areas)
  <2>1. areas \subseteq Ranges
    BY <1>1
  <2>2. QED
    BY <1>3, <1>4, <1>5, <2>1, ApartIsNew
<1>7. ASSUME NEW a \in r.addr .. End(r) - 1,
             r.addr % PageSize = 0 \/ PageOf(a) < PageOf(End(r))
      PROVE  PageOf(a) \in Pages(r)
  <2>1. a \in Nat /\ Inside(a, r)
    BY <1>4 DEF Inside
  <2>2. QED
    BY <1>1, <1>3, <1>4, <1>7, <2>1, PageMapped
<1>8. QED
  BY <1>6, <1>7 DEF Shown

LEMMA DeviceStep ==
  ASSUME BootInv, DevicesMapped, stop = "no", info' = info,
         NEW r \in Ranges, Devices' = Devices \cup {r}, InitDevice(r)
  PROVE  /\ MemoryInv' /\ DevicesMapped' /\ heap' = heap
         /\ mapped' \subseteq 0 .. PageOf(AddressSpace) - 1
         /\ stop' \in {"no", "early", "heap"}
<1>1. mapped \subseteq 0 .. PageOf(AddressSpace) - 1
  BY DEF BootInv, ControlInv
<1>2. CASE heap = {}
  <2>1. /\ stop' = "early" /\ regions' = regions /\ length' = length /\ free' = free
        /\ heap' = heap /\ areas' = areas /\ mapped' = mapped
    BY <1>2 DEF InitDevice, Stops, memory, devices
  <2>2. /\ regions = <<>> /\ length = 0 /\ free = {} /\ areas = {}
        /\ mapped = EarlyMapped
    BY <1>2 DEF BootInv, MemoryInv, NoMemory
  <2>3. MemoryInv'
    BY <1>2, <2>1, <2>2 DEF MemoryInv, NoMemory, EarlyMapped
  <2>4. DevicesMapped'
    BY <2>1 DEF DevicesMapped
  <2>5. QED
    BY <1>1, <2>1, <2>3, <2>4
<1>3. CASE /\ heap # {}
           /\ ~Exists(r, areas) /\ Pages(r) \cap Pages(HeapRange(length)) # {}
  <2>1. /\ stop' = "heap" /\ regions' = regions /\ length' = length /\ free' = free
        /\ heap' = heap /\ areas' = areas /\ mapped' = mapped
    BY <1>3 DEF InitDevice, Stops, memory, devices
  <2>2. MemoryInv'
    BY <1>3, <2>1, MemoryGrows
  <2>3. DevicesMapped'
    BY <2>1 DEF DevicesMapped
  <2>4. QED
    BY <1>1, <2>1, <2>2, <2>3
<1>4. CASE /\ heap # {}
           /\ ~(~Exists(r, areas) /\ Pages(r) \cap Pages(HeapRange(length)) # {})
  <2>1. /\ areas' \in AreasWith(r, areas) /\ mapped' = PagesWith(r, areas, mapped)
        /\ free' = FreeWith(r, areas, free, length)
        /\ regions' = regions /\ length' = length /\ heap' = heap /\ stop' = stop
    BY <1>4 DEF InitDevice
  <2>2. r.addr \in Nat /\ r.len \in Nat /\ Area(r) \in Ranges
    BY RangesAre, AreaIs
  <2>3. mapped \subseteq mapped' /\ mapped' \subseteq mapped \cup Pages(r)
    BY <2>1 DEF PagesWith
  <2>4. mapped' \subseteq 0 .. PageOf(AddressSpace) - 1
    BY <1>1, <2>2, <2>3, PagesInSpace
  <2>5. r \in Claimed'
    BY DEF Claimed
  <2>6. free' \subseteq free /\ free \ free' \subseteq Pages(r)
    <3>1. length \in Word /\ free \subseteq 0 .. PageOf(length) - 1
      BY TypeFollows DEF TypeOK, Frames, PageOf, Word
    <3>2. PageOf(length) \in Nat
      BY <3>1, WordPage
    <3>3. free \subseteq 0 .. PageOf(length)
      BY <3>1, <3>2
    <3>4. QED
      BY <2>1, <2>2, <3>1, <3>3, FreeIs
  <2>7. free \ free' \subseteq UNION {Pages(q) : q \in Claimed'}
    BY <2>5, <2>6
  <2>8. ASSUME NEW a \in areas'
        PROVE  a \in areas \/ (a \in Ranges /\ \E q \in Claimed' : a = Area(q))
    <3>1. a \in areas \/ a = Area(r)
      BY <2>1 DEF AreasWith, Inserted
    <3>2. QED
      BY <2>2, <2>5, <3>1
  <2>9. MemoryInv'
    BY <1>4, <2>1, <2>3, <2>6, <2>7, <2>8, MemoryGrows
  <2>10. ASSUME NEW q \in Devices' \ Devices, Alone(q)' PROVE Shown(q, mapped')
    <3>1. q = r
      BY <2>10
    <3>2. ~Exists(r, areas) /\ Shown(r, Pages(r))
      BY <1>4, <2>1, <2>10, <3>1, DeviceIsNew
    <3>3. Pages(r) \subseteq mapped'
      BY <2>1, <3>2 DEF PagesWith
    <3>4. QED
      BY <3>1, <3>2, <3>3 DEF Shown
  <2>11. DevicesMapped'
    BY <2>1, <2>3, <2>10, DevicesStay
  <2>12. QED
    BY <2>1, <2>4, <2>9, <2>11
<1>5. QED
  BY <1>2, <1>3, <1>4

LEMMA RegistersStep ==
  ASSUME BootInv, DevicesMapped, stop = "no", info' = info,
         NEW r \in Ranges, Devices' = Devices \cup {r},
         NEW why \in {"lapic", "ioapic"}, InitRegisters(r, why)
  PROVE  /\ MemoryInv' /\ DevicesMapped' /\ heap' = heap
         /\ mapped' \subseteq 0 .. PageOf(AddressSpace) - 1
         /\ stop' \in {"no", "early", "heap", "lapic", "ioapic"}
<1>1. CASE InitDevice(r)
  BY <1>1, DeviceStep
<1>2. CASE /\ heap # {} /\ PageOf(r.addr) \notin PagesWith(r, areas, mapped)
           /\ Stops(why)
  <2>1. /\ stop' = why /\ regions' = regions /\ length' = length /\ free' = free
        /\ heap' = heap /\ areas' = areas /\ mapped' = mapped
    BY <1>2 DEF Stops, memory, devices
  <2>2. MemoryInv'
    BY <1>2, <2>1, MemoryGrows
  <2>3. ASSUME NEW q \in Devices' \ Devices, Alone(q)' PROVE Shown(q, mapped')
    <3>1. q = r
      BY <2>3
    <3>2. ~Exists(r, areas) /\ Shown(r, Pages(r))
      BY <1>2, <2>1, <2>3, <3>1, DeviceIsNew
    <3>3. PageOf(r.addr) \notin Pages(r)
      BY <1>2, <3>2 DEF PagesWith
    <3>4. r.addr \in Nat /\ r.len \in Nat /\ End(r) = r.addr + r.len /\ End(r) \in Nat
      BY RangesAre
    <3>5. SUFFICES ASSUME NEW a \in r.addr .. End(r) - 1,
                          r.addr % PageSize = 0 \/ PageOf(a) < PageOf(End(r))
                   PROVE  FALSE
      BY <3>1 DEF Shown
    <3>6. r.addr \in r.addr .. End(r) - 1 /\ a \in Nat /\ r.addr <= a
      BY <3>4
    <3>7. PageOf(r.addr) <= PageOf(a) /\ PageOf(r.addr) \in Nat /\ PageOf(a) \in Nat
          /\ PageOf(End(r)) \in Nat
      BY <3>4, <3>6, PageMono, PageIs
    <3>8. r.addr % PageSize = 0 \/ PageOf(r.addr) < PageOf(End(r))
      BY <3>5, <3>7
    <3>9. PageOf(r.addr) \in Pages(r)
      BY <3>2, <3>6, <3>8 DEF Shown
    <3>10. QED
      BY <3>3, <3>9
  <2>4. DevicesMapped'
    BY <2>1, <2>3, DevicesStay
  <2>5. mapped' \subseteq 0 .. PageOf(AddressSpace) - 1
    BY <2>1 DEF BootInv, ControlInv
  <2>6. QED
    BY <2>1, <2>2, <2>4, <2>5
<1>3. QED
  BY <1>1, <1>2 DEF InitRegisters

LEMMA MemoryMade ==
  ASSUME InfoOK, info' = info, regions' = Stores, length' = Top,
         Len(Stores) <= MaxRegions, (HeapPages + LowPages) * PageSize <= Top,
         NEW f \in Sweeps(PageOf(Top)),
         HeapRuns(f, PageOf(Top)) # {}, heap' = HeapFrames(f, PageOf(Top)),
         free' \subseteq f \ (heap' \cup {PageOf(Top)}),
         (f \ (heap' \cup {PageOf(Top)})) \ free'
           \subseteq UNION {Pages(r) : r \in AcpiEntry},
         \A a \in areas' : a \in Known \/ a = [addr |-> 0, len |-> 0]
                           \/ \E r \in AcpiEntry : a = Area(r),
         EarlyMapped \ Pages(HeapRange(Top)) \subseteq mapped',
         \A e \in AcpiEntry : Exists(e, Known) \/ Pages(e) \subseteq mapped'
  PROVE  MemoryInv' /\ heap' # {}
<1>1. /\ Stores' = Stores /\ Top' = Top /\ Known' = Known /\ AcpiEntry' = AcpiEntry
  BY InfoStays
<1>2. AcpiEntry \subseteq Claimed' /\ AcpiEntry \subseteq Ranges
  BY <1>1, AcpiIs DEF Claimed
<1>3. heap' # {}
  <2>1. PageOf(Top) \in Nat
    BY MapIs, WordPage
  <2>2. f \subseteq 0 .. PageOf(Top)
    BY <2>1, SweepIs
  <2>3. PICK b \in 0 .. PageOf(Top) - 1 : heap' = b .. b + HeapPages - 1
    BY <2>1, <2>2, HeapIs
  <2>4. b \in b .. b + HeapPages - 1
    BY Sizes
  <2>5. QED
    BY <2>3, <2>4
<1>4. TakenFrom(f)'
  BY <1>1, <1>2 DEF TakenFrom
<1>5. (\E g \in Sweeps(PageOf(Top)) : TakenFrom(g))'
  <2>1. f \in Sweeps(PageOf(Top))'
    BY <1>1 DEF Sweeps
  <2>2. QED
    BY <1>4, <2>1
<1>6. ASSUME NEW a \in areas' PROVE a \in Ranges /\ KnownArea(a)'
  <2>1. CASE a \in Known
    <3>1. HeapRange(Top) \in Ranges
      BY MapIs, HeapRangeIs
    <3>2. a \in Ranges
      BY <2>1, <3>1, RangesAre DEF Known
    <3>3. QED
      BY <1>1, <2>1, <3>2 DEF KnownArea
  <2>2. CASE a = [addr |-> 0, len |-> 0]
    <3>1. 0 \in Word
      BY Sizes DEF Word
    <3>2. a \in Ranges
      BY <2>2, <3>1 DEF Ranges
    <3>3. QED
      BY <2>2, <3>2 DEF KnownArea
  <2>3. CASE \E r \in AcpiEntry : a = Area(r)
    <3>1. PICK r \in AcpiEntry : a = Area(r)
      BY <2>3
    <3>2. a \in Ranges
      BY <1>2, <3>1, AreaIs
    <3>3. r \in Claimed'
      BY <1>2, <3>1
    <3>4. QED
      BY <3>1, <3>2, <3>3 DEF KnownArea
  <2>4. QED
    BY <1>6, <2>1, <2>2, <2>3
<1>7. WithMemory'
  BY <1>1, <1>5, <1>6 DEF WithMemory
<1>8. QED
  BY <1>3, <1>7 DEF MemoryInv

(* What init_memory does if it gets through, with f free behind init_pmm.  *)
MadeFrom(f) ==
  /\ ~(HeapRuns(f, PageOf(Top)) = {} \/ Top < (HeapPages + LowPages) * PageSize)
  /\ regions' = Stores /\ length' = Top
  /\ heap' = HeapFrames(f, PageOf(Top))
  /\ LET low  == mapped \ Pages(HeapRange(Top))
         left == f \ (HeapFrames(f, PageOf(Top)) \cup {PageOf(Top)})
     IN  IF AcpiEntry = {}
         THEN /\ areas' \in Inserted([addr |-> 0, len |-> 0], Known)
              /\ mapped' = low /\ free' = left
              /\ stop' \in {"no", "null"}
         ELSE \E e \in AcpiEntry :
              /\ areas' \in AreasWith(e, Known)
              /\ mapped' = PagesWith(e, Known, low)
              /\ free' = FreeWith(e, Known, left, Top)
              /\ stop' = stop

Made ==
  /\ Len(Stores) <= MaxRegions
  /\ \E beyond \in Beyond(Stores, PageOf(Top)), raw \in SUBSET Unreached(PageOf(Top)) :
       MadeFrom(AfterInitPmm(Stores, PageOf(Top), beyond, raw))

LEMMA MemoryCases ==
  InitMemory => Stops("regions") \/ Stops("heap") \/ Made
BY DEF InitMemory, Made, MadeFrom, Stores, Top, Known

LEMMA MemoryStep ==
  ASSUME BootInv, InitMemory
  PROVE  /\ MemoryInv' /\ DevicesMapped' /\ (stop' = "no" => heap' # {})
         /\ mapped' \subseteq 0 .. PageOf(AddressSpace) - 1
         /\ stop' \in {"no", "null", "regions", "heap"}
<1>1. Tag("mmap")
  BY DEF InitMemory
<1>2. /\ stop = "no" /\ info' = info /\ heap = {} /\ InfoOK
      /\ mapped \subseteq 0 .. PageOf(AddressSpace) - 1
  BY <1>1, TagStep DEF Tag, BootInv, TagsInv, ControlInv
<1>3. /\ regions = <<>> /\ length = 0 /\ free = {} /\ areas = {}
      /\ mapped = EarlyMapped /\ Devices = {}
  BY <1>2 DEF BootInv, MemoryInv, NoMemory
<1>4. Devices' = {}
  BY <1>1, <1>3, TagDevices
<1>5. DevicesMapped'
  BY <1>4 DEF DevicesMapped
<1>6. ASSUME NEW why \in {"regions", "heap"}, Stops(why)
      PROVE  /\ MemoryInv' /\ stop' = why
             /\ mapped' \subseteq 0 .. PageOf(AddressSpace) - 1
  <2>1. /\ stop' = why /\ regions' = regions /\ length' = length /\ free' = free
        /\ heap' = heap /\ areas' = areas /\ mapped' = mapped
    BY <1>6 DEF Stops, memory, devices
  <2>2. MemoryInv'
    BY <1>2, <1>3, <2>1 DEF MemoryInv, NoMemory, EarlyMapped
  <2>3. QED
    BY <1>2, <2>1, <2>2
<1>7. PICK low : low = mapped \ Pages(HeapRange(Top))
  OBVIOUS
<1>8. PICK n : n = PageOf(Top)
  OBVIOUS
<1>9. CASE Made
  <2>0. Len(Stores) <= MaxRegions
    BY <1>9 DEF Made
  <2>a. PICK f \in Sweeps(n) : MadeFrom(f)
    <3>1. PICK beyond \in Beyond(Stores, n), raw \in SUBSET Unreached(n) :
            MadeFrom(AfterInitPmm(Stores, n, beyond, raw))
      BY <1>8, <1>9 DEF Made
    <3>2. AfterInitPmm(Stores, n, beyond, raw) \in Sweeps(n)
      BY DEF Sweeps
    <3>3. QED
      BY <3>1, <3>2
  <2>b. PICK left : left = f \ (HeapFrames(f, n) \cup {n})
    OBVIOUS
  <2>1. /\ HeapRuns(f, n) # {} /\ (HeapPages + LowPages) * PageSize <= Top
        /\ regions' = Stores /\ length' = Top
        /\ heap' = HeapFrames(f, n)
        /\ IF AcpiEntry = {}
           THEN /\ areas' \in Inserted([addr |-> 0, len |-> 0], Known)
                /\ mapped' = low /\ free' = left
                /\ stop' \in {"no", "null"}
           ELSE \E e \in AcpiEntry :
                /\ areas' \in AreasWith(e, Known)
                /\ mapped' = PagesWith(e, Known, low)
                /\ free' = FreeWith(e, Known, left, Top)
                /\ UNCHANGED stop
    <3>1. Top \in Nat /\ (HeapPages + LowPages) * PageSize \in Nat
      BY <1>2, MapIs, WordPage, Sizes
    <3>2. MadeFrom(f)
      BY <2>a
    <3>3. HeapRuns(f, n) # {} /\ ~(Top < (HeapPages + LowPages) * PageSize)
      BY <1>8, <3>2 DEF MadeFrom
    <3>4. (HeapPages + LowPages) * PageSize <= Top
      BY <3>1, <3>3
    <3>5. QED
      BY <1>7, <1>8, <2>b, <3>2, <3>3, <3>4 DEF MadeFrom
  <2>2. EarlyMapped \ Pages(HeapRange(Top)) = low
    BY <1>3, <1>7
  <2>3. CASE AcpiEntry = {}
    <3>1. /\ areas' \in Inserted([addr |-> 0, len |-> 0], Known)
          /\ mapped' = low /\ free' = left /\ stop' \in {"no", "null"}
      BY <2>1, <2>3
    <3>2. \A a \in areas' : a \in Known \/ a = [addr |-> 0, len |-> 0]
      BY <3>1 DEF Inserted
    <3>3. MemoryInv' /\ heap' # {}
      BY <1>2, <1>8, <2>0, <2>b, <2>1, <2>2, <2>3, <3>1, <3>2, MemoryMade
    <3>4. QED
      BY <1>2, <1>5, <1>7, <3>1, <3>3
  <2>4. CASE AcpiEntry # {}
    <3>1. PICK e \in AcpiEntry :
            /\ areas' \in AreasWith(e, Known)
            /\ mapped' = PagesWith(e, Known, low)
            /\ free' = FreeWith(e, Known, left, Top)
            /\ stop' = stop
      BY <2>1, <2>4
    <3>2. AcpiEntry = {e}
      BY DEF AcpiEntry
    <3>3. e \in Ranges /\ e.addr \in Nat /\ e.len \in Nat
      BY <1>2, <3>1, AcpiIs, RangesAre
    <3>4. \A a \in areas' : a \in Known \/ a = Area(e)
      BY <3>1 DEF AreasWith, Inserted
    <3>5. free' \subseteq left /\ left \ free' \subseteq Pages(e)
      <4>1. Top \in Word /\ n \in Nat
        BY <1>2, <1>8, MapIs, WordPage
      <4>2. f \subseteq 0 .. n
        BY <4>1, SweepIs
      <4>3. left \subseteq 0 .. PageOf(Top)
        BY <1>8, <2>b, <4>2
      <4>4. QED
        BY <3>1, <3>3, <4>1, <4>3, FreeIs
    <3>6. /\ left = f \ (heap' \cup {PageOf(Top)})
          /\ left \ free' \subseteq UNION {Pages(r) : r \in AcpiEntry}
      BY <1>8, <2>b, <2>1, <3>1, <3>5
    <3>7. low \subseteq mapped' /\ (Exists(e, Known) \/ Pages(e) \subseteq mapped')
          /\ mapped' \subseteq low \cup Pages(e)
      BY <3>1 DEF PagesWith
    <3>8. \A q \in AcpiEntry : Exists(q, Known) \/ Pages(q) \subseteq mapped'
      BY <3>2, <3>7
    <3>9. \A a \in areas' : a \in Known \/ \E r \in AcpiEntry : a = Area(r)
      BY <3>1, <3>4
    <3>10. MemoryInv' /\ heap' # {}
      BY <1>2, <1>8, <2>0, <2>1, <2>2, <3>5, <3>6, <3>7, <3>8, <3>9, MemoryMade
    <3>11. mapped' \subseteq 0 .. PageOf(AddressSpace) - 1
      BY <1>2, <1>7, <3>3, <3>7, PagesInSpace
    <3>12. QED
      BY <1>2, <1>5, <3>1, <3>10, <3>11
  <2>5. QED
    BY <2>3, <2>4
<1>10. Stops("regions") \/ Stops("heap") \/ Made
  BY MemoryCases
<1>11. QED
  BY <1>5, <1>6, <1>9, <1>10

LEMMA MemoryStays ==
  ASSUME BootInv, DevicesMapped, stop = "no" \/ stop' = stop, info' = info,
         UNCHANGED <<memory, devices>>, Devices' = Devices
  PROVE  /\ MemoryInv' /\ DevicesMapped' /\ heap' = heap
         /\ mapped' \subseteq 0 .. PageOf(AddressSpace) - 1
<1>1. /\ regions' = regions /\ length' = length /\ free' = free
      /\ heap' = heap /\ areas' = areas /\ mapped' = mapped
  BY DEF memory, devices
<1>2. ASSUME heap = {} PROVE MemoryInv'
  <2>1. /\ regions = <<>> /\ length = 0 /\ free = {} /\ areas = {}
        /\ mapped = EarlyMapped
        /\ stop \notin {"early", "regions", "heap"} => Devices = {}
    BY <1>2 DEF BootInv, MemoryInv, NoMemory
  <2>2. stop' \notin {"early", "regions", "heap"} => Devices' = {}
    BY <2>1
  <2>3. NoMemory'
    BY <1>1, <1>2, <2>1, <2>2 DEF NoMemory, EarlyMapped
  <2>4. QED
    BY <1>1, <1>2, <2>3 DEF MemoryInv
<1>3. ASSUME heap # {} PROVE MemoryInv'
  <2>1. \A a \in areas' : a \in areas
    BY <1>1
  <2>2. free \ free' = {}
    BY <1>1
  <2>3. QED
    BY <1>1, <1>3, <2>1, <2>2, MemoryGrows
<1>4. DevicesMapped'
  BY <1>1, DevicesStay
<1>5. mapped' \subseteq 0 .. PageOf(AddressSpace) - 1
  BY <1>1 DEF BootInv, ControlInv
<1>6. QED
  BY <1>1, <1>2, <1>3, <1>4, <1>5

LEMMA TagsStay ==
  ASSUME BootInv, NEW type, Tag(type),
         type = "mmap" => (stop' = "no" => heap' # {}),
         type # "mmap" => heap' = heap
  PROVE  TagsInv'
<1>1. /\ \E i \in 0 .. Len(info.tags) : todo' = SubSeq(info.tags, i + 1, Len(info.tags))
      /\ Range(todo) = Range(todo') \cup {type}
      /\ type # "other" => type \notin Range(todo')
      /\ info' = info /\ stop = "no"
  BY TagStep DEF Tag
<1>2. /\ "mmap" \in Range(todo) => heap = {}
      /\ "mmap" \in Range(info.tags) \ Range(todo) => heap # {}
  BY <1>1 DEF BootInv, TagsInv
<1>3. "mmap" \in Range(todo') => heap' = {}
  BY <1>1, <1>2
<1>4. stop' = "no" /\ "mmap" \in Range(info.tags) \ Range(todo') => heap' # {}
  BY <1>1, <1>2
<1>5. QED
  BY <1>1, <1>3, <1>4 DEF TagsInv

LEMMA LowIs == PageOf(LowPages * PageSize) = LowPages
<1>1. PageSize \in Nat \ {0} /\ LowPages \in Nat /\ LowPages * PageSize \in Nat
  BY Sizes
<1>2. PageOf(0) = 0
  <2>1. 0 * PageSize = 0 /\ 0 \in Nat
    BY <1>1
  <2>2. QED
    BY <1>1, <2>1, PageUnique
<1>3. PageOf(0 + LowPages * PageSize) = PageOf(0) + LowPages
  BY <1>1, PageShift
<1>4. QED
  BY <1>1, <1>2, <1>3

(* The heap lies above the low pages.                                      *)
LEMMA HeapIsHigh ==
  ASSUME NEW top \in Word, (HeapPages + LowPages) * PageSize <= top,
         NEW p \in Pages(HeapRange(top))
  PROVE  LowPages <= p
<1>1. PICK h : h = HeapRange(top)
  OBVIOUS
<1>2. /\ h.addr \in Nat /\ h.len \in Nat /\ h.addr + h.len = top
      /\ LowPages * PageSize <= h.addr /\ PageSize <= h.addr
  BY <1>1, HeapRangeIs, RangesAre
<1>3. /\ PageSize \in Nat \ {0} /\ LowPages \in Nat \ {0} /\ AddressSpace \in Nat \ {0}
      /\ top \in Nat /\ top < AddressSpace
  BY Sizes, WordPage DEF Word
<1>4. PICK i \in 0 .. NumPages(h.len) - 1 : p = PageOf(Wrap(h.addr + i * PageSize))
  BY <1>1 DEF Pages
<1>5. PICK q \in Nat : q = NumPages(h.len)
  BY <1>2, NumPagesIs
<1>6. i \in Nat /\ i + 1 <= q
  BY <1>4, <1>5
<1>7. PICK a \in Nat : a = h.len + (PageSize - 1)
  BY <1>2, <1>3
<1>8. q * PageSize <= a /\ q * PageSize \in Nat
  <2>1. h.len + PageSize - 1 = a
    BY <1>2, <1>3, <1>7
  <2>2. PICK w \in Nat : w = Wrap(a)
    BY WrapLess
  <2>3. w <= a /\ q = PageOf(w)
    BY <1>5, <2>1, <2>2, WrapLess DEF NumPages, PageOf
  <2>4. q * PageSize <= w
    BY <2>2, <2>3, PageIs
  <2>5. QED
    BY <1>3, <1>7, <2>2, <2>3, <2>4
<1>9. (i + 1) * PageSize <= q * PageSize /\ (i + 1) * PageSize = i * PageSize + PageSize
      /\ i * PageSize \in Nat
  BY <1>3, <1>5, <1>6, Times
<1>10. i * PageSize < h.len
  BY <1>2, <1>3, <1>7, <1>8, <1>9
<1>11. PICK b \in Nat : b = h.addr + i * PageSize
  BY <1>2, <1>9
<1>12. b < AddressSpace /\ Wrap(b) = b
  <2>1. b < AddressSpace
    BY <1>2, <1>3, <1>9, <1>10, <1>11
  <2>2. QED
    BY <2>1, WrapIs
<1>13. p = PageOf(b)
  BY <1>4, <1>11, <1>12
<1>14. LowPages * PageSize <= b /\ LowPages * PageSize \in Nat
  BY <1>2, <1>3, <1>9, <1>11
<1>15. PageOf(LowPages * PageSize) <= PageOf(b)
  BY <1>14, PageMono
<1>16. QED
  BY <1>13, <1>15, LowIs

LEMMA ReadsAre ==
  ASSUME InfoOK
  PROVE  Reads \subseteq Word
<1>1. Places \subseteq Word
  BY BootInfoAssumption
<1>2. PICK apic \in Places :
        info.tables = <<[sig |-> "other", addr |-> info.rsdt],
                        [sig |-> "APIC", addr |-> apic]>>
  BY DEF InfoOK
<1>3. info.rsdt \in Places
  BY DEF InfoOK
<1>4. \A i \in DOMAIN info.tables : info.tables[i].addr \in Places
  BY <1>2, <1>3
<1>5. QED
  BY <1>1, <1>3, <1>4 DEF Reads

(* What process_acpi_info reads is mapped.                                 *)
LEMMA ReadIsMapped ==
  ASSUME BootInv, heap # {}, AcpiInPlace, NEW a \in Reads
  PROVE  PageOf(a) \in mapped
<1>1. /\ Top \in Word /\ (HeapPages + LowPages) * PageSize <= Top
      /\ EarlyMapped \ Pages(HeapRange(Top)) \subseteq mapped
      /\ \A e \in AcpiEntry : Exists(e, Known) \/ Pages(e) \subseteq mapped
  BY HeldIs DEF WithMemory
<1>2. InfoOK /\ a \in Word /\ a \in Nat
  BY ReadsAre, WordPage DEF BootInv
<1>3. CASE PageOf(a) < LowPages
  <2>1. PageOf(a) \in Nat /\ LowPages \in Nat
    BY <1>2, PageIs, Sizes
  <2>2. PageOf(a) \notin Pages(HeapRange(Top))
    BY <1>1, <1>3, <2>1, HeapIsHigh
  <2>3. PageOf(a) \in EarlyMapped
    BY <1>3, <2>1 DEF EarlyMapped
  <2>4. QED
    BY <1>1, <2>2, <2>3
<1>4. ASSUME NEW i \in DOMAIN info.mmap, NEW e, e = info.mmap[i],
             e.type = "acpi", Inside(a, e), End(e) < AddressSpace,
             \A j \in i + 1 .. Len(info.mmap) : info.mmap[j].type # "acpi",
             e.addr % PageSize = 0 \/ PageOf(a) < PageOf(End(e)),
             \A s \in {Recursive, HeapRange(SumOfLengths(info.mmap))} : Apart(e, s)
      PROVE  PageOf(a) \in mapped
  <2>1. e.addr \in Nat /\ e.len \in Nat /\ End(e) = e.addr + e.len /\ AddressSpace \in Nat
    BY <1>2, <1>4, MapIs, Sizes DEF End
  <2>2. PICK r : r = Stored(e)
    OBVIOUS
  <2>3. AcpiEntry = {r} /\ r \in Ranges
    BY <1>2, <1>4, <2>2, AcpiIs
  <2>4. r.addr = e.addr /\ r.len = e.len
    <3>1. e.addr < AddressSpace /\ e.len < AddressSpace
      BY <1>4, <2>1
    <3>2. Wrap(e.addr) = e.addr /\ Wrap(e.len) = e.len
      BY <2>1, <3>1, WrapIs
    <3>3. QED
      BY <2>1, <2>2, <3>2, StoredIs
  <2>5. End(r) = End(e) /\ Inside(a, r)
    BY <1>4, <2>4 DEF End, Inside
  <2>6. \A s \in Known : Apart(r, s)
    BY <1>4, <2>4, <2>5 DEF Known, Top, Apart
  <2>7. Known \subseteq Ranges
    BY <1>1, RangesAre, HeapRangeIs DEF Known
  <2>8. ~Exists(r, Known)
    BY <1>4, <2>1, <2>4, <2>5, <2>6, <2>7, ApartIsNew
  <2>9. Apart(r, HeapRange(Top))
    BY <2>6 DEF Known
  <2>10. PageOf(a) \in Pages(r)
    BY <1>1, <1>2, <1>4, <2>1, <2>4, <2>5, <2>9, PageMapped
  <2>11. QED
    BY <1>1, <2>3, <2>8, <2>10
<1>5. QED
  BY <1>3, <1>4 DEF AcpiInPlace

LEMMA AcpiStays ==
  ASSUME info' = info
  PROVE  AcpiInPlace' <=> AcpiInPlace
BY DEF AcpiInPlace, Before, Reads, IsMadt

(* The table found, and the first I/O APIC of the MADT.                    *)
LEMMA MadtIs ==
  ASSUME InfoOK
  PROVE  /\ info.tables[Min({i \in DOMAIN info.tables : IsMadt(i)})].addr \in Word
         /\ IoapicEntries # {} => info.madt[Min(IoapicEntries)].addr \in Word
<1>1. Places \subseteq Word /\ info.madt \in Seq(MadtEntry)
  BY BootInfoAssumption DEF InfoOK
<1>2. PICK apic \in Places :
        info.tables = <<[sig |-> "other", addr |-> info.rsdt],
                        [sig |-> "APIC", addr |-> apic]>>
  BY DEF InfoOK
<1>3. info.tables[Min({i \in DOMAIN info.tables : IsMadt(i)})].addr \in Word
  <2>1. PICK T : T = {i \in DOMAIN info.tables : IsMadt(i)}
    OBVIOUS
  <2>2. DOMAIN info.tables = 1 .. 2 /\ info.tables[2].sig = "APIC"
    BY <1>2
  <2>3. 2 \in T /\ T \subseteq 1 .. 2
    BY <2>1, <2>2 DEF IsMadt
  <2>4. Min(T) \in T
    <3>1. T \subseteq Nat /\ T # {}
      BY <2>3
    <3>2. QED
      BY <3>1, MinIsLeast
  <2>5. PICK m \in 1 .. 2 : m = Min(T)
    BY <2>3, <2>4
  <2>6. m = 1 \/ m = 2
    BY <2>5
  <2>7. info.rsdt \in Places
    BY DEF InfoOK
  <2>8. info.tables[m].addr \in Places
    BY <1>2, <2>6, <2>7
  <2>9. QED
    BY <1>1, <2>1, <2>5, <2>8
<1>4. ASSUME IoapicEntries # {} PROVE info.madt[Min(IoapicEntries)].addr \in Word
  <2>1. IoapicEntries \subseteq DOMAIN info.madt /\ DOMAIN info.madt \subseteq Nat
    BY <1>1 DEF IoapicEntries
  <2>2. Min(IoapicEntries) \in DOMAIN info.madt
    BY <1>4, <2>1, MinIsLeast
  <2>3. info.madt[Min(IoapicEntries)] \in MadtEntry
    BY <1>1, <2>2
  <2>4. QED
    BY <2>3 DEF MadtEntry
<1>5. QED
  BY <1>3, <1>4

Inductive == BootInv /\ AcpiFound /\ DevicesMapped

LEMMA InitIs == Init => Inductive
<1>1. SUFFICES ASSUME Init PROVE Inductive
  OBVIOUS
<1>2. InfoOK
  <2>1. PICK tags \in TagOrders, mmap \in MemoryMaps, entries \in Madts,
             rsdt \in Places, apic \in Places :
          info = [tags |-> tags, mmap |-> mmap, rsdt |-> rsdt, madt |-> entries,
                  tables |-> <<[sig |-> "other", addr |-> rsdt],
                               [sig |-> "APIC", addr |-> apic]>>]
    BY <1>1 DEF Init
  <2>2. QED
    BY <2>1 DEF InfoOK
<1>3. /\ pc = "tags" /\ todo = info.tags
      /\ regions = <<>> /\ length = 0 /\ free = {} /\ heap = {}
      /\ areas = {} /\ mapped = EarlyMapped
      /\ madt = NULL /\ ioapic = NULL /\ stop = "no"
  BY <1>1 DEF Init
<1>4. TagsInv
  <2>1. info.tags \in Seq(TagType)
    BY <1>2, BootInfoAssumption DEF InfoOK
  <2>2. todo = SubSeq(info.tags, 0 + 1, Len(info.tags)) /\ 0 \in 0 .. Len(info.tags)
    BY <1>3, <2>1, SubSeqFull
  <2>3. "mmap" \notin Range(info.tags) \ Range(todo)
    BY <1>3
  <2>4. QED
    BY <1>3, <2>2, <2>3 DEF TagsInv
<1>5. Devices = {}
  BY <1>3 DEF Devices
<1>6. MemoryInv
  BY <1>3, <1>5 DEF MemoryInv, NoMemory
<1>7. ControlInv
  <2>1. mapped \subseteq 0 .. PageOf(AddressSpace) - 1
    <3>1. LowPages \in Nat /\ PageSize \in Nat \ {0} /\ AddressSpace \in Nat
          /\ LowPages * PageSize \in Nat /\ LowPages * PageSize <= AddressSpace
      BY BootInfoAssumption, Sizes
    <3>2. PageOf(LowPages * PageSize) <= PageOf(AddressSpace)
      BY <3>1, PageMono
    <3>3. PageOf(LowPages * PageSize) = LowPages
      BY LowIs
    <3>4. QED
      BY <1>3, <3>1, <3>2, <3>3, Sizes DEF EarlyMapped
  <2>2. QED
    BY <1>3, <2>1 DEF ControlInv
<1>8. AcpiFound /\ DevicesMapped
  BY <1>3, <1>5 DEF AcpiFound, DevicesMapped
<1>9. QED
  BY <1>2, <1>4, <1>6, <1>7, <1>8 DEF Inductive, BootInv

LEMMA StepIs == Inductive /\ [Next]_vars => Inductive'
<1>1. SUFFICES ASSUME Inductive, [Next]_vars PROVE Inductive'
  OBVIOUS
<1>2. BootInv /\ AcpiFound /\ DevicesMapped
  BY <1>1 DEF Inductive
<1>3. /\ pc \in {"tags", "lapic", "ioapic", "sti"}
      /\ madt \in Word \cup {NULL} /\ ioapic \in Word \cup {NULL}
      /\ pc # "sti" => ioapic = NULL
  BY <1>2 DEF BootInv, ControlInv
<1>4. info' = info /\ InfoOK'
  <2>1. info' = info
    BY <1>1 DEF Next, vars, Tag, InitMemory, InitFramebuffer, process_acpi_info,
                OtherTag, EndTag, initialize_lapic, initialize_ioapic
  <2>2. QED
    BY <1>2, <2>1, InfoStays DEF BootInv
<1>5. stop' # "acpi" => AcpiFound'
  BY DEF AcpiFound
<1>6. CASE InitMemory
  <2>1. Tag("mmap") /\ madt' = madt
    BY <1>6 DEF InitMemory
  <2>2. /\ MemoryInv' /\ DevicesMapped' /\ (stop' = "no" => heap' # {})
        /\ mapped' \subseteq 0 .. PageOf(AddressSpace) - 1
        /\ stop' \in {"no", "null", "regions", "heap"}
    BY <1>2, <1>6, MemoryStep
  <2>3. TagsInv'
    BY <1>2, <2>1, <2>2, TagsStay
  <2>4. ControlInv'
    BY <1>3, <2>1, <2>2 DEF ControlInv, Tag
  <2>5. QED
    BY <1>4, <1>5, <2>2, <2>3, <2>4 DEF Inductive, BootInv
<1>7. CASE InitFramebuffer
  <2>1. Tag("framebuffer") /\ madt' = madt /\ InitDevice(Framebuffer)
    BY <1>7 DEF InitFramebuffer
  <2>2. Devices' = Devices \cup {Framebuffer}
    BY <1>2, <2>1, TagDevices
  <2>3. stop = "no" /\ Framebuffer \in Ranges
    BY <2>1, RangesAre DEF Tag
  <2>4. /\ MemoryInv' /\ DevicesMapped' /\ heap' = heap
        /\ mapped' \subseteq 0 .. PageOf(AddressSpace) - 1
        /\ stop' \in {"no", "early", "heap"}
    BY <1>2, <1>4, <2>1, <2>2, <2>3, DeviceStep
  <2>5. TagsInv'
    BY <1>2, <2>1, <2>4, TagsStay
  <2>6. ControlInv'
    BY <1>3, <2>1, <2>4 DEF ControlInv, Tag
  <2>7. QED
    BY <1>4, <1>5, <2>4, <2>5, <2>6 DEF Inductive, BootInv
<1>8. CASE process_acpi_info
  <2>1. Tag("acpi") /\ UNCHANGED <<memory, devices>> /\ stop = "no"
    BY <1>8 DEF process_acpi_info, Tag
  <2>2. Devices' = Devices
    BY <1>2, <2>1, TagDevices
  <2>3. /\ MemoryInv' /\ DevicesMapped' /\ heap' = heap
        /\ mapped' \subseteq 0 .. PageOf(AddressSpace) - 1
    BY <1>2, <1>4, <2>1, <2>2, MemoryStays
  <2>4. TagsInv'
    BY <1>2, <2>1, <2>3, TagsStay
  <2>5. madt' \in Word \cup {NULL} /\ stop' \in {"no", "acpi"}
    <3>1. InfoOK
      BY <1>2 DEF BootInv
    <3>2. QED
      BY <1>3, <1>8, <2>1, <3>1, MadtIs DEF process_acpi_info
  <2>6. ControlInv'
    BY <1>3, <2>1, <2>3, <2>5 DEF ControlInv, Tag
  <2>7. ASSUME AcpiInPlace' PROVE stop' # "acpi"
    <3>1. AcpiInPlace
      BY <1>4, <2>7, AcpiStays
    <3>2. Before("mmap", "acpi")
      BY <3>1 DEF AcpiInPlace
    <3>3. "mmap" \in Range(info.tags) \ Range(todo)
      BY <1>2, <2>1, <3>2, TagStep
    <3>4. heap # {}
      BY <1>2, <2>1, <3>3 DEF BootInv, TagsInv
    <3>5. \A a \in Reads : PageOf(a) \in mapped
      BY <1>2, <3>1, <3>4, ReadIsMapped
    <3>6. QED
      BY <1>8, <2>1, <3>5 DEF process_acpi_info
  <2>8. AcpiFound'
    BY <2>7 DEF AcpiFound
  <2>9. QED
    BY <1>4, <2>3, <2>4, <2>6, <2>8 DEF Inductive, BootInv
<1>9. CASE OtherTag
  <2>1. Tag("other") /\ UNCHANGED <<memory, devices, madt, stop>> /\ stop = "no"
    BY <1>9 DEF OtherTag, Tag
  <2>2. Devices' = Devices
    BY <1>2, <2>1, TagDevices
  <2>3. /\ MemoryInv' /\ DevicesMapped' /\ heap' = heap
        /\ mapped' \subseteq 0 .. PageOf(AddressSpace) - 1
    BY <1>2, <1>4, <2>1, <2>2, MemoryStays
  <2>4. TagsInv'
    BY <1>2, <2>1, <2>3, TagsStay
  <2>5. ControlInv'
    BY <1>3, <2>1, <2>3 DEF ControlInv, Tag
  <2>6. QED
    BY <1>4, <1>5, <2>1, <2>3, <2>4, <2>5 DEF Inductive, BootInv
<1>10. ASSUME info' = info, todo' = todo, TagsInv, heap' = heap,
              stop' = "no" => stop = "no"
       PROVE  TagsInv'
  BY <1>10 DEF TagsInv
<1>11. CASE EndTag
  <2>1. /\ stop = "no" /\ pc = "tags" /\ pc' = "lapic" /\ todo' = todo
        /\ UNCHANGED <<memory, devices, madt, ioapic, stop>>
    BY <1>11 DEF EndTag
  <2>2. Devices' = Devices
    BY <1>4, <2>1 DEF Devices
  <2>3. /\ MemoryInv' /\ DevicesMapped' /\ heap' = heap
        /\ mapped' \subseteq 0 .. PageOf(AddressSpace) - 1
    BY <1>2, <1>4, <2>1, <2>2, MemoryStays
  <2>4. TagsInv'
    BY <1>2, <1>4, <1>10, <2>1, <2>3 DEF BootInv
  <2>5. ControlInv'
    BY <1>3, <2>1, <2>3 DEF ControlInv
  <2>6. QED
    BY <1>4, <1>5, <2>1, <2>3, <2>4, <2>5 DEF Inductive, BootInv
<1>12. CASE initialize_lapic
  <2>1. /\ stop = "no" /\ pc = "lapic" /\ pc' = "ioapic" /\ InitRegisters(Lapic, "lapic")
        /\ todo' = todo /\ madt' = madt /\ ioapic' = ioapic
    BY <1>12 DEF initialize_lapic
  <2>2. Devices' = Devices \cup {Lapic}
    BY <1>4, <2>1 DEF Devices
  <2>3. /\ MemoryInv' /\ DevicesMapped' /\ heap' = heap
        /\ mapped' \subseteq 0 .. PageOf(AddressSpace) - 1
        /\ stop' \in {"no", "early", "heap", "lapic", "ioapic"}
    BY <1>2, <1>4, <2>1, <2>2, RangesAre, RegistersStep
  <2>4. TagsInv'
    BY <1>2, <1>4, <1>10, <2>1, <2>3 DEF BootInv
  <2>5. ControlInv'
    BY <1>3, <2>1, <2>3 DEF ControlInv
  <2>6. QED
    BY <1>4, <1>5, <2>3, <2>4, <2>5 DEF Inductive, BootInv
<1>13. CASE initialize_ioapic
  <2>1. /\ stop = "no" /\ pc = "ioapic" /\ pc' = "sti" /\ todo' = todo /\ madt' = madt
    BY <1>13 DEF initialize_ioapic
  <2>2. CASE Stops("array") /\ ioapic' = ioapic
    <3>1. stop' = "array" /\ UNCHANGED <<memory, devices>>
      BY <2>2 DEF Stops
    <3>2. Devices' = Devices
      BY <1>4, <2>1, <2>2 DEF Devices
    <3>3. /\ MemoryInv' /\ DevicesMapped' /\ heap' = heap
          /\ mapped' \subseteq 0 .. PageOf(AddressSpace) - 1
      BY <1>2, <1>4, <2>1, <3>1, <3>2, MemoryStays
    <3>4. TagsInv'
      BY <1>2, <1>4, <1>10, <2>1, <3>3 DEF BootInv
    <3>5. ControlInv'
      BY <1>3, <2>1, <2>2, <3>1, <3>3 DEF ControlInv
    <3>6. QED
      BY <1>4, <1>5, <3>1, <3>3, <3>4, <3>5 DEF Inductive, BootInv
  <2>3. CASE /\ IoapicEntries # {}
             /\ ioapic' = info.madt[Min(IoapicEntries)].addr
             /\ InitRegisters(IoapicRange(ioapic'), "ioapic")
    <3>1. PICK a \in Word : a = ioapic'
      BY <1>2, <2>3, MadtIs DEF BootInv
    <3>2. a # NULL /\ ioapic = NULL
      BY <1>3, <2>1, WordPage DEF NULL
    <3>3. Devices' = Devices \cup {IoapicRange(a)}
      <4>1. Devices' = ({r \in {Framebuffer} : "framebuffer" \in Range(info.tags) \ Range(todo)}
                        \cup {Lapic}) \cup {IoapicRange(a)}
        BY <1>4, <2>1, <3>1, <3>2 DEF Devices
      <4>2. Devices = {r \in {Framebuffer} : "framebuffer" \in Range(info.tags) \ Range(todo)}
                      \cup {Lapic}
        BY <2>1, <3>2 DEF Devices
      <4>3. QED
        BY <4>1, <4>2
    <3>4. InitRegisters(IoapicRange(a), "ioapic") /\ IoapicRange(a) \in Ranges
      BY <2>3, <3>1, RangesAre
    <3>5. /\ MemoryInv' /\ DevicesMapped' /\ heap' = heap
          /\ mapped' \subseteq 0 .. PageOf(AddressSpace) - 1
          /\ stop' \in {"no", "early", "heap", "lapic", "ioapic"}
      BY <1>2, <1>4, <2>1, <3>3, <3>4, RegistersStep
    <3>6. TagsInv'
      BY <1>2, <1>4, <1>10, <2>1, <3>5 DEF BootInv
    <3>7. ControlInv'
      BY <1>3, <2>1, <3>1, <3>5 DEF ControlInv
    <3>8. QED
      BY <1>4, <1>5, <3>5, <3>6, <3>7 DEF Inductive, BootInv
  <2>4. QED
    BY <1>13, <2>2, <2>3 DEF initialize_ioapic
<1>14. CASE UNCHANGED vars
  <2>1. /\ pc' = pc /\ todo' = todo /\ madt' = madt /\ ioapic' = ioapic /\ stop' = stop
        /\ UNCHANGED <<memory, devices>>
    BY <1>14 DEF vars
  <2>2. Devices' = Devices
    BY <1>4, <2>1 DEF Devices
  <2>3. /\ MemoryInv' /\ DevicesMapped' /\ heap' = heap
        /\ mapped' \subseteq 0 .. PageOf(AddressSpace) - 1
    BY <1>2, <1>4, <2>1, <2>2, MemoryStays
  <2>4. TagsInv'
    BY <1>2, <1>4, <1>10, <2>1, <2>3 DEF BootInv
  <2>5. ControlInv'
    BY <1>2, <2>1, <2>3 DEF BootInv, ControlInv
  <2>6. AcpiFound'
    BY <1>2, <1>4, <2>1, AcpiStays DEF AcpiFound
  <2>7. QED
    BY <1>4, <2>3, <2>4, <2>5, <2>6 DEF Inductive, BootInv
<1>15. QED
  BY <1>1, <1>6, <1>7, <1>8, <1>9, <1>11, <1>12, <1>13, <1>14 DEF Next

LEMMA AlwaysInductive == Spec => []Inductive
BY InitIs, StepIs, PTL DEF Spec

-----------------------------------------------------------------------------
(* The theorems.                                                           *)

(* What kernel_start keeps while it walks over the tags has its type: the  *)
(* top of memory fits its 32 bits, the frames clear in the bitmap are      *)
(* frames of memory, and none of the heap's is among them.                 *)
THEOREM TypeCorrect == Spec => []TypeOK
<1>1. Inductive => TypeOK
  BY TypeFollows DEF Inductive
<1>2. QED
  BY <1>1, AlwaysInductive, PTL

(* init_pmm and alloc_pageframe, whatever the loader reports below 4 GiB,  *)
(* hand out frames of RAM only, and the heap is put beside the image.      *)
THEOREM OnlyRamHandedOut == Spec => []HandsOutRam
<1>1. Inductive => HandsOutRam
  BY RamFollows DEF Inductive
<1>2. QED
  BY <1>1, AlwaysInductive, PTL

(* The sum of the lengths that init_memory takes for the end of memory     *)
(* loses no frame of a map without holes: each is free, or the heap, the   *)
(* bitmap or a device has it.                                              *)
THEOREM NoRamIsLost == Spec => []NoRamLost
<1>1. Inductive => NoRamLost
  BY LostFollows DEF Inductive
<1>2. QED
  BY <1>1, AlwaysInductive, PTL

(* process_acpi_info finds every table it follows mapped, as its comment   *)
(* says, when the conditions that this rests on hold.                      *)
THEOREM AcpiTablesFound == Spec => []AcpiFound
<1>1. Inductive => AcpiFound
  BY DEF Inductive
<1>2. QED
  BY <1>1, AlwaysInductive, PTL

(* init_MMIO_device maps every page of a device that reaches to no other   *)
(* area, in whatever order the devices and the memory map come.            *)
THEOREM DevicesAreMapped == Spec => []DevicesMapped
<1>1. Inductive => DevicesMapped
  BY DEF Inductive
<1>2. QED
  BY <1>1, AlwaysInductive, PTL

=============================================================================
