---------------------------- MODULE KheapProofs -----------------------------
(***************************************************************************)
(* Proofs about Kheap, for every size of range, tag, header and request.   *)
(*                                                                         *)
(* The lemmas say that each rewriting of the chain keeps it a tiling of    *)
(* the range; the inductive invariant adds to the tiling that the live     *)
(* blocks are exactly the used ones and that the cached first free tag is  *)
(* right, without which find_first_fit could not be shown to take a tag of *)
(* the chain.                                                              *)
(***************************************************************************)
EXTENDS Kheap, TLAPS

(* Every call of init_heap_alloc_entry that takes a free block of the      *)
(* chain yields a chain again, in which the block is used and long enough, *)
(* and at most one tag, free and right behind the block, is new.           *)
LEMMA SplitTiles ==
  ASSUME NEW t, ChainType(t), NEW e \in Nat, Tiles(t, e),
         NEW a \in DOMAIN t, NEW n \in Nat, n > 0, n <= t[a].size
  PROVE  LET u == InitEntry(t, a, n, t[a].size)
         IN  /\ ChainType(u)
             /\ Tiles(u, e)
             /\ DOMAIN t \subseteq DOMAIN u
             /\ u[a].used /\ u[a].size >= n
             /\ \A b \in DOMAIN t : b # a => u[b] = t[b]
             /\ \A b \in DOMAIN u \ DOMAIN t : ~u[b].used /\ b = NextTag(u, a)
<1> DEFINE u == InitEntry(t, a, n, t[a].size)
           s == t[a].size
           r == a + Tag + n
<1>1. Tag \in Nat /\ Tag > 0
  BY KheapAssumption
<1>2. s \in Nat /\ a \in Nat /\ r \in Nat
  BY <1>1 DEF ChainType
<1>3. CASE n + Tag < s
  <2>1. u = [b \in DOMAIN t \cup {r} |->
               IF b = a THEN [size |-> n, used |-> TRUE]
               ELSE IF b = r THEN [size |-> s - (n + Tag), used |-> FALSE]
               ELSE t[b]]
    BY <1>3 DEF InitEntry
  <2>2. r > a /\ r < a + s + Tag
    BY <1>1, <1>2, <1>3
  <2>3. r \notin DOMAIN t
    BY <1>1, <1>2, <2>2 DEF Tiles, NextTag, ChainType
  <2>4. DOMAIN u = DOMAIN t \cup {r}
    BY <2>1
  <2>5. u[a] = [size |-> n, used |-> TRUE]
    BY <2>1
  <2>6. u[r] = [size |-> s - (n + Tag), used |-> FALSE]
    BY <2>1, <2>2, <1>2
  <2>7. \A b \in DOMAIN t : b # a => u[b] = t[b]
    BY <2>1, <2>3
  <2>8. s - (n + Tag) \in Nat
    BY <1>1, <1>2, <1>3
  <2>9. ChainType(u)
    <3>1. u[a] \in [size : Nat, used : BOOLEAN] /\ u[r] \in [size : Nat, used : BOOLEAN]
      BY <2>5, <2>6, <2>8
    <3>2. \A b \in DOMAIN t : b # a => u[b] \in [size : Nat, used : BOOLEAN]
      BY <2>7 DEF ChainType
    <3>3. QED
      BY <3>1, <3>2, <2>1, <2>4, <1>2 DEF ChainType
  <2>10. NextTag(u, a) = r
    BY <2>5, <1>1, <1>2 DEF NextTag
  <2>11. NextTag(u, r) = NextTag(t, a)
    BY <2>6, <1>1, <1>2 DEF NextTag
  <2>12. \A b \in DOMAIN t : b # a => NextTag(u, b) = NextTag(t, b)
    BY <2>7 DEF NextTag
  <2>13. NextTag(t, a) = a + s + Tag
    BY DEF NextTag
  <2>14. Tiles(u, e)
    <3>1. Start \in DOMAIN u
      BY <2>4 DEF Tiles
    <3>2. ASSUME NEW b \in DOMAIN u
          PROVE  Start <= b /\ b < e /\ NextTag(u, b) \in DOMAIN u \cup {e}
      <4>1. CASE b = r
        BY <4>1, <1>1, <1>2, <2>2, <2>4, <2>11, <2>13, KheapAssumption
           DEF Tiles, ChainType
      <4>2. CASE b # r /\ b = a
        BY <4>2, <2>4, <2>10 DEF Tiles
      <4>3. CASE b # r /\ b # a
        BY <4>3, <2>4, <2>12 DEF Tiles
      <4>4. QED
        BY <4>1, <4>2, <4>3
    <3>3. ASSUME NEW b \in DOMAIN u, NEW c \in DOMAIN u, b < c
          PROVE  NextTag(u, b) <= c
      <4>0. b \in Nat /\ c \in Nat
        BY <2>9 DEF ChainType
      <4>1. CASE b = r
        <5>1. c \in DOMAIN t /\ a < c
          BY <3>3, <4>0, <4>1, <2>2, <2>4, <1>2
        <5>2. QED
          BY <5>1, <4>1, <2>11 DEF Tiles
      <4>2. CASE b = a
        <5>1. CASE c = r
          BY <5>1, <4>2, <2>10, <1>2
        <5>2. CASE c # r
          <6>1. c \in DOMAIN t /\ a < c
            BY <5>2, <4>2, <3>3, <2>4
          <6>2. NextTag(t, a) <= c
            BY <6>1 DEF Tiles
          <6>3. QED
            BY <6>2, <4>2, <4>0, <2>2, <2>10, <2>13, <1>1, <1>2
        <5>3. QED
          BY <5>1, <5>2
      <4>3. CASE b \in DOMAIN t /\ b # a /\ c = r
        <5>1. b < a
          <6>1. CASE a < b
            BY <6>1, <4>3, <4>0, <3>3, <2>2, <2>13, <1>1, <1>2 DEF Tiles
          <6>2. QED
            BY <6>1, <4>3, <4>0, <1>2
        <5>2. NextTag(t, b) <= a /\ NextTag(t, b) \in Int
          BY <5>1, <4>3, <4>0, <1>1 DEF Tiles, NextTag, ChainType
        <5>3. QED
          BY <5>2, <4>3, <2>2, <2>12, <1>2
      <4>4. CASE b \in DOMAIN t /\ b # a /\ c \in DOMAIN t
        BY <4>4, <3>3, <2>12 DEF Tiles
      <4>5. QED
        BY <4>1, <4>2, <4>3, <4>4, <2>4
    <3>4. QED
      BY <3>1, <3>2, <3>3 DEF Tiles
  <2>15. QED
    BY <2>4, <2>5, <2>6, <2>7, <2>9, <2>10, <2>14, <1>2
<1>4. CASE ~(n + Tag < s)
  <2>1. u = [b \in DOMAIN t |->
               IF b = a THEN [size |-> s, used |-> TRUE] ELSE t[b]]
    BY <1>4 DEF InitEntry
  <2>2. DOMAIN u = DOMAIN t /\ u[a] = [size |-> s, used |-> TRUE]
    BY <2>1
  <2>3. \A b \in DOMAIN t : b # a => u[b] = t[b]
    BY <2>1
  <2>4. ChainType(u)
    <3>1. u[a] \in [size : Nat, used : BOOLEAN]
      BY <2>2, <1>2
    <3>2. \A b \in DOMAIN t : b # a => u[b] \in [size : Nat, used : BOOLEAN]
      BY <2>3 DEF ChainType
    <3>3. QED
      BY <3>1, <3>2, <2>1, <2>2 DEF ChainType
  <2>5. \A b \in DOMAIN t : NextTag(u, b) = NextTag(t, b)
    BY <2>2, <2>3 DEF NextTag
  <2>6. Tiles(u, e)
    BY <2>2, <2>5 DEF Tiles
  <2>7. QED
    BY <2>2, <2>3, <2>4, <2>6, <1>2
<1>5. QED
  BY <1>3, <1>4

(* Extending the range appends one block at its old end, used and long     *)
(* enough, and at most one free block after it.                            *)
LEMMA ExtendTiles ==
  ASSUME NEW t, ChainType(t), NEW e \in Nat, Tiles(t, e),
         NEW n \in 1 .. Growth - Tag
  PROVE  LET u == InitEntry(t, e, n, Growth - Tag)
         IN  /\ ChainType(u)
             /\ Tiles(u, e + Growth)
             /\ DOMAIN t \subseteq DOMAIN u
             /\ e \in DOMAIN u \ DOMAIN t
             /\ u[e].used /\ u[e].size >= n
             /\ \A b \in DOMAIN t : u[b] = t[b]
             /\ \A b \in DOMAIN u \ DOMAIN t : b # e => ~u[b].used
<1> DEFINE free == [size |-> Growth - Tag, used |-> FALSE]
           v == [b \in DOMAIN t \cup {e} |-> IF b = e THEN free ELSE t[b]]
           u == InitEntry(t, e, n, Growth - Tag)
<1>1. Tag \in Nat /\ Tag > 0 /\ Growth - Tag \in Nat /\ Growth - Tag > 0
  BY KheapAssumption
<1>2. e \notin DOMAIN t
  BY DEF Tiles, ChainType
<1>3. DOMAIN v = DOMAIN t \cup {e} /\ v[e] = free /\ v[e].size = Growth - Tag
  OBVIOUS
<1>4. \A b \in DOMAIN t : v[b] = t[b]
  BY <1>2
<1>5. ChainType(v)
  <2>1. \A b \in DOMAIN t : v[b] \in [size : Nat, used : BOOLEAN]
    BY <1>4 DEF ChainType
  <2>2. v[e] \in [size : Nat, used : BOOLEAN]
    BY <1>1, <1>3
  <2>3. QED
    BY <2>1, <2>2, <1>3 DEF ChainType
<1>6. Tiles(v, e + Growth)
  <2>1. NextTag(v, e) = e + Growth
    <3>1. NextTag(v, e) = e + (Growth - Tag) + Tag
      BY <1>3 DEF NextTag
    <3>2. QED
      BY <3>1, KheapAssumption
  <2>2. \A b \in DOMAIN t : NextTag(v, b) = NextTag(t, b)
    BY <1>4 DEF NextTag
  <2>3. Start \in DOMAIN v
    BY <1>3 DEF Tiles
  <2>4. ASSUME NEW b \in DOMAIN v
        PROVE  /\ Start <= b /\ b < e + Growth
               /\ NextTag(v, b) \in DOMAIN v \cup {e + Growth}
    <3>1. CASE b = e
      BY <3>1, <2>1, <1>1, KheapAssumption DEF Tiles, ChainType
    <3>2. CASE b # e
      <4>1. b \in DOMAIN t /\ b \in Nat /\ b < e /\ Start <= b
        BY <3>2, <1>3 DEF Tiles, ChainType
      <4>2. NextTag(v, b) \in DOMAIN v
        BY <4>1, <2>2, <1>3 DEF Tiles
      <4>3. b < e + Growth
        BY <4>1, <1>1, KheapAssumption
      <4>4. QED
        BY <4>1, <4>2, <4>3
    <3>3. QED
      BY <3>1, <3>2
  <2>5. ASSUME NEW b \in DOMAIN v, NEW c \in DOMAIN v, b < c
        PROVE  NextTag(v, b) <= c
    <3>1. CASE b \in DOMAIN t /\ c \in DOMAIN t
      BY <3>1, <2>2, <2>5 DEF Tiles
    <3>2. CASE b \in DOMAIN t /\ c = e
      <4>1. NextTag(t, b) \in DOMAIN t \cup {e}
        BY <3>2 DEF Tiles
      <4>2. \A x \in DOMAIN t : x \in Nat /\ x < e
        BY DEF Tiles, ChainType
      <4>3. QED
        BY <3>2, <4>1, <4>2, <2>2
    <3>3. CASE b = e
      BY <3>3, <2>5, <1>3 DEF Tiles, ChainType
    <3>4. QED
      BY <3>1, <3>2, <3>3, <1>3
  <2>6. QED
    BY <2>3, <2>4, <2>5 DEF Tiles
<1>7. u = InitEntry(v, e, n, v[e].size)
  <2>1. DOMAIN t \cup {e} = DOMAIN v \cup {e}
    BY <1>3
  <2>2. \A b \in DOMAIN u : b # e /\ ~(n + Tag < Growth - Tag /\ b = e + Tag + n)
                          => b \in DOMAIN t
    BY DEF InitEntry
  <2>3. QED
    BY <2>1, <2>2, <1>3, <1>4 DEF InitEntry
<1>8. n \in Nat /\ n > 0 /\ n <= v[e].size
  BY <1>1, <1>3
<1>9. /\ ChainType(u) /\ Tiles(u, e + Growth)
      /\ DOMAIN v \subseteq DOMAIN u
      /\ u[e].used /\ u[e].size >= n
      /\ \A b \in DOMAIN v : b # e => u[b] = v[b]
      /\ \A b \in DOMAIN u \ DOMAIN v : ~u[b].used
  <2> HIDE DEF u, v
  <2>1. e \in DOMAIN v /\ e + Growth \in Nat
    BY <1>3, KheapAssumption
  <2>2. QED
    BY <1>5, <1>6, <1>7, <1>8, <2>1, SplitTiles
<1>10. QED
  BY <1>2, <1>3, <1>4, <1>9

(* Marking a block free, and merging the following block into one, keep    *)
(* the tiling.                                                             *)
LEMMA FreeTiles ==
  ASSUME NEW t, ChainType(t), NEW e \in Nat, Tiles(t, e), NEW a \in DOMAIN t
  PROVE  LET u == Unused(t, a)
         IN  /\ ChainType(u) /\ Tiles(u, e)
             /\ DOMAIN u = DOMAIN t
             /\ ~u[a].used
             /\ \A b \in DOMAIN t : b # a => u[b] = t[b]
<1> DEFINE u == Unused(t, a)
<1>1. DOMAIN u = DOMAIN t /\ ~u[a].used /\ u[a].size = t[a].size
  BY DEF Unused, ChainType
<1>2. \A b \in DOMAIN t : b # a => u[b] = t[b]
  BY DEF Unused
<1>3. ChainType(u)
  BY DEF ChainType, Unused
<1>4. \A b \in DOMAIN t : NextTag(u, b) = NextTag(t, b)
  BY <1>1, <1>2 DEF NextTag
<1>5. Tiles(u, e)
  BY <1>1, <1>4 DEF Tiles
<1>6. QED
  BY <1>1, <1>2, <1>3, <1>5

LEMMA MergeTiles ==
  ASSUME NEW t, ChainType(t), NEW e \in Nat, Tiles(t, e),
         NEW a \in DOMAIN t, NextTag(t, a) < e
  PROVE  LET b == NextTag(t, a)
             u == MergedWith(t, a, b)
         IN  /\ ChainType(u) /\ Tiles(u, e)
             /\ b \in DOMAIN t /\ b > a
             /\ DOMAIN u = DOMAIN t \ {b}
             /\ ~u[a].used
             /\ \A c \in DOMAIN u : c # a => u[c] = t[c]
<1> DEFINE b == NextTag(t, a)
           u == MergedWith(t, a, b)
<1>1. Tag \in Nat /\ Tag > 0 /\ \A c \in DOMAIN t : c \in Nat /\ t[c].size \in Nat
  BY KheapAssumption DEF ChainType
<1>2. b \in DOMAIN t /\ b > a /\ b = a + t[a].size + Tag
  BY <1>1 DEF Tiles, NextTag
<1>3. DOMAIN u = DOMAIN t \ {b} /\ a \in DOMAIN u
  BY <1>1, <1>2 DEF MergedWith
<1>4. u[a] = [size |-> t[a].size + t[b].size + Tag, used |-> FALSE]
  BY <1>3 DEF MergedWith
<1>5. \A c \in DOMAIN u : c # a => u[c] = t[c]
  BY DEF MergedWith
<1>6. ChainType(u)
  <2>1. u[a] \in [size : Nat, used : BOOLEAN]
    <3>1. t[a].size + t[b].size + Tag \in Nat
      BY <1>1, <1>2
    <3>2. QED
      BY <3>1, <1>4
  <2>2. \A c \in DOMAIN u : c # a => u[c] \in [size : Nat, used : BOOLEAN]
    BY <1>3, <1>5 DEF ChainType
  <2>3. u = [c \in DOMAIN u |-> u[c]] /\ DOMAIN u \subseteq Nat
    BY <1>1, <1>3 DEF MergedWith
  <2>4. QED
    BY <2>1, <2>2, <2>3 DEF ChainType
<1>7. NextTag(u, a) = NextTag(t, b)
  BY <1>1, <1>2, <1>4 DEF NextTag
<1>8. \A c \in DOMAIN u : c # a => NextTag(u, c) = NextTag(t, c)
  BY <1>5 DEF NextTag
<1>9. \A c, d \in DOMAIN t : c < d => NextTag(t, c) <= d
  BY DEF Tiles
<1>10. \A c \in DOMAIN t : NextTag(t, c) \in Nat /\ NextTag(t, c) > c
  BY <1>1 DEF NextTag
<1>11. Tiles(u, e)
  <2>1. Start \in DOMAIN u
    <3>1. Start \in DOMAIN t /\ Start <= a
      BY DEF Tiles
    <3>2. QED
      BY <3>1, <1>1, <1>2, <1>3
  <2>2. ASSUME NEW c \in DOMAIN u
        PROVE  Start <= c /\ c < e /\ NextTag(u, c) \in DOMAIN u \cup {e}
    <3>1. c \in DOMAIN t /\ Start <= c /\ c < e
      BY <1>3 DEF Tiles
    <3>2. CASE c = a
      <4>1. NextTag(t, b) \in DOMAIN t \cup {e} /\ NextTag(t, b) # b
        BY <1>1, <1>2, <1>10 DEF Tiles
      <4>2. QED
        BY <3>1, <3>2, <4>1, <1>3, <1>7
    <3>3. CASE c # a
      <4>1. NextTag(t, c) \in DOMAIN t \cup {e}
        BY <3>1 DEF Tiles
      <4>2. NextTag(t, c) # b
        <5>1. CASE c < a
          <6>1. NextTag(t, c) <= a
            BY <5>1, <3>1, <1>9
          <6>2. QED
            BY <6>1, <3>1, <1>1, <1>2, <1>10
        <5>2. CASE a < c
          <6>1. b <= c
            BY <5>2, <3>1, <1>9
          <6>2. QED
            BY <6>1, <3>1, <1>1, <1>2, <1>10
        <5>3. QED
          BY <5>1, <5>2, <3>1, <3>3, <1>1
      <4>3. QED
        BY <3>1, <3>3, <4>1, <4>2, <1>3, <1>8
    <3>4. QED
      BY <3>2, <3>3
  <2>3. ASSUME NEW c \in DOMAIN u, NEW d \in DOMAIN u, c < d
        PROVE  NextTag(u, c) <= d
    <3>1. c \in DOMAIN t /\ d \in DOMAIN t /\ d # b
      BY <1>3
    <3>2. CASE c = a
      <4>1. b <= d
        BY <3>1, <3>2, <2>3, <1>9
      <4>2. b < d
        BY <4>1, <3>1, <1>1, <1>2
      <4>3. QED
        BY <4>2, <3>1, <3>2, <1>2, <1>7, <1>9
    <3>3. CASE c # a
      BY <3>1, <3>3, <2>3, <1>8, <1>9
    <3>4. QED
      BY <3>2, <3>3
  <2>4. QED
    BY <2>1, <2>2, <2>3 DEF Tiles
<1>12. QED
  BY <1>2, <1>3, <1>4, <1>5, <1>6, <1>11

-----------------------------------------------------------------------------
(* What goto_first_free_tag returns, unless it faults, is the lowest free  *)
(* tag from the given one on, or NULL or the end if there is none.         *)
IsFirstFree(t, e, a, f) ==
  IF FreeFrom(t, a) = {}
  THEN f \in {Null, e}
  ELSE f \in FreeFrom(t, a) /\ \A b \in FreeFrom(t, a) : f <= b

LEMMA SearchFinds ==
  ASSUME NEW t, ChainType(t), NEW e \in Nat, NEW kind \in AboveKinds, NEW a,
         NEW f \in GotoFirstFree(t, e, kind, a), f # Fault
  PROVE  f \in Nat /\ IsFirstFree(t, e, a, f)
<1>1. CASE FreeFrom(t, a) = {}
  <2>1. f \in {Null, e}
    BY <1>1 DEF GotoFirstFree, AboveKinds
  <2>2. QED
    BY <1>1, <2>1 DEF IsFirstFree, Null
<1>2. CASE FreeFrom(t, a) # {}
  <2>1. f \in FreeFrom(t, a) /\ \A b \in FreeFrom(t, a) : f <= b
    BY <1>2 DEF GotoFirstFree
  <2>2. f \in Nat
    BY <2>1 DEF FreeFrom, ChainType
  <2>3. QED
    BY <1>2, <2>1, <2>2 DEF IsFirstFree
<1>3. QED
  BY <1>1, <1>2

(* A chain with free tags has one from any free tag on.                    *)
LEMMA SearchNotFault ==
  ASSUME NEW t, ChainType(t), NEW e, NEW kind, NEW a,
         NEW b \in FreeFrom(t, a), NEW f \in GotoFirstFree(t, e, kind, a)
  PROVE  f # Fault
<1>1. f \in FreeFrom(t, a)
  BY DEF GotoFirstFree
<1>2. QED
  BY <1>1 DEF FreeFrom, ChainType, Fault

(* The inductive invariant: the four invariants support one another.       *)
IInv == TypeOK /\ ChainTiles /\ LiveBlocksSound /\ FirstFreeIsLowest

(* The chain and the cached tag after find_first_fit took a block.         *)
LEMMA TakeSound ==
  ASSUME IInv, stop = "no", end' = end, above' = above,
         NEW n \in Sizes, NEW why \in {"no", "null"},
         NEW a \in Fits(n), Take(a, n, why)
  PROVE  /\ ChainType(tags') /\ Tiles(tags', end)
         /\ a \in DOMAIN tags /\ a # Start /\ DOMAIN tags \subseteq DOMAIN tags'
         /\ tags'[a].used /\ tags'[a].size >= n
         /\ \A b \in DOMAIN tags : b # a => tags'[b] = tags[b]
         /\ \A b \in DOMAIN tags' \ DOMAIN tags : ~tags'[b].used
         /\ firstFree' \in Nat /\ stop' \in {why, "end"}
         /\ stop' # "end" => IsFirstFree(tags', end, Start, firstFree')
         /\ stop' = "end" => FreeFrom(tags', Start) = {}
<1>1. /\ ChainType(tags) /\ end \in Nat /\ Tiles(tags, end)
      /\ a \in DOMAIN tags /\ ~tags[a].used /\ tags[a].size >= n
      /\ a >= firstFree /\ n \in Nat /\ n > 0 /\ firstFree # Null
      /\ firstFree \in Nat /\ above \in AboveKinds
  BY KheapAssumption DEF IInv, TypeOK, ChainTiles, Fits
<1>2. tags' = InitEntry(tags, a, n, tags[a].size)
  BY DEF Take
<1>3. /\ ChainType(tags') /\ Tiles(tags', end)
      /\ DOMAIN tags \subseteq DOMAIN tags'
      /\ tags'[a].used /\ tags'[a].size >= n
      /\ \A b \in DOMAIN tags : b # a => tags'[b] = tags[b]
      /\ \A b \in DOMAIN tags' \ DOMAIN tags :
           ~tags'[b].used /\ b = NextTag(tags', a)
  <2>1. n <= tags[a].size
    BY <1>1 DEF ChainType
  <2>2. QED
    BY <1>1, <1>2, <2>1, SplitTiles
<1>4. a # Start
  BY <1>1 DEF IInv, LiveBlocksSound
<1>5. a \in FreeFrom(tags, Start)
  BY <1>1 DEF FreeFrom, Tiles
<1>6. firstFree \in FreeFrom(tags, Start) /\ \A b \in FreeFrom(tags, Start) : firstFree <= b
  BY <1>5 DEF IInv, FirstFreeIsLowest
<1>7. CASE a = firstFree
  <2> DEFINE x == NextTag(tags', a)
  <2>1. PICK f \in GotoFirstFree(tags', end, above, x) : SetFirstFree(f, why)
    BY <1>7 DEF Take
  <2>2. FreeFrom(tags', Start) = FreeFrom(tags', x)
    <3>1. Tag \in Nat /\ Tag > 0 /\ \A b \in DOMAIN tags' : b \in Nat /\ tags'[b].size \in Nat
      BY <1>3, KheapAssumption DEF ChainType
    <3>2. x \in Nat /\ x > a /\ a >= Start /\ Start \in Nat /\ a \in Nat
      BY <1>1, <1>3, <3>1, KheapAssumption DEF NextTag, Tiles
    <3>3. ASSUME NEW b \in FreeFrom(tags', Start)
          PROVE  b >= x
      <4>1. b \in DOMAIN tags' /\ ~tags'[b].used /\ b >= Start /\ b # a
        BY <1>3 DEF FreeFrom
      <4>2. CASE b \in DOMAIN tags
        <5>1. b \in FreeFrom(tags, Start)
          BY <1>3, <4>1, <4>2 DEF FreeFrom
        <5>2. a < b
          BY <5>1, <1>6, <1>7, <3>1, <4>1, <1>1
        <5>3. QED
          BY <5>2, <4>1, <1>1, <1>3, <3>2 DEF Tiles
      <4>3. CASE b \notin DOMAIN tags
        BY <4>1, <4>3, <1>3, <3>2
      <4>4. QED
        BY <4>2, <4>3
    <3>4. \A b \in DOMAIN tags' : b >= x => b >= Start
      <4> HIDE DEF x
      <4>1. QED
        BY <3>1, <3>2
    <3>5. QED
      BY <3>3, <3>4 DEF FreeFrom
  <2>3. CASE f = Fault
    <3>1. FreeFrom(tags', x) = {}
      <4> HIDE DEF x
      <4>1. QED
        BY <2>1, <2>3, <1>3, SearchNotFault
    <3>2. QED
      BY <3>1, <2>1, <2>2, <2>3, <1>1, <1>3, <1>4 DEF SetFirstFree
  <2>4. CASE f # Fault
    <3>1. f \in Nat /\ IsFirstFree(tags', end, x, f)
      BY <2>1, <2>4, <1>1, <1>3, SearchFinds
    <3>2. IsFirstFree(tags', end, Start, f)
      BY <3>1, <2>2 DEF IsFirstFree
    <3>3. firstFree' = f /\ stop' = why
      BY <2>1, <2>4 DEF SetFirstFree
    <3>4. QED
      BY <3>1, <3>2, <3>3, <1>1, <1>3, <1>4
  <2>5. QED
    BY <2>3, <2>4
<1>8. CASE a # firstFree
  <2>1. firstFree' = firstFree /\ stop' = why
    BY <1>8 DEF Take
  <2>2. firstFree \in FreeFrom(tags', Start)
    BY <1>3, <1>6, <1>8 DEF FreeFrom
  <2>3. ASSUME NEW b \in FreeFrom(tags', Start)
        PROVE  firstFree <= b
    <3>1. b \in DOMAIN tags' /\ ~tags'[b].used /\ b >= Start /\ b # a /\ b \in Nat
      BY <1>3 DEF FreeFrom, ChainType
    <3>2. CASE b \in DOMAIN tags
      <4>1. b \in FreeFrom(tags, Start)
        BY <1>3, <3>1, <3>2 DEF FreeFrom
      <4>2. QED
        BY <4>1, <1>6
    <3>3. CASE b \notin DOMAIN tags
      <4>1. b = NextTag(tags', a) /\ tags'[a].size \in Nat /\ a \in Nat
        BY <3>1, <3>3, <1>1, <1>3 DEF ChainType
      <4>2. QED
        BY <4>1, <1>1, KheapAssumption DEF NextTag
    <3>4. QED
      BY <3>2, <3>3
  <2>4. IsFirstFree(tags', end, Start, firstFree')
    BY <2>1, <2>2, <2>3 DEF IsFirstFree
  <2>5. QED
    BY <2>1, <2>4, <1>1, <1>3, <1>4
<1>9. QED
  BY <1>7, <1>8

-----------------------------------------------------------------------------
LEMMA InitIInv == Init => IInv
<1> SUFFICES ASSUME Init PROVE IInv
  OBVIOUS
<1> DEFINE none == [b \in {} |-> {}]
           first == Start + Tag + Header
<1>1. /\ Start \in Nat /\ Start > 0 /\ Tag \in Nat /\ Tag > 0 /\ Header \in Nat
      /\ Header > 0 /\ HeapSize \in Nat /\ HeapSize > 2 * Tag + Header
  BY KheapAssumption
<1>2. Header + Tag < HeapSize - Tag
  BY <1>1
<1>3. tags = [b \in {Start, first} |->
               IF b = Start THEN [size |-> Header, used |-> TRUE]
               ELSE [size |-> HeapSize - Tag - (Header + Tag), used |-> FALSE]]
  BY <1>1, <1>2 DEF Init, InitEntry
<1>4. first \in Nat /\ first # Start /\ first > Start
  BY <1>1
<1>5. DOMAIN tags = {Start, first} /\ tags[Start] = [size |-> Header, used |-> TRUE]
  BY <1>3
<1>6. tags[first] = [size |-> HeapSize - Tag - (Header + Tag), used |-> FALSE]
  BY <1>3, <1>4
<1>7. HeapSize - Tag - (Header + Tag) \in Nat
  BY <1>1
<1>8. ChainType(tags)
  <2>1. tags[Start] \in [size : Nat, used : BOOLEAN]
    BY <1>1, <1>5
  <2>2. tags[first] \in [size : Nat, used : BOOLEAN]
    BY <1>6, <1>7
  <2>3. QED
    BY <1>1, <1>3, <1>4, <1>5, <2>1, <2>2 DEF ChainType
<1>9. NextTag(tags, Start) = first
  BY <1>1, <1>5 DEF NextTag
<1>10. NextTag(tags, first) = end
  BY <1>1, <1>6 DEF NextTag, Init
<1>11. end \in Nat /\ first < end /\ asked = [b \in {} |-> {}]
       /\ firstFree = first /\ stop = "no" /\ lost = 0 /\ above \in AboveKinds
  BY <1>1 DEF Init
<1>12. Tiles(tags, end)
  BY <1>1, <1>4, <1>5, <1>9, <1>10, <1>11 DEF Tiles
<1>13. TypeOK
  BY <1>4, <1>8, <1>11 DEF TypeOK
<1>14. LiveBlocksSound
  BY <1>4, <1>5, <1>6, <1>11 DEF LiveBlocksSound
<1>15. FirstFreeIsLowest
  <2>1. FreeFrom(tags, Start) = {first}
    BY <1>1, <1>4, <1>5, <1>6 DEF FreeFrom
  <2>2. QED
    BY <2>1, <1>4, <1>11 DEF FirstFreeIsLowest
<1>16. QED
  BY <1>11, <1>12, <1>13, <1>14, <1>15 DEF IInv, ChainTiles

(* The invariant after a call that remembers, or does not, a block taken.  *)
LEMMA AskedKeeps ==
  ASSUME IInv, stop = "no", end' \in Nat, above' \in AboveKinds, lost' \in Nat,
         NEW n \in Sizes, NEW a,
         ChainType(tags'), Tiles(tags', end'),
         a \in DOMAIN tags', a # Start, a \notin DOMAIN asked,
         DOMAIN tags \subseteq DOMAIN tags',
         tags'[a].used, tags'[a].size >= n,
         \A b \in DOMAIN tags : b # a => tags'[b] = tags[b],
         \A b \in DOMAIN tags' \ DOMAIN tags : b # a => ~tags'[b].used,
         firstFree' \in Nat, stop' \in {"no", "null", "end"},
         stop' # "end" => IsFirstFree(tags', end', Start, firstFree'),
         asked' = IF stop' = "end" THEN asked ELSE Remember(a, n)
  PROVE  IInv'
<1>1. /\ DOMAIN asked \subseteq DOMAIN tags /\ asked \in [DOMAIN asked -> Sizes]
      /\ \A b \in DOMAIN asked : b # Start /\ tags[b].used /\ tags[b].size >= asked[b]
      /\ {b \in DOMAIN tags : tags[b].used} = {Start} \cup DOMAIN asked
      /\ Start \in DOMAIN tags
  BY DEF IInv, TypeOK, LiveBlocksSound, ChainTiles, Tiles
<1>2. DOMAIN asked' = IF stop' = "end" THEN DOMAIN asked ELSE DOMAIN asked \cup {a}
  BY DEF Remember
<1>3. \A b \in DOMAIN asked : asked'[b] = asked[b] /\ b # a
  BY DEF Remember
<1>4. stop' # "end" => asked'[a] = n
  BY DEF Remember
<1>5. asked' \in [DOMAIN asked' -> Sizes]
  BY <1>1, <1>2, <1>3, <1>4 DEF Remember
<1>6. TypeOK'
  BY <1>1, <1>2, <1>5 DEF TypeOK
<1>7. ChainTiles'
  BY DEF ChainTiles
<1>8. LiveBlocksSound'
  <2>1. \A b \in DOMAIN asked' : b # Start /\ tags'[b].used /\ tags'[b].size >= asked'[b]
    BY <1>1, <1>2, <1>3, <1>4
  <2>2. {b \in DOMAIN tags' : tags'[b].used} = {Start} \cup DOMAIN asked \cup {a}
    BY <1>1
  <2>3. QED
    BY <2>1, <2>2, <1>2 DEF LiveBlocksSound
<1>9. FirstFreeIsLowest'
  BY DEF FirstFreeIsLowest, IsFirstFree
<1>10. QED
  BY <1>6, <1>7, <1>8, <1>9 DEF IInv

LEMMA KmallocKeeps ==
  ASSUME IInv, NEW n \in Sizes,
         KmallocFit(n) \/ KmallocNewRange(n) \/ KmallocRecursion(n)
  PROVE  IInv'
<1>1. ASSUME NEW m \in Sizes, NEW a \in Fits(m)
      PROVE  a \notin DOMAIN asked
  BY <1>1 DEF IInv, LiveBlocksSound, Fits
<1>2. NodeSize \in Sizes /\ end \in Nat /\ above \in AboveKinds /\ lost \in Nat
  BY KheapAssumption DEF IInv, TypeOK
<1>3. CASE KmallocFit(n)
  <2>1. PICK a \in Fits(n) :
          Take(a, n, "no") /\ asked' = IF stop' = "no" THEN Remember(a, n) ELSE asked
    BY <1>3 DEF KmallocFit
  <2>2. stop = "no" /\ end' = end /\ above' = above /\ lost' = lost
    BY <1>3 DEF KmallocFit
  <2>3. /\ ChainType(tags') /\ Tiles(tags', end)
        /\ a \in DOMAIN tags /\ a # Start /\ DOMAIN tags \subseteq DOMAIN tags'
        /\ tags'[a].used /\ tags'[a].size >= n
        /\ \A b \in DOMAIN tags : b # a => tags'[b] = tags[b]
        /\ \A b \in DOMAIN tags' \ DOMAIN tags : ~tags'[b].used
        /\ firstFree' \in Nat /\ stop' \in {"no", "end"}
        /\ stop' # "end" => IsFirstFree(tags', end, Start, firstFree')
    BY <2>1, <2>2, TakeSound
  <2>4. asked' = IF stop' = "end" THEN asked ELSE Remember(a, n)
    BY <2>1, <2>3
  <2>5. QED
    BY <1>1, <1>2, <2>1, <2>2, <2>3, <2>4, AskedKeeps
<1>4. CASE KmallocNewRange(n)
  <2>1. PICK a \in Fits(NodeSize), why \in {"no", "null"} :
          /\ Take(a, NodeSize, why)
          /\ asked' = IF stop' = "end" THEN asked ELSE Remember(a, NodeSize)
          /\ lost' = IF stop' = "end" THEN lost ELSE lost + 1
    BY <1>4 DEF KmallocNewRange
  <2>2. stop = "no" /\ end' = end /\ above' = above /\ lost' \in Nat
    BY <1>2, <1>4, <2>1 DEF KmallocNewRange
  <2>3. /\ ChainType(tags') /\ Tiles(tags', end)
        /\ a \in DOMAIN tags /\ a # Start /\ DOMAIN tags \subseteq DOMAIN tags'
        /\ tags'[a].used /\ tags'[a].size >= NodeSize
        /\ \A b \in DOMAIN tags : b # a => tags'[b] = tags[b]
        /\ \A b \in DOMAIN tags' \ DOMAIN tags : ~tags'[b].used
        /\ firstFree' \in Nat /\ stop' \in {why, "end"}
        /\ stop' # "end" => IsFirstFree(tags', end, Start, firstFree')
    BY <1>2, <2>1, <2>2, TakeSound
  <2>4. a \notin DOMAIN asked
    BY <1>1, <1>2
  <2>5. QED
    BY <1>2, <2>1, <2>2, <2>3, <2>4, AskedKeeps
<1>5. CASE KmallocRecursion(n)
  <2>1. /\ stop = "no" /\ stop' = "stack"
        /\ UNCHANGED <<tags, end, firstFree, above, lost, asked>>
    BY <1>5 DEF KmallocRecursion
  <2>2. TypeOK' /\ ChainTiles'
    BY <2>1 DEF IInv, TypeOK, ChainTiles
  <2>3. LiveBlocksSound' /\ FirstFreeIsLowest'
    BY <2>1 DEF IInv, LiveBlocksSound, FirstFreeIsLowest
  <2>4. QED
    BY <2>2, <2>3 DEF IInv
<1>6. QED
  BY <1>3, <1>4, <1>5

LEMMA ExtendKeeps ==
  ASSUME IInv, NEW n \in Sizes, KmallocExtend(n)
  PROVE  IInv'
<1>1. /\ stop = "no" /\ end' = end + Growth /\ above' \in AboveKinds /\ lost' = lost
      /\ tags' = InitEntry(tags, end, n, Growth - Tag)
      /\ asked' = IF stop' = "no" THEN Remember(end, n) ELSE asked
  BY DEF KmallocExtend
<1>2. /\ ChainType(tags) /\ Tiles(tags, end) /\ end \in Nat /\ lost \in Nat
      /\ n \in 1 .. Growth - Tag /\ firstFree \in Nat
      /\ DOMAIN asked \subseteq DOMAIN tags
  BY <1>1, KheapAssumption DEF IInv, TypeOK, ChainTiles
<1>3. /\ ChainType(tags') /\ Tiles(tags', end')
      /\ DOMAIN tags \subseteq DOMAIN tags'
      /\ end \in DOMAIN tags' \ DOMAIN tags
      /\ tags'[end].used /\ tags'[end].size >= n
      /\ \A b \in DOMAIN tags : tags'[b] = tags[b]
      /\ \A b \in DOMAIN tags' \ DOMAIN tags : b # end => ~tags'[b].used
  BY <1>1, <1>2, ExtendTiles
<1>4. end' \in Nat /\ end # Start /\ end \notin DOMAIN asked
  BY <1>1, <1>2, <1>3, KheapAssumption DEF Tiles
<1>5. PICK f \in GotoFirstFree(tags', end', above', Start) : SetFirstFree(f, "no")
  BY DEF KmallocExtend
<1>6. /\ firstFree' \in Nat /\ stop' \in {"no", "end"}
      /\ stop' # "end" => IsFirstFree(tags', end', Start, firstFree')
  <2>1. CASE f = Fault
    BY <2>1, <1>2, <1>5 DEF SetFirstFree
  <2>2. CASE f # Fault
    <3>1. f \in Nat /\ IsFirstFree(tags', end', Start, f)
      BY <2>2, <1>1, <1>3, <1>4, <1>5, SearchFinds
    <3>2. QED
      BY <3>1, <2>2, <1>5 DEF SetFirstFree
  <2>3. QED
    BY <2>1, <2>2
<1>7. asked' = IF stop' = "end" THEN asked ELSE Remember(end, n)
  BY <1>1, <1>6
<1>8. lost' \in Nat
  BY <1>1, <1>2
<1>9. QED
  BY <1>1, <1>3, <1>4, <1>6, <1>7, <1>8, AskedKeeps

(* The invariant after a call that forgets a block.                        *)
LEMMA ForgetKeeps ==
  ASSUME IInv, stop = "no", end' = end, above' = above, lost' = lost,
         NEW a \in DOMAIN asked, NEW gone, gone \notin DOMAIN asked, gone # Start,
         ChainType(tags'), Tiles(tags', end),
         DOMAIN tags' = DOMAIN tags \ {gone}, ~tags'[a].used,
         gone \in DOMAIN tags => ~tags[gone].used,
         \A b \in DOMAIN tags' : b # a => tags'[b] = tags[b],
         asked' = Forget(a),
         firstFree' \in Nat, stop' \in {"no", "end"},
         stop' # "end" => IsFirstFree(tags', end, Start, firstFree')
  PROVE  IInv'
<1>1. /\ DOMAIN asked \subseteq DOMAIN tags /\ asked \in [DOMAIN asked -> Sizes]
      /\ \A b \in DOMAIN asked : b # Start /\ tags[b].used /\ tags[b].size >= asked[b]
      /\ {b \in DOMAIN tags : tags[b].used} = {Start} \cup DOMAIN asked
      /\ Start \in DOMAIN tags /\ end \in Nat /\ above \in AboveKinds /\ lost \in Nat
  BY DEF IInv, TypeOK, LiveBlocksSound, ChainTiles, Tiles
<1>2. DOMAIN asked' = DOMAIN asked \ {a} /\ \A b \in DOMAIN asked' : asked'[b] = asked[b]
  BY DEF Forget
<1>3. asked' \in [DOMAIN asked' -> Sizes]
  BY <1>1, <1>2 DEF Forget
<1>4. DOMAIN asked' \subseteq DOMAIN tags'
  BY <1>1, <1>2
<1>5. TypeOK'
  BY <1>1, <1>3, <1>4 DEF TypeOK
<1>6. LiveBlocksSound'
  <2>1. \A b \in DOMAIN asked' : b # Start /\ tags'[b].used /\ tags'[b].size >= asked'[b]
    BY <1>1, <1>2, <1>4
  <2>2. {b \in DOMAIN tags' : tags'[b].used} = {Start} \cup (DOMAIN asked \ {a})
    BY <1>1
  <2>3. QED
    BY <2>1, <2>2, <1>2 DEF LiveBlocksSound
<1>7. FirstFreeIsLowest' /\ ChainTiles'
  BY DEF FirstFreeIsLowest, IsFirstFree, ChainTiles
<1>8. QED
  BY <1>5, <1>6, <1>7 DEF IInv

LEMMA KfreeKeeps ==
  ASSUME IInv, NEW a \in DOMAIN asked, KfreeInside(a) \/ KfreeLast(a)
  PROVE  IInv'
<1>1. /\ stop = "no" /\ end' = end /\ above' = above /\ lost' = lost
      /\ asked' = Forget(a)
  BY DEF KfreeInside, KfreeLast
<1>2. /\ ChainType(tags) /\ Tiles(tags, end) /\ end \in Nat /\ above \in AboveKinds
      /\ a \in DOMAIN tags /\ firstFree \in Nat /\ Start \in DOMAIN tags
      /\ \A b \in DOMAIN asked : tags[b].used /\ b # Start
      /\ tags[Start].used
      /\ DOMAIN asked \subseteq DOMAIN tags
  BY <1>1 DEF IInv, TypeOK, ChainTiles, LiveBlocksSound, Tiles
<1>3. ASSUME ChainType(tags'), Refind(tags', "no")
      PROVE  /\ firstFree' \in Nat /\ stop' \in {"no", "end"}
             /\ stop' # "end" => IsFirstFree(tags', end, Start, firstFree')
  <2>1. PICK f \in GotoFirstFree(tags', end, above, Start) : SetFirstFree(f, "no")
    BY <1>3 DEF Refind
  <2>2. CASE f = Fault
    BY <2>1, <2>2, <1>2 DEF SetFirstFree
  <2>3. CASE f # Fault
    <3>1. f \in Nat /\ IsFirstFree(tags', end, Start, f)
      BY <2>1, <2>3, <1>2, <1>3, SearchFinds
    <3>2. QED
      BY <3>1, <2>1, <2>3 DEF SetFirstFree
  <2>4. QED
    BY <2>2, <2>3
<1>4. CASE KfreeInside(a) /\ ~tags[NextTag(tags, a)].used
  <2> DEFINE b == NextTag(tags, a)
  <2>1. tags' = MergedWith(tags, a, b) /\ b < end /\ Refind(tags', "no")
    BY <1>4 DEF KfreeInside
  <2>2. /\ ChainType(tags') /\ Tiles(tags', end) /\ b \in DOMAIN tags
        /\ DOMAIN tags' = DOMAIN tags \ {b} /\ ~tags'[a].used
        /\ \A c \in DOMAIN tags' : c # a => tags'[c] = tags[c]
    <3> DEFINE u == MergedWith(tags, a, b)
    <3>1. /\ ChainType(u) /\ Tiles(u, end) /\ b \in DOMAIN tags
          /\ DOMAIN u = DOMAIN tags \ {b} /\ ~u[a].used
          /\ \A c \in DOMAIN u : c # a => u[c] = tags[c]
      BY <1>2, <2>1, MergeTiles
    <3>2. tags' = u
      BY <2>1
    <3> HIDE DEF u
    <3>3. QED
      BY <3>1, <3>2
  <2>3. b \notin DOMAIN asked /\ b # Start /\ ~tags[b].used
    BY <1>2, <1>4
  <2> HIDE DEF b
  <2>4. QED
    BY <1>1, <1>3, <2>1, <2>2, <2>3, ForgetKeeps
<1>5. ASSUME tags' = Unused(tags, a), Refind(tags', "no") \/ (stop' = "end" /\ UNCHANGED firstFree)
      PROVE  IInv'
  <2>1. /\ ChainType(tags') /\ Tiles(tags', end)
        /\ DOMAIN tags' = DOMAIN tags /\ ~tags'[a].used
        /\ \A c \in DOMAIN tags : c # a => tags'[c] = tags[c]
    BY <1>2, <1>5, FreeTiles
  <2>2. /\ firstFree' \in Nat /\ stop' \in {"no", "end"}
        /\ stop' # "end" => IsFirstFree(tags', end, Start, firstFree')
    BY <1>2, <1>3, <1>5, <2>1
  <2>3. end \notin DOMAIN tags /\ end \notin DOMAIN asked /\ end # Start
    BY <1>2 DEF Tiles
  <2>4. DOMAIN tags' = DOMAIN tags \ {end}
    BY <2>1, <2>3
  <2>5. QED
    BY <1>1, <2>1, <2>2, <2>3, <2>4, ForgetKeeps
<1>6. CASE KfreeInside(a) /\ tags[NextTag(tags, a)].used
  BY <1>5, <1>6 DEF KfreeInside
<1>7. CASE KfreeLast(a) /\ above \in {"unmapped", "nonfree"}
  BY <1>5, <1>7 DEF KfreeLast
<1>8. CASE KfreeLast(a) /\ above = "zero"
  <2>1. tags' = Overrun(tags, a) /\ Refind(tags', "overrun")
    BY <1>8 DEF KfreeLast
  <2>2. tags[a] \in [size : Nat, used : BOOLEAN] /\ Tag \in Nat
    BY <1>2, KheapAssumption DEF ChainType
  <2>3. tags[a].size + Tag \in Nat
    BY <2>2
  <2>4. DOMAIN tags' = DOMAIN tags /\ ChainType(tags')
    BY <1>2, <2>1, <2>3 DEF Overrun, ChainType
  <2>5. tags'[a] = [size |-> tags[a].size + Tag, used |-> FALSE]
    BY <1>2, <2>1 DEF Overrun
  <2>6. Start \in Nat /\ \A b \in DOMAIN tags : b \in Nat /\ Start <= b
    BY <1>2, KheapAssumption DEF Tiles, ChainType
  <2>7. a \in FreeFrom(tags', Start)
    BY <1>2, <2>4, <2>5, <2>6 DEF FreeFrom
  <2>8. PICK f \in GotoFirstFree(tags', end, above, Start) : SetFirstFree(f, "overrun")
    BY <2>1 DEF Refind
  <2>9. f # Fault /\ f \in Nat
    BY <1>2, <2>4, <2>7, <2>8, SearchNotFault, SearchFinds
  <2>10. stop' = "overrun" /\ firstFree' \in Nat
    BY <2>8, <2>9 DEF SetFirstFree
  <2>11. /\ DOMAIN asked' \subseteq DOMAIN asked
         /\ asked' \in [DOMAIN asked' -> Sizes]
         /\ \A b \in DOMAIN asked' : asked'[b] = asked[b] /\ b # a
    BY <1>1 DEF Forget, IInv, TypeOK
  <2>12. TypeOK'
    BY <1>1, <1>2, <2>4, <2>10, <2>11 DEF IInv, TypeOK
  <2>13. \A b \in DOMAIN tags : b # a => tags'[b] = tags[b]
    BY <2>1 DEF Overrun
  <2>14. LiveBlocksSound'
    BY <1>2, <2>10, <2>11, <2>13 DEF LiveBlocksSound, IInv
  <2>15. ChainTiles' /\ FirstFreeIsLowest'
    BY <2>10 DEF ChainTiles, FirstFreeIsLowest
  <2>16. QED
    BY <2>12, <2>14, <2>15 DEF IInv
<1>9. QED
  BY <1>2, <1>4, <1>6, <1>7, <1>8 DEF AboveKinds

LEMMA IInvAlways == Spec => []IInv
<1>1. IInv /\ [Next]_vars => IInv'
  <2> SUFFICES ASSUME IInv, [Next]_vars PROVE IInv'
    OBVIOUS
  <2>1. CASE Next
    BY <2>1, KmallocKeeps, ExtendKeeps, KfreeKeeps DEF Next
  <2>2. CASE UNCHANGED vars
    BY <2>2 DEF vars, IInv, TypeOK, ChainTiles, LiveBlocksSound, FirstFreeIsLowest
  <2>3. QED
    BY <2>1, <2>2
<1>2. QED
  BY InitIInv, <1>1, PTL DEF Spec

(* Types are kept by every kmalloc and kfree (kheap.c).                    *)
THEOREM TypeCorrect == Spec => []TypeOK
BY IInvAlways, PTL DEF IInv

(* The blocks of the heap always tile its range exactly, whatever sequence *)
(* of kmalloc, kfree and extensions led there.                             *)
THEOREM HeapTiled == Spec => []ChainTiles
BY IInvAlways, PTL DEF IInv

(* A live block is always a used tag of the chain, long enough and never   *)
(* the header's; and no block is in use that no caller holds.              *)
THEOREM LiveBlocks == Spec => []LiveBlocksSound
BY IInvAlways, PTL DEF IInv

(* range->first_free_tag always is the lowest free tag, or none.           *)
THEOREM CachedTagRight == Spec => []FirstFreeIsLowest
BY IInvAlways, PTL DEF IInv

(* Starting from the cached tag, find_first_fit passes over no free block  *)
(* of the range that is long enough.                                       *)
LEMMA CacheHidesNothing ==
  ASSUME IInv, stop = "no", NEW n
  PROVE  Fits(n) = {a \in DOMAIN tags : ~tags[a].used /\ tags[a].size >= n}
<1>1. ASSUME NEW a \in DOMAIN tags, ~tags[a].used
      PROVE  firstFree # Null /\ a >= firstFree
  <2>1. a \in FreeFrom(tags, Start)
    BY <1>1 DEF IInv, ChainTiles, Tiles, FreeFrom
  <2>2. firstFree \in FreeFrom(tags, Start) /\ firstFree <= a
    BY <2>1 DEF IInv, FirstFreeIsLowest
  <2>3. a \in Nat /\ firstFree \in Nat /\ firstFree >= Start
    BY <1>1, <2>2 DEF IInv, TypeOK, ChainType, FreeFrom
  <2>4. QED
    BY <2>2, <2>3, KheapAssumption DEF Null
<1>2. QED
  BY <1>1 DEF Fits

(* A new live block comes from find_first_fit on the old chain, or starts  *)
(* at the old end of a range in which nothing fits.                        *)
THEOREM FirstFitHolds == Spec => FirstFit
<1> DEFINE Enough(n) == {b \in DOMAIN tags : ~tags[b].used /\ tags[b].size >= n}
           First(a) == IF a \in DOMAIN tags
                       THEN a \in Enough(asked'[a]) /\ \A b \in Enough(asked'[a]) : a <= b
                       ELSE Enough(asked'[a]) = {}
<1>1. ASSUME IInv, [Next]_vars, NEW a \in DOMAIN asked' \ DOMAIN asked
      PROVE  First(a)
  <2>1. CASE UNCHANGED vars
    BY <1>1, <2>1 DEF vars
  <2>2. ASSUME NEW n \in Sizes, KmallocFit(n)
        PROVE  First(a)
    <3>1. PICK x \in Fits(n) : Take(x, n, "no") /\ asked' \in {asked, Remember(x, n)}
      BY <2>2 DEF KmallocFit
    <3>2. a = x /\ asked'[a] = n /\ \A b \in Fits(n) : a <= b
      BY <1>1, <3>1 DEF Remember, Take
    <3>3. Fits(n) = Enough(n)
      BY <1>1, <2>2, CacheHidesNothing DEF KmallocFit
    <3>4. QED
      BY <3>1, <3>2, <3>3
  <2>3. ASSUME NEW n \in Sizes, KmallocNewRange(n)
        PROVE  First(a)
    <3>1. PICK x \in Fits(NodeSize), why \in {"no", "null"} :
            Take(x, NodeSize, why) /\ asked' \in {asked, Remember(x, NodeSize)}
      BY <2>3 DEF KmallocNewRange
    <3>2. a = x /\ asked'[a] = NodeSize /\ \A b \in Fits(NodeSize) : a <= b
      BY <1>1, <3>1 DEF Remember, Take
    <3>3. Fits(NodeSize) = Enough(NodeSize)
      BY <1>1, <2>3, CacheHidesNothing DEF KmallocNewRange
    <3>4. QED
      BY <3>1, <3>2, <3>3
  <2>4. ASSUME NEW n \in Sizes, KmallocExtend(n)
        PROVE  First(a)
    <3>1. a = end /\ asked'[a] = n
      BY <1>1, <2>4 DEF KmallocExtend, Remember
    <3>2. stop = "no" /\ Fits(n) = {}
      BY <2>4 DEF KmallocExtend
    <3>3. end \notin DOMAIN tags
      BY <1>1, <3>2 DEF IInv, TypeOK, ChainTiles, Tiles
    <3>4. Enough(n) = {}
      BY <1>1, <3>2, CacheHidesNothing
    <3>5. QED
      BY <3>1, <3>3, <3>4
  <2>5. ASSUME NEW n \in Sizes, KmallocRecursion(n)
        PROVE  First(a)
    BY <1>1, <2>5 DEF KmallocRecursion
  <2>6. ASSUME NEW b \in DOMAIN asked, KfreeInside(b) \/ KfreeLast(b)
        PROVE  First(a)
    BY <1>1, <2>6 DEF KfreeInside, KfreeLast, Forget
  <2>7. QED
    BY <1>1, <2>1, <2>2, <2>3, <2>4, <2>5, <2>6 DEF Next
<1>2. IInv /\ [Next]_vars => TakesFirst
  BY <1>1 DEF TakesFirst
<1>3. QED
  BY <1>2, IInvAlways, PTL DEF Spec, FirstFit

(* goto_first_free_tag only leaves the range when nothing in it is free;   *)
(* after kfree there is the block just freed, so that only the merging of  *)
(* the last block can.                                                     *)
THEOREM StopsAtTheEnd == Spec => StopsOnlyAtTheEnd
<1> DEFINE Full == FreeFrom(tags', Start) = {}
           LastFreed == \E a \in DOMAIN asked \ DOMAIN asked' : NextTag(tags', a) >= end'
<1>1. ASSUME IInv, [Next]_vars, stop' \in {"end", "overrun"}, ~UNCHANGED vars
      PROVE  Full \/ LastFreed
  <2>1. ASSUME NEW n \in Sizes, KmallocFit(n) \/ KmallocNewRange(n)
        PROVE  Full
    <3>0. PICK m \in Sizes : \E a \in Fits(m), why \in {"no", "null"} : Take(a, m, why)
      BY <2>1, KheapAssumption DEF KmallocFit, KmallocNewRange
    <3>1. PICK a \in Fits(m), why \in {"no", "null"} : Take(a, m, why)
      BY <3>0
    <3>2. stop = "no" /\ end' = end /\ above' = above
      BY <2>1 DEF KmallocFit, KmallocNewRange
    <3>3. /\ stop' \in {why, "end"}
          /\ stop' = "end" => FreeFrom(tags', Start) = {}
      BY <1>1, <3>1, <3>2, TakeSound
    <3>4. QED
      BY <1>1, <3>3
  <2>2. ASSUME NEW n \in Sizes, KmallocExtend(n)
        PROVE  Full
    <3>1. PICK f \in GotoFirstFree(tags', end', above', Start) : SetFirstFree(f, "no")
      BY <2>2 DEF KmallocExtend
    <3>2. f = Fault
      BY <1>1, <3>1 DEF SetFirstFree
    <3>3. ChainType(tags')
      BY <1>1, <2>2, ExtendKeeps DEF IInv, TypeOK
    <3>4. QED
      BY <3>1, <3>2, <3>3, SearchNotFault
  <2>3. ASSUME NEW n \in Sizes, KmallocRecursion(n)
        PROVE  FALSE
    BY <1>1, <2>3 DEF KmallocRecursion
  <2>4. ASSUME NEW a \in DOMAIN asked, KfreeInside(a)
        PROVE  FALSE
    <3>1. PICK f \in GotoFirstFree(tags', end, above, Start) : SetFirstFree(f, "no")
      BY <2>4 DEF KfreeInside, Refind
    <3>2. f = Fault
      BY <1>1, <3>1 DEF SetFirstFree
    <3>3. ChainType(tags')
      BY <1>1, <2>4, KfreeKeeps DEF IInv, TypeOK
    <3>4. a \in FreeFrom(tags', Start)
      <4>1. /\ a \in DOMAIN tags /\ a >= Start /\ a \in Nat /\ Tag \in Nat \ {0}
            /\ tags[a].size \in Nat
        BY <1>1, <2>4, KheapAssumption
           DEF IInv, TypeOK, ChainType, ChainTiles, Tiles, KfreeInside
      <4>2. CASE tags' = Unused(tags, a)
        BY <4>1, <4>2 DEF Unused, FreeFrom
      <4>3. CASE tags' = MergedWith(tags, a, NextTag(tags, a))
        BY <4>1, <4>3 DEF MergedWith, NextTag, FreeFrom
      <4>4. QED
        BY <2>4, <4>2, <4>3 DEF KfreeInside
    <3>5. QED
      BY <3>1, <3>2, <3>3, <3>4, SearchNotFault
  <2>5. ASSUME NEW a \in DOMAIN asked, KfreeLast(a)
        PROVE  LastFreed
    <3>1. /\ a \in DOMAIN asked \ DOMAIN asked' /\ a \in DOMAIN tags /\ end' = end
          /\ NextTag(tags, a) = end
      BY <1>1, <2>5 DEF KfreeLast, Forget, IInv, TypeOK
    <3>2. end \in Nat /\ a \in Nat /\ Tag \in Nat /\ tags[a].size \in Nat
      BY <1>1, <3>1, KheapAssumption DEF IInv, TypeOK, ChainType
    <3>3. CASE tags' = Unused(tags, a)
      BY <3>1, <3>2, <3>3 DEF Unused, NextTag
    <3>4. CASE tags' = Overrun(tags, a)
      BY <3>1, <3>2, <3>4 DEF Overrun, NextTag
    <3>5. QED
      BY <1>1, <2>5, <3>3, <3>4 DEF KfreeLast, IInv, TypeOK, AboveKinds
  <2>6. QED
    BY <1>1, <2>1, <2>2, <2>3, <2>4, <2>5 DEF Next
<1>2. QED
  BY <1>1, IInvAlways, PTL DEF Spec, StopsOnlyAtTheEnd

(* kmalloc exhausts the stack only when no free block of the whole range   *)
(* would hold the area node: the cache hides none of them from it.         *)
THEOREM RecursionMeansFull == Spec => []RecursesOnlyWhenFull
<1>1. Init => RecursesOnlyWhenFull
  BY DEF Init, RecursesOnlyWhenFull
<1>2. IInv /\ RecursesOnlyWhenFull /\ [Next]_vars => RecursesOnlyWhenFull'
  <2> SUFFICES ASSUME IInv, RecursesOnlyWhenFull, [Next]_vars, stop' = "stack",
                      NEW a \in DOMAIN tags', ~tags'[a].used
               PROVE  tags'[a].size < NodeSize
    BY DEF RecursesOnlyWhenFull
  <2>1. CASE UNCHANGED vars
    BY <2>1 DEF vars, RecursesOnlyWhenFull
  <2>2. CASE \E n \in Sizes : KmallocRecursion(n)
    <3>1. stop = "no" /\ Fits(NodeSize) = {} /\ tags' = tags
      BY <2>2 DEF KmallocRecursion
    <3>2. ~(tags[a].size >= NodeSize)
      BY <3>1, CacheHidesNothing
    <3>3. tags[a].size \in Nat /\ NodeSize \in Nat
      BY <3>1, KheapAssumption DEF IInv, TypeOK, ChainType
    <3> QED
      BY <3>1, <3>2, <3>3
  <2>3. CASE \E n \in Sizes : KmallocFit(n) \/ KmallocExtend(n) \/ KmallocNewRange(n)
    BY <2>3 DEF KmallocFit, KmallocExtend, KmallocNewRange, Take, SetFirstFree
  <2>4. CASE \E b \in DOMAIN asked : KfreeInside(b) \/ KfreeLast(b)
    BY <2>4 DEF KfreeInside, KfreeLast, Refind, SetFirstFree, AboveKinds, IInv, TypeOK
  <2> QED
    BY <2>1, <2>2, <2>3, <2>4 DEF Next
<1> QED
  BY <1>1, <1>2, IInvAlways, PTL DEF Spec

-----------------------------------------------------------------------------
(* The refinement: a call that remembers a block allocates its payload, a  *)
(* kfree frees one, and an extension that faults only grows the arena.     *)

(* The blocks handed out before keep their payloads.                       *)
LEMMA PayloadsKept ==
  ASSUME NEW D, \A b \in D : tags'[b] = tags[b]
  PROVE  {Payload(b)' : b \in D} = {Payload(b) : b \in D}
BY DEF Payload

LEMMA AllocRefines ==
  ASSUME IInv, stop = "no", NEW n \in Sizes, NEW a \in DOMAIN tags',
         ChainType(tags'), end' \in Nat, Tiles(tags', end'), end' >= end,
         a \notin DOMAIN asked, DOMAIN asked \subseteq DOMAIN tags',
         \A b \in DOMAIN asked : tags'[b] = tags[b],
         tags'[a].size >= n, asked' = Remember(a, n)
  PROVE  Abstract!Next
<1> DEFINE p == Payload(a)'
           blocks == {Payload(b) : b \in DOMAIN asked}
<1>1. /\ Tag \in Nat \ {0} /\ Start \in Nat /\ n \in Nat
      /\ \A b \in DOMAIN tags' : b \in Nat /\ tags'[b].size \in Nat
  BY KheapAssumption DEF ChainType
<1>2. p[1] = a + Tag /\ p[2] = a + Tag + tags'[a].size - 1
  BY DEF Payload
<1>3. a >= Start /\ NextTag(tags', a) <= end'
  BY <1>1 DEF Tiles
<1>4. p[1] >= Start /\ p[2] < end' /\ p[2] - p[1] + 1 >= n
  BY <1>1, <1>2, <1>3 DEF NextTag
<1>5. ASSUME NEW b \in DOMAIN asked
      PROVE  Abstract!Disjoint(p, Payload(b)) /\ p # Payload(b)
  <2>1. /\ b \in DOMAIN tags' /\ b # a /\ Payload(b)[1] = b + Tag
        /\ Payload(b)[2] = b + Tag + tags'[b].size - 1
    BY DEF Payload
  <2>2. CASE a < b
    <3>1. a + tags'[a].size + Tag <= b
      BY <2>1, <2>2 DEF Tiles, NextTag
    <3>2. p[2] < Payload(b)[1]
      BY <3>1, <2>1, <1>1, <1>2
    <3>3. QED
      BY <3>2, <2>1, <1>1, <1>2 DEF Abstract!Disjoint
  <2>3. CASE b < a
    <3>1. b + tags'[b].size + Tag <= a
      BY <2>1, <2>3 DEF Tiles, NextTag
    <3>2. Payload(b)[2] < p[1]
      BY <3>1, <2>1, <1>1, <1>2
    <3>3. QED
      BY <3>2, <2>1, <1>1, <1>2 DEF Abstract!Disjoint
  <2>4. QED
    BY <2>1, <2>2, <2>3, <1>1
<1>6. {Payload(b) : b \in DOMAIN asked}' = blocks \cup {p}
  <2>1. DOMAIN asked' = DOMAIN asked \cup {a}
    BY DEF Remember
  <2>2. {Payload(b)' : b \in DOMAIN asked} = blocks
    BY PayloadsKept
  <2>3. QED
    BY <2>1, <2>2
<1>7. p \notin blocks
  BY <1>5
<1> HIDE DEF p, blocks
<1>8. Abstract!Alloc(p)
  BY <1>4, <1>5, <1>6 DEF Abstract!Alloc, blocks
<1>9. QED
  BY <1>6, <1>7, <1>8 DEF Abstract!Next, blocks

LEMMA FreeRefines ==
  ASSUME IInv, NEW a \in DOMAIN asked, end' = end, asked' = Forget(a),
         \A b \in DOMAIN asked : b # a => tags'[b] = tags[b]
  PROVE  Abstract!Next
<1> DEFINE blocks == {Payload(b) : b \in DOMAIN asked}
<1>1. DOMAIN asked' = DOMAIN asked \ {a}
  BY DEF Forget
<1>2. {Payload(b)' : b \in DOMAIN asked \ {a}} = {Payload(b) : b \in DOMAIN asked \ {a}}
  BY PayloadsKept
<1>3. \A b \in DOMAIN asked \ {a} : Payload(b) # Payload(a)
  <2>1. \A b \in DOMAIN asked : b \in Nat /\ Tag \in Nat
    BY KheapAssumption DEF IInv, TypeOK, ChainType
  <2>2. QED
    BY <2>1 DEF Payload
<1>4. {Payload(b) : b \in DOMAIN asked}' = blocks \ {Payload(a)}
  BY <1>1, <1>2, <1>3
<1>5. Abstract!Free(Payload(a))
  BY <1>4 DEF Abstract!Free
<1>6. QED
  BY <1>5 DEF Abstract!Next

(* find_first_fit took a block, and the call came back or faulted.         *)
LEMMA TakeRefines ==
  ASSUME IInv, stop = "no", end' = end, above' = above,
         NEW n \in Sizes, NEW why \in {"no", "null"}, NEW a \in Fits(n),
         Take(a, n, why), asked' = IF stop' = "end" THEN asked ELSE Remember(a, n)
  PROVE  Abstract!Next \/ UNCHANGED Abstract!vars
<1>1. /\ ChainType(tags') /\ Tiles(tags', end)
      /\ a \in DOMAIN tags /\ DOMAIN tags \subseteq DOMAIN tags'
      /\ tags'[a].size >= n
      /\ \A b \in DOMAIN tags : b # a => tags'[b] = tags[b]
  BY TakeSound
<1>2. a \notin DOMAIN asked /\ DOMAIN asked \subseteq DOMAIN tags /\ end \in Nat
  BY DEF IInv, LiveBlocksSound, Fits, TypeOK
<1>3. \A b \in DOMAIN asked : tags'[b] = tags[b]
  BY <1>1, <1>2
<1>4. CASE stop' = "end"
  BY <1>3, <1>4, PayloadsKept DEF Abstract!vars
<1>5. CASE stop' # "end"
  BY <1>1, <1>2, <1>3, <1>5, AllocRefines
<1>6. QED
  BY <1>4, <1>5

LEMMA ExtendRefines ==
  ASSUME IInv, NEW n \in Sizes, KmallocExtend(n)
  PROVE  Abstract!Next
<1>1. /\ stop = "no" /\ end' = end + Growth
      /\ tags' = InitEntry(tags, end, n, Growth - Tag)
      /\ asked' = IF stop' = "no" THEN Remember(end, n) ELSE asked
  BY DEF KmallocExtend
<1>2. /\ ChainType(tags) /\ Tiles(tags, end) /\ end \in Nat
      /\ n \in 1 .. Growth - Tag /\ Growth \in Nat \ {0}
      /\ DOMAIN asked \subseteq DOMAIN tags
  BY <1>1, KheapAssumption DEF IInv, TypeOK, ChainTiles
<1>3. /\ ChainType(tags') /\ Tiles(tags', end')
      /\ DOMAIN tags \subseteq DOMAIN tags'
      /\ end \in DOMAIN tags' \ DOMAIN tags
      /\ tags'[end].size >= n
      /\ \A b \in DOMAIN tags : tags'[b] = tags[b]
  BY <1>1, <1>2, ExtendTiles
<1>4. CASE stop' = "no"
  BY <1>1, <1>2, <1>3, <1>4, AllocRefines
<1>5. CASE stop' # "no"
  <2>1. {Payload(b)' : b \in DOMAIN asked} = {Payload(b) : b \in DOMAIN asked}
    BY <1>2, <1>3, PayloadsKept
  <2>2. Abstract!Grow
    BY <1>1, <1>2, <1>5, <2>1 DEF Abstract!Grow
  <2>3. QED
    BY <2>2 DEF Abstract!Next
<1>6. QED
  BY <1>4, <1>5

(* kheap.c implements the abstract block allocator.                        *)
THEOREM KheapImplementsBlockAllocator == Spec => ImplementsBlockAllocator
<1>1. Init => Abstract!Init
  BY KheapAssumption DEF Init, Abstract!Init
<1>2. ASSUME IInv, [Next]_vars
      PROVE  [Abstract!Next]_(Abstract!vars)
  <2>1. ASSUME NEW n \in Sizes, KmallocFit(n)
        PROVE  Abstract!Next \/ UNCHANGED Abstract!vars
    <3>1. PICK a \in Fits(n) :
            Take(a, n, "no") /\ asked' = IF stop' = "no" THEN Remember(a, n) ELSE asked
      BY <2>1 DEF KmallocFit
    <3>2. stop = "no" /\ end' = end /\ above' = above
      BY <2>1 DEF KmallocFit
    <3>3. stop' \in {"no", "end"}
      BY <1>2, <3>1, <3>2, TakeSound
    <3>4. asked' = IF stop' = "end" THEN asked ELSE Remember(a, n)
      BY <3>1, <3>3
    <3>5. QED
      BY <1>2, <3>1, <3>2, <3>4, TakeRefines
  <2>2. ASSUME NEW n \in Sizes, KmallocNewRange(n)
        PROVE  Abstract!Next \/ UNCHANGED Abstract!vars
    <3>1. PICK a \in Fits(NodeSize), why \in {"no", "null"} :
            /\ Take(a, NodeSize, why)
            /\ asked' = IF stop' = "end" THEN asked ELSE Remember(a, NodeSize)
      BY <2>2 DEF KmallocNewRange
    <3>2. stop = "no" /\ end' = end /\ above' = above /\ NodeSize \in Sizes
      BY <2>2, KheapAssumption DEF KmallocNewRange
    <3>3. QED
      BY <1>2, <3>1, <3>2, TakeRefines
  <2>3. ASSUME NEW n \in Sizes, KmallocExtend(n)
        PROVE  Abstract!Next
    BY <1>2, <2>3, ExtendRefines
  <2>4. ASSUME NEW n \in Sizes, KmallocRecursion(n)
        PROVE  UNCHANGED Abstract!vars
    BY <2>4 DEF KmallocRecursion, Abstract!vars, Payload
  <2>5. ASSUME NEW a \in DOMAIN asked, KfreeInside(a) \/ KfreeLast(a)
        PROVE  Abstract!Next
    <3>1. /\ end' = end /\ asked' = Forget(a) /\ DOMAIN asked \subseteq DOMAIN tags
          /\ \A b \in DOMAIN asked : tags[b].used
      BY <1>2, <2>5 DEF KfreeInside, KfreeLast, IInv, TypeOK, LiveBlocksSound
    <3>2. \/ tags' = Unused(tags, a) \/ tags' = Overrun(tags, a)
          \/ tags' = MergedWith(tags, a, NextTag(tags, a)) /\ ~tags[NextTag(tags, a)].used
      BY <1>2, <2>5 DEF KfreeInside, KfreeLast, IInv, TypeOK, AboveKinds
    <3>3. \A b \in DOMAIN asked : b # a => tags'[b] = tags[b]
      BY <3>1, <3>2 DEF Unused, Overrun, MergedWith
    <3>4. QED
      BY <1>2, <3>1, <3>3, FreeRefines
  <2>6. CASE UNCHANGED vars
    BY <2>6 DEF vars, Abstract!vars, Payload
  <2>7. QED
    BY <1>2, <2>1, <2>2, <2>3, <2>4, <2>5, <2>6 DEF Next
<1>3. QED
  BY <1>1, <1>2, IInvAlways, PTL DEF Spec, ImplementsBlockAllocator, Abstract!Spec
=============================================================================
