------------------------------ MODULE Ps2Proofs -----------------------------
(***************************************************************************)
(* What the keyboard driver makes of the bytes, for every keyboard.        *)
(*                                                                         *)
(* The inductive invariant says of each byte held what may follow it in a  *)
(* sequence (Chained), and of the next byte that it is the one the two     *)
(* prefix flags of the driver stand for (Expected), unless the sequence    *)
(* before it was torn: after that the flags may be anything until the next *)
(* byte that completes a keycode clears them.                              *)
(***************************************************************************)
EXTENDS Ps2, SequenceTheorems, TLAPS

(* The byte a sequence begins with, and the one that follows a prefix.     *)
AfterE0(m) == IF m.event = "release" THEN "F0" ELSE m.key[1]

First(m) == IF m.key[2] = "prefixed" THEN "E0" ELSE AfterE0(m)

Follows(m, byte) == IF byte = "E0" THEN AfterE0(m) ELSE m.key[1]

(* A byte that does not end a sequence is a prefix the key has.            *)
IsPrefix(m, byte) ==
  \/ byte = "E0" /\ m.key[2] = "prefixed"
  \/ byte = "F0" /\ m.event = "release"

(* What byte i and its mark may be, given the byte that follows.           *)
Link(w, d, i) ==
  IF d[i].left = 0
  THEN /\ d[i].came = "whole" => w[i] = d[i].key[1]
       /\ i < Len(w) => w[i + 1] \in {First(d[i + 1]), "00"}
  ELSE /\ i < Len(w)
       /\ IsPrefix(d[i], w[i])
       /\ w[i + 1] \in {Follows(d[i], w[i]), "00"}
       /\ d[i + 1].key = d[i].key /\ d[i + 1].event = d[i].event

Chained == \A i \in 1 .. Len(wire) : Link(wire, due, i)

(* The next byte is the one the flags say, and the flags are the prefixes  *)
(* of its key.                                                             *)
Awaited(m) ==
  IF bufferedBreakCodePrefix THEN m.key[1]
  ELSE IF bufferedPrefix THEN AfterE0(m) ELSE First(m)

Expected ==
  ~torn /\ wire # <<>> =>
    /\ wire[1] \in {Awaited(due[1]), "00"}
    /\ bufferedPrefix => due[1].key[2] = "prefixed"
    /\ bufferedBreakCodePrefix => due[1].event = "release"

Ps2Inv == TypeOK /\ Chained /\ Expected /\ PrefixesForgotten /\ PressesDecoded

-----------------------------------------------------------------------------
(* A sequence of the keyboard: its bytes, their marks and their order.     *)
LEMMA SentIsChained ==
  ASSUME NEW k \in Key, NEW e \in {"press", "release"}
  PROVE  LET s == Sent(k, e)
             m == Marks(k, e)
         IN  /\ s \in [1 .. Len(s) -> Byte] /\ Len(s) \in 1 .. 3
             /\ m \in [1 .. Len(s) -> Mark]
             /\ \A i \in 1 .. Len(s) : Link(s, m, i)
             /\ s[1] = First(m[1]) /\ m[Len(s)].left = 0
<1>1. k[1] \in Code /\ k[2] \in {"base", "prefixed"}
  BY Ps2Assumption DEF Keycode
<1> DEFINE s == Sent(k, e)
           m == Marks(k, e)
<1>2. CASE k[2] = "prefixed" /\ e = "release"
  <2>1. s = <<"E0", "F0", k[1]>>
    BY <1>1, <1>2 DEF Sent
  <2>2. DOMAIN s = 1 .. 3 /\ Len(s) = 3
    BY <2>1
  <2>3. m = [i \in 1 .. 3 |-> [key |-> k, event |-> e,
                             left |-> 3 - i, came |-> "whole"]]
    BY <2>2 DEF Marks
  <2>4. m \in [1 .. 3 -> Mark]
    BY <2>3 DEF Mark
  <2>5. s[1] = "E0" /\ s[2] = "F0" /\ s[3] = k[1]
    BY <2>1
  <2>6. \A i \in 1 .. 3 : m[i].key = k /\ m[i].event = e
    BY <1>2, <2>3
  <2>7. m[1].left = 2 /\ m[2].left = 1 /\ m[3].left = 0
    BY <2>3
  <2>8. s \in [1 .. 3 -> Byte]
    BY <1>1, <2>1 DEF Byte
  <2> HIDE DEF s, m
  <2>9. Link(s, m, 1) /\ Link(s, m, 2) /\ Link(s, m, 3)
    BY <1>1, <1>2, <2>2, <2>5, <2>6, <2>7
       DEF Link, IsPrefix, Follows, First, AfterE0
  <2>10. s[1] = First(m[1])
    BY <1>1, <1>2, <2>5, <2>6 DEF First, AfterE0
  <2> QED
    BY <2>2, <2>4, <2>6, <2>7, <2>8, <2>9, <2>10 DEF s, m
<1>3. CASE k[2] = "prefixed" /\ e = "press"
  <2>1. s = <<"E0", k[1]>>
    BY <1>1, <1>3 DEF Sent
  <2>2. DOMAIN s = 1 .. 2 /\ Len(s) = 2
    BY <2>1
  <2>3. m = [i \in 1 .. 2 |-> [key |-> k, event |-> e,
                             left |-> 2 - i, came |-> "whole"]]
    BY <2>2 DEF Marks
  <2>4. m \in [1 .. 2 -> Mark]
    BY <2>3 DEF Mark
  <2>5. s[1] = "E0" /\ s[2] = k[1]
    BY <2>1
  <2>6. \A i \in 1 .. 2 : m[i].key = k /\ m[i].event = e
    BY <1>3, <2>3
  <2>7. m[1].left = 1 /\ m[2].left = 0
    BY <2>3
  <2>8. s \in [1 .. 2 -> Byte]
    BY <1>1, <2>1 DEF Byte
  <2> HIDE DEF s, m
  <2>9. Link(s, m, 1) /\ Link(s, m, 2)
    BY <1>1, <1>3, <2>2, <2>5, <2>6, <2>7
       DEF Link, IsPrefix, Follows, First, AfterE0
  <2>10. s[1] = First(m[1])
    BY <1>1, <1>3, <2>5, <2>6 DEF First, AfterE0
  <2> QED
    BY <2>2, <2>4, <2>6, <2>7, <2>8, <2>9, <2>10 DEF s, m
<1>4. CASE k[2] = "base" /\ e = "release"
  <2>1. s = <<"F0", k[1]>>
    BY <1>1, <1>4 DEF Sent
  <2>2. DOMAIN s = 1 .. 2 /\ Len(s) = 2
    BY <2>1
  <2>3. m = [i \in 1 .. 2 |-> [key |-> k, event |-> e,
                             left |-> 2 - i, came |-> "whole"]]
    BY <2>2 DEF Marks
  <2>4. m \in [1 .. 2 -> Mark]
    BY <2>3 DEF Mark
  <2>5. s[1] = "F0" /\ s[2] = k[1]
    BY <2>1
  <2>6. \A i \in 1 .. 2 : m[i].key = k /\ m[i].event = e
    BY <1>4, <2>3
  <2>7. m[1].left = 1 /\ m[2].left = 0
    BY <2>3
  <2>8. s \in [1 .. 2 -> Byte]
    BY <1>1, <2>1 DEF Byte
  <2> HIDE DEF s, m
  <2>9. Link(s, m, 1) /\ Link(s, m, 2)
    BY <1>1, <1>4, <2>2, <2>5, <2>6, <2>7
       DEF Link, IsPrefix, Follows, First, AfterE0
  <2>10. s[1] = First(m[1])
    BY <1>1, <1>4, <2>5, <2>6 DEF First, AfterE0
  <2> QED
    BY <2>2, <2>4, <2>6, <2>7, <2>8, <2>9, <2>10 DEF s, m
<1>5. CASE k[2] = "base" /\ e = "press"
  <2>1. s = <<k[1]>>
    BY <1>1, <1>5 DEF Sent
  <2>2. DOMAIN s = 1 .. 1 /\ Len(s) = 1
    BY <2>1
  <2>3. m = [i \in 1 .. 1 |-> [key |-> k, event |-> e,
                             left |-> 1 - i, came |-> "whole"]]
    BY <2>2 DEF Marks
  <2>4. m \in [1 .. 1 -> Mark]
    BY <2>3 DEF Mark
  <2>5. s[1] = k[1]
    BY <2>1
  <2>6. \A i \in 1 .. 1 : m[i].key = k /\ m[i].event = e
    BY <1>5, <2>3
  <2>7. m[1].left = 0
    BY <2>3
  <2>8. s \in [1 .. 1 -> Byte]
    BY <1>1, <2>1 DEF Byte
  <2> HIDE DEF s, m
  <2>9. Link(s, m, 1)
    BY <1>1, <1>5, <2>2, <2>5, <2>6, <2>7
       DEF Link, IsPrefix, Follows, First, AfterE0
  <2>10. s[1] = First(m[1])
    BY <1>1, <1>5, <2>5, <2>6 DEF First, AfterE0
  <2> QED
    BY <2>2, <2>4, <2>6, <2>7, <2>8, <2>9, <2>10 DEF s, m
<1> QED
  BY <1>1, <1>2, <1>3, <1>4, <1>5

(* A byte keeps what is said of it where byte and mark are copied, and the *)
(* byte behind it is copied or becomes 00.                                 *)
LEMMA LinkMoves ==
  ASSUME NEW w, NEW d, NEW i, NEW v, NEW c, NEW j,
         Link(w, d, i), v[j] = w[i], c[j] = d[i],
         (j < Len(v)) <=> (i < Len(w)),
         i < Len(w) => /\ v[j + 1] \in {w[i + 1], "00"}
                       /\ c[j + 1].key = d[i + 1].key
                       /\ c[j + 1].event = d[i + 1].event
  PROVE  Link(v, c, j)
<1>1. i < Len(w) => First(c[j + 1]) = First(d[i + 1])
  BY DEF First, AfterE0
<1> QED
  BY <1>1 DEF Link, IsPrefix, Follows, AfterE0

(* The bytes of a new sequence behind those held.                          *)
LEMMA AppendChains ==
  ASSUME TypeOK, Chained, NEW k \in Key, NEW e \in {"press", "release"}
  PROVE  LET s == Sent(k, e)
             m == Marks(k, e)
             w == wire \o s
             d == due \o m
         IN  /\ s \in Seq(Byte) /\ m \in Seq(Mark) /\ Len(s) \in 1 .. 3
             /\ w \in Seq(Byte) /\ d \in Seq(Mark)
             /\ Len(w) = Len(wire) + Len(s) /\ Len(d) = Len(w)
             /\ \A i \in 1 .. Len(wire) : w[i] = wire[i] /\ d[i] = due[i]
             /\ wire = <<>> => w[1] = First(d[1])
             /\ \A i \in 1 .. Len(w) : Link(w, d, i)
<1> DEFINE s == Sent(k, e)
           m == Marks(k, e)
           w == wire \o s
           d == due \o m
<1>1. /\ s \in [1 .. Len(s) -> Byte] /\ Len(s) \in 1 .. 3
      /\ m \in [1 .. Len(s) -> Mark]
      /\ \A i \in 1 .. Len(s) : Link(s, m, i)
      /\ s[1] = First(m[1]) /\ m[Len(s)].left = 0
  BY SentIsChained
<1> HIDE DEF s, m
<1>2. s \in Seq(Byte) /\ m \in Seq(Mark) /\ Len(m) = Len(s)
  BY <1>1
<1>3. /\ wire \in Seq(Byte) /\ due \in Seq(Mark) /\ Len(due) = Len(wire)
      /\ Len(wire) \in Nat
  BY DEF TypeOK
<1>4. /\ w \in Seq(Byte) /\ Len(w) = Len(wire) + Len(s)
      /\ \A i \in 1 .. Len(wire) + Len(s) :
           w[i] = IF i <= Len(wire) THEN wire[i] ELSE s[i - Len(wire)]
  BY <1>2, <1>3, ConcatProperties
<1>5. /\ d \in Seq(Mark) /\ Len(d) = Len(wire) + Len(s)
      /\ \A i \in 1 .. Len(wire) + Len(s) :
           d[i] = IF i <= Len(wire) THEN due[i] ELSE m[i - Len(wire)]
  <2>1. /\ d \in Seq(Mark) /\ Len(d) = Len(due) + Len(m)
        /\ \A i \in 1 .. Len(due) + Len(m) :
             d[i] = IF i <= Len(due) THEN due[i] ELSE m[i - Len(due)]
    BY <1>2, <1>3, ConcatProperties
  <2> HIDE DEF d
  <2> QED
    BY <1>2, <1>3, <2>1
<1> HIDE DEF w, d
<1>6. ASSUME NEW i \in 1 .. Len(w)
      PROVE  Link(w, d, i)
  <2>1. CASE i < Len(wire)
    <3>1. /\ Link(wire, due, i) /\ i < Len(w) /\ i \in 1 .. Len(wire) /\ i + 1 \in 1 .. Len(wire)
          /\ i \in 1 .. Len(wire) + Len(s) /\ i + 1 \in 1 .. Len(wire) + Len(s)
      BY <1>1, <1>3, <1>4, <2>1 DEF Chained
    <3>2. w[i] = wire[i] /\ w[i + 1] = wire[i + 1] /\ d[i] = due[i] /\ d[i + 1] = due[i + 1]
      BY <1>3, <1>4, <1>5, <3>1
    <3> QED
      BY <2>1, <3>1, <3>2, LinkMoves
  <2>2. CASE i = Len(wire)
    <3>1. /\ Link(wire, due, i) /\ ~(i < Len(wire))
          /\ i \in 1 .. Len(wire) + Len(s) /\ i + 1 \in 1 .. Len(wire) + Len(s)
      BY <1>1, <1>3, <1>4, <2>2 DEF Chained
    <3>2. w[i] = wire[i] /\ w[i + 1] = s[1] /\ d[i] = due[i] /\ d[i + 1] = m[1]
      BY <1>3, <1>4, <1>5, <2>2, <3>1
    <3> QED
      BY <1>1, <3>1, <3>2 DEF Link
  <2>3. CASE i > Len(wire)
    <3>1. PICK j \in 1 .. Len(s) : i = Len(wire) + j
      <4>1. i - Len(wire) \in 1 .. Len(s) /\ i = Len(wire) + (i - Len(wire))
        BY <1>1, <1>3, <1>4, <2>3
      <4> QED
        BY <4>1
    <3>2. w[i] = s[j] /\ d[i] = m[j]
      <4>1. i \in 1 .. Len(wire) + Len(s) /\ ~(i <= Len(wire)) /\ i - Len(wire) = j
        BY <1>1, <1>3, <1>4, <2>3, <3>1
      <4> QED
        BY <1>4, <1>5, <4>1
    <3>3. (i < Len(w)) <=> (j < Len(s))
      BY <1>1, <1>3, <1>4, <3>1
    <3>4. j < Len(s) => w[i + 1] = s[j + 1] /\ d[i + 1] = m[j + 1]
      BY <1>1, <1>3, <1>4, <1>5, <3>1
    <3>5. Link(s, m, j)
      BY <1>1, <3>1
    <3> QED
      BY <3>2, <3>3, <3>4, <3>5, LinkMoves
  <2> QED
    BY <1>3, <1>4, <2>1, <2>2, <2>3
<1>7. wire = <<>> => w[1] = First(d[1])
  BY <1>1, <1>3, <1>4, <1>5
<1>8. \A i \in 1 .. Len(wire) : w[i] = wire[i] /\ d[i] = due[i]
  BY <1>1, <1>3, <1>4, <1>5
<1> QED
  BY <1>1, <1>2, <1>4, <1>5, <1>6, <1>7, <1>8 DEF s, m, w, d

-----------------------------------------------------------------------------
(* The keyboard keeps the invariant, whether its bytes fit or not.         *)
LEMMA SendKeeps ==
  ASSUME Ps2Inv, NEW k \in Key, NEW e \in {"press", "release"},
         Send(k, e), UNCHANGED driver
  PROVE  /\ wire' \in Seq(Byte) /\ Len(wire') <= WireSize
         /\ due' \in Seq(Mark) /\ Len(due') = Len(wire')
         /\ Chained' /\ Expected' /\ PrefixesForgotten' /\ PressesDecoded'
<1> DEFINE w == wire \o Sent(k, e)
           d == due \o Marks(k, e)
<1>1. /\ w \in Seq(Byte) /\ d \in Seq(Mark)
      /\ Len(w) \in Nat \ {0} /\ Len(w) > Len(wire) /\ Len(d) = Len(w)
      /\ \A i \in 1 .. Len(wire) : w[i] = wire[i] /\ d[i] = due[i]
      /\ wire = <<>> => w[1] = First(d[1])
      /\ \A i \in 1 .. Len(w) : Link(w, d, i)
  <2>1. TypeOK /\ Chained
    BY DEF Ps2Inv
  <2>2. Len(wire) \in Nat
    BY <2>1 DEF TypeOK
  <2> HIDE DEF w, d
  <2>3. /\ Len(Sent(k, e)) \in 1 .. 3
        /\ w \in Seq(Byte) /\ d \in Seq(Mark)
        /\ Len(w) = Len(wire) + Len(Sent(k, e)) /\ Len(d) = Len(w)
        /\ \A i \in 1 .. Len(wire) : w[i] = wire[i] /\ d[i] = due[i]
        /\ wire = <<>> => w[1] = First(d[1])
        /\ \A i \in 1 .. Len(w) : Link(w, d, i)
    BY <2>1, AppendChains DEF w, d
  <2>4. PICK n \in 1 .. 3 : Len(w) = Len(wire) + n
    BY <2>3
  <2>5. Len(w) \in Nat \ {0} /\ Len(w) > Len(wire)
    BY <2>2, <2>4
  <2> QED
    BY <2>3, <2>5
<1>2. WireSize \in Nat \ {0}
  BY Ps2Assumption
<1>3. IF Len(w) <= WireSize
      THEN wire' = w /\ due' = d
      ELSE /\ wire' = [SubSeq(w, 1, WireSize) EXCEPT ![WireSize] = "00"]
           /\ due' = [SubSeq(d, 1, WireSize)
                        EXCEPT ![WireSize].left = 0, ![WireSize].came = "torn"]
  BY DEF Send
<1> HIDE DEF w, d
<1>4. /\ wire' \in Seq(Byte) /\ Len(wire') <= WireSize /\ Len(wire') \in Nat \ {0}
      /\ due' \in Seq(Mark) /\ Len(due') = Len(wire')
      /\ Len(wire') >= Len(wire) \/ Len(wire') = WireSize
      /\ wire'[1] \in {w[1], "00"}
      /\ due'[1].key = d[1].key /\ due'[1].event = d[1].event
      /\ Chained'
  <2>1. CASE Len(w) <= WireSize
    BY <1>1, <1>2, <1>3, <2>1 DEF Chained
  <2>2. CASE ~(Len(w) <= WireSize)
    <3> DEFINE v == SubSeq(w, 1, WireSize)
               c == SubSeq(d, 1, WireSize)
    <3>1. /\ v \in Seq(Byte) /\ Len(v) = WireSize
          /\ \A i \in 1 .. WireSize : v[i] = w[i]
      <4>1. \A i \in 1 .. WireSize : w[i] \in Byte
        BY <1>1, <1>2, <2>2
      <4> QED
        BY <1>2, <4>1, SubSeqProperties
    <3>2. /\ c \in Seq(Mark) /\ Len(c) = WireSize
          /\ \A i \in 1 .. WireSize : c[i] = d[i]
      <4>1. \A i \in 1 .. WireSize : d[i] \in Mark
        BY <1>1, <1>2, <2>2
      <4> QED
        BY <1>2, <4>1, SubSeqProperties
    <3>3. wire' = [v EXCEPT ![WireSize] = "00"]
      BY <1>3, <2>2
    <3> DEFINE cut == [c[WireSize] EXCEPT !.left = 0, !.came = "torn"]
    <3>4. due' = [c EXCEPT ![WireSize] = cut]
      BY <1>2, <1>3, <2>2, <3>2
    <3>5. /\ cut \in Mark /\ cut.left = 0 /\ cut.came = "torn"
          /\ cut.key = d[WireSize].key /\ cut.event = d[WireSize].event
      <4>1. /\ c[WireSize] \in Mark /\ c[WireSize] = d[WireSize]
        BY <1>2, <3>2
      <4> HIDE DEF c
      <4>2. PICK m \in Mark : m = c[WireSize]
        BY <4>1
      <4>3. m = [key |-> m.key, event |-> m.event, left |-> m.left, came |-> m.came]
        BY DEF Mark
      <4>4. cut = [key |-> m.key, event |-> m.event, left |-> 0, came |-> "torn"]
        <5> DEFINE r == [key |-> m.key, event |-> m.event, left |-> m.left, came |-> m.came]
        <5>1. cut = [r EXCEPT !.left = 0, !.came = "torn"]
          BY <4>2, <4>3
        <5>2. [r EXCEPT !.left = 0]
               = [key |-> m.key, event |-> m.event, left |-> 0, came |-> m.came]
          OBVIOUS
        <5> DEFINE q == [key |-> m.key, event |-> m.event, left |-> 0, came |-> m.came]
        <5>3. [q EXCEPT !.came = "torn"]
               = [key |-> m.key, event |-> m.event, left |-> 0, came |-> "torn"]
          OBVIOUS
        <5>4. cut = [[r EXCEPT !.left = 0] EXCEPT !.came = "torn"]
          BY <5>1
        <5> HIDE DEF cut
        <5> QED
          BY <5>2, <5>3, <5>4
      <4> HIDE DEF cut
      <4> QED
        BY <4>1, <4>2, <4>4 DEF Mark
    <3> HIDE DEF v, c, cut
    <3>6. /\ wire' \in Seq(Byte) /\ Len(wire') = WireSize
          /\ \A i \in 1 .. WireSize : wire'[i] = IF i = WireSize THEN "00" ELSE w[i]
      BY <1>2, <3>1, <3>3 DEF Byte
    <3>7. /\ due' \in Seq(Mark) /\ Len(due') = WireSize
          /\ \A i \in 1 .. WireSize : due'[i] = IF i = WireSize THEN cut ELSE d[i]
      BY <1>2, <3>2, <3>4, <3>5
    <3>8. ASSUME NEW i \in 1 .. WireSize
          PROVE  Link(wire', due', i)
      <4>1. CASE i = WireSize
        BY <1>2, <3>5, <3>6, <3>7, <4>1 DEF Link
      <4>2. CASE i # WireSize
        <5>1. /\ Link(w, d, i) /\ i < Len(w) /\ i < Len(wire')
              /\ i + 1 \in 1 .. WireSize
          BY <1>1, <1>2, <2>2, <3>6, <4>2
        <5>2. wire'[i] = w[i] /\ due'[i] = d[i]
          BY <3>6, <3>7, <4>2
        <5>3. /\ wire'[i + 1] \in {w[i + 1], "00"}
              /\ due'[i + 1].key = d[i + 1].key /\ due'[i + 1].event = d[i + 1].event
          BY <3>5, <3>6, <3>7, <5>1
        <5> QED
          BY <5>1, <5>2, <5>3, LinkMoves
      <4> QED
        BY <4>1, <4>2
    <3> QED
      BY <1>2, <3>5, <3>6, <3>7, <3>8 DEF Chained
  <2> QED
    BY <2>1, <2>2
<1>5. /\ torn' = torn /\ last' = last
      /\ bufferedPrefix' = bufferedPrefix
      /\ bufferedBreakCodePrefix' = bufferedBreakCodePrefix
  BY DEF driver
<1>6. PressesDecoded' /\ PrefixesForgotten'
  <2>1. due' # <<>>
    BY <1>4
  <2> QED
    BY <1>5, <2>1 DEF Ps2Inv, PressesDecoded, PrefixesForgotten
<1>7. Expected'
  <2> SUFFICES ASSUME ~torn
               PROVE  /\ wire'[1] \in {Awaited(due[1])', "00"}
                      /\ bufferedPrefix => due'[1].key[2] = "prefixed"
                      /\ bufferedBreakCodePrefix => due'[1].event = "release"
    BY <1>5 DEF Expected
  <2>1. CASE wire = <<>>
    <3>1. ~bufferedPrefix /\ ~bufferedBreakCodePrefix
      <4>1. due = <<>>
        BY <2>1 DEF Ps2Inv, TypeOK
      <4> QED
        BY <4>1 DEF Ps2Inv, PrefixesForgotten
    <3>2. Awaited(due[1])' = First(d[1])
      BY <1>4, <1>5, <3>1 DEF Awaited, First, AfterE0
    <3> QED
      BY <1>1, <1>4, <2>1, <3>1, <3>2
  <2>2. CASE wire # <<>>
    <3>1. w[1] = wire[1] /\ d[1] = due[1]
      BY <1>1, <2>2 DEF Ps2Inv, TypeOK
    <3>2. Awaited(due[1])' = Awaited(due[1])
      BY <1>4, <1>5, <3>1 DEF Awaited, First, AfterE0
    <3> QED
      BY <1>4, <2>2, <3>1, <3>2 DEF Ps2Inv, Expected
  <2> QED
    BY <2>1, <2>2
<1> QED
  BY <1>4, <1>6, <1>7

-----------------------------------------------------------------------------
(* What is left on the wire when the driver has taken a byte.              *)
LEMMA TakenKeeps ==
  ASSUME Ps2Inv, wire # <<>>, Taken
  PROVE  /\ wire' \in Seq(Byte) /\ Len(wire') <= WireSize
         /\ due' \in Seq(Mark) /\ Len(due') = Len(wire')
         /\ torn' \in BOOLEAN /\ down' = down /\ Chained'
         /\ Head(wire) = wire[1] /\ Head(due) = due[1] /\ due[1] \in Mark
         /\ Link(wire, due, 1)
         /\ wire' # <<>> => /\ 1 < Len(wire)
                           /\ wire'[1] = wire[2] /\ due'[1] = due[2]
         /\ due' = <<>> => ~(1 < Len(wire))
<1>1. /\ wire \in Seq(Byte) /\ Len(wire) <= WireSize /\ WireSize \in Nat
      /\ due \in Seq(Mark) /\ Len(due) = Len(wire) /\ due # <<>>
      /\ Len(wire) \in Nat \ {0}
  BY Ps2Assumption DEF Ps2Inv, TypeOK
<1>2. wire' = Tail(wire) /\ due' = Tail(due)
  BY DEF Taken
<1>3. /\ wire' \in Seq(Byte) /\ Len(wire') = Len(wire) - 1
      /\ \A i \in 1 .. Len(wire) - 1 : wire'[i] = wire[i + 1]
  BY <1>1, <1>2, HeadTailProperties
<1>4. /\ due' \in Seq(Mark) /\ Len(due') = Len(wire) - 1
      /\ \A i \in 1 .. Len(wire) - 1 : due'[i] = due[i + 1]
  BY <1>1, <1>2, HeadTailProperties
<1>5. ASSUME NEW i \in 1 .. Len(wire')
      PROVE  Link(wire', due', i)
  <2>1. /\ i + 1 \in 1 .. Len(wire) /\ Link(wire, due, i + 1)
        /\ i \in 1 .. Len(wire) - 1
    BY <1>1, <1>3 DEF Ps2Inv, Chained
  <2>2. wire'[i] = wire[i + 1] /\ due'[i] = due[i + 1]
    BY <1>3, <1>4, <2>1
  <2>3. (i < Len(wire')) <=> (i + 1 < Len(wire))
    BY <1>1, <1>3
  <2>4. i + 1 < Len(wire) => /\ wire'[i + 1] = wire[(i + 1) + 1]
                             /\ due'[i + 1] = due[(i + 1) + 1]
    BY <1>1, <1>3, <1>4, <2>1
  <2> QED
    BY <2>1, <2>2, <2>3, <2>4, LinkMoves
<1>6. /\ Head(wire) = wire[1] /\ Head(due) = due[1] /\ due[1] \in Mark
      /\ Link(wire, due, 1)
  BY <1>1 DEF Ps2Inv, Chained
<1>7. torn' \in BOOLEAN /\ down' = down
  BY DEF Ps2Inv, TypeOK, Taken
<1>8. /\ wire' # <<>> => /\ 1 < Len(wire)
                        /\ wire'[1] = wire[2] /\ due'[1] = due[2]
      /\ due' = <<>> => ~(1 < Len(wire))
  BY <1>1, <1>3, <1>4
<1> QED
  BY <1>1, <1>3, <1>4, <1>5, <1>6, <1>7, <1>8 DEF Chained

(* A byte of an event is no prefix: a code and the prefixes differ.        *)
LEMMA CodesAreNoPrefixes ==
  ASSUME NEW m \in Mark
  PROVE  /\ m.key[1] \in Code /\ m.key = <<m.key[1], m.key[2]>>
         /\ m.key[2] \in {"base", "prefixed"} /\ m.event \in {"press", "release"}
         /\ m.key[1] \notin {"E0", "F0", "00"}
<1>1. m.key \in Code \X {"base", "prefixed"} /\ m.event \in {"press", "release"}
  BY Ps2Assumption DEF Mark, Keycode
<1> QED
  BY <1>1, Ps2Assumption

(* A 00 ends a torn sequence: nothing is promised of the next one.         *)
LEMMA UtilityKeeps ==
  ASSUME Ps2Inv, UtilityByte
  PROVE  Ps2Inv'
<1>1. wire # <<>> /\ Taken /\ Head(wire) = "00"
  BY DEF UtilityByte
<1>2. /\ wire' \in Seq(Byte) /\ Len(wire') <= WireSize
      /\ due' \in Seq(Mark) /\ Len(due') = Len(wire')
      /\ torn' \in BOOLEAN /\ down' = down /\ Chained'
      /\ wire[1] = "00" /\ Head(due) = due[1] /\ due[1] \in Mark
      /\ Link(wire, due, 1)
  BY <1>1, TakenKeeps
<1>3. due[1].left = 0 /\ due[1].came # "whole"
  BY <1>2, CodesAreNoPrefixes DEF Link, IsPrefix
<1>4. torn' = TRUE
  BY <1>1, <1>2, <1>3 DEF Taken, Mark
<1>5. last'.event = {due[1]}
  BY <1>2, <1>3 DEF UtilityByte, Note
<1>6. TypeOK'
  BY <1>2 DEF UtilityByte, Ps2Inv, TypeOK
<1>7. Expected' /\ PrefixesForgotten' /\ PressesDecoded'
  BY <1>3, <1>4, <1>5 DEF Expected, PrefixesForgotten, PressesDecoded
<1> QED
  BY <1>2, <1>6, <1>7 DEF Ps2Inv

(* A prefix never ends a sequence, and the flag it leaves is the one the   *)
(* byte behind it goes with.                                               *)
LEMMA PrefixKeeps ==
  ASSUME Ps2Inv, PrefixByte
  PROVE  Ps2Inv'
<1>1. wire # <<>> /\ Taken /\ Head(wire) \in {"E0", "F0"}
  BY DEF PrefixByte
<1>2. /\ wire' \in Seq(Byte) /\ Len(wire') <= WireSize
      /\ due' \in Seq(Mark) /\ Len(due') = Len(wire')
      /\ torn' \in BOOLEAN /\ down' = down /\ Chained'
      /\ wire[1] \in {"E0", "F0"} /\ Head(wire) = wire[1]
      /\ Head(due) = due[1] /\ due[1] \in Mark
      /\ Link(wire, due, 1)
      /\ wire' # <<>> => wire'[1] = wire[2] /\ due'[1] = due[2]
      /\ due' = <<>> => ~(1 < Len(wire))
  BY <1>1, TakenKeeps
<1>3. TypeOK'
  BY <1>2 DEF PrefixByte, Ps2Inv, TypeOK
<1>4. CASE due[1].left = 0
  <2>1. due[1].came # "whole"
    BY <1>2, <1>4, CodesAreNoPrefixes DEF Link
  <2>2. torn' = TRUE
    BY <1>1, <1>2, <1>4, <2>1 DEF Taken, Mark
  <2>3. last'.event = {due[1]}
    BY <1>2, <1>4 DEF PrefixByte, Note
  <2> QED
    BY <1>2, <1>3, <2>1, <2>2, <2>3
       DEF Ps2Inv, Expected, PrefixesForgotten, PressesDecoded
<1>5. CASE due[1].left # 0
  <2>1. torn' = torn
    BY <1>1, <1>2, <1>5 DEF Taken
  <2>2. last'.event = {}
    BY <1>2, <1>5 DEF PrefixByte, Note, None
  <2>3. /\ 1 < Len(wire)
        /\ IsPrefix(due[1], wire[1])
        /\ wire[2] \in {Follows(due[1], wire[1]), "00"}
        /\ due[2].key = due[1].key /\ due[2].event = due[1].event
    BY <1>2, <1>5 DEF Link
  <2>4. PressesDecoded' /\ PrefixesForgotten'
    BY <1>2, <2>2, <2>3 DEF PressesDecoded, PrefixesForgotten
  <2>5. Expected'
    <3> SUFFICES ASSUME ~torn, wire' # <<>>
                 PROVE  /\ wire'[1] \in {Awaited(due[1])', "00"}
                        /\ bufferedPrefix' => due'[1].key[2] = "prefixed"
                        /\ bufferedBreakCodePrefix' => due'[1].event = "release"
      BY <2>1 DEF Expected
    <3>1. /\ wire[1] \in {Awaited(due[1]), "00"}
          /\ bufferedBreakCodePrefix => due[1].event = "release"
      BY <1>1 DEF Ps2Inv, Expected
    <3>2. /\ wire'[1] \in {Follows(due[1], wire[1]), "00"}
          /\ due'[1].key = due[1].key /\ due'[1].event = due[1].event
      BY <1>2, <2>3
    <3>3. CASE wire[1] = "F0"
      <4>1. bufferedBreakCodePrefix' = TRUE /\ bufferedPrefix' = FALSE
        BY <1>2, <3>3 DEF PrefixByte
      <4>2. due[1].event = "release"
        BY <2>3, <3>3 DEF IsPrefix
      <4>3. Awaited(due[1])' = Follows(due[1], wire[1])
        BY <3>2, <3>3, <4>1 DEF Awaited, Follows
      <4> QED
        BY <3>2, <4>1, <4>2, <4>3
    <3>4. CASE wire[1] = "E0"
      <4>1. ~bufferedBreakCodePrefix
        BY <1>2, <3>1, <3>4, CodesAreNoPrefixes DEF Awaited
      <4>2. bufferedPrefix' = TRUE /\ ~bufferedBreakCodePrefix'
        BY <1>2, <3>4, <4>1 DEF PrefixByte
      <4>3. due[1].key[2] = "prefixed"
        BY <2>3, <3>4 DEF IsPrefix
      <4>4. Awaited(due[1])' = Follows(due[1], wire[1])
        BY <3>2, <3>4, <4>2 DEF Awaited, Follows, AfterE0
      <4> QED
        BY <3>2, <4>2, <4>3, <4>4
    <3> QED
      BY <1>2, <3>3, <3>4
  <2> QED
    BY <1>2, <1>3, <2>4, <2>5 DEF Ps2Inv
<1> QED
  BY <1>4, <1>5

(* A byte that completes a keycode ends its sequence; where the flags are  *)
(* those of its prefixes the event is the one that was sent.               *)
LEMMA KeyKeeps ==
  ASSUME Ps2Inv, KeyByte
  PROVE  Ps2Inv'
<1>1. wire # <<>> /\ Taken /\ Head(wire) \in Code
  BY DEF KeyByte
<1>2. /\ wire' \in Seq(Byte) /\ Len(wire') <= WireSize
      /\ due' \in Seq(Mark) /\ Len(due') = Len(wire')
      /\ torn' \in BOOLEAN /\ down' = down /\ Chained'
      /\ wire[1] \in Code /\ Head(wire) = wire[1]
      /\ Head(due) = due[1] /\ due[1] \in Mark
      /\ Link(wire, due, 1)
      /\ wire' # <<>> => /\ 1 < Len(wire)
                        /\ wire'[1] = wire[2] /\ due'[1] = due[2]
  BY <1>1, TakenKeeps
<1>3. wire[1] \notin {"E0", "F0", "00"}
  BY <1>2, Ps2Assumption
<1>4. due[1].left = 0
  BY <1>2, <1>3 DEF Link, IsPrefix
<1>5. torn' = (due[1].came = "torn")
  BY <1>1, <1>2, <1>4 DEF Taken
<1>6. bufferedPrefix' = FALSE /\ bufferedBreakCodePrefix' = FALSE
  BY DEF KeyByte
<1>7. TypeOK'
  BY <1>2, <1>6 DEF Ps2Inv, TypeOK
<1>8. PrefixesForgotten'
  BY <1>6 DEF PrefixesForgotten
<1>9. Expected'
  <2> SUFFICES ASSUME wire' # <<>>
               PROVE  wire'[1] \in {First(due'[1]), "00"}
    BY <1>6 DEF Expected, Awaited, First, AfterE0
  <2> QED
    BY <1>2, <1>4 DEF Link
<1>10. PressesDecoded'
  <2>1. last' = [event |-> {due[1]}, given |-> Given(wire[1]), clean |-> ~torn]
    BY <1>2, <1>4 DEF KeyByte, Note
  <2> SUFFICES ASSUME ~torn, due[1].came = "whole", NEW g \in Given(wire[1])
               PROVE  /\ g.event = due[1].event
                      /\ due[1].event = "press" => g.key = due[1].key
    BY <2>1 DEF PressesDecoded, Given
  <2>2. /\ g.key = <<wire[1], IF bufferedPrefix THEN "prefixed" ELSE "base">>
        /\ g.event = IF bufferedBreakCodePrefix THEN "release" ELSE "press"
    BY DEF Given, set2_scancode_to_keycode
  <2>3. /\ wire[1] = Awaited(due[1])
        /\ bufferedPrefix => due[1].key[2] = "prefixed"
        /\ bufferedBreakCodePrefix => due[1].event = "release"
    BY <1>1, <1>3 DEF Ps2Inv, Expected
  <2>4. wire[1] = due[1].key[1]
    BY <1>2, <1>4 DEF Link
  <2>5. /\ due[1].key = <<due[1].key[1], due[1].key[2]>>
        /\ due[1].key[2] \in {"base", "prefixed"}
        /\ due[1].event \in {"press", "release"}
    BY <1>2, CodesAreNoPrefixes
  <2>6. CASE bufferedBreakCodePrefix
    BY <2>2, <2>3, <2>6
  <2>7. CASE ~bufferedBreakCodePrefix
    <3>1. due[1].event = "press"
      BY <1>3, <2>3, <2>5, <2>7 DEF Awaited, First, AfterE0
    <3>2. due[1].key[2] = IF bufferedPrefix THEN "prefixed" ELSE "base"
      BY <1>3, <2>3, <2>5, <2>7 DEF Awaited, First, AfterE0
    <3> QED
      BY <2>2, <2>4, <2>5, <2>7, <3>1, <3>2
  <2> QED
    BY <2>6, <2>7
<1> QED
  BY <1>2, <1>7, <1>8, <1>9, <1>10 DEF Ps2Inv

-----------------------------------------------------------------------------
(* The invariant holds of every behaviour.                                 *)
LEMMA Ps2InvHolds == Spec => []Ps2Inv
<1>1. Init => Ps2Inv
  <2> SUFFICES ASSUME Init
               PROVE  Ps2Inv
    OBVIOUS
  <2>1. wire = <<>> /\ due = <<>> /\ Len(wire) = 0 /\ Len(due) = 0
    BY DEF Init
  <2>2. TypeOK
    <3>1. wire \in Seq(Byte) /\ due \in Seq(Mark) /\ Len(wire) <= WireSize
      BY <2>1, Ps2Assumption
    <3>2. /\ bufferedPrefix \in BOOLEAN /\ bufferedBreakCodePrefix \in BOOLEAN
          /\ torn \in BOOLEAN /\ down \in SUBSET Key
      BY DEF Init
    <3> QED
      BY <2>1, <3>1, <3>2 DEF TypeOK
  <2>3. Chained /\ Expected
    BY <2>1 DEF Chained, Expected
  <2>4. PrefixesForgotten /\ PressesDecoded
    BY DEF Init, None, PrefixesForgotten, PressesDecoded
  <2> QED
    BY <2>2, <2>3, <2>4 DEF Ps2Inv
<1>2. Ps2Inv /\ [Next]_vars => Ps2Inv'
  <2> SUFFICES ASSUME Ps2Inv, [Next]_vars
               PROVE  Ps2Inv'
    OBVIOUS
  <2>1. ASSUME NEW k \in Key, Press(k)
        PROVE  Ps2Inv'
    <3>1. Send(k, "press") /\ UNCHANGED driver /\ down' = down \cup {k}
      BY <2>1 DEF Press
    <3>2. /\ wire' \in Seq(Byte) /\ Len(wire') <= WireSize
          /\ due' \in Seq(Mark) /\ Len(due') = Len(wire')
          /\ Chained' /\ Expected' /\ PrefixesForgotten' /\ PressesDecoded'
      BY <3>1, SendKeeps
    <3> QED
      BY <3>1, <3>2 DEF Ps2Inv, TypeOK, driver
  <2>2. ASSUME NEW k \in Key, Release(k)
        PROVE  Ps2Inv'
    <3>1. Send(k, "release") /\ UNCHANGED driver /\ down' = down \ {k}
      BY <2>2 DEF Release
    <3>2. /\ wire' \in Seq(Byte) /\ Len(wire') <= WireSize
          /\ due' \in Seq(Mark) /\ Len(due') = Len(wire')
          /\ Chained' /\ Expected' /\ PrefixesForgotten' /\ PressesDecoded'
      BY <3>1, SendKeeps
    <3> QED
      BY <3>1, <3>2 DEF Ps2Inv, TypeOK, driver
  <2>3. CASE UNCHANGED vars
    BY <2>3 DEF vars, Ps2Inv, TypeOK, Chained, Link, IsPrefix, Follows, First,
       AfterE0, Expected, Awaited, PrefixesForgotten, PressesDecoded
  <2> QED
    BY <2>1, <2>2, <2>3, UtilityKeeps, PrefixKeeps, KeyKeeps DEF Next
<1> QED
  BY <1>1, <1>2, PTL DEF Spec

(* Every variable keeps its type, and a mark is kept for each byte held.   *)
THEOREM TypeCorrect == Spec => []TypeOK
<1>1. Ps2Inv => TypeOK
  BY DEF Ps2Inv
<1> QED
  BY <1>1, Ps2InvHolds, PTL

(* handle_kbd_irq hands every whole sequence over as the key event it is:  *)
(* whatever the codes, the keys and the room of the keyboard, an arrow is  *)
(* never taken for a keypad key nor a release for a press.                 *)
THEOREM KeysDecoded == Spec => []PressesDecoded
<1>1. Ps2Inv => PressesDecoded
  BY DEF Ps2Inv
<1> QED
  BY <1>1, Ps2InvHolds, PTL

(* The prefix flags of the driver never outlive a whole sequence, so bytes *)
(* the keyboard lost spoil no more than two events.                        *)
THEOREM FlagsForgotten == Spec => []PrefixesForgotten
<1>1. Ps2Inv => PrefixesForgotten
  BY DEF Ps2Inv
<1> QED
  BY <1>1, Ps2InvHolds, PTL
=============================================================================
