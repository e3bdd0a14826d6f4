----------------------------- MODULE ShellProofs ----------------------------
(***************************************************************************)
(* What the shell runs and prints, for every alphabet, every size of line  *)
(* and tag, and every content of the heap.                                 *)
(*                                                                         *)
(* Each step is a fresh call on whatever the heap holds, so the weight is  *)
(* on what strtok finds in a copy that ends where the line does.  Of the   *)
(* heap itself one thing is kept: its last block is never taken for longer *)
(* than it is.  The copy's terminator lands in the size of the tag behind  *)
(* it, so that is an argument about the digits of the size, one by one.    *)
(***************************************************************************)
EXTENDS Shell, FiniteSetTheorems, SequenceTheorems,
        WellFoundedInduction, TLAPS

(* The least element of a set of numbers.                                  *)
LEMMA MinIsLeast ==
  ASSUME NEW S, S \subseteq Nat, S # {}
  PROVE  Min(S) \in S /\ \A x \in S : Min(S) <= x
<1> DEFINE less == OpToRel(<, Nat)
<1>1. IsWellFoundedOn(less, Nat)
  BY NatLessThanWellFounded
<1>2. PICK n \in S : \A y \in S : <<y, n>> \notin less
  <2> HIDE DEF less
  <2> QED
    BY <1>1, WFMin
<1>3. ASSUME NEW y \in S
      PROVE  n <= y
  <2>1. y \in Nat /\ n \in Nat
    OBVIOUS
  <2>2. ~(y < n)
    BY <1>2, <2>1 DEF OpToRel
  <2> QED
    BY <2>1, <2>2
<1> QED
  BY <1>3 DEF Min

(* Induction along a loop, for sets.                                       *)
LEMMA Loop ==
  ASSUME NEW n \in Nat, NEW T, 0 \in T,
         \A k \in 1 .. n : k - 1 \in T => k \in T
  PROVE  \A k \in 0 .. n : k \in T
<1> DEFINE B == {k \in 0 .. n : k \notin T}
<1>1. SUFFICES ASSUME B # {} PROVE FALSE
  OBVIOUS
<1>2. Min(B) \in B /\ \A y \in B : Min(B) <= y
  <2>1. B \subseteq Nat
    OBVIOUS
  <2> HIDE DEF B
  <2> QED
    BY <1>1, <2>1, MinIsLeast
<1>3. PICK k \in B : \A y \in B : k <= y
  <2> HIDE DEF B
  <2> QED
    BY <1>2
<1>4. k # 0 /\ k \in 1 .. n
  OBVIOUS
<1>5. k - 1 \in T
  BY <1>3, <1>4
<1> QED
  BY <1>4, <1>5

(* The sizes of a line, a tag and the part of the heap that is modelled.   *)
LEMMA Sizes ==
  /\ LineSize \in Nat /\ SizeDigits \in Nat \ {0} /\ Pad \in Nat
  /\ Tag \in Nat /\ Tag >= SizeDigits + 1
  /\ Last \in Nat /\ Last >= LineSize + SizeDigits
  /\ Nul \notin Chars /\ Space # Nul /\ Space \in Chars
BY ShellAssumption DEF Tag, Last, Nul, Chars

LEMMA ByteSizes ==
  /\ SizeDigits \in Nat \ {0} /\ Base \in Nat \ {0}
  /\ Chars \subseteq Bytes /\ Nul \in Bytes
  /\ Fills \subseteq Bytes /\ Tails \subseteq Nat
BY ShellAssumption DEF Nul, Chars, Bytes

LEMMA LineIs ==
  ASSUME NEW l \in Lines
  PROVE  /\ l \in Seq(Chars) /\ Len(l) \in Nat /\ Len(l) < LineSize
         /\ \A i \in 1 .. Len(l) : l[i] \in Chars
<1>1. PICK n \in 0 .. LineSize - 1 : l \in [1 .. n -> Chars]
  BY DEF Lines
<1>2. n \in Nat /\ n < LineSize
  BY <1>1, Sizes
<1>3. l \in Seq(Chars) /\ Len(l) = n
  BY <1>1, <1>2
<1> QED
  BY <1>1, <1>2, <1>3

-----------------------------------------------------------------------------
(* strtok: blanks are passed, then the word ends at the first null byte or *)
(* blank, or where the heap is followed no further.                        *)
LEMMA StrtokFinds ==
  ASSUME NEW m, DOMAIN m = 0 .. Last
  PROVE  \E start \in 0 .. Last, stop \in 0 .. Last :
           /\ start <= stop
           /\ \A i \in 0 .. Last : i < start => m[i] = Space
           /\ start < Last => m[start] # Space
           /\ \A i \in 0 .. Last :
                start <= i /\ i < stop => m[i] \notin {Nul, Space}
           /\ stop < Last => m[stop] \in {Nul, Space}
           /\ strtok(m).word = [i \in 1 .. stop - start |-> m[start + i - 1]]
           /\ strtok(m).end = stop
           /\ DOMAIN strtok(m).mem = 0 .. Last
           /\ \A i \in 0 .. Last : strtok(m).mem[i] \in {m[i], Nul}
<1> DEFINE S == {i \in DOMAIN m : m[i] # Space} \cup {Last}
           start == Min(S)
           E == {i \in DOMAIN m : i >= start /\ m[i] \in {Nul, Space}} \cup {Last}
           stop == Min(E)
<1>1. Last \in Nat
  BY Sizes
<1>2. start \in S /\ \A x \in S : start <= x
  BY <1>1, MinIsLeast
<1>3. start \in 0 .. Last
  BY <1>1, <1>2
<1>4. stop \in E /\ \A x \in E : stop <= x
  <2>1. E \subseteq Nat /\ E # {}
    BY <1>1
  <2> HIDE DEF E
  <2> QED
    BY <2>1, MinIsLeast
<1>5. stop \in 0 .. Last /\ start <= stop
  BY <1>1, <1>3, <1>4
<1>6. /\ strtok(m).word = [i \in 1 .. stop - start |-> m[start + i - 1]]
      /\ strtok(m).end = stop
      /\ strtok(m).mem = IF start = stop THEN m ELSE [m EXCEPT ![stop] = Nul]
  BY DEF strtok
<1>7. \A i \in 0 .. Last : i < start => m[i] = Space
  BY <1>1, <1>2, <1>3
<1>8. start < Last => m[start] # Space
  BY <1>1, <1>2, <1>3
<1>9. \A i \in 0 .. Last : start <= i /\ i < stop => m[i] \notin {Nul, Space}
  <2> SUFFICES ASSUME NEW i \in 0 .. Last, start <= i, i < stop,
                      m[i] \in {Nul, Space}
               PROVE  FALSE
    OBVIOUS
  <2>1. i \in E
    OBVIOUS
  <2> HIDE DEF E
  <2>2. stop <= i
    BY <1>4, <2>1
  <2> HIDE DEF stop
  <2> QED
    BY <1>5, <2>2
<1>10. stop < Last => m[stop] \in {Nul, Space}
  BY <1>1, <1>4, <1>5
<1>11. DOMAIN strtok(m).mem = 0 .. Last
  BY <1>6
<1> HIDE DEF start, stop
<1>12. \A i \in 0 .. Last : strtok(m).mem[i] \in {m[i], Nul}
  BY <1>6
<1> QED
  BY <1>3, <1>5, <1>6, <1>7, <1>8, <1>9, <1>10, <1>11, <1>12

(* The first word of a line, from where it begins and ends.                *)
LEMMA FirstWordIs ==
  ASSUME NEW l \in Lines, NEW start \in Nat, NEW stop \in Nat,
         start <= stop, stop <= Len(l),
         \A i \in 1 .. Len(l) : i <= start => l[i] = Space,
         start < Len(l) => l[start + 1] # Space,
         \A i \in 1 .. Len(l) : start < i /\ i <= stop => l[i] # Space,
         stop < Len(l) => l[stop + 1] = Space
  PROVE  FirstWord(l) = [i \in 1 .. stop - start |-> l[start + i]]
<1> DEFINE blanks == {i \in 1 .. Len(l) : \A j \in 1 .. i : l[j] = Space}
           ends == {i \in start + 1 .. Len(l) : l[i] = Space} \cup {Len(l) + 1}
<1>1. l \in Seq(Chars) /\ Len(l) \in Nat
  BY LineIs
<1>2. Cardinality(blanks) = start
  <2>1. ASSUME NEW i \in blanks
        PROVE  i \in 1 .. start
    BY <1>1
  <2>2. ASSUME NEW i \in 1 .. start
        PROVE  i \in blanks
    BY <1>1
  <2>3. blanks = 1 .. start
    BY <2>1, <2>2
  <2>4. Cardinality(1 .. start) = start
    BY FS_Interval
  <2> HIDE DEF blanks
  <2> QED
    BY <2>3, <2>4
<1>3. Min(ends) = stop + 1
  <2>1. ends \subseteq Nat /\ stop + 1 \in ends
    BY <1>1
  <2>2. \A x \in ends : stop + 1 <= x
    BY <1>1
  <2> HIDE DEF ends
  <2>3. Min(ends) \in ends /\ Min(ends) <= stop + 1
    BY <2>1, MinIsLeast
  <2>4. PICK k \in ends : Min(ends) = k
    BY <2>3
  <2> QED
    BY <2>1, <2>2, <2>3, <2>4
<1>4. FirstWord(l) = SubSeq(l, start + 1, stop)
  <2>1. FirstWord(l) = SubSeq(l, Cardinality(blanks) + 1,
                              Min({i \in Cardinality(blanks) + 1 .. Len(l) : l[i] = Space}
                                    \cup {Len(l) + 1}) - 1)
    BY DEF FirstWord
  <2> HIDE DEF blanks
  <2>2. FirstWord(l) = SubSeq(l, start + 1, Min(ends) - 1)
    BY <1>2, <2>1
  <2> HIDE DEF ends
  <2> QED
    BY <1>3, <2>2
<1>5. /\ SubSeq(l, start + 1, stop) \in Seq(Chars)
      /\ Len(SubSeq(l, start + 1, stop)) = stop - start
      /\ \A i \in 1 .. stop - start : SubSeq(l, start + 1, stop)[i] = l[start + i]
  <2>1. \A i \in start + 1 .. stop : l[i] \in Chars
    BY <1>1
  <2>2. /\ SubSeq(l, start + 1, stop) \in Seq(Chars)
        /\ Len(SubSeq(l, start + 1, stop))
             = IF start + 1 <= stop THEN stop - (start + 1) + 1 ELSE 0
        /\ \A i \in 1 .. stop - (start + 1) + 1 :
             SubSeq(l, start + 1, stop)[i] = l[(start + 1) + i - 1]
    BY <2>1, SubSeqProperties
  <2> QED
    BY <2>2
<1> QED
  BY <1>4, <1>5

-----------------------------------------------------------------------------
(* The copy of a line on the heap, with the flag of the tag behind it.     *)
LEMMA CopyIs ==
  ASSUME NEW l \in Lines, DOMAIN mem = 0 .. Last
  PROVE  LET n    == Len(l) + 1
             copy == strncpy(WithTag(mem, n), l)
         IN  /\ DOMAIN copy = 0 .. Last
             /\ \A i \in 0 .. Len(l) - 1 : copy[i] = l[i + 1]
             /\ copy[n + SizeDigits] = Nul
             /\ n + SizeDigits \in 0 .. Last
<1> DEFINE n == Len(l) + 1
           tagged == WithTag(mem, n)
           copy == strncpy(tagged, l)
<1>1. Len(l) \in Nat /\ Len(l) < LineSize /\ n \in Nat
  BY LineIs
<1>2. n + SizeDigits \in 0 .. Last
  BY <1>1, Sizes
<1>3. DOMAIN tagged = 0 .. Last
  BY DEF WithTag
<1>4. tagged[n + SizeDigits] = 0
  <2>1. n + SizeDigits \notin n .. n + SizeDigits - 1
    BY <1>1, Sizes
  <2> QED
    BY <1>2, <2>1 DEF WithTag
<1> HIDE DEF tagged
<1>5. copy = [i \in 0 .. Last |-> IF i < Len(l) THEN l[i + 1] ELSE tagged[i]]
  BY <1>3 DEF strncpy
<1>6. ~(n + SizeDigits < Len(l))
  BY <1>1, Sizes
<1>7. copy[n + SizeDigits] = Nul
  BY <1>2, <1>4, <1>5, <1>6 DEF Nul
<1>8. \A i \in 0 .. Len(l) - 1 : copy[i] = l[i + 1]
  BY <1>1, <1>5, Sizes
<1> QED
  BY <1>2, <1>5, <1>7, <1>8 DEF tagged

(* One line: whatever the heap holds, what runs, is printed and is written *)
(* is as the properties say.                                               *)
LEMMA LineKeeps ==
  ASSUME NEW l \in Lines, DOMAIN mem = 0 .. Last, shell_input(l)
  PROVE  /\ DOMAIN mem' = 0 .. Last
         /\ RunsWhatIsTerminated' /\ PrintsTyped' /\ StopsInTag'
<1> DEFINE n    == Len(l) + 1
           copy == strncpy(WithTag(mem, n), l)
           tok  == strtok(copy)
<1>1. /\ DOMAIN copy = 0 .. Last
      /\ \A i \in 0 .. Len(l) - 1 : copy[i] = l[i + 1]
      /\ copy[n + SizeDigits] = Nul
      /\ n + SizeDigits \in 0 .. Last
  BY CopyIs
<1>2. /\ mem' = tok.mem /\ ran' = Command(tok.word)
      /\ out' = IF ran' = "echo" THEN Param(l, tok) ELSE <<>>
      /\ halted' \in IF ran' = "none" THEN BOOLEAN ELSE {FALSE}
      /\ line' = l /\ behind' = copy[Len(l)] /\ ended' = tok.end
  BY DEF shell_input
<1>3. /\ l \in Seq(Chars) /\ Len(l) \in Nat /\ Len(l) < LineSize
      /\ \A i \in 1 .. Len(l) : l[i] \in Chars
  BY LineIs
<1>4. Len(l) \in 0 .. Last /\ Len(l) < Last /\ Last \in Nat
  BY <1>3, Sizes
<1> HIDE DEF copy
<1>5. PICK start \in 0 .. Last, stop \in 0 .. Last :
        /\ start <= stop
        /\ \A i \in 0 .. Last : i < start => copy[i] = Space
        /\ start < Last => copy[start] # Space
        /\ \A i \in 0 .. Last :
             start <= i /\ i < stop => copy[i] \notin {Nul, Space}
        /\ stop < Last => copy[stop] \in {Nul, Space}
        /\ tok.word = [i \in 1 .. stop - start |-> copy[start + i - 1]]
        /\ tok.end = stop
        /\ DOMAIN tok.mem = 0 .. Last
  BY <1>1, StrtokFinds
<1> HIDE DEF tok
<1>6. StopsInTag'
  <2>1. start <= n + SizeDigits
    BY <1>1, <1>5, Sizes
  <2>2. stop <= n + SizeDigits
    BY <1>1, <1>5, <2>1
  <2> QED
    BY <1>2, <1>5, <2>2 DEF StopsInTag
<1>7. /\ start < Len(l) => copy[start] \notin {Nul, Space} /\ start < stop
      /\ \A i \in 0 .. Last : i < Len(l) => copy[i] = l[i + 1] /\ copy[i] # Nul
  <2>1. \A i \in 0 .. Last : i < Len(l) => copy[i] = l[i + 1] /\ copy[i] # Nul
    BY <1>1, <1>3, Sizes
  <2> QED
    BY <1>3, <1>4, <1>5, <2>1
<1>8. RunsWhatIsTerminated'
  <2> SUFFICES ASSUME copy[Len(l)] = Nul
               PROVE  FirstWord(l) = tok.word
    BY <1>2 DEF RunsWhatIsTerminated, RunsWhatIsTyped
  <2>1. start <= Len(l)
    BY <1>3, <1>4, <1>5, Sizes
  <2>2. stop <= Len(l)
    BY <1>3, <1>4, <1>5, <2>1
  <2>3. \A i \in 1 .. Len(l) : i - 1 \in 0 .. Last /\ l[i] = copy[i - 1]
    BY <1>3, <1>4, <1>7
  <2>4. /\ \A i \in 1 .. Len(l) : i <= start => l[i] = Space
        /\ \A i \in 1 .. Len(l) : start < i /\ i <= stop => l[i] # Space
    <3>1. ASSUME NEW i \in 1 .. Len(l), i <= start
          PROVE  l[i] = Space
      <4>1. i - 1 \in 0 .. Last /\ i - 1 < start /\ l[i] = copy[i - 1]
        BY <1>3, <2>3, <3>1
      <4> QED
        BY <1>5, <4>1
    <3>2. ASSUME NEW i \in 1 .. Len(l), start < i, i <= stop
          PROVE  l[i] # Space
      <4>1. /\ i - 1 \in 0 .. Last /\ start <= i - 1 /\ i - 1 < stop
            /\ l[i] = copy[i - 1]
        BY <1>3, <2>3, <3>2
      <4> QED
        BY <1>5, <4>1
    <3> QED
      BY <3>1, <3>2
  <2>5. /\ start < Len(l) => l[start + 1] # Space
        /\ stop < Len(l) => l[stop + 1] = Space
    BY <1>3, <1>4, <1>5, <1>7
  <2>6. FirstWord(l) = [i \in 1 .. stop - start |-> l[start + i]]
    BY <2>1, <2>2, <2>4, <2>5, <1>5, FirstWordIs
  <2>7. \A i \in 1 .. stop - start : l[start + i] = copy[start + i - 1]
    BY <1>3, <1>4, <1>5, <2>2, <2>3
  <2>8. FirstWord(l) = [i \in 1 .. stop - start |-> copy[start + i - 1]]
    BY <2>6, <2>7, Zenon
  <2> QED
    BY <1>5, <2>8
<1>9. WordIsAnswered'
  <2> SUFFICES ASSUME FirstWord(l) # <<>>
               PROVE  tok.word # <<>>
    <3>1. tok.word # <<>> => Command(tok.word) # "none"
      BY DEF Command
    <3> QED
      BY <1>2, <3>1 DEF WordIsAnswered
  <2>1. PICK i \in 1 .. Len(l) : l[i] # Space
    <3> SUFFICES ASSUME \A i \in 1 .. Len(l) : l[i] = Space
                 PROVE  FirstWord(l) = <<>>
      OBVIOUS
    <3>1. FirstWord(l) = [i \in 1 .. Len(l) - Len(l) |-> l[Len(l) + i]]
      BY <1>3, FirstWordIs
    <3>2. 1 .. Len(l) - Len(l) = {}
      BY <1>3
    <3> QED
      BY <3>1, <3>2
  <2>2. start < Len(l)
    <3>1. i - 1 \in 0 .. Last /\ i - 1 < Len(l) /\ copy[i - 1] # Space
      BY <1>3, <1>4, <1>7, <2>1
    <3> QED
      BY <1>3, <1>4, <1>5, <3>1
  <2>3. 1 \in DOMAIN tok.word
    BY <1>5, <1>7, <2>2
  <2> QED
    BY <2>3
<1>10. \E i \in 1 .. Len(l) + 1 : out' = SubSeq(l, i, Len(l))
  <2>1. SubSeq(l, Len(l) + 1, Len(l)) = <<>>
    BY <1>3, SubSeqEmpty
  <2> DEFINE Ending(i) == SubSeq(l, i, Len(l))
  <2>2. Len(l) + 1 \in 1 .. Len(l) + 1 /\ Ending(Len(l) + 1) = <<>>
    BY <1>3, <2>1
  <2>3. CASE out' = <<>>
    <3>1. out' = Ending(Len(l) + 1)
      BY <2>2, <2>3
    <3> HIDE DEF Ending
    <3>2. \E i \in 1 .. Len(l) + 1 : out' = Ending(i)
      BY <2>2, <3>1
    <3> QED
      BY <3>2 DEF Ending
  <2>4. CASE out' = Param(l, tok)
    <3> DEFINE first == Len(tok.word) + 2
    <3>1. first \in Nat /\ first >= 2
      <4> DEFINE S == {copy[i] : i \in 0 .. Last}
      <4>1. ASSUME NEW i \in 1 .. stop - start
            PROVE  copy[start + i - 1] \in S
        <5>1. start + i - 1 \in 0 .. Last
          BY <1>4
        <5> QED
          BY <5>1
      <4> HIDE DEF S
      <4>2. tok.word = [i \in 1 .. stop - start |-> copy[start + i - 1]]
        BY <1>5
      <4>3. stop - start \in Nat
        BY <1>5
      <4>4. tok.word \in [1 .. stop - start -> S]
        BY <4>1, <4>2
      <4>5. Len(tok.word) \in Nat
        BY <4>3, <4>4
      <4> QED
        BY <4>5
    <3>2. out' = Ending(first)
      BY <2>4 DEF Param
    <3> HIDE DEF first
    <3>3. CASE first <= Len(l) + 1
      <4>1. first \in 1 .. Len(l) + 1
        BY <1>3, <3>1, <3>3
      <4> HIDE DEF Ending
      <4>2. \E i \in 1 .. Len(l) + 1 : out' = Ending(i)
        BY <3>2, <4>1
      <4> QED
        BY <4>2 DEF Ending
    <3>4. CASE ~(first <= Len(l) + 1)
      <4>1. Ending(first) = <<>>
        BY <1>3, <3>1, <3>4, SubSeqEmpty
      <4> QED
        BY <2>3, <3>2, <4>1
    <3> QED
      BY <3>3, <3>4
  <2> QED
    BY <1>2, <2>3, <2>4
<1> QED
  BY <1>2, <1>5, <1>6, <1>8, <1>9, <1>10 DEF PrintsTyped

-----------------------------------------------------------------------------
(* The size in the tag behind the copy: written byte by byte, and never    *)
(* read as more than was written if each byte is no more.                  *)
LEMMA ShiftRounds ==
  ASSUME NEW n
  PROVE  /\ Shifts(n)[0] = n
         /\ \A k \in 1 .. SizeDigits : Shifts(n)[k] = Shifts(n)[k - 1] \div Base
<1> DEFINE Upto(g, j) == g = [k \in 0 .. j |->
                                IF k = 0 THEN n ELSE g[k - 1] \div Base]
           T == {j \in 0 .. SizeDigits : \E g : Upto(g, j)}
<1>1. 0 \in T
  <2> DEFINE g == [k \in 0 .. 0 |-> n]
  <2>1. Upto(g, 0)
    OBVIOUS
  <2> HIDE DEF g
  <2> QED
    BY <2>1, ByteSizes
<1>2. ASSUME NEW j \in 1 .. SizeDigits, j - 1 \in T
      PROVE  j \in T
  <2>1. PICK g : Upto(g, j - 1)
    BY <1>2
  <2> DEFINE h == [k \in 0 .. j |-> IF k < j THEN g[k] ELSE g[j - 1] \div Base]
  <2>2. ASSUME NEW k \in 0 .. j
        PROVE  h[k] = IF k = 0 THEN n ELSE h[k - 1] \div Base
    <3>1. CASE k = 0
      BY <2>1, <3>1
    <3>2. CASE k # 0 /\ k < j
      <4>1. h[k - 1] = g[k - 1] /\ h[k] = g[k] /\ k \in 0 .. j - 1
        BY <3>2
      <4> QED
        BY <2>1, <3>2, <4>1
    <3>3. CASE k # 0 /\ k = j
      BY <3>3
    <3> QED
      BY <3>1, <3>2, <3>3
  <2>3. h = [k \in 0 .. j |-> h[k]]
    OBVIOUS
  <2> HIDE DEF h
  <2>4. Upto(h, j)
    BY <2>2, <2>3
  <2> QED
    BY <2>4
<1>3. SizeDigits \in T
  <2> HIDE DEF T
  <2> QED
    BY <1>1, <1>2, ByteSizes, Loop
<1>4. \E g : Upto(g, SizeDigits)
  BY <1>3
<1> DEFINE f == CHOOSE g : Upto(g, SizeDigits)
<1>5. Upto(f, SizeDigits)
  BY <1>4
<1>6. Shifts(n) = f
  BY DEF Shifts
<1> HIDE DEF f
<1> QED
  BY <1>5, <1>6, ByteSizes

LEMMA SizeRounds ==
  ASSUME NEW m, NEW n
  PROVE  \E g : /\ g[SizeDigits] = 0
                /\ \A k \in 0 .. SizeDigits - 1 : g[k] = m[n + k] + Base * g[k + 1]
                /\ SizeAt(m, n) = g[0]
<1> DEFINE D == SizeDigits
           Upto(g, j) == g = [k \in D - j .. D |->
                                IF k = D THEN 0 ELSE m[n + k] + Base * g[k + 1]]
           T == {j \in 0 .. D : \E g : Upto(g, j)}
<1>1. 0 \in T
  <2> DEFINE g == [k \in D - 0 .. D |-> 0]
  <2>1. Upto(g, 0)
    BY ByteSizes
  <2> HIDE DEF g
  <2> QED
    BY <2>1, ByteSizes
<1>2. ASSUME NEW j \in 1 .. D, j - 1 \in T
      PROVE  j \in T
  <2>1. PICK g : Upto(g, j - 1)
    BY <1>2
  <2> DEFINE first == m[n + (D - j)] + Base * g[D - j + 1]
             h == [k \in D - j .. D |-> IF k = D - j THEN first ELSE g[k]]
  <2>2. ASSUME NEW k \in D - j .. D
        PROVE  h[k] = IF k = D THEN 0 ELSE m[n + k] + Base * h[k + 1]
    <3>1. CASE k = D - j
      <4>1. k # D /\ h[k + 1] = g[k + 1] /\ k + 1 = D - j + 1
        BY <3>1, ByteSizes
      <4>2. h[k] = first
        BY <3>1
      <4> QED
        BY <3>1, <4>1, <4>2
    <3>2. CASE k # D - j
      <4>1. k \in D - (j - 1) .. D
        BY <3>2, ByteSizes
      <4>2. h[k] = g[k] /\ (k # D => h[k + 1] = g[k + 1])
        BY <3>2, ByteSizes
      <4> QED
        BY <2>1, <4>1, <4>2
    <3> QED
      BY <3>1, <3>2
  <2>3. h = [k \in D - j .. D |-> h[k]]
    OBVIOUS
  <2> HIDE DEF h
  <2>4. Upto(h, j)
    BY <2>2, <2>3
  <2> HIDE DEF Upto
  <2> QED
    BY <2>4
<1>3. D \in T
  <2> HIDE DEF T
  <2> QED
    BY <1>1, <1>2, ByteSizes, Loop
<1>4. \E g : Upto(g, D)
  BY <1>3
<1> DEFINE Whole(g) == g = [k \in 0 .. D |->
                              IF k = D THEN 0 ELSE m[n + k] + Base * g[k + 1]]
           f == CHOOSE g : Whole(g)
<1>5. D - D = 0
  BY ByteSizes
<1>6. \E g : Whole(g)
  BY <1>4, <1>5
<1>7. Whole(f)
  BY <1>6
<1>8. SizeAt(m, n) = f[0]
  BY DEF SizeAt
<1> HIDE DEF f
<1>9. /\ f[D] = 0
      /\ \A k \in 0 .. D - 1 : f[k] = m[n + k] + Base * f[k + 1]
  BY <1>7, ByteSizes
<1> QED
  BY <1>8, <1>9

LEMMA DigitIs ==
  ASSUME NEW rest \in Nat
  PROVE  /\ \A k \in 0 .. SizeDigits : Shifts(rest)[k] \in Nat
         /\ \A k \in 0 .. SizeDigits : Digit(rest, k) \in Bytes
<1> DEFINE left == Shifts(rest)
           T == {k \in 0 .. SizeDigits : left[k] \in Nat}
<1>1. /\ left[0] = rest
      /\ \A k \in 1 .. SizeDigits : left[k] = left[k - 1] \div Base
  BY ShiftRounds
<1>2. Base \in Nat \ {0} /\ SizeDigits \in Nat
  BY ByteSizes
<1> HIDE DEF left
<1>3. 0 \in T
  BY <1>1, <1>2
<1>4. ASSUME NEW k \in 1 .. SizeDigits, k - 1 \in T
      PROVE  k \in T
  BY <1>1, <1>2, <1>4
<1>5. \A k \in 0 .. SizeDigits : k \in T
  <2> HIDE DEF T
  <2> QED
    BY <1>2, <1>3, <1>4, Loop
<1>6. \A x \in Nat : x % Base \in Bytes
  BY <1>2 DEF Bytes
<1> QED
  BY <1>5, <1>6 DEF Digit, left

LEMMA SizeNotMore ==
  ASSUME NEW m, NEW n, NEW rest \in Nat,
         \A k \in 0 .. SizeDigits - 1 :
           m[n + k] \in Nat /\ m[n + k] <= Digit(rest, k)
  PROVE  SizeAt(m, n) \in Nat /\ SizeAt(m, n) <= rest
<1> DEFINE D == SizeDigits
           left == Shifts(rest)
<1>1. PICK g : /\ g[D] = 0
               /\ \A k \in 0 .. D - 1 : g[k] = m[n + k] + Base * g[k + 1]
               /\ SizeAt(m, n) = g[0]
  BY SizeRounds
<1>2. /\ left[0] = rest
      /\ \A k \in 1 .. D : left[k] = left[k - 1] \div Base
      /\ \A k \in 0 .. D : left[k] \in Nat
  BY ShiftRounds, DigitIs
<1>3. Base \in Nat \ {0} /\ D \in Nat
  BY ByteSizes
<1>4. \A k \in 0 .. D - 1 : m[n + k] \in Nat /\ m[n + k] <= left[k] % Base
  BY DEF Digit
<1> HIDE DEF left, D
<1> DEFINE T == {j \in 0 .. D : g[D - j] \in Nat /\ g[D - j] <= left[D - j]}
<1>5. 0 \in T
  BY <1>1, <1>2, <1>3
<1>6. ASSUME NEW j \in 1 .. D, j - 1 \in T
      PROVE  j \in T
  <2> DEFINE k == D - j
             x == left[k]
             y == g[k + 1]
             q == x \div Base
  <2>1. k \in 0 .. D - 1 /\ k + 1 \in 1 .. D /\ k + 1 = D - (j - 1) /\ (k + 1) - 1 = k
    BY <1>3
  <2>2. y \in Nat /\ y <= left[k + 1]
    BY <1>6, <2>1
  <2>3. left[k + 1] = q /\ x \in Nat
    <3> HIDE DEF k
    <3>1. k \in 0 .. D
      BY <1>3, <2>1
    <3>2. left[k + 1] = left[(k + 1) - 1] \div Base
      BY <1>2, <2>1
    <3> QED
      BY <1>2, <2>1, <3>1, <3>2
  <2>4. g[k] = m[n + k] + Base * y /\ m[n + k] \in Nat /\ m[n + k] <= x % Base
    BY <1>1, <1>4, <2>1
  <2> HIDE DEF x, y
  <2>5. x = Base * q + (x % Base) /\ q \in Nat /\ x % Base \in Nat
    <3>1. x = Base * (x \div Base) + (x % Base)
      BY <1>3, <2>3, Z3
    <3> QED
      BY <1>3, <2>3, <3>1
  <2> HIDE DEF q
  <2>6. Base * y <= Base * q /\ Base * y \in Nat /\ Base * q \in Nat
    BY <1>3, <2>2, <2>3, <2>5
  <2>7. g[k] \in Nat /\ g[k] <= x
    BY <2>4, <2>5, <2>6
  <2> QED
    BY <2>7 DEF x
<1>7. D \in T
  <2> HIDE DEF T
  <2> QED
    BY <1>3, <1>5, <1>6, Loop
<1>8. D - D = 0
  BY <1>3
<1> QED
  BY <1>1, <1>2, <1>7, <1>8

-----------------------------------------------------------------------------
(* The properties hold of every behaviour.                                 *)
ShellInv ==
  DOMAIN mem = 0 .. Last /\ RunsWhatIsTerminated /\ PrintsTyped /\ StopsInTag

LEMMA ShellInvHolds == Spec => []ShellInv
<1>1. Init => ShellInv
  <2> SUFFICES ASSUME Init
               PROVE  ShellInv
    OBVIOUS
  <2>1. DOMAIN mem = 0 .. Last /\ ran = "none" /\ out = <<>> /\ line = <<>> /\ ended = 0
    BY DEF Init
  <2>2. line \in Lines /\ Len(line) = 0
    <3>1. line \in [1 .. 0 -> Chars]
      BY <2>1
    <3> QED
      BY <2>1, <3>1, Sizes, ShellAssumption DEF Lines
  <2>3. FirstWord(line) = <<>>
    <3>1. FirstWord(line) = [i \in 1 .. 0 - 0 |-> line[0 + i]]
      BY <2>2, FirstWordIs
    <3> QED
      BY <3>1
  <2>4. RunsWhatIsTerminated
    <3>1. maybeOS_cmd # <<>> /\ echo_cmd # <<>>
      BY ShellAssumption
    <3>2. Command(<<>>) = "none"
      BY <3>1 DEF Command
    <3> QED
      BY <2>1, <2>3, <3>2 DEF RunsWhatIsTerminated, RunsWhatIsTyped
  <2>5. PrintsTyped
    <3>1. SubSeq(line, 1, 0) = <<>>
      BY SubSeqEmpty
    <3> QED
      BY <2>1, <2>2, <2>3, <3>1 DEF PrintsTyped, WordIsAnswered
  <2>6. StopsInTag
    BY <2>1, <2>2, Sizes DEF StopsInTag
  <2> QED
    BY <2>1, <2>4, <2>5, <2>6 DEF ShellInv
<1>2. ShellInv /\ [Next]_vars => ShellInv'
  <2> SUFFICES ASSUME ShellInv, [Next]_vars
               PROVE  ShellInv'
    OBVIOUS
  <2>1. ASSUME NEW l \in Lines, shell_input(l)
        PROVE  ShellInv'
    BY <2>1, LineKeeps DEF ShellInv
  <2>2. CASE UNCHANGED vars
    BY <2>2 DEF vars, ShellInv, RunsWhatIsTerminated, RunsWhatIsTyped, PrintsTyped,
       WordIsAnswered, StopsInTag
  <2> QED
    BY <2>1, <2>2 DEF Next
<1> QED
  BY <1>1, <1>2, PTL DEF Spec

(* shell_input runs the first word of the line whenever the byte of the    *)
(* heap behind its unterminated copy happens to be null: that byte is all  *)
(* that stands between a command and another one.                          *)
THEOREM OneByteDecides == Spec => []RunsWhatIsTerminated
<1>1. ShellInv => RunsWhatIsTerminated
  BY DEF ShellInv
<1> QED
  BY <1>1, ShellInvHolds, PTL

(* Whatever strtok reads from the heap, a word is answered and what echo   *)
(* prints is an end of the line typed.                                     *)
THEOREM NoHeapIsPrinted == Spec => []PrintsTyped
<1>1. ShellInv => PrintsTyped
  BY DEF ShellInv
<1> QED
  BY <1>1, ShellInvHolds, PTL

(* strtok never runs beyond the flag of the tag behind the copy, so it     *)
(* writes its null byte to no block further up.                            *)
THEOREM TokeniserStops == Spec => []StopsInTag
<1>1. ShellInv => StopsInTag
  BY DEF ShellInv
<1> QED
  BY <1>1, ShellInvHolds, PTL

-----------------------------------------------------------------------------
(* The heap comes back whole or shorter.                                   *)
HeapInv == TypeOK /\ StopsInTag /\ size <= room

(* What kmalloc and the copy leave behind the tag of the free block.       *)
LEMMA CopyBytes ==
  ASSUME NEW l \in Lines, mem \in [0 .. Last -> Bytes], size \in Nat,
         Len(l) + 1 + Tag < size
  PROVE  LET n    == Len(l) + 1
             copy == strncpy(WithTag(mem, n), l)
             rest == size - (n + Tag)
         IN  /\ rest \in Nat
             /\ \A i \in 0 .. Last : copy[i] \in Bytes
             /\ \A k \in 0 .. SizeDigits - 1 :
                  n + k \in 0 .. Last /\ copy[n + k] = Digit(rest, k)
<1> DEFINE n      == Len(l) + 1
           tagged == WithTag(mem, n)
           copy   == strncpy(tagged, l)
           rest   == size - (n + Tag)
<1>1. /\ Len(l) \in Nat /\ Len(l) < LineSize
      /\ \A i \in 1 .. Len(l) : l[i] \in Chars
  BY LineIs
<1>2. rest \in Nat
  BY <1>1, Sizes
<1> HIDE DEF rest
<1>3. \A k \in 0 .. SizeDigits : Digit(rest, k) \in Bytes
  BY <1>2, DigitIs
<1>4. /\ DOMAIN tagged = 0 .. Last
      /\ \A i \in 0 .. Last :
           tagged[i] = CASE i \in n .. n + SizeDigits - 1 -> Digit(rest, i - n)
                         [] i = n + SizeDigits            -> 0
                         [] OTHER                         -> mem[i]
  BY DEF WithTag, rest
<1> HIDE DEF tagged
<1>5. \A i \in 0 .. Last : tagged[i] \in Bytes
  <2> SUFFICES ASSUME NEW i \in 0 .. Last
               PROVE  tagged[i] \in Bytes
    OBVIOUS
  <2>1. CASE i \in n .. n + SizeDigits - 1
    <3>1. i # n + SizeDigits /\ i - n \in 0 .. SizeDigits
      BY <1>1, <2>1, ByteSizes
    <3>2. tagged[i] = Digit(rest, i - n)
      BY <1>4, <2>1, <3>1
    <3> QED
      BY <1>3, <3>1, <3>2
  <2>2. CASE i = n + SizeDigits
    <3>1. i \notin n .. n + SizeDigits - 1
      BY <1>1, <2>2, ByteSizes
    <3> QED
      BY <1>4, <2>2, <3>1, ByteSizes DEF Nul
  <2>3. CASE i \notin n .. n + SizeDigits - 1 /\ i # n + SizeDigits
    <3>1. tagged[i] = mem[i]
      BY <1>4, <2>3
    <3> QED
      BY <3>1
  <2> QED
    BY <2>1, <2>2, <2>3
<1>6. copy = [i \in 0 .. Last |-> IF i < Len(l) THEN l[i + 1] ELSE tagged[i]]
  BY <1>4 DEF strncpy
<1> HIDE DEF copy
<1>7. \A i \in 0 .. Last : copy[i] \in Bytes
  <2>1. ASSUME NEW i \in 0 .. Last, i < Len(l)
        PROVE  copy[i] \in Bytes
    <3>1. i + 1 \in 1 .. Len(l) /\ copy[i] = l[i + 1]
      BY <1>1, <1>6, <2>1
    <3> QED
      BY <1>1, <3>1, ByteSizes
  <2>2. ASSUME NEW i \in 0 .. Last, ~(i < Len(l))
        PROVE  copy[i] \in Bytes
    BY <1>5, <1>6, <2>2
  <2> QED
    BY <2>1, <2>2
<1>8. ASSUME NEW k \in 0 .. SizeDigits - 1
      PROVE  n + k \in 0 .. Last /\ copy[n + k] = Digit(rest, k)
  <2> DEFINE i == n + k
  <2>1. /\ i \in 0 .. Last /\ i \in n .. n + SizeDigits - 1
        /\ i # n + SizeDigits /\ i - n = k /\ ~(i < Len(l))
    BY <1>1, Sizes
  <2> HIDE DEF i
  <2>2. tagged[i] = Digit(rest, i - n)
    BY <1>4, <2>1
  <2>3. copy[i] = tagged[i]
    BY <1>6, <2>1
  <2> QED
    BY <2>1, <2>2, <2>3 DEF i
<1> QED
  BY <1>2, <1>7, <1>8 DEF copy, rest, tagged

LEMMA LineSpares ==
  ASSUME NEW l \in Lines, HeapInv, shell_input(l)
  PROVE  HeapInv'
<1> DEFINE n    == Len(l) + 1
           copy == strncpy(WithTag(mem, n), l)
           tok  == strtok(copy)
           rest == size - (n + Tag)
<1>1. /\ mem \in [0 .. Last -> Bytes] /\ size \in Nat /\ room \in Tails
      /\ size <= room
  BY DEF HeapInv, TypeOK
<1>2. /\ n + Tag < size /\ mem' = tok.mem /\ size' = Freed(tok.mem, n)
      /\ ran' = Command(tok.word)
      /\ halted' \in IF ran' = "none" THEN BOOLEAN ELSE {FALSE}
      /\ line' = l /\ behind' = copy[Len(l)] /\ ended' = tok.end
      /\ room' = room
  BY DEF shell_input
<1>3. /\ Len(l) \in Nat /\ Len(l) < LineSize
  BY LineIs
<1>4. /\ rest \in Nat
      /\ \A i \in 0 .. Last : copy[i] \in Bytes
      /\ \A k \in 0 .. SizeDigits - 1 :
           n + k \in 0 .. Last /\ copy[n + k] = Digit(rest, k)
  BY <1>1, <1>2, CopyBytes
<1>5. /\ DOMAIN copy = 0 .. Last
      /\ copy[n + SizeDigits] = Nul /\ n + SizeDigits \in 0 .. Last
  BY <1>1, CopyIs
<1>6. /\ RunsWhatIsTerminated' /\ PrintsTyped' /\ StopsInTag'
  BY <1>1, LineKeeps
<1> HIDE DEF copy
<1>7. /\ DOMAIN tok.mem = 0 .. Last /\ tok.end \in 0 .. Last
      /\ \A i \in 0 .. Last : tok.mem[i] \in {copy[i], Nul}
  <2>1. PICK stop \in 0 .. Last :
          /\ strtok(copy).end = stop
          /\ DOMAIN strtok(copy).mem = 0 .. Last
          /\ \A i \in 0 .. Last : strtok(copy).mem[i] \in {copy[i], Nul}
    BY <1>5, StrtokFinds
  <2> QED
    BY <2>1
<1> DEFINE left == tok.mem
<1>8. \A i \in 0 .. Last : left[i] \in Bytes
  BY <1>4, <1>7, ByteSizes
<1>9. left[n + SizeDigits] = 0
  BY <1>5, <1>7 DEF Nul
<1>10. \A k \in 0 .. SizeDigits - 1 :
         left[n + k] \in Nat /\ left[n + k] <= Digit(rest, k)
  <2> SUFFICES ASSUME NEW k \in 0 .. SizeDigits - 1
               PROVE  left[n + k] \in Nat /\ left[n + k] <= Digit(rest, k)
    OBVIOUS
  <2> DEFINE i == n + k
  <2>1. i \in 0 .. Last /\ copy[i] = Digit(rest, k) /\ copy[i] \in Nat
    <3>1. i \in 0 .. Last /\ copy[i] = Digit(rest, k)
      BY <1>4
    <3>2. Bytes \subseteq Nat
      BY ByteSizes DEF Bytes
    <3> HIDE DEF i
    <3> QED
      BY <1>4, <3>1, <3>2
  <2> HIDE DEF i
  <2>2. left[i] \in {copy[i], 0}
    BY <1>7, <2>1 DEF Nul
  <2> HIDE DEF left
  <2>3. left[i] \in Nat /\ left[i] <= Digit(rest, k)
    BY <2>1, <2>2
  <2> QED
    BY <2>3 DEF i
<1>11. mem' = left /\ size' = n + Tag + SizeAt(left, n)
  BY <1>2, <1>9 DEF Freed
<1> HIDE DEF left, tok
<1>12. SizeAt(left, n) \in Nat /\ SizeAt(left, n) <= rest
  <2> HIDE DEF n, rest
  <2> QED
    BY <1>4, <1>10, SizeNotMore
<1>13. size' \in Nat /\ size' <= room'
  <2>1. room \in Nat /\ Tag \in Nat
    BY <1>1, Sizes, ByteSizes
  <2> QED
    BY <1>1, <1>2, <1>3, <1>11, <1>12, <2>1
<1>14. mem' \in [0 .. Last -> Bytes]
  <2>1. DOMAIN left = 0 .. Last
    BY <1>7 DEF left
  <2>2. left = [i \in 0 .. Last |-> left[i]]
    <3>1. left = mem'
      BY <1>11
    <3>2. tok.mem = [copy EXCEPT ![tok.end] = tok.mem[tok.end]] \/ tok.mem = copy
      BY <1>5 DEF strtok, tok
    <3>3. copy = [i \in 0 .. Last |-> copy[i]]
      BY <1>5 DEF copy, strncpy
    <3> QED
      BY <1>5, <3>2, <3>3 DEF left
  <2> QED
    BY <1>8, <1>11, <2>2
<1>15. ran' \in {"none", "maybeOS", "echo", "unknown"} /\ halted' \in BOOLEAN
  <2>1. Command(tok.word) \in {"none", "maybeOS", "echo", "unknown"}
    BY DEF Command
  <2> QED
    BY <1>2, <2>1 DEF tok
<1>16. line' \in Lines /\ behind' \in Bytes /\ ended' \in 0 .. Last
  <2>1. Len(l) \in 0 .. Last
    BY <1>3, Sizes
  <2> QED
    BY <1>2, <1>4, <1>7, <2>1 DEF tok
<1>17. out' \in Lines
  <2>1. PICK i \in 1 .. Len(l) + 1 : out' = SubSeq(l, i, Len(l))
    BY <1>2, <1>6 DEF PrintsTyped
  <2>2. l \in Seq(Chars) /\ \A j \in 1 .. Len(l) : l[j] \in Chars
    BY LineIs
  <2>3. \A j \in i .. Len(l) : l[j] \in Chars
    BY <1>3, <2>2
  <2>4. /\ out' \in Seq(Chars)
        /\ Len(out') = IF i <= Len(l) THEN Len(l) - i + 1 ELSE 0
    BY <1>3, <2>1, <2>2, <2>3, SubSeqProperties
  <2> DEFINE k == Len(out')
  <2>5. k \in 0 .. LineSize - 1
    BY <1>3, <2>4, Sizes
  <2>6. out' \in [1 .. k -> Chars]
    BY <2>4
  <2> HIDE DEF k
  <2> QED
    BY <2>5, <2>6 DEF Lines
<1> QED
  BY <1>1, <1>2, <1>6, <1>13, <1>14, <1>15, <1>16, <1>17 DEF HeapInv, TypeOK

(* Whatever strtok does to the tag behind the copy, kfree takes no more    *)
(* back than kmalloc had cut off, line after line: the last block never    *)
(* reaches past the end of the range it had after boot.                    *)
THEOREM HeapStaysSpared == Spec => []HeapIsSpared
<1>1. Init => HeapInv
  <2> SUFFICES ASSUME Init
               PROVE  HeapInv
    OBVIOUS
  <2>1. /\ size \in Tails /\ room = size
        /\ ran = "none" /\ out = <<>> /\ halted = FALSE
        /\ line = <<>> /\ behind = Nul /\ ended = 0
    BY DEF Init
  <2>2. mem \in [0 .. Last -> Bytes]
    BY ByteSizes DEF Init
  <2>3. <<>> \in Lines /\ Len(<<>>) = 0
    <3>1. <<>> \in [1 .. 0 -> Chars]
      OBVIOUS
    <3>2. 0 \in 0 .. LineSize - 1
      BY Sizes, ShellAssumption
    <3> QED
      BY <3>1, <3>2 DEF Lines
  <2>4. size \in Nat /\ Nul \in Bytes /\ 0 \in 0 .. Last
    BY <2>1, ByteSizes, Sizes
  <2>5. StopsInTag /\ size <= room
    BY <2>1, <2>3, <2>4, ByteSizes DEF StopsInTag
  <2> QED
    BY <2>1, <2>2, <2>3, <2>4, <2>5 DEF HeapInv, TypeOK
<1>2. HeapInv /\ [Next]_vars => HeapInv'
  <2> SUFFICES ASSUME HeapInv, [Next]_vars
               PROVE  HeapInv'
    OBVIOUS
  <2>1. ASSUME NEW l \in Lines, shell_input(l)
        PROVE  HeapInv'
    BY <2>1, LineSpares
  <2>2. CASE UNCHANGED vars
    BY <2>2 DEF vars, HeapInv, TypeOK, StopsInTag
  <2> QED
    BY <2>1, <2>2 DEF Next
<1>3. HeapInv => HeapIsSpared
  BY DEF HeapInv, HeapIsSpared
<1> QED
  BY <1>1, <1>2, <1>3, PTL DEF Spec
=============================================================================
