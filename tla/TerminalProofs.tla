--------------------------- MODULE TerminalProofs ---------------------------
(***************************************************************************)
(* Proofs about LineEditor, for every size of line and history and every   *)
(* keyboard; and about Terminal, for every screen and prompt besides.      *)
(*                                                                         *)
(* The line.  Four invariants: LineInv (types, terminated rows, cursors in *)
(* order); TextInv (nothing but null bytes behind the terminator of a row  *)
(* that no null character was typed into), whatever the byte at address 0; *)
(* DraftInv, for the line put aside; and HistoryInv (the remembered rows   *)
(* come without a gap).  With them each action maps to one of LineBuffer.  *)
(*                                                                         *)
(* The screen.  First what each drawing function does to the cells:        *)
(* print_str, a fold, is unfolded into rounds (Rounds), and the rounds     *)
(* added up (DrawnBy).  Then the invariants: ScreenInv, that the line and  *)
(* the text cursor end on the screen, and ShownInv, that the prompt began  *)
(* at the start of a row and the cells behind it show the line, both until *)
(* the text cursor is led astray; and MoveInv, that the text cursor is     *)
(* never behind its place in the line, wherever it is led.                 *)
(***************************************************************************)
EXTENDS Terminal, WellFoundedInduction, SequenceTheorems,
        FiniteSetTheorems, TLAPS

-----------------------------------------------------------------------------
(* The line.                                                               *)

LEMMA Sizes ==
  /\ BufSize \in Nat /\ BufSize > 0
  /\ MaxCommands \in Nat /\ MaxCommands > 1
  /\ BufSize - 1 \in Index /\ 0 \in Index
  /\ 0 \in Command
BY LineEditorAssumption DEF Index, Command

LEMMA Chars == NUL \in Char
BY DEF Char

(* A row whose last byte is null has a length, and it is where the first   *)
(* null byte is; and so has what follows any of its bytes.                 *)
Terminated(row) == row \in Row /\ row[BufSize - 1] = NUL

LEMMA EndFromFinds ==
  ASSUME NEW row, Terminated(row), NEW f \in Index
  PROVE  /\ EndFrom(row, f) \in Index /\ f <= EndFrom(row, f)
         /\ row[EndFrom(row, f)] = NUL
         /\ \A i \in f .. EndFrom(row, f) - 1 : row[i] # NUL
<1> DEFINE T == {i \in Index : f <= i /\ row[i] = NUL}
           less == OpToRel(<, Nat)
<1>1. T \subseteq Nat /\ BufSize - 1 \in T /\ f \in Nat
  BY Sizes DEF Index, Terminated
<1>2. IsWellFoundedOn(less, Nat)
  BY NatLessThanWellFounded
<1>3. PICK n \in T : \A y \in T : <<y, n>> \notin less
  <2> HIDE DEF less
  <2>1. T # {}
    BY <1>1
  <2>2. QED
    BY <1>1, <1>2, <2>1, WFMin
<1>4. ASSUME NEW y \in T, y < n PROVE FALSE
  <2>1. y \in Nat /\ n \in Nat
    BY <1>1
  <2>2. <<y, n>> \in less
    BY <2>1, <1>4 DEF OpToRel
  <2>3. QED
    BY <1>3, <2>2
<1>5. \A i \in f .. n - 1 : row[i] # NUL
  BY <1>1, <1>4, Sizes DEF Index
<1>6. n \in Index /\ f <= n /\ row[n] = NUL
  OBVIOUS
<1>7. QED
  BY <1>5, <1>6 DEF EndFrom

LEMMA StrlenFinds ==
  ASSUME NEW row, Terminated(row)
  PROVE  /\ Strlen(row) \in Index
         /\ row[Strlen(row)] = NUL
         /\ \A i \in 0 .. Strlen(row) - 1 : row[i] # NUL
BY Sizes, EndFromFinds DEF Strlen

-----------------------------------------------------------------------------
(* The operators on rows keep a row a row and its last byte null.          *)
LEMMA InsertedTerminated ==
  ASSUME NEW row, Terminated(row), NEW pos \in Nat, NEW last \in Nat,
         pos <= last, last < BufSize - 1, NEW c \in Char
  PROVE  Terminated(Inserted(row, pos, last, c))
<1>1. ASSUME NEW i \in Index
      PROVE  (IF i = pos THEN c
              ELSE IF pos < i /\ i <= last THEN row[i - 1] ELSE row[i]) \in Char
  <2>1. row[i] \in Char /\ (i > 0 => row[i - 1] \in Char)
    BY Sizes DEF Index, Terminated, Row
  <2>2. QED
    BY <2>1, Sizes DEF Index
<1>2. Inserted(row, pos, last, c) \in Row
  BY <1>1 DEF Inserted, Row
<1>3. Inserted(row, pos, last, c)[BufSize - 1] = NUL
  BY Sizes DEF Inserted, Terminated, Index
<1>4. QED
  BY <1>2, <1>3 DEF Terminated

LEMMA ErasedTerminated ==
  ASSUME NEW row, Terminated(row), NEW pos \in Nat, NEW last \in Nat,
         last <= BufSize - 1
  PROVE  Terminated(Erased(row, pos, last))
<1>1. ASSUME NEW i \in Index
      PROVE  (IF pos - 1 <= i /\ i < last THEN row[i + 1] ELSE row[i]) \in Char
  <2>1. row[i] \in Char /\ (i < BufSize - 1 => row[i + 1] \in Char)
    BY Sizes DEF Index, Terminated, Row
  <2>2. QED
    BY <2>1, Sizes DEF Index
<1>2. Erased(row, pos, last) \in Row
  BY <1>1 DEF Erased, Row
<1>3. Erased(row, pos, last)[BufSize - 1] = NUL
  BY Sizes DEF Erased, Terminated, Index
<1>4. QED
  BY <1>2, <1>3 DEF Terminated

LEMMA NulTerminated ==
  ASSUME NEW row, Terminated(row), NEW i \in Index
  PROVE  Terminated([row EXCEPT ![i] = NUL])
BY Sizes, Chars DEF Terminated, Row, Index

LEMMA ZeroTerminated == Terminated(ZeroRow)
BY Sizes, Chars DEF Terminated, ZeroRow, Row

-----------------------------------------------------------------------------
LineInv ==
  /\ TypeOK
  /\ RowsTerminated
  /\ cursor <= endIdx
  /\ BrowsedExists

(* LineInv, row by row.                                                    *)
LEMMA LineInvRows ==
  LineInv => /\ buff \in [Command -> Row]
             /\ \A c \in Command : Terminated(buff[c])
             /\ Terminated(temp)
             /\ endIdx \in Index /\ cursor \in Index /\ cursor <= endIdx
             /\ curr \in Command
BY DEF LineInv, TypeOK, RowsTerminated, Terminated

LEMMA InitLineInv == Init => LineInv
<1> SUFFICES ASSUME Init PROVE LineInv
  OBVIOUS
<1>1. Terminated(ZeroRow) /\ ZeroRow \in Row
  BY ZeroTerminated DEF Terminated
<1>2. TypeOK
  BY <1>1, Sizes DEF Init, TypeOK
<1>3. RowsTerminated
  BY <1>1 DEF Init, RowsTerminated, Terminated
<1>4. BrowsedExists
  BY DEF Init, BrowsedExists
<1>5. QED
  BY <1>2, <1>3, <1>4, Sizes DEF Init, LineInv

(* A step that puts a terminated row in place of row 0, or leaves it, and  *)
(* leaves the rows of the history alone.                                   *)
LEMMA RowZeroKeeps ==
  ASSUME LineInv, NEW row, Terminated(row),
         buff' = [buff EXCEPT ![0] = row],
         Terminated(temp'), NoteDraft,
         endIdx' \in Index, cursor' \in Index, cursor' <= endIdx',
         curr' \in Command, nulled' \subseteq 0 .. Saved,
         \A c \in 1 .. curr' : cmd_exists(c),
         UNCHANGED <<shift, caps>>
  PROVE  LineInv'
<1>1. /\ buff \in [Command -> Row] /\ 0 \in Command
      /\ \A c \in Command : Terminated(buff[c])
  BY LineInvRows, Sizes
<1>2. buff' \in [Command -> Row] /\ \A c \in Command : Terminated(buff'[c])
  BY <1>1 DEF Terminated
<1>3. draft' \in Row
  BY <1>1, <1>2 DEF NoteDraft, LineInv, TypeOK
<1>4. TypeOK'
  BY <1>2, <1>3 DEF LineInv, TypeOK, Terminated
<1>5. RowsTerminated'
  BY <1>2 DEF RowsTerminated, Terminated
<1>6. BrowsedExists'
  <2>1. ASSUME NEW c \in 1 .. curr' PROVE buff'[c][0] # NUL
    <3>1. c \in Command /\ c # 0
      BY Sizes DEF Command
    <3>2. buff'[c] = buff[c]
      BY <3>1, <1>1
    <3>3. QED
      BY <3>2 DEF cmd_exists
  <2>2. QED
    BY <2>1 DEF BrowsedExists, cmd_exists
<1>7. QED
  BY <1>4, <1>5, <1>6 DEF LineInv

LEMMA RightKeeps == LineInv /\ Right => LineInv'
<1> SUFFICES ASSUME LineInv, Right PROVE LineInv'
  OBVIOUS
<1>1. cursor' \in Index /\ cursor' <= endIdx
  BY LineInvRows, Sizes DEF Right, Index
<1>2. QED
  BY <1>1 DEF Right, LineInv, TypeOK, RowsTerminated, BrowsedExists, cmd_exists

LEMMA LeftKeeps == LineInv /\ Left => LineInv'
<1> SUFFICES ASSUME LineInv, Left PROVE LineInv'
  OBVIOUS
<1>1. cursor' \in Index /\ cursor' <= endIdx
  BY LineInvRows, Sizes DEF Left, Index
<1>2. QED
  BY <1>1 DEF Left, LineInv, TypeOK, RowsTerminated, BrowsedExists, cmd_exists

LEMMA UpKeeps == LineInv /\ Up => LineInv'
<1> SUFFICES ASSUME LineInv, Up PROVE LineInv'
  OBVIOUS
<1> DEFINE row == buff[curr + 1]
<1>1. curr + 1 \in Command /\ 0 \in Command
  BY LineInvRows, Sizes DEF Up, Command
<1>2. Terminated(row) /\ Terminated(temp')
  BY <1>1, LineInvRows DEF Up
<1>3. Strlen(row) \in Index
  BY <1>2, StrlenFinds
<1>4. /\ buff' = [buff EXCEPT ![0] = row]
      /\ endIdx' = Strlen(row) /\ cursor' = Strlen(row) /\ curr' = curr + 1
      /\ NoteDraft /\ UNCHANGED <<shift, caps>> /\ nulled' \subseteq 0 .. Saved
  BY DEF Up, SetLine, NullsFrom
<1>5. \A c \in 1 .. curr + 1 : cmd_exists(c)
  <2>1. curr \in Nat
    BY LineInvRows DEF Command
  <2>2. \A c \in 1 .. curr : cmd_exists(c)
    BY DEF LineInv, BrowsedExists
  <2>3. cmd_exists(curr + 1)
    BY DEF Up
  <2>4. QED
    BY <2>1, <2>2, <2>3
<1>6. cursor' <= endIdx'
  BY <1>3, <1>4 DEF Index
<1> HIDE DEF row
<1>7. QED
  BY <1>1, <1>2, <1>3, <1>4, <1>5, <1>6, RowZeroKeeps

LEMMA DownKeeps == LineInv /\ Down => LineInv'
<1> SUFFICES ASSUME LineInv, Down PROVE LineInv'
  OBVIOUS
<1> DEFINE row == IF curr = 1 THEN temp ELSE buff[curr - 1]
<1>1. curr - 1 \in Command /\ curr \in Nat
  BY LineInvRows, Sizes DEF Down, Command
<1>2. Terminated(row) /\ Terminated(temp')
  BY <1>1, LineInvRows DEF Down
<1>3. Strlen(row) \in Index
  BY <1>2, StrlenFinds
<1>4. /\ buff' = [buff EXCEPT ![0] = row]
      /\ endIdx' = Strlen(row) /\ cursor' = Strlen(row) /\ curr' = curr - 1
      /\ NoteDraft /\ UNCHANGED <<shift, caps>> /\ nulled' \subseteq 0 .. Saved
  BY DEF Down, SetLine, NullsFrom
<1>5. \A c \in 1 .. curr - 1 : cmd_exists(c)
  BY <1>1 DEF LineInv, BrowsedExists
<1>6. cursor' <= endIdx'
  BY <1>3, <1>4 DEF Index
<1> HIDE DEF row
<1>7. QED
  BY <1>1, <1>2, <1>3, <1>4, <1>5, <1>6, RowZeroKeeps

LEMMA BackspaceKeeps == LineInv /\ Backspace => LineInv'
<1> SUFFICES ASSUME LineInv, Backspace PROVE LineInv'
  OBVIOUS
<1> DEFINE row == IF cursor = endIdx THEN [buff[0] EXCEPT ![cursor - 1] = NUL]
                  ELSE Erased(buff[0], cursor, endIdx)
<1>1. /\ endIdx - 1 \in Index /\ cursor - 1 \in Index /\ cursor <= endIdx
      /\ cursor \in Nat /\ endIdx \in Nat /\ endIdx <= BufSize - 1
  BY LineInvRows, Sizes DEF Backspace, Index
<1>2. Terminated(buff[0]) /\ buff \in [Command -> Row]
  BY LineInvRows, Sizes
<1>3. Terminated(row)
  BY <1>1, <1>2, NulTerminated, ErasedTerminated
<1>4. /\ buff' = [buff EXCEPT ![0] = row]
      /\ endIdx' = endIdx - 1 /\ cursor' = cursor - 1 /\ curr' = curr
      /\ temp' = temp /\ NoteDraft /\ UNCHANGED <<shift, caps>>
      /\ nulled' \subseteq 0 .. Saved
  BY <1>2, Sizes DEF Backspace, LineInv, TypeOK
<1>5. \A c \in 1 .. curr' : cmd_exists(c)
  BY <1>4 DEF LineInv, BrowsedExists
<1>6. Terminated(temp') /\ curr' \in Command /\ cursor' <= endIdx'
  BY <1>1, <1>4, LineInvRows
<1> HIDE DEF row
<1>7. QED
  BY <1>1, <1>3, <1>4, <1>5, <1>6, RowZeroKeeps

LEMMA TypeKeeps == ASSUME NEW k \in Key PROVE LineInv /\ Type(k) => LineInv'
<1> SUFFICES ASSUME LineInv, NEW zero \in BytesAtZero, NEW c \in Char,
                    TypeWith(k, zero, c)
             PROVE  LineInv'
  BY DEF Type
<1> DEFINE row == Inserted(buff[0], cursor, endIdx, c)
<1>1. /\ endIdx + 1 \in Index /\ cursor + 1 \in Index /\ cursor <= endIdx
      /\ cursor \in Nat /\ endIdx \in Nat /\ endIdx < BufSize - 1
  BY LineInvRows, Sizes DEF TypeWith, Full, Index
<1>2. Terminated(buff[0]) /\ buff \in [Command -> Row]
  BY LineInvRows, Sizes
<1>3. Terminated(row)
  BY <1>1, <1>2, InsertedTerminated
<1>4. /\ buff' = [buff EXCEPT ![0] = row]
      /\ endIdx' = endIdx + 1 /\ cursor' = cursor + 1 /\ curr' = curr
      /\ temp' = temp /\ NoteDraft /\ UNCHANGED <<shift, caps>>
  BY <1>2, Sizes DEF TypeWith
<1>41. nulled' \subseteq 0 .. Saved
  BY Sizes DEF TypeWith, Saved, LineInv, TypeOK
<1>5. \A d \in 1 .. curr' : cmd_exists(d)
  BY <1>4 DEF LineInv, BrowsedExists
<1>6. Terminated(temp') /\ curr' \in Command /\ cursor' <= endIdx'
  BY <1>1, <1>4, LineInvRows
<1> HIDE DEF row
<1>7. QED
  BY <1>1, <1>3, <1>4, <1>41, <1>5, <1>6, RowZeroKeeps

LEMMA EnterKeeps == LineInv /\ Enter => LineInv'
<1> SUFFICES ASSUME LineInv, Enter PROVE LineInv'
  OBVIOUS
<1>1. buff' \in [Command -> Row] /\ \A c \in Command : Terminated(buff'[c])
  <2>1. CASE cmd_exists(0)
    <3>1. buff' = Logged(buff)
      BY <2>1 DEF Enter
    <3>2. ASSUME NEW c \in Command
          PROVE  Terminated(IF c = 0 THEN ZeroRow ELSE buff[c - 1])
      <4>1. c # 0 => c - 1 \in Command
        BY Sizes DEF Command
      <4>2. QED
        BY <4>1, ZeroTerminated, LineInvRows
    <3>3. QED
      BY <3>1, <3>2 DEF Logged, Terminated
  <2>2. CASE ~cmd_exists(0)
    BY <2>2, LineInvRows DEF Enter
  <2>3. QED
    BY <2>1, <2>2
<1>2. Terminated(temp')
  BY ZeroTerminated DEF Enter
<1>3. endIdx' \in Index /\ cursor' = endIdx'
  BY <1>1, Sizes, StrlenFinds DEF Enter
<1>4. draft' \in Row
  BY <1>1, Sizes DEF Enter, NoteDraft
<1>41. nulled' \subseteq 0 .. Saved
  BY Sizes DEF Enter, Saved, Command
<1>5. TypeOK'
  BY <1>1, <1>2, <1>3, <1>4, <1>41, Sizes DEF Enter, LineInv, TypeOK, Terminated
<1>6. RowsTerminated'
  BY <1>1, <1>2 DEF RowsTerminated, Terminated
<1>7. BrowsedExists'
  BY DEF Enter, BrowsedExists
<1>8. cursor' <= endIdx'
  BY <1>3 DEF Index
<1>9. QED
  BY <1>5, <1>6, <1>7, <1>8 DEF LineInv

LEMMA ModifierKeeps == LineInv /\ Modifier => LineInv'
<1> SUFFICES ASSUME LineInv, Modifier PROVE LineInv'
  OBVIOUS
<1>1. /\ UNCHANGED <<buff, temp, endIdx, cursor, curr, draft, nulled>>
      /\ shift' \in BOOLEAN /\ caps' \in BOOLEAN
  BY DEF Modifier, CapsLock, ShiftKey, LineInv, TypeOK
<1>2. QED
  BY <1>1 DEF LineInv, TypeOK, RowsTerminated, BrowsedExists, cmd_exists

LEMMA StutterKeeps == LineInv /\ UNCHANGED vars => LineInv'
BY DEF LineInv, TypeOK, RowsTerminated, BrowsedExists, cmd_exists, vars

LEMMA LineInvAlways == Spec => []LineInv
<1>1. LineInv /\ [Next]_vars => LineInv'
  BY RightKeeps, LeftKeeps, UpKeeps, DownKeeps, BackspaceKeeps, EnterKeeps,
     ModifierKeeps, TypeKeeps, StutterKeeps DEF Next
<1>2. QED
  BY InitLineInv, <1>1, PTL DEF Spec

(* Every variable keeps its type: no cursor leaves the buffer.             *)
THEOREM TypeCorrect == Spec => []TypeOK
BY LineInvAlways, PTL DEF LineInv

(* No key fills the last byte of a row, so every scan for the end of a row *)
(* ends (place_char_at_cursor_pos, init_inputBuffCursor).                  *)
THEOREM RowsStayTerminated == Spec => []RowsTerminated
BY LineInvAlways, PTL DEF LineInv

(* KEY_DOWN_ARROW needs no check that the row it goes to exists.           *)
THEOREM BrowsedRowsExist == Spec => []BrowsedExists
BY LineInvAlways, PTL DEF LineInv

-----------------------------------------------------------------------------
(* The text of a row: characters up to n, nothing but null bytes from n.   *)
HasText(row, n) == \A i \in Index : row[i] = NUL <=> n <= i

Clean(row) == \E n \in Index : HasText(row, n)

LEMMA CleanStrlen ==
  ASSUME NEW row, Terminated(row), Clean(row)
  PROVE  HasText(row, Strlen(row))
<1>1. PICK n \in Index : HasText(row, n)
  BY DEF Clean
<1>2. /\ Strlen(row) \in Index /\ row[Strlen(row)] = NUL
      /\ \A i \in 0 .. Strlen(row) - 1 : row[i] # NUL
  BY StrlenFinds
<1>3. row[n] = NUL /\ n <= Strlen(row)
  BY <1>1, <1>2 DEF HasText, Index
<1>4. n \in 0 .. Strlen(row) - 1 => FALSE
  BY <1>2, <1>3
<1>5. n = Strlen(row)
  BY <1>2, <1>3, <1>4 DEF Index
<1>6. QED
  BY <1>1, <1>5

LEMMA InsertedText ==
  ASSUME NEW row, NEW pos \in Nat, NEW last \in Nat, pos <= last,
         last < BufSize - 1, HasText(row, last), NEW c, c # NUL
  PROVE  HasText(Inserted(row, pos, last, c), last + 1)
<1>1. SUFFICES ASSUME NEW i \in Index
               PROVE  Inserted(row, pos, last, c)[i] = NUL <=> last + 1 <= i
  BY DEF HasText
<1>2. Inserted(row, pos, last, c)[i]
        = IF i = pos THEN c
          ELSE IF pos < i /\ i <= last THEN row[i - 1] ELSE row[i]
  BY DEF Inserted
<1>3. i \in Nat /\ (pos < i => i - 1 \in Index)
  BY Sizes DEF Index
<1>4. CASE i = pos
  BY <1>2, <1>3, <1>4
<1>5. CASE pos < i /\ i <= last
  BY <1>2, <1>3, <1>5 DEF HasText
<1>6. CASE i # pos /\ ~(pos < i /\ i <= last)
  BY <1>2, <1>3, <1>6 DEF HasText
<1>7. QED
  BY <1>4, <1>5, <1>6

LEMMA ErasedText ==
  ASSUME NEW row, NEW pos \in Nat, NEW last \in Nat, 0 < pos, pos <= last,
         last <= BufSize - 1, HasText(row, last)
  PROVE  HasText(Erased(row, pos, last), last - 1)
<1>1. SUFFICES ASSUME NEW i \in Index
               PROVE  Erased(row, pos, last)[i] = NUL <=> last - 1 <= i
  BY DEF HasText
<1>2. Erased(row, pos, last)[i]
        = IF pos - 1 <= i /\ i < last THEN row[i + 1] ELSE row[i]
  BY DEF Erased
<1>3. i \in Nat /\ (i < last => i + 1 \in Index)
  BY Sizes DEF Index
<1>4. CASE pos - 1 <= i /\ i < last
  BY <1>2, <1>3, <1>4 DEF HasText
<1>5. CASE ~(pos - 1 <= i /\ i < last)
  BY <1>2, <1>3, <1>5 DEF HasText
<1>6. QED
  BY <1>4, <1>5

(* The last character of the line replaced by a terminator.                *)
LEMMA CutText ==
  ASSUME NEW row, row \in Row, NEW last \in Nat, 0 < last,
         last <= BufSize - 1, HasText(row, last)
  PROVE  HasText([row EXCEPT ![last - 1] = NUL], last - 1)
<1>1. SUFFICES ASSUME NEW i \in Index
               PROVE  [row EXCEPT ![last - 1] = NUL][i] = NUL <=> last - 1 <= i
  BY DEF HasText
<1>2. i \in Nat
  BY DEF Index
<1>3. [row EXCEPT ![last - 1] = NUL][i] = IF i = last - 1 THEN NUL ELSE row[i]
  BY DEF Row
<1>4. QED
  BY <1>2, <1>3 DEF HasText

LEMMA ZeroText == HasText(ZeroRow, 0) /\ Clean(ZeroRow)
BY Sizes DEF HasText, Clean, ZeroRow, Index

-----------------------------------------------------------------------------
(* The rows that no null character was typed into.                         *)
TextInv ==
  /\ \A c \in Command : c \notin nulled => Clean(buff[c])
  /\ Saved \notin nulled => Clean(temp)
  /\ 0 \notin nulled => HasText(buff[0], endIdx)

LEMMA InitTextInv == Init => TextInv
BY ZeroText, Sizes DEF Init, TextInv

(* A step that gives row 0 a text that ends at the new end_idx.            *)
LEMMA RowZeroText ==
  ASSUME LineInv, TextInv, NEW row,
         buff' = [buff EXCEPT ![0] = row],
         endIdx' \in Index, 0 \notin nulled' => HasText(row, endIdx'),
         Saved \notin nulled' => Clean(temp'),
         \A c \in Command \ {0} : c \in nulled' <=> c \in nulled
  PROVE  TextInv'
<1>1. buff \in [Command -> Row] /\ 0 \in Command
  BY LineInvRows, Sizes
<1>2. 0 \notin nulled' => Clean(row)
  BY DEF Clean
<1>3. \A c \in Command : buff'[c] = IF c = 0 THEN row ELSE buff[c]
  BY <1>1
<1>4. QED
  BY <1>1, <1>2, <1>3 DEF TextInv

LEMMA TextStep == LineInv /\ LineInv' /\ TextInv /\ [Next]_vars => TextInv'
<1> SUFFICES ASSUME LineInv, LineInv', TextInv, [Next]_vars PROVE TextInv'
  OBVIOUS
<1>1. /\ buff \in [Command -> Row] /\ 0 \in Command
      /\ \A c \in Command : /\ Terminated(buff[c])
                            /\ c \notin nulled => Clean(buff[c])
      /\ Terminated(temp) /\ (Saved \notin nulled => Clean(temp))
      /\ 0 \notin nulled => HasText(buff[0], endIdx)
  BY LineInvRows, Sizes DEF TextInv
<1>20. Saved \notin Command /\ Saved # 0 /\ 0 \in 0 .. Saved /\ Saved \in 0 .. Saved
       /\ Command \subseteq 0 .. Saved
  BY Sizes DEF Saved, Command
<1>2. /\ endIdx \in Nat /\ cursor \in Nat /\ curr \in Nat
      /\ cursor <= endIdx /\ endIdx <= BufSize - 1
  BY LineInvRows, Sizes DEF Index, Command
<1>3. endIdx' \in Index
  BY DEF LineInv, TypeOK
<1>4. CASE Right \/ Left \/ Modifier \/ UNCHANGED vars
  <2>1. UNCHANGED <<buff, temp, endIdx, nulled>>
    BY <1>4 DEF Right, Left, Modifier, CapsLock, ShiftKey, vars
  <2>2. QED
    BY <2>1 DEF TextInv
<1>5. CASE Up
  <2> DEFINE row == buff[curr + 1]
             second == IF curr = 0 THEN 0 ELSE Saved
  <2>1. curr + 1 \in Command
    BY <1>2, <1>5, Sizes DEF Up, Command
  <2>2. curr + 1 \notin nulled => HasText(row, Strlen(row))
    BY <1>1, <2>1, CleanStrlen
  <2>3. /\ buff' = [buff EXCEPT ![0] = row] /\ endIdx' = Strlen(row)
        /\ NullsFrom(curr + 1, second)
    BY <1>5 DEF Up, SetLine
  <2>4. second \notin nulled => Clean(temp')
    BY <1>1, <1>5 DEF Up
  <2> HIDE DEF row, second
  <2>5. /\ 0 \in nulled' <=> curr + 1 \in nulled
        /\ Saved \in nulled' <=> second \in nulled
        /\ \A c \in Command \ {0} : c \in nulled' <=> c \in nulled
    BY <1>20, <2>3 DEF NullsFrom
  <2>6. QED
    BY <1>3, <2>2, <2>3, <2>4, <2>5, RowZeroText
<1>6. CASE Down
  <2> DEFINE row == IF curr = 1 THEN temp ELSE buff[curr - 1]
             first == IF curr = 1 THEN Saved ELSE curr - 1
  <2>1. curr - 1 \in Command
    BY <1>2, <1>6, LineInvRows, Sizes DEF Down, Command
  <2>2. first \notin nulled => HasText(row, Strlen(row))
    BY <1>1, <2>1, CleanStrlen
  <2>3. /\ buff' = [buff EXCEPT ![0] = row] /\ endIdx' = Strlen(row)
        /\ NullsFrom(first, Saved)
    BY <1>6 DEF Down, SetLine
  <2>4. Saved \notin nulled => Clean(temp')
    BY <1>1, <1>6 DEF Down
  <2> HIDE DEF row, first
  <2>5. /\ 0 \in nulled' <=> first \in nulled
        /\ Saved \in nulled' <=> Saved \in nulled
        /\ \A c \in Command \ {0} : c \in nulled' <=> c \in nulled
    BY <1>20, <2>3 DEF NullsFrom
  <2>6. QED
    BY <1>3, <2>2, <2>3, <2>4, <2>5, RowZeroText
<1>7. CASE Backspace
  <2> DEFINE row == IF cursor = endIdx
                    THEN [buff[0] EXCEPT ![cursor - 1] = NUL]
                    ELSE Erased(buff[0], cursor, endIdx)
  <2>1. 0 < cursor /\ 0 < endIdx
    BY <1>2, <1>7 DEF Backspace
  <2>2. /\ buff' = [buff EXCEPT ![0] = row] /\ endIdx' = endIdx - 1
        /\ temp' = temp /\ nulled' = nulled
    BY <1>1, <1>7 DEF Backspace
  <2>3. 0 \notin nulled => HasText([buff[0] EXCEPT ![endIdx - 1] = NUL], endIdx - 1)
    <3>1. buff[0] \in Row
      BY <1>1
    <3>2. QED
      BY <1>1, <1>2, <2>1, <3>1, CutText
  <2>4. 0 \notin nulled => HasText(Erased(buff[0], cursor, endIdx), endIdx - 1)
    BY <1>1, <1>2, <2>1, ErasedText
  <2>5. 0 \notin nulled => HasText(row, endIdx - 1)
    BY <2>3, <2>4, Zenon
  <2>6. Saved \notin nulled => Clean(temp')
    BY <1>1, <2>2
  <2> HIDE DEF row
  <2>7. QED
    BY <1>3, <2>2, <2>5, <2>6, RowZeroText
<1>8. CASE Enter
  <2>1. \A c \in Command : /\ c \notin nulled' => Clean(buff'[c])
                           /\ Terminated(buff'[c])
    <3>1. CASE cmd_exists(0)
      <4>1. \A c \in Command \ {0} : c - 1 \in Command
        BY Sizes DEF Command
      <4>2. buff' = Logged(buff) /\ \A c \in Command : c \in nulled' <=> c - 1 \in nulled
        BY <1>8, <3>1 DEF Enter
      <4>3. QED
        BY <1>1, <4>1, <4>2, ZeroText, ZeroTerminated DEF Logged
    <3>2. CASE ~cmd_exists(0)
      BY <1>1, <1>8, <3>2 DEF Enter
    <3>3. QED
      BY <3>1, <3>2
  <2>2. 0 \notin nulled' => HasText(buff'[0], endIdx')
    BY <1>1, <1>8, <2>1, CleanStrlen DEF Enter
  <2>3. Clean(temp')
    BY <1>8, ZeroText DEF Enter
  <2>4. QED
    BY <2>1, <2>2, <2>3 DEF TextInv
<1>9. ASSUME NEW k \in Key, NEW zero \in BytesAtZero, NEW c \in Char,
             TypeWith(k, zero, c)
      PROVE  TextInv'
  <2> DEFINE row == Inserted(buff[0], cursor, endIdx, c)
  <2>1. endIdx < BufSize - 1
    BY <1>2, <1>9, Sizes DEF TypeWith, Full
  <2>2. /\ buff' = [buff EXCEPT ![0] = row] /\ endIdx' = endIdx + 1
        /\ temp' = temp /\ nulled' = IF c = NUL THEN nulled \cup {0} ELSE nulled
    BY <1>1, <1>9 DEF TypeWith
  <2>3. 0 \notin nulled /\ c # NUL => HasText(row, endIdx + 1)
    BY <1>1, <1>2, <2>1, InsertedText
  <2>4. Saved \notin nulled => Clean(temp')
    BY <1>1, <2>2
  <2> HIDE DEF row
  <2>5. /\ 0 \notin nulled' => 0 \notin nulled /\ c # NUL
        /\ Saved \in nulled' <=> Saved \in nulled
        /\ \A d \in Command \ {0} : d \in nulled' <=> d \in nulled
    BY <1>20, <2>2
  <2>6. QED
    BY <1>3, <2>2, <2>3, <2>4, <2>5, RowZeroText
<1>10. QED
  BY <1>4, <1>5, <1>6, <1>7, <1>8, <1>9 DEF Next, Type

LEMMA TextEnds == LineInv /\ TextInv => EndIsTerminator
<1> SUFFICES ASSUME LineInv, TextInv, 0 \notin nulled PROVE EndIsTerminator
  BY DEF EndIsTerminator
<1>1. endIdx \in Index /\ cursor <= endIdx /\ HasText(buff[0], endIdx)
  BY LineInvRows DEF TextInv
<1>2. buff[0][endIdx] = NUL
  BY <1>1, Sizes DEF HasText, Index
<1>3. \A i \in 0 .. endIdx - 1 : buff[0][i] # NUL
  BY <1>1, Sizes DEF HasText, Index
<1>4. QED
  BY <1>1, <1>2, <1>3 DEF EndIsTerminator

(* end_idx is where strlen, and with it the shell, finds the end of the    *)
(* line, and the cursor is not behind it, after any keys, whatever the     *)
(* byte at address 0, which keys missing from a table type: unless a null  *)
(* was typed into this very line, or the row it was copied from.           *)
THEOREM EndTerminates == Spec => []EndIsTerminator
<1>1. LineInv /\ LineInv' /\ TextInv /\ [Next]_vars => TextInv'
  BY TextStep
<1>2. QED
  BY InitTextInv, LineInvAlways, <1>1, TextEnds, PTL DEF Spec

-----------------------------------------------------------------------------
(* The line being written is row 0, or is in the temporary row while a     *)
(* remembered command is shown.                                            *)
DraftInv == draft = IF curr = 0 THEN buff[0] ELSE temp

LEMMA DraftStep == LineInv /\ DraftInv /\ [Next]_vars => DraftInv'
<1> SUFFICES ASSUME LineInv, DraftInv, [Next]_vars PROVE DraftInv'
  OBVIOUS
<1>1. buff \in [Command -> Row] /\ 0 \in Command /\ curr \in Nat
  BY LineInvRows, Sizes DEF Command
<1>2. CASE Right \/ Left \/ Modifier \/ UNCHANGED vars
  <2>1. UNCHANGED <<buff, temp, curr, draft>>
    BY <1>2 DEF Right, Left, Modifier, CapsLock, ShiftKey, vars
  <2>2. QED
    BY <2>1 DEF DraftInv
<1>3. CASE Up
  BY <1>1, <1>3 DEF Up, NoteDraft, DraftInv
<1>4. CASE Down
  BY <1>1, <1>4 DEF Down, NoteDraft, DraftInv
<1>5. CASE Backspace
  BY <1>5 DEF Backspace, NoteDraft, DraftInv
<1>6. CASE Enter
  BY <1>6 DEF Enter, NoteDraft, DraftInv
<1>7. ASSUME NEW k \in Key, Type(k) PROVE DraftInv'
  BY <1>7 DEF Type, TypeWith, NoteDraft, DraftInv
<1>8. QED
  BY <1>2, <1>3, <1>4, <1>5, <1>6, <1>7 DEF Next

LEMMA DownRestores ==
  LineInv /\ DraftInv => (Down /\ curr' = 0 => buff'[0] = draft)
<1> SUFFICES ASSUME LineInv, DraftInv, Down, curr' = 0
             PROVE  buff'[0] = draft
  OBVIOUS
<1>1. buff \in [Command -> Row] /\ 0 \in Command /\ curr \in Nat
  BY LineInvRows, Sizes DEF Command
<1>2. curr = 1
  BY <1>1 DEF Down
<1>3. buff'[0] = temp
  BY <1>1, <1>2 DEF Down, SetLine
<1>4. QED
  BY <1>2, <1>3 DEF DraftInv

(* KEY_DOWN_ARROW brings back the line that was being written, whatever    *)
(* was browsed and edited since the first KEY_UP_ARROW.                    *)
THEOREM DraftComesBack == Spec => DraftRestored
<1>1. Init => DraftInv
  BY Sizes DEF Init, DraftInv
<1>2. LineInv /\ DraftInv /\ [Next]_vars
        => [Down /\ curr' = 0 => buff'[0] = draft]_vars
  BY DownRestores
<1>3. LineInv /\ DraftInv /\ [Next]_vars => DraftInv'
  BY DraftStep
<1>4. QED
  BY <1>1, <1>2, <1>3, LineInvAlways, PTL DEF Spec, DraftRestored

-----------------------------------------------------------------------------
(* The refinement of LineBuffer.  First, what its expressions for the new  *)
(* line are, character by character.                                       *)
WithNew(t, p, c) == SubSeq(t, 1, p) \o <<c>> \o SubSeq(t, p + 1, Len(t))
Without(t, p)    == SubSeq(t, 1, p - 1) \o SubSeq(t, p + 1, Len(t))

LEMMA InsertSeq ==
  ASSUME NEW S, NEW t \in Seq(S), NEW p \in 0 .. Len(t), NEW c \in S
  PROVE  LET w == WithNew(t, p, c) IN
         /\ w \in Seq(S) /\ Len(w) = Len(t) + 1
         /\ \A i \in 1 .. Len(t) + 1 :
              w[i] = IF i <= p THEN t[i] ELSE IF i = p + 1 THEN c ELSE t[i - 1]
<1> DEFINE a == SubSeq(t, 1, p)
           b == SubSeq(t, p + 1, Len(t))
           d == <<c>>
           e == a \o d
           w == WithNew(t, p, c)
<1>1. Len(t) \in Nat /\ p \in Nat /\ p <= Len(t)
  OBVIOUS
<1>2. a \in Seq(S) /\ Len(a) = p /\ \A i \in 1 .. p : a[i] = t[i]
  <2>1. \A i \in 1 .. p : t[i] \in S
    BY <1>1
  <2>2. Len(a) = IF 1 <= p THEN p - 1 + 1 ELSE 0
    BY <1>1, <2>1, SubSeqProperties
  <2>3. a \in Seq(S) /\ \A i \in 1 .. p - 1 + 1 : a[i] = t[1 + i - 1]
    BY <1>1, <2>1, SubSeqProperties
  <2> HIDE DEF a
  <2>4. QED
    BY <1>1, <2>2, <2>3
<1>3. /\ b \in Seq(S) /\ Len(b) = Len(t) - p
      /\ \A i \in 1 .. Len(t) - p : b[i] = t[p + i]
  <2>1. \A i \in p + 1 .. Len(t) : t[i] \in S
    BY <1>1
  <2>2. Len(b) = IF p + 1 <= Len(t) THEN Len(t) - (p + 1) + 1 ELSE 0
    BY <1>1, <2>1, SubSeqProperties
  <2>3. /\ b \in Seq(S)
        /\ \A i \in 1 .. Len(t) - (p + 1) + 1 : b[i] = t[p + 1 + i - 1]
    BY <1>1, <2>1, SubSeqProperties
  <2> HIDE DEF b
  <2>4. QED
    BY <1>1, <2>2, <2>3
<1>4. d \in Seq(S) /\ Len(d) = 1 /\ d[1] = c
  OBVIOUS
<1>5. w = e \o b
  BY DEF WithNew
<1> HIDE DEF a, b, d, w
<1>6. /\ e \in Seq(S) /\ Len(e) = p + 1
      /\ \A i \in 1 .. p + 1 : e[i] = IF i <= p THEN t[i] ELSE c
  <2>1. /\ e \in Seq(S) /\ Len(e) = Len(a) + Len(d)
        /\ \A i \in 1 .. Len(a) + Len(d) :
             e[i] = IF i <= Len(a) THEN a[i] ELSE d[i - Len(a)]
    BY <1>2, <1>4, ConcatProperties
  <2> HIDE DEF e
  <2>2. QED
    BY <1>1, <1>2, <1>4, <2>1
<1> HIDE DEF e
<1>7. /\ w \in Seq(S) /\ Len(w) = Len(e) + Len(b)
      /\ \A i \in 1 .. Len(e) + Len(b) :
           w[i] = IF i <= Len(e) THEN e[i] ELSE b[i - Len(e)]
  BY <1>3, <1>5, <1>6, ConcatProperties
<1>8. ASSUME NEW i \in 1 .. Len(t) + 1
      PROVE  w[i] = IF i <= p THEN t[i] ELSE IF i = p + 1 THEN c ELSE t[i - 1]
  <2>0. Len(e) + Len(b) = Len(t) + 1 /\ i \in Nat /\ 1 <= i /\ i <= Len(t) + 1
    BY <1>1, <1>3, <1>6
  <2>1. CASE i <= p + 1
    <3>1. w[i] = e[i] /\ i \in 1 .. p + 1
      BY <1>1, <1>6, <1>7, <2>0, <2>1
    <3>2. QED
      BY <1>1, <1>6, <2>1, <3>1
  <2>2. CASE i > p + 1
    <3>1. w[i] = b[i - Len(e)]
      BY <1>1, <1>6, <1>7, <2>0, <2>2
    <3>2. i - Len(e) \in 1 .. Len(t) - p /\ p + (i - Len(e)) = i - 1
      BY <1>1, <1>6, <2>0, <2>2
    <3>3. w[i] = t[i - 1]
      BY <1>3, <3>1, <3>2
    <3>4. QED
      BY <1>1, <2>0, <2>2, <3>3
  <2>3. QED
    BY <1>1, <2>1, <2>2
<1>9. w \in Seq(S) /\ Len(w) = Len(t) + 1
  BY <1>1, <1>3, <1>6, <1>7
<1>10. QED
  BY <1>8, <1>9 DEF w

LEMMA EraseSeq ==
  ASSUME NEW S, NEW t \in Seq(S), NEW p \in 1 .. Len(t)
  PROVE  LET w == Without(t, p) IN
         /\ w \in Seq(S) /\ Len(w) = Len(t) - 1
         /\ \A i \in 1 .. Len(t) - 1 : w[i] = IF i < p THEN t[i] ELSE t[i + 1]
<1> DEFINE a == SubSeq(t, 1, p - 1)
           b == SubSeq(t, p + 1, Len(t))
           w == Without(t, p)
<1>1. Len(t) \in Nat /\ p \in Nat /\ 1 <= p /\ p <= Len(t)
  OBVIOUS
<1>2. a \in Seq(S) /\ Len(a) = p - 1 /\ \A i \in 1 .. p - 1 : a[i] = t[i]
  <2>1. \A i \in 1 .. p - 1 : t[i] \in S
    BY <1>1
  <2>2. Len(a) = IF 1 <= p - 1 THEN p - 1 - 1 + 1 ELSE 0
    BY <1>1, <2>1, SubSeqProperties
  <2>3. a \in Seq(S) /\ \A i \in 1 .. p - 1 - 1 + 1 : a[i] = t[1 + i - 1]
    BY <1>1, <2>1, SubSeqProperties
  <2> HIDE DEF a
  <2>4. QED
    BY <1>1, <2>2, <2>3
<1>3. /\ b \in Seq(S) /\ Len(b) = Len(t) - p
      /\ \A i \in 1 .. Len(t) - p : b[i] = t[p + i]
  <2>1. \A i \in p + 1 .. Len(t) : t[i] \in S
    BY <1>1
  <2>2. Len(b) = IF p + 1 <= Len(t) THEN Len(t) - (p + 1) + 1 ELSE 0
    BY <1>1, <2>1, SubSeqProperties
  <2>3. /\ b \in Seq(S)
        /\ \A i \in 1 .. Len(t) - (p + 1) + 1 : b[i] = t[p + 1 + i - 1]
    BY <1>1, <2>1, SubSeqProperties
  <2> HIDE DEF b
  <2>4. QED
    BY <1>1, <2>2, <2>3
<1>4. w = a \o b
  BY DEF Without
<1> HIDE DEF a, b, w
<1>5. /\ w \in Seq(S) /\ Len(w) = Len(a) + Len(b)
      /\ \A i \in 1 .. Len(a) + Len(b) :
           w[i] = IF i <= Len(a) THEN a[i] ELSE b[i - Len(a)]
  BY <1>2, <1>3, <1>4, ConcatProperties
<1>6. ASSUME NEW i \in 1 .. Len(t) - 1
      PROVE  w[i] = IF i < p THEN t[i] ELSE t[i + 1]
  <2>1. CASE i < p
    <3>1. i \in 1 .. Len(a) + Len(b) /\ i <= Len(a) /\ i \in 1 .. p - 1
      BY <1>1, <1>2, <1>3, <2>1
    <3>2. w[i] = a[i]
      BY <1>5, <3>1
    <3>3. a[i] = t[i]
      BY <1>2, <3>1
    <3>4. QED
      BY <2>1, <3>2, <3>3
  <2>2. CASE i >= p
    <3>1. i \in 1 .. Len(a) + Len(b) /\ i > Len(a)
      BY <1>1, <1>2, <1>3, <2>2
    <3>2. w[i] = b[i - Len(a)]
      BY <1>1, <1>2, <1>5, <3>1
    <3>3. i - Len(a) \in 1 .. Len(t) - p /\ p + (i - Len(a)) = i + 1
      BY <1>1, <1>2, <2>2
    <3>4. w[i] = t[i + 1]
      BY <1>3, <3>2, <3>3
    <3>5. QED
      BY <1>1, <2>2, <3>4
  <2>3. QED
    BY <1>1, <2>1, <2>2
<1>7. w \in Seq(S) /\ Len(w) = Len(t) - 1
  BY <1>1, <1>2, <1>3, <1>5
<1>8. QED
  BY <1>6, <1>7 DEF w

LEMMA PushSeq ==
  ASSUME NEW S, NEW h \in Seq(S), NEW x \in S, NEW k \in 1 .. Len(h) + 1
  PROVE  SubSeq(<<x>> \o h, 1, k)
           = [i \in 1 .. k |-> IF i = 1 THEN x ELSE h[i - 1]]
<1> DEFINE d == <<x>>
           e == d \o h
           f == [i \in 1 .. k |-> IF i = 1 THEN x ELSE h[i - 1]]
<1>1. d \in Seq(S) /\ Len(d) = 1 /\ d[1] = x /\ Len(h) \in Nat
  OBVIOUS
<1> HIDE DEF d
<1>2. /\ e \in Seq(S) /\ Len(e) = 1 + Len(h)
      /\ \A i \in 1 .. 1 + Len(h) : e[i] = IF i <= 1 THEN d[i] ELSE h[i - 1]
  <2>1. /\ e \in Seq(S) /\ Len(e) = Len(d) + Len(h)
        /\ \A i \in 1 .. Len(d) + Len(h) :
             e[i] = IF i <= Len(d) THEN d[i] ELSE h[i - Len(d)]
    BY <1>1, ConcatProperties
  <2> HIDE DEF e
  <2>2. QED
    BY <1>1, <2>1
<1> HIDE DEF e
<1>3. k \in Nat /\ 1 <= k /\ k <= Len(h) + 1
  BY <1>1
<1>4. \A i \in 1 .. k : e[i] \in S /\ e[i] = IF i = 1 THEN x ELSE h[i - 1]
  BY <1>1, <1>2, <1>3
<1>5. /\ SubSeq(e, 1, k) \in Seq(S)
      /\ Len(SubSeq(e, 1, k)) = IF 1 <= k THEN k - 1 + 1 ELSE 0
      /\ \A i \in 1 .. k - 1 + 1 : SubSeq(e, 1, k)[i] = e[1 + i - 1]
  BY <1>3, <1>4, SubSeqProperties
<1>6. f \in Seq(S) /\ Len(f) = k /\ \A i \in 1 .. k : f[i] = e[i]
  <2>1. \A i \in 1 .. k : (IF i = 1 THEN x ELSE h[i - 1]) \in S
    BY <1>4
  <2>2. f \in [1 .. k -> S]
    BY <2>1
  <2>3. f \in Seq(S) /\ Len(f) = k
    BY <1>3, <2>2
  <2>4. QED
    BY <1>4, <2>3
<1> HIDE DEF f
<1>7. SubSeq(e, 1, k) = f
  BY <1>3, <1>5, <1>6, SeqEqual
<1>8. QED
  BY <1>7 DEF d, e, f

(* The text of a row that HasText(row, n): its first n bytes.              *)
Written == Char \ {NUL}

LEMMA TextOfRow ==
  ASSUME NEW row, Terminated(row)
  PROVE  /\ Strlen(row) \in Index
         /\ Text(row) \in Seq(Written) /\ Len(Text(row)) = Strlen(row)
         /\ \A i \in 1 .. Strlen(row) : Text(row)[i] = row[i - 1]
<1> DEFINE n == Strlen(row)
<1>1. /\ n \in Index /\ n \in Nat /\ n <= BufSize - 1
      /\ \A i \in 0 .. n - 1 : row[i] # NUL
  BY StrlenFinds, Sizes DEF Index
<1>2. Text(row) = [i \in 1 .. n |-> row[i - 1]]
  BY DEF Text
<1> HIDE DEF n
<1>3. ASSUME NEW i \in 1 .. n PROVE row[i - 1] \in Written
  <2>1. i - 1 \in Index /\ i - 1 \in 0 .. n - 1
    BY <1>1, Sizes DEF Index
  <2>2. QED
    BY <1>1, <2>1 DEF Terminated, Row, Written
<1>4. Text(row) \in [1 .. n -> Written]
  BY <1>2, <1>3
<1>5. Text(row) \in Seq(Written) /\ Len(Text(row)) = n
  BY <1>1, <1>4
<1>6. QED
  BY <1>1, <1>2, <1>5 DEF n

LEMMA TextIs ==
  ASSUME NEW row, Terminated(row), NEW n \in Index, HasText(row, n)
  PROVE  /\ Strlen(row) = n
         /\ Text(row) \in Seq(Written) /\ Len(Text(row)) = n
         /\ \A i \in 1 .. n : Text(row)[i] = row[i - 1]
<1>1. Strlen(row) = n
  <2>1. HasText(row, Strlen(row)) /\ Strlen(row) \in Index
    BY CleanStrlen, StrlenFinds DEF Clean
  <2>2. /\ row[n] = NUL <=> Strlen(row) <= n
        /\ row[Strlen(row)] = NUL <=> n <= Strlen(row)
        /\ row[n] = NUL /\ row[Strlen(row)] = NUL
    BY <2>1, Sizes DEF HasText, Index
  <2>3. QED
    BY <2>1, <2>2 DEF Index
<1>2. QED
  BY <1>1, TextOfRow

LEMMA InsertedIs ==
  ASSUME NEW row, Terminated(row), NEW pos \in Nat, NEW last \in Nat,
         pos <= last, last < BufSize - 1, HasText(row, last),
         NEW c \in Written
  PROVE  Text(Inserted(row, pos, last, c)) = WithNew(Text(row), pos, c)
<1> DEFINE new == Inserted(row, pos, last, c)
           t == Text(row)
           w == WithNew(t, pos, c)
<1>1. c \in Char /\ c # NUL /\ last \in Index /\ last + 1 \in Index
  BY Sizes DEF Written, Index
<1>2. /\ t \in Seq(Written) /\ Len(t) = last
      /\ \A i \in 1 .. last : t[i] = row[i - 1]
  BY <1>1, TextIs
<1>3. Terminated(new) /\ HasText(new, last + 1)
  BY <1>1, InsertedTerminated, InsertedText
<1>4. /\ Text(new) \in Seq(Written) /\ Len(Text(new)) = last + 1
      /\ \A i \in 1 .. last + 1 : Text(new)[i] = new[i - 1]
  <2> HIDE DEF new
  <2>1. QED
    BY <1>1, <1>3, TextIs
<1> HIDE DEF t
<1>5. pos \in 0 .. Len(t)
  BY <1>2
<1>6. /\ w \in Seq(Written) /\ Len(w) = last + 1
      /\ \A i \in 1 .. last + 1 :
           w[i] = IF i <= pos THEN t[i] ELSE IF i = pos + 1 THEN c ELSE t[i - 1]
  <2>1. /\ w \in Seq(Written) /\ Len(w) = Len(t) + 1
        /\ \A i \in 1 .. Len(t) + 1 :
             w[i] = IF i <= pos THEN t[i] ELSE IF i = pos + 1 THEN c ELSE t[i - 1]
    <3>1. t \in Seq(Written) /\ c \in Written
      BY <1>2
    <3>2. w \in Seq(Written)
      BY <1>5, <3>1, InsertSeq
    <3>3. Len(w) = Len(t) + 1
      BY <1>5, <3>1, InsertSeq
    <3>4. \A i \in 1 .. Len(t) + 1 :
             w[i] = IF i <= pos THEN t[i] ELSE IF i = pos + 1 THEN c ELSE t[i - 1]
      BY <1>5, <3>1, InsertSeq
    <3>5. QED
      BY <3>2, <3>3, <3>4
  <2> HIDE DEF w
  <2>2. QED
    BY <1>2, <2>1
<1>7. ASSUME NEW i \in 1 .. last + 1 PROVE Text(new)[i] = w[i]
  <2>1. i - 1 \in Index /\ i \in Nat
    BY Sizes DEF Index
  <2>2. Text(new)[i] = IF i - 1 = pos THEN c
                       ELSE IF pos < i - 1 /\ i - 1 <= last
                            THEN row[i - 1 - 1] ELSE row[i - 1]
    BY <1>4, <2>1 DEF Inserted
  <2> HIDE DEF new, w
  <2>3. CASE i <= pos
    BY <1>2, <1>6, <2>1, <2>2, <2>3
  <2>4. CASE i = pos + 1
    BY <1>6, <2>1, <2>2, <2>4
  <2>5. CASE i > pos + 1
    <3>1. t[i - 1] = row[i - 1 - 1]
      BY <1>2, <2>1, <2>5
    <3>2. QED
      BY <1>6, <2>1, <2>2, <2>5, <3>1
  <2>6. QED
    BY <2>1, <2>3, <2>4, <2>5
<1> HIDE DEF new, w
<1>8. Text(new) = w
  BY <1>4, <1>6, <1>7, SeqEqual
<1>9. QED
  BY <1>8 DEF new, w, t

(* Both ways in which the code takes out a character.                      *)
LEMMA ErasedIs ==
  ASSUME NEW row, Terminated(row), NEW pos \in Nat, NEW last \in Nat,
         0 < pos, pos <= last, last <= BufSize - 1, HasText(row, last),
         NEW new,
         new = IF pos = last THEN [row EXCEPT ![pos - 1] = NUL]
               ELSE Erased(row, pos, last)
  PROVE  Text(new) = Without(Text(row), pos)
<1> DEFINE t == Text(row)
           w == Without(t, pos)
<1>1. last \in Index /\ last - 1 \in Index /\ pos - 1 \in Index /\ row \in Row
  BY Sizes DEF Index, Terminated
<1>2. /\ t \in Seq(Written) /\ Len(t) = last
      /\ \A i \in 1 .. last : t[i] = row[i - 1]
  BY <1>1, TextIs
<1>3. Terminated(new) /\ HasText(new, last - 1)
  <2>1. CASE pos = last
    BY <1>1, <2>1, NulTerminated, CutText
  <2>2. CASE pos # last
    BY <2>2, ErasedTerminated, ErasedText
  <2>3. QED
    BY <2>1, <2>2
<1>4. /\ Text(new) \in Seq(Written) /\ Len(Text(new)) = last - 1
      /\ \A i \in 1 .. last - 1 : Text(new)[i] = new[i - 1]
  BY <1>1, <1>3, TextIs
<1> HIDE DEF t
<1>5. pos \in 1 .. Len(t)
  BY <1>2
<1>6. /\ w \in Seq(Written) /\ Len(w) = last - 1
      /\ \A i \in 1 .. last - 1 : w[i] = IF i < pos THEN t[i] ELSE t[i + 1]
  BY <1>2, <1>5, EraseSeq
<1>7. ASSUME NEW i \in 1 .. last - 1 PROVE Text(new)[i] = w[i]
  <2>1. i - 1 \in Index /\ i \in Index /\ i \in Nat
    BY Sizes DEF Index
  <2>2. new[i - 1] = IF i < pos THEN row[i - 1] ELSE row[i]
    <3>1. CASE pos = last
      BY <1>1, <2>1, <3>1 DEF Row
    <3>2. CASE pos # last
      BY <2>1, <3>2 DEF Erased
    <3>3. QED
      BY <3>1, <3>2
  <2> HIDE DEF w
  <2>3. t[i] = row[i - 1] /\ t[i + 1] = row[i]
    BY <1>2, <2>1
  <2>4. QED
    BY <1>4, <1>6, <2>1, <2>2, <2>3
<1> HIDE DEF w
<1>8. Text(new) = w
  BY <1>4, <1>6, <1>7, SeqEqual
<1>9. QED
  BY <1>8 DEF w, t

-----------------------------------------------------------------------------
(* The rows behind row 0 that hold a command are the first n: an empty row *)
(* has no command behind it.                                               *)
Remembers(rows, n) ==
  /\ n \in 0 .. MaxCommands - 1
  /\ \A c \in 1 .. MaxCommands - 1 : rows[c][0] # NUL <=> c <= n

HistoryInv == \E n \in Nat : Remembers(buff, n)

StoredIn(rows) == {c \in 1 .. MaxCommands - 1 : rows[c][0] # NUL}

LEMMA StoredCount ==
  ASSUME NEW rows, NEW n, Remembers(rows, n)
  PROVE  /\ Cardinality(StoredIn(rows)) = n
         /\ n \in Nat /\ n <= MaxCommands - 1
<1>1. n \in Nat /\ n <= MaxCommands - 1
  BY Sizes DEF Remembers
<1>2. StoredIn(rows) = 1 .. n
  BY <1>1, Sizes DEF Remembers, StoredIn
<1>3. QED
  BY <1>1, <1>2, FS_Interval

(* How many commands are remembered after the line is logged.              *)
OneMore(n) == IF n < MaxCommands - 1 THEN n + 1 ELSE MaxCommands - 1

LEMMA LoggedRemembers ==
  ASSUME NEW rows, NEW n, Remembers(rows, n), rows[0][0] # NUL
  PROVE  Remembers(Logged(rows), OneMore(n))
<1>1. n \in Nat /\ n <= MaxCommands - 1 /\ OneMore(n) \in 0 .. MaxCommands - 1
  BY Sizes DEF Remembers, OneMore
<1>2. ASSUME NEW c \in 1 .. MaxCommands - 1
      PROVE  Logged(rows)[c][0] # NUL <=> c <= OneMore(n)
  <2>1. c \in Command /\ c \in Nat /\ c # 0
    BY Sizes DEF Command
  <2>2. Logged(rows)[c] = rows[c - 1]
    BY <2>1 DEF Logged
  <2>3. CASE c = 1
    BY <1>1, <2>2, <2>3, Sizes DEF OneMore
  <2>4. CASE c # 1
    <3>1. c - 1 \in 1 .. MaxCommands - 1
      BY <2>1, <2>4, Sizes
    <3>2. rows[c - 1][0] # NUL <=> c - 1 <= n
      BY <3>1 DEF Remembers
    <3>3. c - 1 <= n <=> c <= OneMore(n)
      BY <1>1, <2>1, Sizes DEF OneMore
    <3>4. QED
      BY <2>2, <3>2, <3>3
  <2>5. QED
    BY <2>3, <2>4
<1>3. QED
  BY <1>1, <1>2 DEF Remembers

LEMMA RowZeroRemembers ==
  ASSUME LineInv, NEW n, Remembers(buff, n), NEW row,
         buff' = [buff EXCEPT ![0] = row]
  PROVE  /\ Remembers(buff', n)
         /\ \A c \in 1 .. MaxCommands - 1 : buff'[c] = buff[c]
<1>1. buff \in [Command -> Row] /\ MaxCommands \in Nat
  BY LineInvRows, Sizes
<1>2. \A c \in 1 .. MaxCommands - 1 : c \in Command /\ c # 0
  BY <1>1 DEF Command
<1>3. \A c \in 1 .. MaxCommands - 1 : buff'[c] = buff[c]
  BY <1>1, <1>2
<1>4. QED
  BY <1>3 DEF Remembers

(* The actions that only put another row in place of row 0, if anything.   *)
LEMMA OnlyRowZero ==
  ASSUME LineInv, [Next]_vars, ~Enter
  PROVE  buff' = buff \/ \E row : buff' = [buff EXCEPT ![0] = row]
BY DEF Next, Right, Left, Modifier, CapsLock, ShiftKey, vars, Up, Down, SetLine,
       Backspace, Type, TypeWith

LEMMA HistoryStep == LineInv /\ HistoryInv /\ [Next]_vars => HistoryInv'
<1> SUFFICES ASSUME LineInv, HistoryInv, [Next]_vars PROVE HistoryInv'
  OBVIOUS
<1>1. PICK n \in Nat : Remembers(buff, n)
  BY DEF HistoryInv
<1>2. CASE Enter
  <2>1. CASE cmd_exists(0)
    <3>1. Remembers(buff', OneMore(n))
      BY <1>1, <1>2, <2>1, LoggedRemembers DEF Enter, cmd_exists
    <3>2. OneMore(n) \in Nat
      BY Sizes DEF OneMore
    <3>3. QED
      BY <3>1, <3>2 DEF HistoryInv
  <2>2. CASE ~cmd_exists(0)
    <3>1. buff' = buff
      BY <1>2, <2>2 DEF Enter
    <3>2. QED
      BY <1>1, <3>1 DEF HistoryInv
  <2>3. QED
    BY <2>1, <2>2
<1>3. CASE ~Enter
  <2>1. Remembers(buff', n)
    BY <1>1, <1>3, OnlyRowZero, RowZeroRemembers
  <2>2. QED
    BY <2>1 DEF HistoryInv
<1>4. QED
  BY <1>2, <1>3

LEMMA InitHistoryInv == Init => HistoryInv
<1> SUFFICES ASSUME Init PROVE HistoryInv
  OBVIOUS
<1>1. \A c \in 1 .. MaxCommands - 1 : c \in Command
  BY Sizes DEF Command
<1>2. \A c \in 1 .. MaxCommands - 1 : buff[c][0] = NUL
  BY <1>1, Sizes DEF Init, ZeroRow
<1>3. Remembers(buff, 0)
  BY <1>2, Sizes DEF Remembers
<1>4. QED
  BY <1>3 DEF HistoryInv

-----------------------------------------------------------------------------
(* The history of the mapping, row by row.                                 *)
Past(rows) == [c \in 1 .. Cardinality(StoredIn(rows)) |-> Text(rows[c])]

LEMMA PastIs ==
  ASSUME NEW rows, NEW n, Remembers(rows, n),
         \A c \in Command : Terminated(rows[c])
  PROVE  /\ n \in Nat
         /\ Past(rows) \in Seq(Seq(Written)) /\ Len(Past(rows)) = n
         /\ Past(rows) = [c \in 1 .. n |-> Text(rows[c])]
<1>1. n \in Nat /\ n <= MaxCommands - 1 /\ Cardinality(StoredIn(rows)) = n
  BY StoredCount
<1>2. \A c \in 1 .. n : Text(rows[c]) \in Seq(Written)
  <2>1. \A c \in 1 .. n : c \in Command
    BY <1>1, Sizes DEF Command
  <2>2. QED
    BY <2>1, TextOfRow
<1>3. Past(rows) = [c \in 1 .. n |-> Text(rows[c])]
  BY <1>1 DEF Past
<1>4. Past(rows) \in [1 .. n -> Seq(Written)]
  BY <1>2, <1>3
<1>5. QED
  BY <1>1, <1>3, <1>4

(* Row 0 alone is changed: the history of the mapping is not.              *)
LEMMA PastKept ==
  ASSUME LineInv, HistoryInv, NEW row, buff' = [buff EXCEPT ![0] = row]
  PROVE  Past(buff') = Past(buff)
<1>1. PICK n \in Nat : Remembers(buff, n)
  BY DEF HistoryInv
<1>2. /\ Remembers(buff', n)
      /\ \A c \in 1 .. MaxCommands - 1 : buff'[c] = buff[c]
  BY <1>1, RowZeroRemembers
<1>3. /\ Cardinality(StoredIn(buff)) = n /\ Cardinality(StoredIn(buff')) = n
      /\ n <= MaxCommands - 1
  BY <1>1, <1>2, StoredCount
<1>4. \A c \in 1 .. n : buff'[c] = buff[c]
  BY <1>2, <1>3, Sizes
<1>5. QED
  BY <1>3, <1>4 DEF Past

-----------------------------------------------------------------------------
RefInv == LineInv /\ TextInv /\ HistoryInv

LEMMA RefInvFacts ==
  ASSUME RefInv
  PROVE  /\ buff \in [Command -> Row] /\ 0 \in Command
         /\ \A c \in Command : Terminated(buff[c])
         /\ Terminated(temp)
         /\ endIdx \in Index /\ endIdx \in Nat /\ endIdx <= BufSize - 1
         /\ cursor \in Nat /\ cursor <= endIdx /\ curr \in Nat
         /\ Text(buff[0]) \in Seq(Written)
         /\ Len(Text(buff[0])) = Strlen(buff[0])
<1>1. /\ buff \in [Command -> Row] /\ 0 \in Command
      /\ \A c \in Command : Terminated(buff[c])
      /\ Terminated(temp) /\ endIdx \in Index
      /\ cursor \in Index /\ cursor <= endIdx /\ curr \in Command
  BY LineInvRows, Sizes DEF RefInv
<1>2. /\ Text(buff[0]) \in Seq(Written)
      /\ Len(Text(buff[0])) = Strlen(buff[0])
  BY <1>1, TextOfRow
<1>3. /\ endIdx \in Nat /\ endIdx <= BufSize - 1 /\ cursor \in Nat
      /\ curr \in Nat
  BY <1>1, Sizes DEF Index, Command
<1>4. QED
  BY <1>1, <1>2, <1>3

(* While no null character has been typed into the line.                   *)
LEMMA RefText ==
  ASSUME RefInv, 0 \notin nulled
  PROVE  HasText(buff[0], endIdx) /\ Len(Text(buff[0])) = endIdx
BY RefInvFacts, TextIs DEF RefInv, TextInv

LEMMA MoveMaps ==
  ASSUME RefInv, 0 \notin nulled, Right \/ Left
  PROVE  Abstract!Move
<1>1. /\ cursor' \in {cursor - 1, cursor + 1} /\ cursor' \in 0 .. endIdx
      /\ buff' = buff /\ temp' = temp
  BY RefInvFacts DEF Right, Left
<1>2. cursor' \in {cursor - 1, cursor + 1} \cap 0 .. Len(Text(buff[0]))
  BY <1>1, RefText
<1>3. QED
  BY <1>1, <1>2 DEF Abstract!Move, Stored, cmd_exists

LEMMA TypeMaps ==
  ASSUME RefInv, 0 \notin nulled, 0 \notin nulled',
         NEW k \in Key, NEW zero \in BytesAtZero, NEW c \in Char,
         TypeWith(k, zero, c)
  PROVE  \E d \in Written : Abstract!Insert(d)
<1> DEFINE row == Inserted(buff[0], cursor, endIdx, c)
<1>1. c \in Written
  BY DEF Written, TypeWith
<1>2. /\ endIdx < BufSize - 1
      /\ buff' = [buff EXCEPT ![0] = row]
      /\ cursor' = cursor + 1 /\ temp' = temp
  BY RefInvFacts, Sizes DEF TypeWith, Full
<1>3. Text(row) = WithNew(Text(buff[0]), cursor, c)
  BY <1>1, <1>2, RefInvFacts, RefText, InsertedIs
<1> HIDE DEF row
<1>4. Text(buff'[0]) = WithNew(Text(buff[0]), cursor, c)
  BY <1>2, <1>3, RefInvFacts
<1>5. Past(buff') = Past(buff)
  BY <1>2, PastKept DEF RefInv
<1>6. Len(Text(buff[0])) < BufSize - 1
  BY <1>2, RefText
<1>7. Abstract!Insert(c)
  BY <1>2, <1>4, <1>5, <1>6 DEF Abstract!Insert, Abstract!Before,
     Abstract!After, WithNew, Past, StoredIn, Stored, cmd_exists
<1>8. QED
  BY <1>1, <1>7

LEMMA BackspaceMaps ==
  ASSUME RefInv, 0 \notin nulled, Backspace
  PROVE  Abstract!Erase
<1> DEFINE row == IF cursor = endIdx THEN [buff[0] EXCEPT ![cursor - 1] = NUL]
                  ELSE Erased(buff[0], cursor, endIdx)
<1>1. /\ 0 < cursor
      /\ buff' = [buff EXCEPT ![0] = row]
      /\ cursor' = cursor - 1 /\ temp' = temp
  BY RefInvFacts DEF Backspace
<1>2. Text(row) = Without(Text(buff[0]), cursor)
  BY <1>1, RefInvFacts, RefText, ErasedIs
<1> HIDE DEF row
<1>3. Text(buff'[0]) = Without(Text(buff[0]), cursor)
  BY <1>1, <1>2, RefInvFacts
<1>4. Past(buff') = Past(buff)
  BY <1>1, PastKept DEF RefInv
<1>5. QED
  BY <1>1, <1>3, <1>4 DEF Abstract!Erase, Abstract!After, Without, Past,
     StoredIn, Stored, cmd_exists

(* Browsing shows a remembered command or the line put aside.              *)
LEMMA BrowseMaps ==
  ASSUME RefInv, NEW row, Terminated(row), SetLine(row),
         temp' = buff[0] \/ temp' = temp,
         row = temp \/ \E c \in 1 .. MaxCommands - 1 :
                         row = buff[c] /\ cmd_exists(c)
  PROVE  Abstract!Browse
<1>1. PICK n \in Nat : Remembers(buff, n)
  BY DEF RefInv, HistoryInv
<1>2. /\ buff' = [buff EXCEPT ![0] = row] /\ buff'[0] = row
      /\ cursor' = Strlen(row)
  BY RefInvFacts DEF SetLine
<1>3. Past(buff') = Past(buff)
  BY <1>2, PastKept DEF RefInv
<1>4. cursor' = Len(Text(buff'[0]))
  BY <1>2, TextOfRow
<1>5. /\ Past(buff) = [c \in 1 .. n |-> Text(buff[c])]
      /\ Len(Past(buff)) = n
  BY <1>1, RefInvFacts, PastIs
<1>6. \/ \E c \in 1 .. Len(Past(buff)) : Text(buff'[0]) = Past(buff)[c]
      \/ Text(buff'[0]) = Text(temp)
  <2>1. CASE row = temp
    BY <1>2, <2>1
  <2>2. ASSUME NEW c \in 1 .. MaxCommands - 1, row = buff[c], cmd_exists(c)
        PROVE  \E d \in 1 .. Len(Past(buff)) : Text(buff'[0]) = Past(buff)[d]
    <3>1. c \in 1 .. n
      BY <1>1, <2>2, Sizes DEF Remembers, cmd_exists
    <3>2. Past(buff)[c] = Text(buff'[0])
      BY <1>2, <1>5, <2>2, <3>1
    <3>3. QED
      BY <1>5, <3>1, <3>2
  <2>3. QED
    BY <2>1, <2>2
<1>7. Text(temp') \in {Text(temp), Text(buff[0])}
  OBVIOUS
<1>8. QED
  BY <1>3, <1>4, <1>6, <1>7 DEF Abstract!Browse, Past, StoredIn, Stored,
     cmd_exists

LEMMA UpMaps ==
  ASSUME RefInv, Up
  PROVE  Abstract!Browse
<1> DEFINE row == buff[curr + 1]
<1>1. /\ curr + 1 \in 1 .. MaxCommands - 1 /\ curr + 1 \in Command
      /\ cmd_exists(curr + 1) /\ SetLine(row)
      /\ temp' = buff[0] \/ temp' = temp
  BY RefInvFacts, Sizes DEF Up, Command
<1>2. Terminated(row)
  BY <1>1, RefInvFacts
<1>3. \E c \in 1 .. MaxCommands - 1 : row = buff[c] /\ cmd_exists(c)
  BY <1>1
<1> HIDE DEF row
<1>4. QED
  BY <1>1, <1>2, <1>3, BrowseMaps

LEMMA DownMaps ==
  ASSUME RefInv, Down
  PROVE  Abstract!Browse
<1> DEFINE row == IF curr = 1 THEN temp ELSE buff[curr - 1]
<1>1. curr \in Command /\ curr > 0 /\ curr \in Nat /\ curr <= MaxCommands - 1
  BY RefInvFacts, LineInvRows, Sizes DEF Down, Command, RefInv
<1>2. SetLine(row) /\ temp' = temp
  BY DEF Down
<1>3. Terminated(row)
  <2>1. curr - 1 \in Command
    BY <1>1, Sizes DEF Command
  <2>2. QED
    BY <2>1, RefInvFacts
<1>4. \/ row = temp
      \/ \E c \in 1 .. MaxCommands - 1 : row = buff[c] /\ cmd_exists(c)
  <2>1. CASE curr # 1
    <3>1. curr - 1 \in 1 .. MaxCommands - 1 /\ curr - 1 \in 1 .. curr
      BY <1>1, <2>1, Sizes
    <3>2. cmd_exists(curr - 1)
      BY <3>1 DEF RefInv, LineInv, BrowsedExists
    <3>3. QED
      BY <2>1, <3>1, <3>2
  <2>2. QED
    BY <2>1
<1> HIDE DEF row
<1>5. QED
  BY <1>2, <1>3, <1>4, BrowseMaps

LEMMA EmptyText ==
  /\ Text(ZeroRow) = << >> /\ Strlen(ZeroRow) = 0
  /\ \A row : Terminated(row) => /\ row[0] = NUL => /\ Text(row) = << >>
                                                   /\ Strlen(row) = 0
                                 /\ row[0] # NUL => Text(row) # << >>
<1>1. 0 \in Index /\ ZeroRow[0] = NUL /\ Terminated(ZeroRow)
  BY ZeroTerminated, Sizes DEF ZeroRow
<1>2. ASSUME NEW row, Terminated(row), row[0] = NUL
      PROVE  Text(row) = << >> /\ Strlen(row) = 0
  <2>1. Strlen(row) \in Nat /\ \A i \in 0 .. Strlen(row) - 1 : row[i] # NUL
    BY <1>2, StrlenFinds, Sizes DEF Index
  <2>2. Strlen(row) = 0
    BY <1>2, <2>1
  <2>3. Text(row) \in Seq(Written) /\ Len(Text(row)) = 0
    BY <1>2, <2>2, TextOfRow
  <2>4. QED
    BY <2>2, <2>3
<1>3. ASSUME NEW row, Terminated(row), row[0] # NUL
      PROVE  Text(row) # << >>
  <2>1. row[Strlen(row)] = NUL
    BY <1>3, StrlenFinds
  <2>2. Strlen(row) # 0
    BY <1>3, <2>1
  <2>3. Len(Text(row)) # 0
    BY <1>3, <2>2, TextOfRow
  <2>4. QED
    BY <2>3
<1>4. QED
  BY <1>1, <1>2, <1>3

LEMMA EnterMaps ==
  ASSUME RefInv, Enter
  PROVE  Abstract!Submit
<1> DEFINE line == Text(buff[0])
           h == Past(buff)
<1>1. PICK n \in Nat : Remembers(buff, n)
  BY DEF RefInv, HistoryInv
<1>2. /\ n <= MaxCommands - 1 /\ h \in Seq(Seq(Written)) /\ Len(h) = n
      /\ h = [c \in 1 .. n |-> Text(buff[c])]
  BY <1>1, StoredCount, RefInvFacts, PastIs
<1>3. Text(temp') = << >>
  BY EmptyText DEF Enter
<1>4. CASE cmd_exists(0)
  <2>1. buff' = Logged(buff) /\ buff'[0] = ZeroRow /\ cursor' = Strlen(buff'[0])
    BY <1>4, Sizes DEF Enter, Logged
  <2>2. Text(buff'[0]) = << >> /\ cursor' = 0
    BY <2>1, EmptyText
  <2>3. line \in Seq(Written) /\ line # << >>
    <3>1. Terminated(buff[0]) /\ buff[0][0] # NUL
      BY <1>4, RefInvFacts DEF cmd_exists
    <3>2. QED
      BY <3>1, RefInvFacts, EmptyText
  <2> DEFINE k == OneMore(n)
  <2>4. Remembers(buff', k)
    BY <1>1, <1>4, <2>1, LoggedRemembers DEF cmd_exists
  <2>5. Cardinality(StoredIn(buff')) = k /\ k \in 1 .. Len(h) + 1
    BY <1>2, <2>4, StoredCount, Sizes DEF OneMore
  <2>6. ASSUME NEW i \in 1 .. k
        PROVE  Text(buff'[i]) = IF i = 1 THEN line ELSE h[i - 1]
    <3>1. i \in Command /\ i # 0 /\ i \in Nat
      BY <2>4, Sizes DEF Remembers, Command
    <3>2. buff'[i] = buff[i - 1]
      BY <2>1, <3>1 DEF Logged
    <3>3. CASE i = 1
      BY <3>2, <3>3
    <3>4. CASE i # 1
      <4>1. i - 1 \in 1 .. n
        BY <1>2, <2>5, <3>1, <3>4
      <4>2. QED
        BY <1>2, <3>2, <3>4, <4>1
    <3>5. QED
      BY <3>3, <3>4
  <2>7. Past(buff') = [i \in 1 .. k |-> IF i = 1 THEN line ELSE h[i - 1]]
    BY <2>5, <2>6 DEF Past
  <2> HIDE DEF line, h, k
  <2>8. Past(buff') = SubSeq(<<line>> \o h, 1, k)
    BY <1>2, <2>3, <2>5, <2>7, PushSeq
  <2>9. k = IF Len(h) < MaxCommands - 1 THEN Len(h) + 1 ELSE MaxCommands - 1
    BY <1>2 DEF OneMore, k
  <2>10. QED
    BY <1>3, <2>2, <2>3, <2>8, <2>9 DEF Abstract!Submit, Past, StoredIn, Stored,
       cmd_exists, line, h
<1>5. CASE ~cmd_exists(0)
  <2>1. Terminated(buff[0]) /\ buff[0][0] = NUL
    BY <1>5, RefInvFacts DEF cmd_exists
  <2>2. buff' = buff /\ line = << >> /\ cursor' = 0
    BY <1>5, <2>1, EmptyText DEF Enter
  <2>3. QED
    BY <1>3, <2>2 DEF Abstract!Submit, Stored, cmd_exists
<1>6. QED
  BY <1>4, <1>5

LEMMA StutterMaps ==
  ASSUME Modifier \/ UNCHANGED vars
  PROVE  UNCHANGED Abstract!vars
<1>1. UNCHANGED <<buff, temp, cursor>>
  BY DEF Modifier, CapsLock, ShiftKey, vars
<1>2. QED
  BY <1>1 DEF Abstract!vars, Stored, cmd_exists

LEMMA InitMaps == Init => Abstract!Init
<1> SUFFICES ASSUME Init PROVE Abstract!Init
  OBVIOUS
<1>1. buff[0] = ZeroRow /\ temp = ZeroRow /\ cursor = 0
  BY Sizes DEF Init
<1>2. \A c \in 1 .. MaxCommands - 1 : buff[c][0] = NUL
  <2>1. \A c \in 1 .. MaxCommands - 1 : c \in Command
    BY Sizes DEF Command
  <2>2. QED
    BY <2>1, Sizes DEF Init, ZeroRow
<1>3. Cardinality(Stored) = 0
  <2>1. Stored = {}
    BY <1>2 DEF Stored, cmd_exists
  <2>2. QED
    BY <2>1, FS_EmptySet
<1>4. [c \in 1 .. Cardinality(Stored) |-> Text(buff[c])] = << >>
  BY <1>3
<1>5. QED
  BY <1>1, <1>4, EmptyText DEF Abstract!Init

(* What a step has to be, by the property.                                 *)
Allowed == \/ 0 \in nulled'
           \/ IF 0 \in nulled THEN Abstract!Browse \/ Abstract!Submit
              ELSE Abstract!Next

LEMMA StepMaps == RefInv /\ [Next]_vars => [Allowed]_(Abstract!vars)
<1> SUFFICES ASSUME RefInv, [Next]_vars, 0 \notin nulled'
             PROVE  Allowed \/ UNCHANGED Abstract!vars
  BY DEF Allowed
<1>1. CASE Right \/ Left
  <2>1. 0 \notin nulled
    BY <1>1 DEF Right, Left
  <2>2. QED
    BY <1>1, <2>1, MoveMaps DEF Abstract!Next, Allowed
<1>2. CASE Up \/ Down
  BY <1>2, UpMaps, DownMaps DEF Abstract!Next, Allowed
<1>3. CASE Backspace
  <2>1. 0 \notin nulled
    BY <1>3 DEF Backspace
  <2>2. QED
    BY <1>3, <2>1, BackspaceMaps DEF Abstract!Next, Allowed
<1>4. CASE Enter
  BY <1>4, EnterMaps DEF Abstract!Next, Allowed
<1>5. ASSUME NEW k \in Key, NEW zero \in BytesAtZero, NEW c \in Char,
             TypeWith(k, zero, c)
      PROVE  Allowed
  <2>1. 0 \notin nulled
    BY <1>5 DEF TypeWith
  <2>2. \E d \in Written : Abstract!Insert(d)
    BY <1>5, <2>1, TypeMaps
  <2>3. QED
    BY <2>1, <2>2 DEF Abstract!Next, Written, Allowed
<1>6. CASE Modifier \/ UNCHANGED vars
  BY <1>6, StutterMaps
<1>7. QED
  BY <1>1, <1>2, <1>3, <1>4, <1>5, <1>6 DEF Next, Type

(* The line editor, with its buffers, terminators and indices, implements  *)
(* the abstract input line: handle_keycode edits, browses and submits text *)
(* as LineBuffer says, for lines and histories of every length and         *)
(* whatever the byte at address 0, which keys missing from a table type.   *)
(* A line that a null was typed into is left, brought back and submitted   *)
(* as LineBuffer says too; editing it is what the promise leaves out.      *)
THEOREM EditorImplementsBuffer == Spec => ImplementsLineBuffer
<1>1. LineInv /\ LineInv' /\ TextInv /\ [Next]_vars => TextInv'
  BY TextStep
<1>2. LineInv /\ HistoryInv /\ [Next]_vars => HistoryInv'
  BY HistoryStep
<1>3. LineInv /\ TextInv /\ HistoryInv /\ [Next]_vars
        => [Allowed]_(Abstract!vars)
  BY StepMaps DEF RefInv
<1>4. QED
  BY InitTextInv, InitHistoryInv, InitMaps, LineInvAlways, <1>1, <1>2, <1>3, PTL
     DEF Spec, ImplementsLineBuffer, Allowed

-----------------------------------------------------------------------------
(* Loops.                                                                  *)
LEMMA LeastNat ==
  ASSUME NEW T, T \subseteq Nat, T # {}
  PROVE  \E n \in T : \A y \in T : n <= y
<1> DEFINE less == OpToRel(<, Nat)
<1>1. PICK n \in T : \A y \in T : <<y, n>> \notin less
  <2> HIDE DEF less
  <2>1. IsWellFoundedOn(less, Nat)
    BY NatLessThanWellFounded DEF less
  <2>2. QED
    BY <2>1, WFMin
<1>2. ASSUME NEW y \in T, y < n PROVE FALSE
  <2>1. y \in Nat /\ n \in Nat
    OBVIOUS
  <2>2. <<y, n>> \in less
    BY <2>1, <1>2 DEF OpToRel
  <2>3. QED
    BY <1>1, <2>2
<1>3. QED
  BY <1>2

LEMMA Loop ==
  ASSUME NEW n \in Nat, NEW T, 0 \in T,
         \A k \in 1 .. n : k - 1 \in T => k \in T
  PROVE  \A k \in 0 .. n : k \in T
<1> DEFINE B == {k \in 0 .. n : k \notin T}
<1>1. SUFFICES ASSUME B # {} PROVE FALSE
  OBVIOUS
<1>2. PICK k \in B : \A y \in B : k <= y
  <2>1. B \subseteq Nat
    OBVIOUS
  <2> HIDE DEF B
  <2>2. QED
    BY <1>1, <2>1, LeastNat
<1>3. k # 0 /\ k \in 1 .. n
  OBVIOUS
<1>4. k - 1 \in T
  BY <1>2, <1>3
<1>5. QED
  BY <1>3, <1>4

LEMMA GreatestIs ==
  ASSUME NEW s, s \subseteq Nat, NEW j \in s, \A x \in s : x <= j
  PROVE  Max(s) = j
<1>1. Max(s) = CHOOSE x \in s : \A y \in s : x >= y
  BY DEF Max
<1>2. \A y \in s : j >= y
  OBVIOUS
<1>3. Max(s) \in s /\ \A y \in s : Max(s) >= y
  BY <1>1, <1>2
<1>4. PICK m \in s : m = Max(s)
  BY <1>3
<1>5. QED
  BY <1>3, <1>4

(* One round of print_str, or of inc_textCursor_x_times.                   *)
Round(does, t, c) ==
  IncTextCursor(IF does = "print" THEN Printed(t, c) ELSE t)

(* g holds what the rounds make of s, one after the other.                 *)
Steps(g, does, s, w, n) ==
  g[0] = s /\ \A k \in 1 .. n : g[k] = Round(does, g[k - 1], w[k])

LEMMA Rounds ==
  ASSUME NEW does, NEW s, NEW w, NEW n \in Nat, DOMAIN w = 1 .. n
  PROVE  \E g : /\ Steps(g, does, s, w, n)
                /\ does = "print" => PrintStr(s, w) = g[n]
                /\ does = "move" /\ w = [i \in 1 .. n |-> i]
                     => IncTextCursorTimes(s, n) = g[n]
<1> DEFINE Upto(g, j) ==
             g = [x \in SUBSET (1 .. j) |->
                    IF x = {} THEN s ELSE Round(does, g[x \ {Max(x)}], w[Max(x)])]
           T == {j \in 0 .. n : \E g : Upto(g, j)}
<1>1. 0 \in T
  <2> DEFINE g == [x \in SUBSET (1 .. 0) |-> s]
  <2>1. Upto(g, 0)
    OBVIOUS
  <2> HIDE DEF g, Upto
  <2>2. QED
    BY <2>1
<1>2. ASSUME NEW j \in 1 .. n, j - 1 \in T PROVE j \in T
  <2>1. PICK g : Upto(g, j - 1)
    BY <1>2
  <2> DEFINE h == [x \in SUBSET (1 .. j) |->
                     IF j \in x THEN Round(does, g[x \ {j}], w[j]) ELSE g[x]]
  <2>2. ASSUME NEW x \in SUBSET (1 .. j)
        PROVE  h[x] = IF x = {} THEN s ELSE Round(does, h[x \ {Max(x)}], w[Max(x)])
    <3>1. CASE j \in x
      <4>1. Max(x) = j
        <5>1. x \subseteq Nat /\ \A y \in x : y <= j
          OBVIOUS
        <5> QED
          BY <3>1, <5>1, GreatestIs
      <4>2. x \ {j} \in SUBSET (1 .. j) /\ j \notin x \ {j} /\ x # {}
        BY <3>1
      <4>3. h[x \ {j}] = g[x \ {j}]
        BY <4>2
      <4> QED
        BY <3>1, <4>1, <4>2, <4>3
    <3>2. CASE j \notin x
      <4>1. x \in SUBSET (1 .. j - 1) /\ h[x] = g[x]
        BY <3>2
      <4>2. g[x] = IF x = {} THEN s ELSE Round(does, g[x \ {Max(x)}], w[Max(x)])
        BY <2>1, <4>1
      <4>3. x \ {Max(x)} \in SUBSET (1 .. j) /\ j \notin x \ {Max(x)}
        BY <3>2
      <4>4. h[x \ {Max(x)}] = g[x \ {Max(x)}]
        BY <4>3
      <4> QED
        BY <4>1, <4>2, <4>4
    <3> QED
      BY <3>1, <3>2
  <2>3. h = [x \in SUBSET (1 .. j) |-> h[x]]
    OBVIOUS
  <2> HIDE DEF h
  <2>4. Upto(h, j)
    BY <2>2, <2>3
  <2> HIDE DEF Upto
  <2>5. QED
    BY <2>4
<1>3. n \in T
  <2> HIDE DEF T
  <2>1. QED
    BY <1>1, <1>2, Loop
<1>4. \E g : Upto(g, n)
  BY <1>3
<1> DEFINE f == CHOOSE g : Upto(g, n)
<1>5. Upto(f, n)
  BY <1>4
<1>6. does = "print" => PrintStr(s, w) = f[1 .. n]
  BY DEF PrintStr, FoldLeft, MapThenFoldSet, Round
<1>11. does = "move" /\ w = [i \in 1 .. n |-> i] => IncTextCursorTimes(s, n) = f[1 .. n]
  BY DEF IncTextCursorTimes, FoldLeft, MapThenFoldSet, Round
<1> HIDE DEF f
<1> DEFINE r == [k \in 0 .. n |-> f[1 .. k]]
<1>7. r[0] = s
  BY <1>5
<1>8. ASSUME NEW k \in 1 .. n PROVE r[k] = Round(does, r[k - 1], w[k])
  <2> DEFINE x == 1 .. k
  <2>1. /\ x \in SUBSET (1 .. n) /\ x # {} /\ x \ {k} = 1 .. k - 1
        /\ k \in x /\ x \subseteq Nat /\ \A y \in x : y <= k
    OBVIOUS
  <2>2. r[k] = f[x] /\ r[k - 1] = f[x \ {k}]
    <3>1. r[k] = f[x] /\ r[k - 1] = f[1 .. k - 1]
      OBVIOUS
    <3> HIDE DEF x, r
    <3> QED
      BY <2>1, <3>1
  <2> HIDE DEF x, r
  <2>3. Max(x) = k
    BY <2>1, GreatestIs
  <2>4. QED
    BY <1>5, <2>1, <2>2, <2>3
<1>9. r[n] = f[1 .. n]
  OBVIOUS
<1> HIDE DEF r
<1>10. QED
  BY <1>6, <1>7, <1>8, <1>9, <1>11 DEF Steps

-----------------------------------------------------------------------------
(* The grid and what one drawing function does to it.                      *)
Glyph == Char \cup {Blank, Smudge, Output} \cup Range(Prompt)

Scr == [cells : [Cell -> Glyph], cursor : Int, start : Int]

LEMMA Grid ==
  /\ NumCols \in Nat \ {0} /\ NumRows \in Nat \ {0}
  /\ LastRow \in Nat /\ LastCell = LastRow + NumCols - 1 /\ LastCell \in Nat
  /\ Cell = 0 .. LastCell
  /\ Blank \in Glyph /\ Smudge \in Glyph /\ Output \in Glyph
<1>1. NumCols \in Nat \ {0} /\ NumRows \in Nat \ {0}
  BY VgaTextAssumption
<1>2. (NumRows - 1) * NumCols \in Nat
  BY <1>1
<1>3. NumRows * NumCols = (NumRows - 1) * NumCols + NumCols
  BY <1>1
<1>4. QED
  BY <1>1, <1>2, <1>3 DEF LastRow, LastCell, Cell, Glyph

(* Cells scrolled by: whole rows.                                          *)
Rows == {k * NumCols : k \in Nat}

LEMMA RowsAre ==
  /\ Rows \subseteq Nat /\ 0 \in Rows
  /\ \A d, e \in Rows : d + e \in Rows
  /\ NumCols \in Rows
  /\ \A d \in Rows : d = 0 \/ d >= NumCols
  /\ \A d, e \in Rows : d - e > 0 - NumCols => d - e \in Rows
<1>1. NumCols \in Nat \ {0}
  BY Grid
<1>2. ASSUME NEW k \in Nat PROVE k * NumCols \in Nat
  BY <1>1
<1>3. 0 = 0 * NumCols /\ NumCols = 1 * NumCols
  BY <1>1
<1>4. ASSUME NEW d \in Rows, NEW e \in Rows PROVE d + e \in Rows
  <2>1. PICK j \in Nat, k \in Nat : d = j * NumCols /\ e = k * NumCols
    BY DEF Rows
  <2>2. d + e = (j + k) * NumCols /\ j + k \in Nat
    BY <1>1, <2>1
  <2>3. QED
    BY <2>2 DEF Rows
<1>5. ASSUME NEW d \in Rows, d # 0 PROVE d >= NumCols
  <2>1. PICK k \in Nat : d = k * NumCols
    BY DEF Rows
  <2>2. k >= 1
    BY <1>1, <1>5, <2>1
  <2>3. QED
    BY <1>1, <2>1, <2>2
<1>6. ASSUME NEW d \in Rows, NEW e \in Rows, d - e > 0 - NumCols
      PROVE  d - e \in Rows
  <2>1. PICK j \in Nat, k \in Nat : d = j * NumCols /\ e = k * NumCols
    BY DEF Rows
  <2>2. d - e = (j - k) * NumCols
    BY <1>1, <2>1
  <2>3. j - k >= 0
    <3>1. SUFFICES ASSUME j - k <= 0 - 1 PROVE FALSE
      OBVIOUS
    <3>2. (j - k) * NumCols <= (0 - 1) * NumCols
      BY <1>1, <3>1
    <3>3. (0 - 1) * NumCols = 0 - NumCols
      BY <1>1
    <3>4. QED
      BY <1>1, <1>6, <2>2, <3>2, <3>3
  <2>4. QED
    BY <2>2, <2>3 DEF Rows
<1>7. QED
  BY <1>2, <1>3, <1>4, <1>5, <1>6 DEF Rows

LEMMA PrintedIs ==
  ASSUME NEW s \in Scr, NEW c \in Glyph, NEW t, t = Printed(s, c)
  PROVE  /\ t \in Scr /\ t.cursor = s.cursor /\ t.start = s.start
         /\ \A p \in Cell : t.cells[p] = IF p = s.cursor THEN c ELSE s.cells[p]
<1>1. CASE s.cursor \in Cell
  <2>1. t = [s EXCEPT !.cells[s.cursor] = c]
    BY <1>1 DEF Printed
  <2>2. /\ t.cursor = s.cursor /\ t.start = s.start
        /\ t.cells = [s.cells EXCEPT ![s.cursor] = c]
        /\ s.cells \in [Cell -> Glyph]
    BY <2>1 DEF Scr
  <2>3. t \in Scr
    BY <2>1 DEF Scr
  <2>4. QED
    BY <2>2, <2>3
<1>2. CASE s.cursor \notin Cell
  BY <1>2 DEF Printed
<1>3. QED
  BY <1>1, <1>2

(* Painting with what the cell shows leaves it as it is.                   *)
LEMMA PaintedIs ==
  ASSUME NEW s \in Scr, NEW c \in Glyph, NEW t, t = Painted(s, c)
  PROVE  /\ t \in Scr /\ t.cursor = s.cursor /\ t.start = s.start
         /\ \A p \in Cell : p # s.cursor => t.cells[p] = s.cells[p]
         /\ s.cursor \in Cell =>
              t.cells[s.cursor] = IF s.cells[s.cursor] = c \/ c = Blank
                                  THEN c ELSE Smudge
<1>1. CASE s.cursor \in Cell
  <2> DEFINE x == IF s.cells[s.cursor] = c \/ c = Blank THEN c ELSE Smudge
  <2>1. t = [s EXCEPT !.cells[s.cursor] = x]
    BY <1>1 DEF Painted
  <2>2. x \in Glyph
    BY Grid
  <2> HIDE DEF x
  <2>3. /\ t.cursor = s.cursor /\ t.start = s.start
        /\ t.cells = [s.cells EXCEPT ![s.cursor] = x]
        /\ s.cells \in [Cell -> Glyph]
    BY <2>1 DEF Scr
  <2>4. t \in Scr
    BY <2>1, <2>2 DEF Scr
  <2>5. QED
    BY <2>3, <2>4 DEF x
<1>2. CASE s.cursor \notin Cell
  BY <1>2 DEF Painted
<1>3. QED
  BY <1>1, <1>2

LEMMA ShiftedIs ==
  ASSUME NEW s \in Scr, NEW t, t = ShiftedUp(s)
  PROVE  /\ t \in Scr /\ t.cursor = s.cursor /\ t.start = s.start
         /\ \A p \in Cell :
              t.cells[p] = IF p + NumCols <= LastCell THEN s.cells[p + NumCols]
                           ELSE Blank
<1> DEFINE up == [p \in Cell |-> IF p < LastRow THEN s.cells[p + NumCols] ELSE Blank]
<1>1. t = [s EXCEPT !.cells = up]
  BY DEF ShiftedUp
<1>2. \A p \in Cell : /\ p < LastRow <=> p + NumCols <= LastCell
                      /\ p < LastRow => p + NumCols \in Cell
  BY Grid
<1>3. s.cells \in [Cell -> Glyph]
  BY DEF Scr
<1>4. up \in [Cell -> Glyph]
  BY <1>2, <1>3, Grid
<1>5. \A p \in Cell : up[p] = IF p + NumCols <= LastCell THEN s.cells[p + NumCols]
                              ELSE Blank
  BY <1>2
<1> HIDE DEF up
<1>6. t \in Scr /\ t.cursor = s.cursor /\ t.start = s.start /\ t.cells = up
  BY <1>1, <1>4 DEF Scr
<1>7. QED
  BY <1>5, <1>6

LEMMA IncIs ==
  ASSUME NEW s \in Scr, s.cursor \in Cell, NEW t, t = IncTextCursor(s)
  PROVE  /\ t \in Scr /\ t.cursor \in Cell
         /\ \E d \in {0, NumCols} :
              /\ t.cursor = s.cursor + 1 - d /\ t.start = s.start - d
              /\ d # 0 => t.cursor = LastRow
              /\ \A p \in Cell :
                   t.cells[p] = IF p + d <= LastCell THEN s.cells[p + d] ELSE Blank
<1>1. CASE s.cursor = LastCell
  <2> DEFINE up == ShiftedUp(s)
  <2>1. t = [up EXCEPT !.cursor = LastRow, !.start = @ - NumCols]
    BY <1>1 DEF IncTextCursor
  <2>2. /\ up \in Scr /\ up.start = s.start
        /\ \A p \in Cell :
             up.cells[p] = IF p + NumCols <= LastCell THEN s.cells[p + NumCols]
                           ELSE Blank
    BY ShiftedIs
  <2> HIDE DEF up
  <2>3. /\ t \in Scr /\ t.cursor = LastRow /\ t.start = s.start - NumCols
        /\ t.cells = up.cells
    <3>1. LastRow \in Int /\ up.start - NumCols \in Int
      BY <2>2, Grid DEF Scr
    <3>2. t = [up EXCEPT !.cursor = LastRow, !.start = up.start - NumCols]
      BY <2>1
    <3>3. QED
      BY <2>2, <3>1, <3>2 DEF Scr
  <2>4. t.cursor \in Cell /\ t.cursor = s.cursor + 1 - NumCols
    BY <1>1, <2>3, Grid
  <2>5. QED
    BY <2>2, <2>3, <2>4
<1>2. CASE s.cursor # LastCell
  <2>1. t = [s EXCEPT !.cursor = @ + 1]
    BY <1>2 DEF IncTextCursor
  <2>2. /\ t \in Scr /\ t.cursor = s.cursor + 1 /\ t.start = s.start
        /\ t.cells = s.cells
    BY <2>1 DEF Scr
  <2>3. t.cursor \in Cell /\ t.start = s.start - 0 /\ t.cursor = s.cursor + 1 - 0
    BY <1>2, <2>2, Grid DEF Scr
  <2>4. \A p \in Cell : p + 0 = p /\ p + 0 <= LastCell
    BY Grid
  <2>5. \A p \in Cell :
          t.cells[p] = IF p + 0 <= LastCell THEN s.cells[p + 0] ELSE Blank
    BY <2>2, <2>4
  <2>6. QED
    BY <2>2, <2>3, <2>5
<1>3. QED
  BY <1>1, <1>2

RoundBy(does, s, c, t, d) ==
  /\ t.cursor = s.cursor + 1 - d /\ t.start = s.start - d
  /\ d # 0 => t.cursor = LastRow
  /\ does = "print" => \A p \in Cell :
       t.cells[p] = IF p + d = s.cursor THEN c
                    ELSE IF p + d <= LastCell THEN s.cells[p + d]
                    ELSE Blank

LEMMA RoundIs ==
  ASSUME NEW does, NEW s \in Scr, s.cursor \in Cell, NEW c,
         does = "print" => c \in Glyph, NEW t, t = Round(does, s, c)
  PROVE  /\ t \in Scr /\ t.cursor \in Cell
         /\ \E d \in {0, NumCols} : RoundBy(does, s, c, t, d)
<1> DEFINE u == IF does = "print" THEN Printed(s, c) ELSE s
<1>1. t = IncTextCursor(u)
  BY DEF Round
<1>2. /\ u \in Scr /\ u.cursor = s.cursor /\ u.start = s.start
      /\ does = "print" => \A p \in Cell :
           u.cells[p] = IF p = s.cursor THEN c ELSE s.cells[p]
  <2>1. CASE does = "print"
    BY <2>1, PrintedIs
  <2>2. CASE does # "print"
    BY <2>2
  <2>3. QED
    BY <2>1, <2>2
<1> HIDE DEF u
<1>3. PICK d \in {0, NumCols} :
        /\ t.cursor = u.cursor + 1 - d /\ t.start = u.start - d
        /\ d # 0 => t.cursor = LastRow
        /\ \A p \in Cell :
             t.cells[p] = IF p + d <= LastCell THEN u.cells[p + d] ELSE Blank
  BY <1>1, <1>2, IncIs
<1>4. t \in Scr /\ t.cursor \in Cell
  BY <1>1, <1>2, IncIs
<1>5. ASSUME does = "print", NEW p \in Cell
      PROVE  t.cells[p] = IF p + d = s.cursor THEN c
                          ELSE IF p + d <= LastCell THEN s.cells[p + d] ELSE Blank
  <2>1. p + d \in Nat /\ (p + d <= LastCell => p + d \in Cell)
    BY Grid
  <2>2. p + d = s.cursor => p + d <= LastCell
    BY Grid
  <2>3. QED
    BY <1>2, <1>3, <1>5, <2>1, <2>2
<1>6. RoundBy(does, s, c, t, d)
  BY <1>2, <1>3, <1>5 DEF RoundBy
<1>7. QED
  BY <1>4, <1>6

(* What is at x, counted in the cells of s, once the n characters of w are *)
(* drawn from the cursor on.                                               *)
Drawn(s, w, n, x) ==
  IF s.cursor <= x /\ x < s.cursor + n THEN w[x - s.cursor + 1]
  ELSE IF x <= LastCell THEN s.cells[x] ELSE Blank

(* t is s after the n characters of w have been drawn from the cursor on,  *)
(* and the screen scrolled as far as they needed.                          *)
DrawnBy(s, w, n, t, d) ==
  /\ t.cursor = s.cursor + n - d /\ t.start = s.start - d
  /\ d = 0 \/ t.cursor >= LastRow
  /\ \A p \in Cell : t.cells[p] = Drawn(s, w, n, p + d)

LEMMA DrawnOneMore ==
  ASSUME NEW s \in Scr, s.cursor \in Cell, NEW w, NEW j \in Nat,
         NEW u \in Scr, u.cursor \in Cell, NEW d \in Rows, DrawnBy(s, w, j, u, d),
         NEW v, NEW e \in {0, NumCols}, RoundBy("print", u, w[j + 1], v, e)
  PROVE  DrawnBy(s, w, j + 1, v, d + e)
<1>1. /\ s.cursor \in Nat /\ u.cursor \in Nat /\ u.cursor <= LastCell
      /\ s.start \in Int /\ d \in Nat /\ e \in Nat /\ LastCell \in Nat
  BY Grid, RowsAre DEF Scr
<1>2. /\ u.cursor = s.cursor + j - d /\ u.start = s.start - d
      /\ v.cursor = u.cursor + 1 - e /\ v.start = u.start - e
      /\ d = 0 \/ u.cursor >= LastRow
      /\ e # 0 => v.cursor = LastRow
  BY DEF DrawnBy, RoundBy
<1>3. v.cursor = s.cursor + (j + 1) - (d + e) /\ v.start = s.start - (d + e)
  BY <1>1, <1>2
<1>4. d + e = 0 \/ v.cursor >= LastRow
  BY <1>1, <1>2, Grid
<1>5. ASSUME NEW p \in Cell PROVE v.cells[p] = Drawn(s, w, j + 1, p + (d + e))
  <2>1. PICK q \in Nat : q = p + e
    BY <1>1, Grid
  <2>2. PICK x \in Nat : x = q + d
    BY <1>1
  <2>3. x = p + (d + e)
    BY <1>1, <2>1, <2>2, Grid
  <2>4. v.cells[p] = IF q = u.cursor THEN w[j + 1]
                     ELSE IF q <= LastCell THEN u.cells[q] ELSE Blank
    BY <2>1 DEF RoundBy
  <2>5. SUFFICES v.cells[p] = Drawn(s, w, j + 1, x)
    BY <2>3
  <2>6. CASE q = u.cursor
    <3>1. x = s.cursor + j
      BY <1>1, <1>2, <2>2, <2>6
    <3>2. PICK i \in Nat : i = x - s.cursor + 1
      BY <1>1, <3>1
    <3>3. s.cursor <= x /\ x < s.cursor + (j + 1) /\ i = j + 1
      BY <1>1, <3>1, <3>2
    <3>4. Drawn(s, w, j + 1, x) = w[i]
      BY <3>2, <3>3 DEF Drawn
    <3>5. QED
      BY <2>4, <2>6, <3>3, <3>4
  <2>7. CASE q # u.cursor /\ q <= LastCell
    <3>1. q \in Cell
      BY <2>7, Grid
    <3>2. u.cells[q] = Drawn(s, w, j, x)
      BY <2>2, <3>1 DEF DrawnBy
    <3>3. x < s.cursor + j <=> x < s.cursor + (j + 1)
      <4>1. x # s.cursor + j
        BY <1>1, <1>2, <2>2, <2>7
      <4>2. QED
        BY <1>1, <4>1
    <3>4. v.cells[p] = u.cells[q]
      BY <2>4, <2>7
    <3>5. Drawn(s, w, j, x) = Drawn(s, w, j + 1, x)
      BY <3>3, Zenon DEF Drawn
    <3>6. QED
      BY <3>2, <3>4, <3>5
  <2>8. CASE q > LastCell
    <3>1. ~(x < s.cursor + (j + 1)) /\ ~(x <= LastCell) /\ q # u.cursor /\ ~(q <= LastCell)
      BY <1>1, <1>2, <2>2, <2>8
    <3>2. QED
      BY <2>4, <3>1 DEF Drawn
  <2>9. QED
    BY <1>1, <2>6, <2>7, <2>8
<1>6. QED
  BY <1>3, <1>4, <1>5 DEF DrawnBy

LEMMA DrawnNothing ==
  ASSUME NEW s \in Scr, s.cursor \in Cell, NEW w
  PROVE  DrawnBy(s, w, 0, s, 0)
<1>1. /\ s.cursor = s.cursor + 0 - 0 /\ s.start = s.start - 0
      /\ \A p \in Cell : p + 0 = p /\ p <= LastCell
      /\ \A p \in Cell : ~(s.cursor <= p /\ p < s.cursor + 0)
  BY Grid DEF Scr
<1>2. \A p \in Cell : Drawn(s, w, 0, p + 0) = s.cells[p]
  BY <1>1 DEF Drawn
<1>3. QED
  BY <1>1, <1>2 DEF DrawnBy

(* What a round keeps true.                                                *)
DrawnSoFar(s, w, k, u) ==
  u \in Scr /\ u.cursor \in Cell /\ \E d \in Rows : DrawnBy(s, w, k, u, d)

LEMMA PrintShows ==
  ASSUME NEW s \in Scr, s.cursor \in Cell, NEW n \in Nat, NEW w,
         DOMAIN w = 1 .. n, \A i \in 1 .. n : w[i] \in Glyph
  PROVE  DrawnSoFar(s, w, n, PrintStr(s, w))
<1>1. PICK g : Steps(g, "print", s, w, n) /\ PrintStr(s, w) = g[n]
  BY Rounds
<1> DEFINE T == {k \in 0 .. n : DrawnSoFar(s, w, k, g[k])}
<1>2. 0 \in T
  <2>1. g[0] = s
    BY <1>1 DEF Steps
  <2>2. DrawnSoFar(s, w, 0, s)
    BY RowsAre, DrawnNothing DEF DrawnSoFar
  <2>3. QED
    BY <2>1, <2>2
<1>3. ASSUME NEW k \in 1 .. n, k - 1 \in T PROVE k \in T
  <2>1. PICK u : u = g[k - 1]
    OBVIOUS
  <2>2. PICK j \in Nat : j = k - 1
    OBVIOUS
  <2>3. j + 1 = k
    BY <2>2
  <2>4. g[k] = Round("print", u, w[k]) /\ DrawnSoFar(s, w, j, u)
    BY <1>1, <1>3, <2>1, <2>2 DEF Steps
  <2>5. w[k] \in Glyph
    OBVIOUS
  <2>6. u \in Scr /\ u.cursor \in Cell
    BY <2>4 DEF DrawnSoFar
  <2>7. PICK d \in Rows : DrawnBy(s, w, j, u, d)
    BY <2>4 DEF DrawnSoFar
  <2>8. /\ g[k] \in Scr /\ g[k].cursor \in Cell
        /\ \E e \in {0, NumCols} : RoundBy("print", u, w[k], g[k], e)
    BY <2>4, <2>5, <2>6, RoundIs
  <2>9. PICK e \in {0, NumCols} : RoundBy("print", u, w[k], g[k], e)
    BY <2>8
  <2>10. DrawnBy(s, w, k, g[k], d + e)
    BY <2>3, <2>6, <2>7, <2>9, DrawnOneMore
  <2>11. d + e \in Rows
    BY RowsAre
  <2>12. QED
    BY <2>8, <2>10, <2>11 DEF DrawnSoFar
<1>4. n \in T
  <2> HIDE DEF T
  <2>1. QED
    BY <1>2, <1>3, Loop
<1>5. QED
  BY <1>1, <1>4

(* It only scrolls if the characters do not fit.                           *)
LEMMA NoScroll ==
  ASSUME NEW s \in Scr, NEW n \in Nat, NEW w, NEW t, t.cursor \in Cell,
         NEW d \in Rows, DrawnBy(s, w, n, t, d), s.cursor + n <= LastCell
  PROVE  d = 0
<1>1. t.cursor = s.cursor + n - d /\ (d = 0 \/ t.cursor >= LastRow)
  BY DEF DrawnBy
<1>2. d \in Nat /\ (d = 0 \/ d >= NumCols) /\ s.cursor \in Int
  BY RowsAre DEF Scr
<1>3. QED
  BY <1>1, <1>2, Grid

LEMMA DecIs ==
  ASSUME NEW s \in Scr, s.cursor \in Cell, NEW t, t = DecTextCursor(s)
  PROVE  /\ t \in Scr /\ t.cursor \in Cell
         /\ t.cursor = IF s.cursor = 0 THEN 0 ELSE s.cursor - 1
         /\ t.start = s.start /\ t.cells = s.cells
<1>1. CASE s.cursor = 0
  BY <1>1 DEF DecTextCursor
<1>2. CASE s.cursor # 0
  <2>1. t = [s EXCEPT !.cursor = s.cursor - 1]
    BY <1>2 DEF DecTextCursor
  <2>2. s.cursor - 1 \in Cell /\ s.cursor - 1 \in Int
    BY <1>2, Grid
  <2>3. QED
    BY <1>2, <2>1, <2>2 DEF Scr
<1>3. QED
  BY <1>1, <1>2

LEMMA PutBackIs ==
  ASSUME NEW s \in Scr, NEW p \in Int, NEW t, t = PutBack(s, p)
  PROVE  t \in Scr /\ t.cursor = p /\ t.start = s.start /\ t.cells = s.cells
BY DEF PutBack, Scr

(* Painting with what the cell shows is nothing at all.                    *)
LEMMA SamePaint ==
  ASSUME NEW s \in Scr, s.cursor \in Cell, NEW c, s.cells[s.cursor] = c
  PROVE  Painted(s, c) = s
<1>1. s.cells = [s.cells EXCEPT ![s.cursor] = c]
  BY DEF Scr
<1>2. Painted(s, c) = [s EXCEPT !.cells[s.cursor] = c]
  BY DEF Painted
<1>3. [s EXCEPT !.cells[s.cursor] = c] = [s EXCEPT !.cells = [s.cells EXCEPT ![s.cursor] = c]]
  OBVIOUS
<1>4. [s EXCEPT !.cells = s.cells] = s
  BY DEF Scr
<1>5. QED
  BY <1>1, <1>2, <1>3, <1>4

(* x cells are blank from the cursor on.                                   *)
Cleared(s, x, t) ==
  \A p \in Cell : t.cells[p] = IF s.cursor <= p /\ p < s.cursor + x THEN Blank
                               ELSE s.cells[p]

LEMMA ClearShows ==
  ASSUME NEW s \in Scr, s.cursor \in Cell, NEW x \in Nat,
         NEW t, t = ClearCells(s, x)
  PROVE  /\ t \in Scr /\ t.cursor = s.cursor
         /\ \E d \in Rows : t.start = s.start - d
         /\ s.cursor + x - 1 <= LastCell => t.start = s.start /\ Cleared(s, x, t)
<1>1. CASE x = 0
  <2>1. t = s
    BY <1>1 DEF ClearCells
  <2>2. s.start = s.start - 0 /\ s.cursor \in Nat
    BY Grid DEF Scr
  <2>3. Cleared(s, x, t)
    BY <1>1, <2>1, <2>2, Grid DEF Cleared
  <2>4. QED
    BY <2>1, <2>2, <2>3, RowsAre
<1>2. CASE x # 0
  <2> DEFINE w == [i \in 1 .. x - 1 |-> Blank]
             u == PrintStr(s, w)
             v == Printed(u, Blank)
  <2>1. t = [v EXCEPT !.cursor = s.cursor]
    BY <1>2 DEF ClearCells
  <2>2. PICK n \in Nat : n = x - 1
    BY <1>2
  <2>3. DOMAIN w = 1 .. n /\ \A i \in 1 .. n : w[i] = Blank /\ w[i] \in Glyph
    BY <2>2, Grid
  <2> HIDE DEF w
  <2>4. DrawnSoFar(s, w, n, u)
    BY <2>3, PrintShows
  <2> HIDE DEF u
  <2>5. u \in Scr /\ u.cursor \in Cell
    BY <2>4 DEF DrawnSoFar
  <2>6. PICK d \in Rows : DrawnBy(s, w, n, u, d)
    BY <2>4 DEF DrawnSoFar
  <2>7. /\ v \in Scr /\ v.start = u.start
        /\ \A p \in Cell : v.cells[p] = IF p = u.cursor THEN Blank ELSE u.cells[p]
    BY <2>5, PrintedIs, Grid
  <2> HIDE DEF v
  <2>8. t \in Scr /\ t.cursor = s.cursor /\ t.start = v.start /\ t.cells = v.cells
    BY <2>1, <2>7 DEF Scr
  <2>9. t.start = s.start - d
    BY <2>6, <2>7, <2>8 DEF DrawnBy
  <2>10. ASSUME s.cursor + x - 1 <= LastCell
         PROVE  t.start = s.start /\ Cleared(s, x, t)
    <3>1. s.cursor \in Nat /\ LastCell \in Nat /\ s.start \in Int
      BY Grid DEF Scr
    <3>2. s.cursor + n <= LastCell
      BY <2>2, <2>10, <3>1
    <3>3. d = 0
      BY <2>5, <2>6, <3>2, NoScroll
    <3>4. u.cursor = s.cursor + n
      BY <2>6, <3>1, <3>3 DEF DrawnBy
    <3>5. ASSUME NEW p \in Cell
          PROVE  t.cells[p] = IF s.cursor <= p /\ p < s.cursor + x THEN Blank
                              ELSE s.cells[p]
      <4>1. p + d = p /\ p \in Nat /\ p <= LastCell
        BY <3>3, Grid
      <4>2. u.cells[p] = Drawn(s, w, n, p)
        BY <2>6, <4>1 DEF DrawnBy
      <4>3. CASE p = u.cursor
        BY <2>2, <2>7, <2>8, <3>1, <3>4, <4>3
      <4>4. CASE s.cursor <= p /\ p < s.cursor + n
        <5>1. PICK i \in 1 .. n : i = p - s.cursor + 1
          BY <3>1, <4>1, <4>4
        <5>2. u.cells[p] = w[i]
          BY <4>2, <4>4, <5>1 DEF Drawn
        <5>3. p # u.cursor /\ p < s.cursor + x
          BY <2>2, <3>1, <3>4, <4>1, <4>4
        <5>4. QED
          BY <2>3, <2>7, <2>8, <4>4, <5>2, <5>3
      <4>5. CASE p # u.cursor /\ ~(s.cursor <= p /\ p < s.cursor + n)
        <5>1. ~(s.cursor <= p /\ p < s.cursor + x)
          BY <2>2, <3>1, <3>4, <4>1, <4>5
        <5>2. u.cells[p] = s.cells[p]
          BY <4>1, <4>2, <4>5 DEF Drawn
        <5>3. QED
          BY <2>7, <2>8, <4>5, <5>1, <5>2
      <4>6. QED
        BY <4>3, <4>4, <4>5
    <3>6. QED
      BY <2>9, <3>1, <3>3, <3>5 DEF Cleared
  <2>11. QED
    BY <2>8, <2>9, <2>10
<1>3. QED
  BY <1>1, <1>2

-----------------------------------------------------------------------------
(* What is drawn of a row of command_buff.                                 *)
LEMMA TailIs ==
  ASSUME NEW row, Terminated(row), NEW n \in Index, HasText(row, n),
         NEW j \in 0 .. n
  PROVE  /\ DOMAIN TextFrom(row, j) = 1 .. n - j
         /\ \A i \in 1 .. n - j : TextFrom(row, j)[i] = row[j + i - 1]
         /\ \A i \in 1 .. n - j : TextFrom(row, j)[i] \in Glyph
<1>1. n \in Nat /\ j \in Nat /\ j <= n /\ j \in Index /\ BufSize \in Nat
      /\ n <= BufSize - 1
  BY Sizes DEF Index
<1>2. EndFrom(row, j) = n
  <2>1. PICK e \in Index : e = EndFrom(row, j)
    BY <1>1, EndFromFinds
  <2>2. j <= e /\ row[e] = NUL /\ \A i \in j .. e - 1 : row[i] # NUL
    BY <1>1, <2>1, EndFromFinds
  <2>3. row[n] = NUL /\ n <= e /\ e \in Nat
    BY <1>1, <2>2, Sizes DEF HasText, Index
  <2>4. n \notin j .. e - 1
    BY <2>2, <2>3
  <2>5. QED
    BY <1>1, <2>1, <2>3, <2>4
<1>3. TextFrom(row, j) = [i \in 1 .. n - j |-> row[j + i - 1]]
  BY <1>2 DEF TextFrom
<1>4. ASSUME NEW i \in 1 .. n - j PROVE row[j + i - 1] \in Glyph
  <2>1. j + i - 1 \in Index
    BY <1>1 DEF Index
  <2>2. QED
    BY <2>1 DEF Terminated, Row, Glyph
<1>5. QED
  BY <1>3, <1>4

LEMMA WholeIs ==
  ASSUME NEW row, Terminated(row), NEW n \in Index, HasText(row, n)
  PROVE  /\ DOMAIN Text(row) = 1 .. n
         /\ \A i \in 1 .. n : Text(row)[i] = row[i - 1]
         /\ \A i \in 1 .. n : Text(row)[i] \in Glyph
BY TextIs DEF Written, Glyph

(* What the cells from the start of the line on had better show.           *)
Line(row, i) == IF i \in Index THEN row[i] ELSE Blank

Shows(s, row) ==
  \A p \in Cell : p >= s.start => s.cells[p] = Line(row, p - s.start)

LEMMA LineEnds ==
  ASSUME NEW row, NEW n \in Index, HasText(row, n), NEW i \in Int, i >= n
  PROVE  Line(row, i) = Blank
BY TerminalAssumption DEF Line, HasText

(* A row of n characters, printed where the line starts onto cells that    *)
(* are blank behind it.                                                    *)
LEMMA TextShown ==
  ASSUME NEW s \in Scr, s.cursor \in Cell, s.start = s.cursor,
         NEW row, Terminated(row), NEW n \in Index, HasText(row, n),
         \A p \in Cell : p >= s.start + n => s.cells[p] = Blank,
         NEW t, t = PrintStr(s, Text(row))
  PROVE  /\ t \in Scr /\ t.cursor \in Cell /\ t.cursor = t.start + n
         /\ \E d \in Rows : /\ t.start = s.start - d
                            /\ d = 0 \/ t.cursor >= LastRow
         /\ Shows(t, row)
<1>1. n \in Nat /\ s.cursor \in Nat
  BY Grid DEF Index
<1> DEFINE w == Text(row)
<1>2. /\ DOMAIN w = 1 .. n /\ \A i \in 1 .. n : w[i] \in Glyph
      /\ \A i \in 1 .. n : w[i] = row[i - 1]
  BY WholeIs
<1> HIDE DEF w
<1>3. DrawnSoFar(s, w, n, t)
  BY <1>1, <1>2, PrintShows DEF w
<1>4. t \in Scr /\ t.cursor \in Cell
  BY <1>3 DEF DrawnSoFar
<1>5. PICK d \in Rows : DrawnBy(s, w, n, t, d)
  BY <1>3 DEF DrawnSoFar
<1>6. /\ t.cursor = s.cursor + n - d /\ t.start = s.start - d
      /\ d = 0 \/ t.cursor >= LastRow
  BY <1>5 DEF DrawnBy
<1>7. d \in Nat
  BY RowsAre
<1>8. ASSUME NEW p \in Cell, p >= t.start
      PROVE  t.cells[p] = Line(row, p - t.start)
  <2>1. p \in Nat
    BY Grid
  <2>2. PICK x \in Nat : x = p + d
    BY <1>7, <2>1
  <2>3. PICK i \in Nat : i = x - s.cursor
    BY <1>1, <1>6, <1>7, <1>8, <2>1, <2>2
  <2>4. i = p - t.start /\ x >= s.cursor
    BY <1>1, <1>6, <1>7, <2>1, <2>2, <2>3
  <2>5. t.cells[p] = Drawn(s, w, n, x)
    BY <1>5, <2>2 DEF DrawnBy
  <2>6. CASE i < n
    <3>1. PICK k \in 1 .. n : k = x - s.cursor + 1 /\ i = k - 1
      BY <1>1, <2>3, <2>6
    <3>2. x < s.cursor + n
      BY <1>1, <2>3, <2>6
    <3>3. Drawn(s, w, n, x) = w[k]
      BY <2>4, <3>1, <3>2 DEF Drawn
    <3>4. i \in Index
      BY <1>1, <2>6, Sizes DEF Index
    <3>5. Line(row, i) = row[i]
      BY <3>4 DEF Line
    <3>6. QED
      BY <1>2, <2>4, <2>5, <3>1, <3>3, <3>5
  <2>7. CASE i >= n
    <3>1. ~(x < s.cursor + n) /\ x >= s.start + n
      BY <1>1, <2>3, <2>7
    <3>2. x <= LastCell => x \in Cell
      BY Grid
    <3>3. Drawn(s, w, n, x) = Blank
      BY <3>1, <3>2 DEF Drawn
    <3>4. Line(row, i) = Blank
      BY <1>1, <2>7, LineEnds
    <3>5. QED
      BY <2>4, <2>5, <3>3, <3>4
  <2>8. QED
    BY <1>1, <2>6, <2>7
<1>9. t.cursor = t.start + n
  BY <1>1, <1>6, <1>7
<1>10. QED
  BY <1>4, <1>6, <1>8, <1>9 DEF Shows

-----------------------------------------------------------------------------
(* The screen while the text cursor has not been led astray: the line and  *)
(* its text cursor end on it.                                              *)
ScreenInv ==
  /\ scr \in Scr /\ scr.cursor \in Cell
  /\ scr.start + endIdx <= LastCell
  /\ scr.start + cursor <= scr.cursor
  /\ nulled = {}

LEMMA RowFacts ==
  ASSUME LineInv
  PROVE  /\ endIdx \in Nat /\ cursor \in Nat /\ cursor <= endIdx
         /\ endIdx \in Index /\ cursor \in Index
         /\ Terminated(buff[0]) /\ \A i \in Index : buff[0][i] \in Glyph
<1>1. /\ buff[0] \in Row /\ buff[0][BufSize - 1] = NUL
      /\ endIdx \in Index /\ cursor \in Index /\ cursor <= endIdx
  BY Sizes DEF LineInv, TypeOK, RowsTerminated
<1>2. endIdx \in Nat /\ cursor \in Nat
  BY <1>1 DEF Index
<1>3. Terminated(buff[0]) /\ \A i \in Index : buff[0][i] \in Glyph
  BY <1>1 DEF Terminated, Row, Glyph
<1>4. QED
  BY <1>1, <1>2, <1>3

LEMMA RowFactsNext ==
  ASSUME LineInv'
  PROVE  /\ endIdx' \in Nat /\ cursor' \in Nat /\ cursor' <= endIdx'
         /\ endIdx' \in Index /\ cursor' \in Index
         /\ Terminated(buff'[0]) /\ \A i \in Index : buff'[0][i] \in Glyph
<1>1. /\ buff'[0] \in Row /\ buff'[0][BufSize - 1] = NUL
      /\ endIdx' \in Index /\ cursor' \in Index /\ cursor' <= endIdx'
  BY Sizes DEF LineInv, TypeOK, RowsTerminated
<1>2. endIdx' \in Nat /\ cursor' \in Nat
  BY <1>1 DEF Index
<1>3. Terminated(buff'[0]) /\ \A i \in Index : buff'[0][i] \in Glyph
  BY <1>1 DEF Terminated, Row, Glyph
<1>4. QED
  BY <1>1, <1>2, <1>3

LEMMA LineFacts ==
  ASSUME LineInv, TextInv, ScreenInv
  PROVE  /\ endIdx \in Nat /\ cursor \in Nat /\ cursor <= endIdx
         /\ endIdx \in Index /\ cursor \in Index
         /\ Terminated(buff[0]) /\ HasText(buff[0], endIdx)
         /\ \A i \in Index : buff[0][i] \in Glyph
BY RowFacts DEF TextInv, ScreenInv

LEMMA LineFactsNext ==
  ASSUME LineInv', TextInv', nulled' = {}
  PROVE  /\ endIdx' \in Nat /\ cursor' \in Nat /\ cursor' <= endIdx'
         /\ endIdx' \in Index /\ cursor' \in Index
         /\ Terminated(buff'[0]) /\ HasText(buff'[0], endIdx')
         /\ \A i \in Index : buff'[0][i] \in Glyph
BY RowFactsNext DEF TextInv

(* A key typed.                                                            *)
LEMMA TypedIs ==
  ASSUME LineInv, NEW k \in Key, Type(k)
  PROVE  /\ cursor' = cursor + 1 /\ endIdx' = endIdx + 1
         /\ buff' = [buff EXCEPT ![0] = Inserted(buff[0], cursor, endIdx,
                                                buff'[0][cursor])]
         /\ buff'[0][cursor] \in Glyph
         /\ nulled' = IF buff'[0][cursor] = NUL THEN nulled \cup {0} ELSE nulled
<1>1. PICK zero \in BytesAtZero, c \in Char : TypeWith(k, zero, c)
  BY DEF Type
<1>2. /\ cursor' = cursor + 1 /\ endIdx' = endIdx + 1
      /\ buff' = [buff EXCEPT ![0] = Inserted(buff[0], cursor, endIdx, c)]
      /\ nulled' = IF c = NUL THEN nulled \cup {0} ELSE nulled
  BY <1>1 DEF TypeWith
<1>3. buff \in [Command -> Row] /\ 0 \in Command /\ cursor \in Index
  BY LineInvRows, RowFacts, Sizes
<1>4. buff'[0] = Inserted(buff[0], cursor, endIdx, c)
  BY <1>2, <1>3
<1>5. buff'[0][cursor] = c
  BY <1>3, <1>4 DEF Inserted
<1>6. QED
  BY <1>2, <1>5 DEF Glyph

(* The last step of every handler, and what it needs.                      *)
LEMMA PaintLast ==
  ASSUME NEW t \in Scr, t.cursor \in Cell,
         endIdx' \in Nat, cursor' \in Nat,
         t.start + endIdx' <= LastCell, t.start + cursor' <= t.cursor,
         NEW c \in Glyph, scr' = Painted(t, c), nulled' = {}
  PROVE  ScreenInv'
<1>1. scr' \in Scr /\ scr'.cursor = t.cursor /\ scr'.start = t.start
  BY PaintedIs
<1>2. QED
  BY <1>1 DEF ScreenInv

LEMMA PrintMoves ==
  ASSUME NEW s \in Scr, s.cursor \in Cell, NEW n \in Nat, NEW w,
         DOMAIN w = 1 .. n, \A i \in 1 .. n : w[i] \in Glyph,
         NEW t, t = PrintStr(s, w)
  PROVE  /\ t \in Scr /\ t.cursor \in Cell
         /\ \E d \in Rows : t.cursor = s.cursor + n - d /\ t.start = s.start - d
BY PrintShows DEF DrawnSoFar, DrawnBy

LEMMA RightScreen ==
  ASSUME LineInv, TextInv, LineInv', TextInv', nulled' = {}, ScreenInv, TRight
  PROVE  ScreenInv'
<1> DEFINE off == Painted(scr, AtCursor)
           t   == IncTextCursor(off)
<1>1. /\ cursor' = cursor + 1 /\ endIdx' = endIdx /\ buff' = buff
      /\ scr' = Painted(t, buff[0][cursor']) /\ astray' = astray
  BY DEF TRight, Right
<1>2. off \in Scr /\ off.cursor = scr.cursor /\ off.start = scr.start
  BY LineFacts, PaintedIs DEF AtCursor, ScreenInv
<1> HIDE DEF off
<1>3. off.cursor \in Cell /\ scr.start \in Int
  BY <1>2 DEF ScreenInv, Scr
<1>4. PICK d \in {0, NumCols} : t.cursor = off.cursor + 1 - d /\ t.start = off.start - d
  BY <1>2, <1>3, IncIs
<1>5. t \in Scr /\ t.cursor \in Cell
  BY <1>2, <1>3, IncIs
<1> HIDE DEF t
<1>6. /\ scr.start + endIdx <= LastCell /\ scr.start + cursor <= scr.cursor
      /\ scr.cursor \in Int /\ d \in Nat
  BY Grid DEF ScreenInv, Scr
<1>7. t.start + endIdx' <= LastCell /\ t.start + cursor' <= t.cursor
  BY <1>1, <1>2, <1>3, <1>4, <1>6, LineFacts, Grid
<1>8. buff[0][cursor'] \in Glyph
  BY <1>1, LineFactsNext
<1>9. QED
  BY <1>1, <1>5, <1>7, <1>8, LineFactsNext, PaintLast DEF ScreenInv

LEMMA LeftScreen ==
  ASSUME LineInv, TextInv, LineInv', TextInv', nulled' = {}, ScreenInv, TLeft
  PROVE  ScreenInv'
<1> DEFINE off == Painted(scr, AtCursor)
           t   == DecTextCursor(off)
<1>1. /\ cursor' = cursor - 1 /\ endIdx' = endIdx /\ buff' = buff
      /\ scr' = Painted(t, buff[0][cursor']) /\ astray' = astray
  BY DEF TLeft, Left
<1>2. off \in Scr /\ off.cursor = scr.cursor /\ off.start = scr.start
  BY LineFacts, PaintedIs DEF AtCursor, ScreenInv
<1> HIDE DEF off
<1>3. off.cursor \in Cell /\ scr.start \in Int
  BY <1>2 DEF ScreenInv, Scr
<1>4. /\ t \in Scr /\ t.cursor \in Cell /\ t.start = off.start
      /\ t.cursor = IF off.cursor = 0 THEN 0 ELSE off.cursor - 1
  BY <1>2, <1>3, DecIs
<1> HIDE DEF t
<1>5. /\ scr.start + endIdx <= LastCell /\ scr.start + cursor <= scr.cursor
      /\ scr.cursor \in Int
  BY Grid DEF ScreenInv, Scr
<1>6. t.start + endIdx' <= LastCell /\ t.start + cursor' <= t.cursor
  BY <1>1, <1>2, <1>3, <1>4, <1>5, LineFacts, Grid
<1>7. buff[0][cursor'] \in Glyph
  BY <1>1, LineFactsNext
<1>8. QED
  BY <1>1, <1>4, <1>6, <1>7, LineFactsNext, PaintLast DEF ScreenInv

(* The cleared line replace_curr_cmd_with_diff_cmd prints the row onto.    *)
Home(s, shown) ==
  LET clear == ClearCellsAt(Painted(s, shown), s.start, endIdx)
  IN  PutBack(clear, clear.start)

LEMMA HomeIs ==
  ASSUME NEW s \in Scr, s.cursor \in Cell, s.start >= 0, endIdx \in Nat,
         s.start + endIdx <= LastCell, NEW shown \in Glyph,
         NEW off, off = Painted(s, shown), NEW h, h = Home(s, shown)
  PROVE  /\ h \in Scr /\ h.cursor \in Cell
         /\ h.start = s.start /\ h.cursor = s.start
         /\ \A p \in Cell :
              h.cells[p] = IF s.start <= p /\ p < s.start + endIdx THEN Blank
                           ELSE off.cells[p]
<1>1. off \in Scr /\ off.cursor = s.cursor /\ off.start = s.start
  BY PaintedIs
<1>2. s.start \in Nat /\ s.start \in Cell
  BY Grid DEF Scr
<1> DEFINE at == [off EXCEPT !.cursor = s.start]
           c  == ClearCells(at, endIdx)
           c2 == [c EXCEPT !.cursor = off.cursor]
<1>3. at \in Scr /\ at.cursor = s.start /\ at.start = s.start /\ at.cells = off.cells
  BY <1>1, <1>2 DEF Scr
<1>4. h = PutBack(c2, c2.start)
  BY DEF Home, ClearCellsAt
<1> HIDE DEF at
<1>5. at.cursor + endIdx - 1 <= LastCell
  BY <1>2, <1>3, Grid
<1>6. /\ c \in Scr /\ c.start = s.start
      /\ Cleared(at, endIdx, c)
  BY <1>2, <1>3, <1>5, ClearShows
<1> HIDE DEF c
<1>7. c2 \in Scr /\ c2.start = s.start /\ c2.cells = c.cells
  BY <1>1, <1>6 DEF Scr
<1> HIDE DEF c2
<1>8. h \in Scr /\ h.cursor = s.start /\ h.start = s.start /\ h.cells = c.cells
  <2>1. h = PutBack(c2, s.start) /\ s.start \in Int
    BY <1>2, <1>4, <1>7
  <2>2. QED
    <3>1. c2 \in Scr
      BY <1>7
    <3>2. h \in Scr /\ h.cursor = s.start /\ h.start = c2.start /\ h.cells = c2.cells
      BY <2>1, <3>1 DEF PutBack, Scr
    <3>3. QED
      BY <1>7, <3>2
<1>9. QED
  BY <1>2, <1>3, <1>6, <1>8 DEF Cleared

LEMMA ReplacedScreen ==
  ASSUME LineInv, TextInv, LineInv', TextInv', nulled' = {}, ScreenInv, scr.start >= 0,
         NEW shown \in Glyph, scr' = Replaced(scr, buff'[0], shown),
         cursor' = endIdx'
  PROVE  ScreenInv'
<1> DEFINE h == Home(scr, shown)
           t == PrintStr(h, Text(buff'[0]))
<1>1. scr' = Painted(t, NUL)
  BY DEF Replaced, Home
<1>2. h \in Scr /\ h.cursor \in Cell /\ h.start = scr.start /\ h.cursor = scr.start
  BY LineFacts, HomeIs DEF ScreenInv
<1> HIDE DEF h
<1>3. /\ endIdx' \in Nat /\ DOMAIN Text(buff'[0]) = 1 .. endIdx'
      /\ \A i \in 1 .. endIdx' : Text(buff'[0])[i] \in Glyph
  BY LineFactsNext, WholeIs
<1>4. /\ t \in Scr /\ t.cursor \in Cell
      /\ \E d \in Rows : t.cursor = h.cursor + endIdx' - d /\ t.start = h.start - d
  BY <1>2, <1>3, PrintMoves
<1> HIDE DEF t
<1>5. PICK d \in Rows : t.cursor = h.cursor + endIdx' - d /\ t.start = h.start - d
  BY <1>4
<1>6. d \in Nat /\ scr.start \in Int
  BY RowsAre DEF ScreenInv, Scr
<1>7. t.start + endIdx' <= LastCell /\ t.start + cursor' <= t.cursor
  BY <1>2, <1>3, <1>4, <1>5, <1>6, Grid
<1>8. NUL \in Glyph
  BY Chars DEF Glyph
<1>9. QED
  BY <1>1, <1>3, <1>4, <1>7, <1>8, PaintLast DEF ScreenInv

LEMMA UpScreen ==
  ASSUME LineInv, TextInv, LineInv', TextInv', nulled' = {}, ScreenInv, scr.start >= 0, TUp
  PROVE  ScreenInv'
<1>1. AtCursor \in Glyph
  BY LineFacts DEF AtCursor
<1>2. cursor' = endIdx'
  BY DEF TUp, Up, SetLine
<1>3. QED
  BY <1>1, <1>2, ReplacedScreen DEF TUp

LEMMA DownScreen ==
  ASSUME LineInv, TextInv, LineInv', TextInv', nulled' = {}, ScreenInv, scr.start >= 0, TDown
  PROVE  ScreenInv'
<1> DEFINE shown == IF curr = 1 THEN buff'[0][cursor] ELSE AtCursor
<1>1. shown \in Glyph
  BY LineFacts, LineFactsNext DEF AtCursor
<1>2. cursor' = endIdx'
  BY DEF TDown, Down, SetLine
<1>3. scr' = Replaced(scr, buff'[0], shown)
  BY DEF TDown
<1> HIDE DEF shown
<1>4. QED
  BY <1>1, <1>2, <1>3, ReplacedScreen

LEMMA BackspaceScreen ==
  ASSUME LineInv, TextInv, LineInv', TextInv', nulled' = {}, ScreenInv, TBackspace
  PROVE  ScreenInv'
<1> DEFINE off   == Painted(scr, AtCursor)
           clear == IF cursor = endIdx THEN off
                    ELSE ClearCells(off, endIdx - cursor)
           back  == DecTextCursor(clear)
           tail  == IF cursor = endIdx THEN back
                    ELSE PrintStr(back, TextFrom(buff'[0], cursor'))
           t     == PutBack(tail, back.cursor)
<1>1. /\ cursor' = cursor - 1 /\ endIdx' = endIdx - 1 /\ cursor # 0
      /\ scr' = Painted(t, buff'[0][cursor']) /\ astray' = astray
  BY DEF TBackspace, Backspace
<1>2. off \in Scr /\ off.cursor = scr.cursor /\ off.start = scr.start
  BY LineFacts, PaintedIs DEF AtCursor, ScreenInv
<1> HIDE DEF off
<1>3. off.cursor \in Cell /\ scr.start \in Int
  BY <1>2 DEF ScreenInv, Scr
<1>4. /\ clear \in Scr /\ clear.cursor = off.cursor
      /\ \E d \in Rows : clear.start = off.start - d
  <2>1. CASE cursor = endIdx
    BY <1>2, <1>3, <2>1, RowsAre
  <2>2. CASE cursor # endIdx
    <3>1. endIdx - cursor \in Nat
      BY LineFacts
    <3>2. QED
      BY <1>2, <1>3, <2>2, <3>1, ClearShows
  <2>3. QED
    BY <2>1, <2>2
<1> HIDE DEF clear
<1>5. PICK d \in Rows : clear.start = off.start - d
  BY <1>4
<1>6. /\ back \in Scr /\ back.cursor \in Cell /\ back.start = clear.start
      /\ back.cursor = IF clear.cursor = 0 THEN 0 ELSE clear.cursor - 1
  BY <1>3, <1>4, DecIs
<1> HIDE DEF back
<1>7. tail \in Scr /\ \E e \in Rows : tail.start = back.start - e
  <2>1. CASE cursor = endIdx
    <3>1. tail = back /\ back.start - 0 = back.start
      BY <1>6, <2>1 DEF Scr
    <3>2. QED
      BY <1>6, <3>1, RowsAre
  <2>2. CASE cursor # endIdx
    <3> DEFINE w == TextFrom(buff'[0], cursor')
               n == endIdx' - cursor'
    <3>1. n \in Nat /\ cursor' \in 0 .. endIdx'
      BY LineFactsNext
    <3>2. DOMAIN w = 1 .. n /\ \A i \in 1 .. n : w[i] \in Glyph
      BY <3>1, LineFactsNext, TailIs
    <3>3. tail = PrintStr(back, w)
      BY <2>2
    <3> HIDE DEF w, n, tail
    <3>4. QED
      BY <1>6, <3>1, <3>2, <3>3, PrintMoves
  <2>3. QED
    BY <2>1, <2>2
<1> HIDE DEF tail
<1>8. PICK e \in Rows : tail.start = back.start - e
  BY <1>7
<1>9. back.cursor \in Int
  BY <1>6 DEF Scr
<1>10. t \in Scr /\ t.cursor = back.cursor /\ t.start = tail.start
  BY <1>7, <1>9, PutBackIs
<1> HIDE DEF t
<1>11. /\ scr.start + endIdx <= LastCell /\ scr.start + cursor <= scr.cursor
       /\ scr.cursor \in Int /\ d \in Nat /\ e \in Nat
  BY RowsAre DEF ScreenInv, Scr
<1>12. t.start = scr.start - d - e
  BY <1>2, <1>5, <1>6, <1>8, <1>10
<1>13. t.cursor = IF scr.cursor = 0 THEN 0 ELSE scr.cursor - 1
  BY <1>2, <1>4, <1>6, <1>10
<1>14. t.start + endIdx' <= LastCell /\ t.start + cursor' <= t.cursor
  <2>1. endIdx \in Nat /\ cursor \in Nat /\ scr.cursor >= 0 /\ LastCell \in Nat
    BY <1>2, <1>3, LineFacts, Grid
  <2>2. t.start + endIdx' <= LastCell
    BY <1>1, <1>3, <1>11, <1>12, <2>1
  <2>3. t.start <= scr.start
    BY <1>3, <1>11, <1>12
  <2>4. t.start + cursor' <= scr.cursor - 1
    BY <1>1, <1>3, <1>11, <1>12, <2>1
  <2>5. t.cursor >= scr.cursor - 1 /\ t.cursor \in Int /\ t.start \in Int
    BY <1>3, <1>10, <1>11, <1>13, <2>1 DEF Scr
  <2>6. QED
    BY <1>1, <1>11, <2>1, <2>2, <2>4, <2>5
<1>15. buff'[0][cursor'] \in Glyph
  BY LineFactsNext
<1>16. QED
  BY <1>1, <1>6, <1>10, <1>14, <1>15, LineFactsNext, PaintLast DEF ScreenInv

LEMMA TypeScreen ==
  ASSUME LineInv, TextInv, LineInv', TextInv', nulled' = {}, ScreenInv, NEW k \in Key, TType(k)
  PROVE  ScreenInv'
<1> DEFINE off   == Painted(scr, AtCursor)
           moved == IF cursor = endIdx THEN off
                    ELSE PrintStr(IncTextCursor(off), TextFrom(buff'[0], cursor'))
           put   == PutBack(moved, off.cursor)
           typed == Printed(put, buff'[0][cursor])
           t     == IncTextCursor(typed)
<1>1. /\ cursor' = cursor + 1 /\ endIdx' = endIdx + 1
      /\ scr' = Painted(t, buff'[0][cursor'])
  BY TypedIs DEF TType
<1>3. off \in Scr /\ off.cursor = scr.cursor /\ off.start = scr.start
  BY LineFacts, PaintedIs DEF AtCursor, ScreenInv
<1> HIDE DEF off
<1>4. /\ off.cursor \in Cell /\ off.cursor \in Nat /\ off.start \in Int
      /\ off.start + endIdx <= LastCell /\ off.start + cursor <= off.cursor
  BY <1>3, Grid DEF ScreenInv, Scr
<1>5. /\ moved \in Scr
      /\ \E d \in Rows :
           /\ moved.start = off.start - d
           /\ cursor # endIdx => moved.start + endIdx + 1 <= LastCell
  <2>1. CASE cursor = endIdx
    BY <1>3, <1>4, <2>1, RowsAre
  <2>2. CASE cursor # endIdx
    <3> DEFINE w == TextFrom(buff'[0], cursor')
               u == IncTextCursor(off)
    <3>1. moved = PrintStr(u, w)
      BY <2>2
    <3>2. PICK n \in Nat : n = endIdx' - cursor' /\ n = endIdx - cursor
      BY <1>1, LineFacts, LineFactsNext
    <3>3. DOMAIN w = 1 .. n /\ \A i \in 1 .. n : w[i] \in Glyph
      <4>1. cursor' \in 0 .. endIdx'
        BY LineFactsNext
      <4>2. QED
        BY <3>2, <4>1, LineFactsNext, TailIs
    <3>4. PICK d \in {0, NumCols} :
            u.cursor = off.cursor + 1 - d /\ u.start = off.start - d
      BY <1>3, <1>4, IncIs
    <3>5. u \in Scr /\ u.cursor \in Cell
      BY <1>3, <1>4, IncIs
    <3> HIDE DEF w, u, moved
    <3>6. moved \in Scr /\ moved.cursor \in Cell
      BY <3>1, <3>3, <3>5, PrintMoves
    <3>7. PICK e \in Rows :
            moved.cursor = u.cursor + n - e /\ moved.start = u.start - e
      BY <3>1, <3>3, <3>5, PrintMoves
    <3>8. d \in Nat /\ e \in Nat /\ d + e \in Rows
      BY RowsAre, Grid
    <3>9. moved.start = off.start - (d + e)
      BY <1>4, <3>4, <3>7, <3>8
    <3>10. moved.cursor = off.cursor + 1 + n - (d + e)
      BY <1>4, <3>4, <3>7, <3>8
    <3>11. moved.start + endIdx + 1 <= LastCell
      <4>1. /\ moved.cursor \in Int /\ moved.cursor <= LastCell /\ LastCell \in Nat
            /\ endIdx \in Nat /\ cursor \in Nat
        BY <3>6, LineFacts, Grid
      <4>2. moved.start + endIdx + 1 <= moved.cursor
        BY <1>4, <3>2, <3>8, <3>9, <3>10, <4>1
      <4>3. moved.start \in Int
        BY <3>6 DEF Scr
      <4>4. QED
        BY <4>1, <4>2, <4>3
    <3>12. QED
      BY <3>6, <3>8, <3>9, <3>11
  <2>3. QED
    BY <2>1, <2>2
<1> HIDE DEF moved
<1>6. PICK d \in Rows : /\ moved.start = off.start - d
                        /\ cursor # endIdx => moved.start + endIdx + 1 <= LastCell
  BY <1>5
<1>7. put \in Scr /\ put.cursor = off.cursor /\ put.start = moved.start
  BY <1>4, <1>5, PutBackIs
<1> HIDE DEF put
<1>8. buff'[0][cursor] \in Glyph
  BY TypedIs DEF TType
<1>9. typed \in Scr /\ typed.cursor = off.cursor /\ typed.start = moved.start
  BY <1>7, <1>8, PrintedIs
<1> HIDE DEF typed
<1>10. t \in Scr /\ t.cursor \in Cell
  BY <1>4, <1>9, IncIs
<1>11. PICK e \in {0, NumCols} :
         t.cursor = off.cursor + 1 - e /\ t.start = moved.start - e
  BY <1>4, <1>9, IncIs
<1> HIDE DEF t
<1>12. d \in Nat /\ e \in Nat
  BY RowsAre, Grid
<1>13. t.start + endIdx' <= LastCell
  <2>1. CASE cursor = endIdx
    BY <1>1, <1>4, <1>6, <1>10, <1>11, <1>12, <2>1, LineFacts, Grid
  <2>2. CASE cursor # endIdx
    BY <1>1, <1>4, <1>6, <1>11, <1>12, <2>2, LineFacts, Grid
  <2>3. QED
    BY <2>1, <2>2
<1>14. t.start + cursor' <= t.cursor
  BY <1>1, <1>4, <1>6, <1>11, <1>12, LineFacts
<1>15. buff'[0][cursor'] \in Glyph
  BY LineFactsNext
<1>16. QED
  BY <1>1, <1>10, <1>13, <1>14, <1>15, LineFactsNext, PaintLast

-----------------------------------------------------------------------------
(* Going to the start of a row: nothing is shown from there on.            *)
BlankFrom(s, x) == \A p \in Cell : p >= x => s.cells[p] = Blank

LEMMA DivIs ==
  ASSUME NEW x \in Nat, NEW y \in Nat \ {0}
  PROVE  x \div y \in Nat /\ (x \div y) * y > x - y
<1>1. x = y * (x \div y) + (x % y)
  BY Z3
<1>2. x % y \in 0 .. y - 1 /\ x \div y \in Nat
  OBVIOUS
<1>3. PICK q \in Nat : q = x \div y
  BY <1>2
<1>4. y * q = q * y
  OBVIOUS
<1>5. q * y = x - (x % y)
  BY <1>1, <1>2, <1>3, <1>4
<1>6. QED
  BY <1>2, <1>3, <1>5

LEMMA LastRowIs ==
  LastRow \in Rows /\ LastRow \in Cell /\ LastRow \in Int
BY VgaTextAssumption, Grid DEF LastRow, Rows

LEMMA MovedIs ==
  ASSUME NEW s \in Scr, NEW m \in Int, NEW down \in Nat,
         NEW r \in Int, r = IF m < 0 THEN 0 - 1 ELSE RowOf(m) + down,
         NEW t, t = MovedBelow(s, m, down)
  PROVE  /\ t \in Scr /\ t.cursor \in Cell /\ t.cursor \in Rows
         /\ r >= 0 /\ BlankFrom(s, r * NumCols) => BlankFrom(t, t.cursor)
<1>0. m >= 0 => r = RowOf(m) + down /\ RowOf(m) \in Nat
  BY Grid DEF RowOf
<1>1. CASE m < 0 \/ r > NumRows - 1
  <2> DEFINE u == ShiftedUp(s)
  <2>1. t = [u EXCEPT !.cursor = LastRow]
    BY <1>0, <1>1 DEF MovedBelow
  <2>2. /\ u \in Scr
        /\ \A p \in Cell :
             u.cells[p] = IF p + NumCols <= LastCell THEN s.cells[p + NumCols]
                          ELSE Blank
    BY ShiftedIs
  <2> HIDE DEF u
  <2>3. t \in Scr /\ t.cursor = LastRow /\ t.cells = u.cells
    BY <2>1, <2>2, LastRowIs DEF Scr
  <2>4. \A p \in Cell : p >= LastRow => ~(p + NumCols <= LastCell)
    BY Grid
  <2>5. BlankFrom(t, t.cursor)
    BY <2>2, <2>3, <2>4 DEF BlankFrom
  <2>6. QED
    BY <2>3, <2>5, LastRowIs
<1>2. CASE r \in 0 .. NumRows - 1
  <2>1. ~(m < 0) /\ r = RowOf(m) + down /\ ~(r > NumRows - 1)
    BY <1>0, <1>2, Grid
  <2>2. t = [s EXCEPT !.cursor = r * NumCols]
    BY <2>1 DEF MovedBelow
  <2>3. r * NumCols <= (NumRows - 1) * NumCols /\ r * NumCols >= 0 /\ r * NumCols \in Int
    BY <1>2, Grid
  <2>4. r * NumCols \in Cell /\ r * NumCols \in Rows
    <3>1. PICK k \in Nat : k = r
      BY <1>2
    <3>2. k * NumCols \in Rows
      BY DEF Rows
    <3>3. r * NumCols <= LastRow
      BY <2>3 DEF LastRow
    <3>4. r * NumCols \in Cell
      BY <2>3, <3>3, Grid
    <3>5. QED
      BY <3>1, <3>2, <3>4
  <2>5. t \in Scr /\ t.cursor = r * NumCols /\ t.cells = s.cells
    BY <2>2, <2>3 DEF Scr
  <2>6. QED
    BY <2>4, <2>5 DEF BlankFrom
<1>3. QED
  BY <1>0, <1>1, <1>2, Grid

(* move_textCursor_to_new_line_start gets below the input, if the prompt   *)
(* began at the start of a row.                                            *)
LEMMA BelowInput ==
  ASSUME NEW a \in Nat, NEW e \in Nat, NEW m \in Nat, a - m \in Rows,
         NEW r, r = RowOf(a) + (e + m + NumCols - 1) \div NumCols
  PROVE  r \in Nat /\ r * NumCols >= a + e
<1>1. NumCols \in Nat \ {0}
  BY Grid
<1> DEFINE u == RowOf(a)
           v == (e + m + NumCols - 1) \div NumCols
<1>2. u \in Nat /\ u * NumCols > a - NumCols
  BY <1>1, DivIs DEF RowOf
<1>3. v \in Nat /\ v * NumCols > (e + m + NumCols - 1) - NumCols
  <2>1. PICK x \in Nat : x = e + m + NumCols - 1
    BY <1>1
  <2>2. x \div NumCols \in Nat /\ (x \div NumCols) * NumCols > x - NumCols
    BY <1>1, DivIs
  <2>3. QED
    BY <2>1, <2>2
<1>4. PICK k \in Nat : a - m = k * NumCols
  BY DEF Rows
<1> HIDE DEF u, v
<1>5. u >= k
  <2>1. SUFFICES ASSUME u <= k - 1 PROVE FALSE
    BY <1>2
  <2>2. u * NumCols <= (k - 1) * NumCols
    BY <1>1, <1>2, <2>1
  <2>3. (k - 1) * NumCols = k * NumCols - NumCols
    BY <1>1
  <2>4. QED
    BY <1>1, <1>2, <1>4, <2>2, <2>3
<1>6. u * NumCols >= k * NumCols
  BY <1>1, <1>2, <1>5
<1>7. r = u + v /\ r * NumCols = u * NumCols + v * NumCols
  BY <1>1, <1>2, <1>3 DEF u, v
<1>8. u * NumCols \in Nat /\ v * NumCols \in Nat /\ k * NumCols \in Nat
  BY <1>1, <1>2, <1>3
<1>9. QED
  BY <1>1, <1>2, <1>3, <1>4, <1>6, <1>7, <1>8

LEMMA PrintedBlank ==
  ASSUME NEW s \in Scr, s.cursor \in Cell, NEW n \in Nat, NEW w, NEW t \in Scr,
         NEW d \in Rows, DrawnBy(s, w, n, t, d), BlankFrom(s, s.cursor)
  PROVE  BlankFrom(t, t.cursor)
<1> SUFFICES ASSUME NEW p \in Cell, p >= t.cursor PROVE t.cells[p] = Blank
  BY DEF BlankFrom
<1>1. d \in Nat /\ p \in Nat /\ s.cursor \in Nat
  BY RowsAre, Grid
<1>2. t.cursor = s.cursor + n - d
  BY DEF DrawnBy
<1>3. PICK x \in Nat : x = p + d
  BY <1>1
<1>4. ~(x < s.cursor + n) /\ x >= s.cursor
  BY <1>1, <1>2, <1>3
<1>5. t.cells[p] = Drawn(s, w, n, x)
  BY <1>3 DEF DrawnBy
<1>6. x <= LastCell => x \in Cell
  BY Grid
<1>7. QED
  BY <1>4, <1>5, <1>6 DEF Drawn, BlankFrom

(* The prompt and the longest line fit on the screen.                      *)
Fits == Len(Prompt) + BufSize <= NumRows * NumCols

(* Whole rows stay whole rows when the end of a line that fits is in the   *)
(* last row.                                                               *)
LEMMA Aligned ==
  ASSUME Fits, NEW a \in Int, a - Len(Prompt) \in Rows, NEW n \in Index,
         NEW d \in Rows, d = 0 \/ (a - d) + n >= LastRow
  PROVE  (a - d) - Len(Prompt) \in Rows
<1>1. Len(Prompt) \in Nat
  BY TerminalAssumption
<1>2. n \in Nat /\ n <= BufSize - 1 /\ BufSize \in Nat
  BY Sizes DEF Index
<1>3. d \in Nat /\ a - Len(Prompt) \in Nat
  BY RowsAre
<1>4. CASE d = 0
  <2>1. (a - d) - Len(Prompt) = a - Len(Prompt)
    BY <1>4
  <2>2. QED
    BY <2>1
<1>5. CASE d # 0
  <2>1. Len(Prompt) + BufSize <= LastRow + NumCols
    BY Grid DEF Fits, LastCell
  <2>2. (a - d) - Len(Prompt) > 0 - NumCols
    BY <1>1, <1>2, <1>3, <1>5, <2>1, Grid
  <2>3. (a - Len(Prompt)) - d = (a - d) - Len(Prompt)
    BY <1>1, <1>3
  <2>4. (a - Len(Prompt)) - d \in Rows
    BY <2>2, <2>3, RowsAre
  <2>5. QED
    BY <2>3, <2>4
<1>6. QED
  BY <1>4, <1>5

LEMMA PromptedIs ==
  ASSUME NEW s \in Scr, s.cursor \in Cell, NEW t, t = Prompted(s)
  PROVE  /\ t \in Scr /\ t.cursor \in Cell /\ t.start = t.cursor
         /\ Fits /\ s.cursor \in Rows /\ BlankFrom(s, s.cursor)
              => BlankFrom(t, t.cursor) /\ t.start - Len(Prompt) \in Rows
<1> DEFINE n == Len(Prompt)
           u == PrintStr(s, Prompt)
<1>1. /\ n \in Nat /\ DOMAIN Prompt = 1 .. n
      /\ \A i \in 1 .. n : Prompt[i] \in Glyph
  BY TerminalAssumption DEF Glyph
<1> HIDE DEF n
<1>2. DrawnSoFar(s, Prompt, n, u)
  BY <1>1, PrintShows
<1>3. t = [u EXCEPT !.start = u.cursor]
  BY DEF Prompted
<1> HIDE DEF u
<1>4. u \in Scr /\ u.cursor \in Cell
  BY <1>2 DEF DrawnSoFar
<1>5. PICK d \in Rows : DrawnBy(s, Prompt, n, u, d)
  BY <1>2 DEF DrawnSoFar
<1>6. t \in Scr /\ t.cursor = u.cursor /\ t.start = u.cursor /\ t.cells = u.cells
  BY <1>3, <1>4 DEF Scr
<1>7. ASSUME Fits, s.cursor \in Rows, BlankFrom(s, s.cursor)
      PROVE  BlankFrom(t, t.cursor) /\ t.start - Len(Prompt) \in Rows
  <2>1. BlankFrom(u, u.cursor)
    BY <1>1, <1>4, <1>5, <1>7, PrintedBlank
  <2>2. BlankFrom(t, t.cursor)
    BY <1>6, <2>1 DEF BlankFrom
  <2>3. PICK a \in Nat : a = s.cursor + n /\ a - Len(Prompt) = s.cursor
    BY <1>1, Grid DEF n
  <2>4. u.cursor = a - d /\ (d = 0 \/ u.cursor >= LastRow)
    <3>1. u.cursor = s.cursor + n - d /\ (d = 0 \/ u.cursor >= LastRow)
      BY <1>5 DEF DrawnBy
    <3>2. s.cursor \in Int /\ n \in Int /\ d \in Int
      BY <1>1, RowsAre DEF Scr
    <3>3. u.cursor = a - d
      BY <2>3, <3>1, <3>2
    <3>4. QED
      BY <3>1, <3>3
  <2>5. d \in Nat
    BY RowsAre
  <2>6. (a - d) + 0 = a - d
    BY <2>3, <2>5
  <2>7. (a - d) - Len(Prompt) \in Rows
    BY <1>7, <2>3, <2>4, <2>6, Sizes, Aligned
  <2>8. QED
    BY <1>6, <2>2, <2>4, <2>7
<1>8. QED
  BY <1>4, <1>6, <1>7

(* The screen shows the line, until the text cursor is led astray.         *)
ShownInv ==
  astray = "no" =>
    /\ scr.start - Len(Prompt) \in Rows
    /\ scr.cursor = scr.start + cursor
    /\ Shows(scr, buff[0])

(* ENTER empties the line.                                                 *)
LEMMA EnterEmpties ==
  ASSUME LineInv', Enter
  PROVE  endIdx' = 0 /\ cursor' = 0
<1>1. buff'[0][0] = NUL
  <2>1. 0 \in Command /\ 0 \in Index
    BY Sizes
  <2>2. CASE cmd_exists(0)
    BY <2>1, <2>2 DEF Enter, Logged, ZeroRow
  <2>3. CASE ~cmd_exists(0)
    BY <2>3 DEF Enter, cmd_exists
  <2>4. QED
    BY <2>2, <2>3
<1>2. QED
  BY <1>1, RowFactsNext, EmptyText DEF Enter

(* An empty line is shown by blank cells.                                  *)
LEMMA BlankShows ==
  ASSUME NEW t \in Scr, t.start = t.cursor, BlankFrom(t, t.cursor),
         NEW row, HasText(row, 0)
  PROVE  Shows(t, row)
<1> SUFFICES ASSUME NEW p \in Cell, p >= t.start
             PROVE  t.cells[p] = Line(row, p - t.start)
  BY DEF Shows
<1>1. p - t.start \in Int /\ p - t.start >= 0
  BY Grid DEF Scr
<1>2. Line(row, p - t.start) = Blank
  BY <1>1, Sizes, LineEnds
<1>3. QED
  BY <1>2 DEF BlankFrom

LEMMA EnterDraws ==
  ASSUME LineInv, scr \in Scr, TEnter
  PROVE  \E t : /\ t \in Scr /\ t.cursor \in Cell /\ t.start = t.cursor
                /\ scr' = Painted(t, buff'[0][cursor'])
                /\ Fits /\ TextInv /\ ScreenInv /\ ShownInv /\ astray = "no"
                     => BlankFrom(t, t.cursor) /\ t.start - Len(Prompt) \in Rows
<1> DEFINE plain   == Fits /\ TextInv /\ ScreenInv /\ ShownInv /\ astray = "no"
           off     == Painted(scr, AtCursor)
           below   == NewLineAfterInput(off, endIdx + Len(Prompt))
           said(n) == PrintStr(below, [i \in 1 .. n |-> Output])
           t(n)    == Prompted(NewLine(said(n)))
<1>1. PICK n \in OutputLengths : scr' = Painted(t(n), buff'[0][cursor'])
  BY DEF TEnter
<1>2. n \in Nat /\ Len(Prompt) \in Nat
  BY TerminalAssumption
<1>3. off \in Scr /\ off.cursor = scr.cursor /\ off.start = scr.start
  BY RowFacts, PaintedIs DEF AtCursor
<1> DEFINE down == (endIdx + Len(Prompt) + NumCols - 1) \div NumCols
           r == IF off.start < 0 THEN 0 - 1 ELSE RowOf(off.start) + down
<1>4. r \in Int /\ down \in Nat /\ off.start \in Int
  <2>1. PICK x \in Nat : x = endIdx + Len(Prompt) + NumCols - 1
    BY <1>2, RowFacts, Grid
  <2>2. x \div NumCols \in Nat
    BY Grid
  <2>3. off.start >= 0 => RowOf(off.start) \in Nat
    BY <1>3, Grid DEF RowOf, Scr
  <2>4. off.start \in Int
    BY <1>3 DEF Scr
  <2>5. QED
    BY <2>1, <2>2, <2>3, <2>4
<1>5. below = MovedBelow(off, off.start, down)
  BY DEF NewLineAfterInput
<1>6. ASSUME Fits, TextInv, ScreenInv, ShownInv, astray = "no"
      PROVE  r >= 0 /\ BlankFrom(off, r * NumCols)
  <2>1. /\ scr.start - Len(Prompt) \in Rows /\ scr.cursor = scr.start + cursor
        /\ Shows(scr, buff[0])
    BY <1>6 DEF ShownInv
  <2>9. LineInv /\ TextInv /\ ScreenInv
    BY <1>6
  <2>2. scr.start - Len(Prompt) \in Nat /\ scr.start \in Int
    BY <2>1, RowsAre DEF Scr
  <2>3. scr.start \in Nat
    BY <1>2, <2>2
  <2>4. r = RowOf(scr.start) + (endIdx + Len(Prompt) + NumCols - 1) \div NumCols
    BY <1>3, <2>3
  <2> HIDE DEF r
  <2>5. r \in Nat /\ r * NumCols >= scr.start + endIdx
    BY <1>2, <2>1, <2>3, <2>4, RowFacts, BelowInput
  <2>6. r * NumCols \in Nat
    BY <2>5, Grid
  <2>7. ASSUME NEW p \in Cell, p >= r * NumCols PROVE off.cells[p] = Blank
    <3>1. /\ p - scr.start \in Int /\ p - scr.start >= endIdx
          /\ p >= scr.start /\ p \in Nat
      BY <2>3, <2>5, <2>6, <2>7, RowFacts, Grid
    <3>2. Line(buff[0], p - scr.start) = Blank
      BY <2>9, <3>1, LineFacts, LineEnds
    <3>3. scr.cells[p] = Blank
      BY <2>1, <3>1, <3>2 DEF Shows
    <3>4. off = scr
      <4>1. scr.cursor - scr.start = cursor /\ scr.cursor >= scr.start
        BY <2>1, <2>3, RowFacts
      <4>2. scr.cells[scr.cursor] = AtCursor
        BY <2>1, <2>9, <4>1, RowFacts DEF Shows, Line, AtCursor, ScreenInv
      <4>3. QED
        BY <2>9, <4>2, SamePaint DEF ScreenInv
    <3>5. QED
      BY <3>3, <3>4
  <2>8. QED
    BY <2>5, <2>7 DEF BlankFrom
<1>19. r = IF off.start < 0 THEN 0 - 1 ELSE RowOf(off.start) + down
  OBVIOUS
<1> HIDE DEF off, r, down
<1>7. /\ below \in Scr /\ below.cursor \in Cell
      /\ plain => BlankFrom(below, below.cursor)
  BY <1>3, <1>4, <1>5, <1>6, <1>19, MovedIs
<1> HIDE DEF below
<1> DEFINE w == [i \in 1 .. n |-> Output]
           u == PrintStr(below, w)
<1>8. /\ u \in Scr /\ u.cursor \in Cell
      /\ plain => BlankFrom(u, u.cursor)
  <2>1. DOMAIN w = 1 .. n /\ \A i \in 1 .. n : w[i] \in Glyph
    BY Grid
  <2> HIDE DEF w
  <2>2. DrawnSoFar(below, w, n, u)
    BY <1>2, <1>7, <2>1, PrintShows
  <2> HIDE DEF u
  <2>3. u \in Scr /\ u.cursor \in Cell
    BY <2>2 DEF DrawnSoFar
  <2>4. PICK d \in Rows : DrawnBy(below, w, n, u, d)
    BY <2>2 DEF DrawnSoFar
  <2>5. QED
    BY <1>2, <1>7, <2>3, <2>4, PrintedBlank
<1>9. u = said(n)
  OBVIOUS
<1> HIDE DEF u
<1> DEFINE v == NewLine(u)
           q == RowOf(u.cursor) + 1
<1>10. /\ q \in Nat /\ q * NumCols > u.cursor
  <2>1. u.cursor \in Nat /\ NumCols \in Nat \ {0}
    BY <1>8, Grid
  <2>2. PICK x \in Nat : x = RowOf(u.cursor) /\ x * NumCols > u.cursor - NumCols
    BY <2>1, DivIs DEF RowOf
  <2>3. (x + 1) * NumCols = x * NumCols + NumCols /\ x * NumCols \in Nat
    BY <2>1
  <2>4. QED
    BY <2>1, <2>2, <2>3
<1>11. v = MovedBelow(u, u.cursor, 1) /\ u.cursor \in Int /\ q \in Int
       /\ q = IF u.cursor < 0 THEN 0 - 1 ELSE RowOf(u.cursor) + 1
  BY <1>8, <1>10, Grid DEF NewLine
<1> HIDE DEF q, v
<1>12. /\ v \in Scr /\ v.cursor \in Cell /\ v.cursor \in Rows
       /\ BlankFrom(u, q * NumCols) => BlankFrom(v, v.cursor)
  BY <1>8, <1>10, <1>11, MovedIs
<1>13. BlankFrom(u, u.cursor) => BlankFrom(u, q * NumCols)
  <2>1. q * NumCols \in Nat /\ u.cursor \in Nat
    BY <1>8, <1>10, Grid
  <2>2. QED
    BY <1>10, <2>1, Grid DEF BlankFrom
<1>14. t(n) = Prompted(v)
  BY <1>9 DEF v
<1>15. PICK z : z = Prompted(v)
  OBVIOUS
<1>16. /\ z \in Scr /\ z.cursor \in Cell /\ z.start = z.cursor
       /\ Fits /\ v.cursor \in Rows /\ BlankFrom(v, v.cursor)
            => BlankFrom(z, z.cursor) /\ z.start - Len(Prompt) \in Rows
  BY <1>12, <1>15, PromptedIs
<1>17. scr' = Painted(z, buff'[0][cursor'])
  BY <1>1, <1>14, <1>15
<1>18. QED
  BY <1>8, <1>12, <1>13, <1>16, <1>17

LEMMA EnterScreen ==
  ASSUME LineInv, TextInv, LineInv', TextInv', nulled' = {}, ScreenInv, TEnter
  PROVE  ScreenInv'
<1>1. Enter /\ astray' = astray
  BY DEF TEnter
<1>2. PICK t : /\ t \in Scr /\ t.cursor \in Cell /\ t.start = t.cursor
               /\ scr' = Painted(t, buff'[0][cursor'])
  BY EnterDraws DEF ScreenInv
<1>3. endIdx' = 0 /\ cursor' = 0
  BY <1>1, EnterEmpties
<1>4. t.start + endIdx' <= LastCell /\ t.start + cursor' <= t.cursor
  BY <1>2, <1>3, Grid
<1>5. buff'[0][cursor'] \in Glyph
  BY LineFactsNext
<1>6. QED
  BY <1>1, <1>2, <1>3, <1>4, <1>5, PaintLast DEF ScreenInv

(* A step of the terminal is a step of the line editor, or none.           *)
LEMMA LineStep ==
  ASSUME LineInv, TextInv, [TNext]_tvars
  PROVE  LineInv' /\ TextInv'
<1>1. [Next]_vars
  BY DEF TNext, TRight, TLeft, TUp, TDown, Tab, TBackspace, TType, TEnter,
         TModifier, tvars, Next
<1>2. LineInv'
  <2>1. CASE Right \/ Left
    BY <2>1, RightKeeps, LeftKeeps
  <2>2. CASE Up \/ Down
    BY <2>2, UpKeeps, DownKeeps
  <2>3. CASE Backspace \/ Enter
    BY <2>3, BackspaceKeeps, EnterKeeps
  <2>4. CASE Modifier \/ UNCHANGED vars
    BY <2>4, ModifierKeeps, StutterKeeps
  <2>5. ASSUME NEW k \in Key, Type(k) PROVE LineInv'
    BY <2>5, TypeKeeps
  <2>6. QED
    BY <1>1, <2>1, <2>2, <2>3, <2>4, <2>5 DEF Next
<1>3. QED
  BY <1>1, <1>2, TextStep

LEMMA ModifierScreen ==
  ASSUME ScreenInv, (Modifier /\ UNCHANGED <<scr, astray>>) \/ UNCHANGED tvars
  PROVE  ScreenInv'
<1>1. UNCHANGED <<endIdx, cursor, scr, nulled>>
  BY DEF Modifier, CapsLock, ShiftKey, tvars, vars
<1>2. QED
  BY <1>1 DEF ScreenInv

LEMMA ScreenStep ==
  ASSUME LineInv, TextInv, LineInv', TextInv', nulled' = {}, ScreenInv,
         scr.start >= 0, ~Tab, [TNext]_tvars
  PROVE  ScreenInv'
<1>1. CASE TRight \/ TLeft
  BY <1>1, RightScreen, LeftScreen
<1>2. CASE TUp \/ TDown
  BY <1>2, UpScreen, DownScreen
<1>3. CASE TBackspace
  BY <1>3, BackspaceScreen
<1>4. CASE \E k \in Key : TType(k)
  BY <1>4, TypeScreen
<1>5. CASE TEnter
  BY <1>5, EnterScreen
<1>6. CASE TModifier \/ UNCHANGED tvars
  BY <1>6, ModifierScreen DEF TModifier
<1>7. QED
  BY <1>1, <1>2, <1>3, <1>4, <1>5, <1>6 DEF TNext

(* The cursor is never led back, and a null character leads it astray.     *)
LEMMA NotYetAstray ==
  ASSUME LineInv, [TNext]_tvars, astray' = "no"
  PROVE  astray = "no" /\ ~Tab /\ (nulled = {} => nulled' = {})
<1>1. CASE TRight \/ TLeft \/ TBackspace \/ TModifier \/ UNCHANGED tvars
  BY <1>1 DEF TRight, Right, TLeft, Left, TBackspace, Backspace, TModifier,
     Modifier, CapsLock, ShiftKey, Tab, tvars, vars
<1>2. CASE TUp \/ TDown \/ TEnter
  BY <1>2 DEF TUp, Up, TDown, Down, TEnter, Enter, NullsFrom, Tab
<1>3. ASSUME NEW k \in Key, TType(k)
      PROVE  astray = "no" /\ nulled' = nulled
  <2>1. Type(k) /\ astray = "no" /\ buff'[0][cursor] # NUL
    BY <1>3 DEF TType
  <2>2. QED
    BY <2>1, TypedIs
<1>4. ~Tab
  BY DEF Tab
<1>5. QED
  BY <1>1, <1>2, <1>3, <1>4 DEF TNext

DrawInv == LineInv /\ TextInv /\ (astray = "no" => ScreenInv)

(* The screen the prompt is first printed on.                              *)
ClearScreen == [cells |-> [p \in Cell |-> Blank], cursor |-> 0, start |-> 0]

LEMMA FirstPrompt ==
  ASSUME NEW t, t = Prompted(ClearScreen)
  PROVE  /\ t \in Scr /\ t.cursor \in Cell /\ t.start = t.cursor
         /\ Fits => BlankFrom(t, t.cursor) /\ t.start - Len(Prompt) \in Rows
<1>1. ClearScreen \in Scr /\ ClearScreen.cursor = 0 /\ 0 \in Cell
  BY Grid DEF ClearScreen, Scr
<1>2. BlankFrom(ClearScreen, 0)
  BY DEF BlankFrom, ClearScreen
<1>3. QED
  BY <1>1, <1>2, PromptedIs, RowsAre

LEMMA InitDraw == TInit => DrawInv
<1> SUFFICES ASSUME TInit PROVE DrawInv
  OBVIOUS
<1>1. Init /\ endIdx = 0 /\ cursor = 0 /\ nulled = {}
  BY DEF TInit, Init
<1>2. LineInv /\ TextInv
  BY <1>1, InitLineInv, InitTextInv
<1>3. PICK t : t = Prompted(ClearScreen)
  OBVIOUS
<1>4. scr = Painted(t, NUL)
  BY <1>3 DEF TInit, ClearScreen
<1>5. t \in Scr /\ t.cursor \in Cell /\ t.start = t.cursor
  BY <1>3, FirstPrompt
<1>6. NUL \in Glyph
  BY Chars DEF Glyph
<1>7. scr \in Scr /\ scr.cursor = t.cursor /\ scr.start = t.start
  BY <1>4, <1>5, <1>6, PaintedIs
<1>8. scr.start + endIdx <= LastCell /\ scr.start + cursor <= scr.cursor
  BY <1>1, <1>5, <1>7, Grid
<1>9. QED
  BY <1>1, <1>2, <1>5, <1>7, <1>8 DEF DrawInv, ScreenInv

-----------------------------------------------------------------------------
(* The screen shows the line: what holds before a key is handled.          *)
LEMMA ShownFacts ==
  ASSUME LineInv, TextInv, ScreenInv, ShownInv, astray = "no"
  PROVE  /\ Painted(scr, AtCursor) = scr
         /\ scr \in Scr /\ scr.cursor \in Cell /\ scr.start \in Nat
         /\ scr.start - Len(Prompt) \in Rows
         /\ scr.cursor = scr.start + cursor
         /\ scr.start + endIdx <= LastCell
         /\ Shows(scr, buff[0])
<1>1. /\ scr \in Scr /\ scr.cursor \in Cell /\ scr.start \in Int
      /\ scr.start + endIdx <= LastCell
  BY DEF ScreenInv, Scr
<1>2. /\ scr.start - Len(Prompt) \in Rows /\ scr.cursor = scr.start + cursor
      /\ Shows(scr, buff[0])
  BY DEF ShownInv
<1>3. scr.start \in Nat
  <2>1. Len(Prompt) \in Nat
    BY TerminalAssumption
  <2>2. scr.start - Len(Prompt) \in Nat
    BY <1>2, RowsAre
  <2>3. QED
    BY <1>1, <2>1, <2>2
<1>4. scr.cursor >= scr.start /\ scr.cursor - scr.start = cursor
  BY <1>2, <1>3, LineFacts
<1>5. scr.cells[scr.cursor] = AtCursor
  BY <1>1, <1>2, <1>4, LineFacts DEF Shows, Line, AtCursor
<1>6. QED
  BY <1>1, <1>2, <1>3, <1>5, SamePaint

(* The text cursor is put on with the character it stands on.              *)
LEMMA ShownLast ==
  ASSUME NEW t \in Scr, t.cursor \in Cell, cursor' \in Index,
         t.start - Len(Prompt) \in Rows, t.cursor = t.start + cursor',
         Shows(t, buff'[0]), NEW c, c = buff'[0][cursor'],
         scr' = Painted(t, c)
  PROVE  ShownInv'
<1>1. t.start \in Int /\ cursor' \in Nat
  BY DEF Scr, Index
<1>2. t.cursor >= t.start /\ t.cursor - t.start = cursor'
  BY <1>1
<1>3. t.cells[t.cursor] = c
  BY <1>2 DEF Shows, Line
<1>4. scr' = t
  BY <1>3, SamePaint
<1>5. QED
  BY <1>4 DEF ShownInv

LEMMA IncPlain ==
  ASSUME NEW s \in Scr, s.cursor \in Cell, s.cursor < LastCell,
         NEW t, t = IncTextCursor(s)
  PROVE  /\ t \in Scr /\ t.cursor \in Cell /\ t.cursor = s.cursor + 1
         /\ t.start = s.start /\ t.cells = s.cells
<1>1. s.cursor # LastCell
  BY Grid
<1>2. t = [s EXCEPT !.cursor = s.cursor + 1]
  BY <1>1 DEF IncTextCursor
<1>3. s.cursor + 1 \in Cell /\ s.cursor + 1 \in Int
  BY Grid
<1>4. QED
  BY <1>2, <1>3 DEF Scr

LEMMA RightShown ==
  ASSUME LineInv, TextInv, LineInv', TextInv', nulled' = {}, ScreenInv, ShownInv,
         astray = "no", TRight
  PROVE  ShownInv'
<1>1. /\ cursor' = cursor + 1 /\ cursor < endIdx /\ buff' = buff
      /\ scr' = Painted(IncTextCursor(Painted(scr, AtCursor)), buff[0][cursor'])
  BY DEF TRight, Right
<1>2. PICK t : t = IncTextCursor(scr)
  OBVIOUS
<1>3. scr' = Painted(t, buff'[0][cursor'])
  BY <1>1, <1>2, ShownFacts
<1>4. scr.cursor < LastCell
  BY <1>1, ShownFacts, LineFacts, Grid
<1>5. /\ t \in Scr /\ t.cursor \in Cell /\ t.cursor = scr.cursor + 1
      /\ t.start = scr.start /\ t.cells = scr.cells
  BY <1>2, <1>4, ShownFacts, IncPlain
<1>6. t.cursor = t.start + cursor'
  BY <1>1, <1>5, ShownFacts, LineFacts
<1>7. Shows(t, buff'[0]) /\ t.start - Len(Prompt) \in Rows
  BY <1>1, <1>5, ShownFacts DEF Shows
<1>8. QED
  BY <1>3, <1>5, <1>6, <1>7, LineFactsNext, ShownLast

LEMMA LeftShown ==
  ASSUME LineInv, TextInv, LineInv', TextInv', nulled' = {}, ScreenInv, ShownInv,
         astray = "no", TLeft
  PROVE  ShownInv'
<1>1. /\ cursor' = cursor - 1 /\ cursor > 0 /\ buff' = buff
      /\ scr' = Painted(DecTextCursor(Painted(scr, AtCursor)), buff[0][cursor'])
  BY DEF TLeft, Left
<1>2. PICK t : t = DecTextCursor(scr)
  OBVIOUS
<1>3. scr' = Painted(t, buff'[0][cursor'])
  BY <1>1, <1>2, ShownFacts
<1>4. scr.cursor # 0
  BY <1>1, ShownFacts, LineFacts
<1>5. /\ t \in Scr /\ t.cursor \in Cell /\ t.cursor = scr.cursor - 1
      /\ t.start = scr.start /\ t.cells = scr.cells
  BY <1>2, <1>4, ShownFacts, DecIs
<1>6. t.cursor = t.start + cursor'
  BY <1>1, <1>5, ShownFacts, LineFacts
<1>7. Shows(t, buff'[0]) /\ t.start - Len(Prompt) \in Rows
  BY <1>1, <1>5, ShownFacts DEF Shows
<1>8. QED
  BY <1>3, <1>5, <1>6, <1>7, LineFactsNext, ShownLast

(* A row of the history, or the line put aside, replaces the line.  shown  *)
(* may leave a smudge only where the new row shows a character.            *)
LEMMA ReplacedShown ==
  ASSUME Fits, LineInv, TextInv, LineInv', TextInv', nulled' = {}, ScreenInv, ShownInv,
         astray = "no", cursor' = endIdx',
         NEW shown \in Glyph, scr' = Replaced(scr, buff'[0], shown),
         shown = AtCursor \/ shown = buff'[0][cursor]
  PROVE  ShownInv'
<1> DEFINE off == Painted(scr, shown)
           h   == Home(scr, shown)
           t   == PrintStr(h, Text(buff'[0]))
<1>1. scr' = Painted(t, NUL)
  BY DEF Replaced, Home
<1>2. /\ h \in Scr /\ h.cursor \in Cell
      /\ h.start = scr.start /\ h.cursor = scr.start
      /\ \A p \in Cell :
           h.cells[p] = IF scr.start <= p /\ p < scr.start + endIdx THEN Blank
                        ELSE off.cells[p]
  BY LineFacts, ShownFacts, HomeIs
<1>3. /\ \A p \in Cell : p # scr.cursor => off.cells[p] = scr.cells[p]
      /\ off.cells[scr.cursor] =
           IF scr.cells[scr.cursor] = shown \/ shown = Blank THEN shown ELSE Smudge
  BY ShownFacts, PaintedIs
<1> HIDE DEF off, h
<1>4. ASSUME NEW p \in Cell, p >= scr.start + endIdx, p >= scr.start + endIdx'
      PROVE  h.cells[p] = Blank
  <2>1. p \in Nat /\ scr.start \in Nat /\ endIdx \in Nat /\ cursor \in Nat
    BY Grid, LineFacts, ShownFacts
  <2>2. h.cells[p] = off.cells[p]
    BY <1>2, <1>4, <2>1
  <2>3. scr.cells[p] = Blank
    <3>1. /\ p >= scr.start /\ p - scr.start \in Int /\ p - scr.start >= endIdx
      BY <1>4, <2>1
    <3>2. Line(buff[0], p - scr.start) = Blank
      BY <3>1, LineFacts, LineEnds
    <3>3. QED
      BY <3>1, <3>2, ShownFacts DEF Shows
  <2>4. CASE p # scr.cursor
    BY <1>3, <2>2, <2>3, <2>4
  <2>5. CASE p = scr.cursor
    <3>1. cursor = endIdx /\ endIdx' <= cursor
      BY <1>4, <2>1, <2>5, LineFacts, LineFactsNext, ShownFacts
    <3>2. shown = NUL
      <4>1. buff[0][cursor] = NUL
        BY <3>1, LineFacts DEF HasText
      <4>2. buff'[0][cursor] = NUL
        BY <3>1, LineFacts, LineFactsNext DEF HasText
      <4>3. QED
        BY <4>1, <4>2 DEF AtCursor
    <3>3. QED
      BY <1>3, <2>2, <2>5, <3>2, TerminalAssumption
  <2>6. QED
    BY <2>4, <2>5
<1>5. \A p \in Cell : p >= h.start + endIdx' => h.cells[p] = Blank
  <2>1. ASSUME NEW p \in Cell, p >= scr.start + endIdx' PROVE h.cells[p] = Blank
    <3>1. /\ p \in Nat /\ scr.start \in Nat /\ endIdx \in Nat /\ endIdx' \in Nat
      BY Grid, LineFacts, LineFactsNext, ShownFacts
    <3>2. CASE p >= scr.start + endIdx
      BY <1>4, <2>1, <3>2
    <3>3. CASE p < scr.start + endIdx
      BY <1>2, <2>1, <3>1, <3>3
    <3>4. QED
      BY <3>1, <3>2, <3>3
  <2>2. QED
    BY <1>2, <2>1
<1>6. /\ t \in Scr /\ t.cursor \in Cell /\ t.cursor = t.start + endIdx'
      /\ \E d \in Rows : /\ t.start = h.start - d
                         /\ d = 0 \/ t.cursor >= LastRow
      /\ Shows(t, buff'[0])
  BY <1>2, <1>5, LineFactsNext, TextShown
<1> HIDE DEF t
<1>7. PICK d \in Rows : t.start = scr.start - d /\ (d = 0 \/ t.cursor >= LastRow)
  BY <1>2, <1>6
<1>8. t.start - Len(Prompt) \in Rows
  <2>1. d = 0 \/ (scr.start - d) + endIdx' >= LastRow
    BY <1>6, <1>7
  <2>2. scr.start \in Int
    BY ShownFacts
  <2>3. QED
    BY <1>7, <2>1, <2>2, LineFactsNext, ShownFacts, Aligned
<1>9. NUL = buff'[0][cursor']
  BY LineFactsNext DEF HasText
<1>10. QED
  BY <1>1, <1>6, <1>8, <1>9, LineFactsNext, ShownLast

LEMMA BrowseShown ==
  ASSUME Fits, LineInv, TextInv, LineInv', TextInv', nulled' = {}, ScreenInv, ShownInv,
         astray = "no", TUp \/ TDown
  PROVE  ShownInv'
<1>1. AtCursor \in Glyph /\ buff'[0][cursor] \in Glyph
  BY LineFacts, LineFactsNext DEF AtCursor
<1>2. cursor' = endIdx'
  BY DEF TUp, TDown, Up, Down, SetLine
<1>3. CASE TUp
  <2>1. scr' = Replaced(scr, buff'[0], AtCursor)
    BY <1>3 DEF TUp
  <2>2. QED
    BY <1>1, <1>2, <2>1, ReplacedShown
<1>4. CASE TDown
  <2> DEFINE shown == IF curr = 1 THEN buff'[0][cursor] ELSE AtCursor
  <2>1. scr' = Replaced(scr, buff'[0], shown)
    BY <1>4 DEF TDown
  <2>2. shown \in Glyph /\ (shown = AtCursor \/ shown = buff'[0][cursor])
    BY <1>1
  <2> HIDE DEF shown
  <2>3. QED
    BY <1>2, <2>1, <2>2, ReplacedShown
<1>5. QED
  BY <1>3, <1>4

(* A character at the end of the line.                                     *)
LEMMA AppendShown ==
  ASSUME Fits, LineInv, TextInv, LineInv', TextInv', nulled' = {}, ScreenInv, ShownInv,
         astray = "no", NEW k \in Key, TType(k), cursor = endIdx
  PROVE  ShownInv'
<1> DEFINE c == buff'[0][cursor]
           put == PutBack(scr, scr.cursor)
           typed == Printed(put, c)
           t == IncTextCursor(typed)
<1>1. /\ cursor' = cursor + 1 /\ endIdx' = endIdx + 1
      /\ buff' = [buff EXCEPT ![0] = Inserted(buff[0], cursor, endIdx, c)]
      /\ scr' = Painted(t, buff'[0][cursor'])
  BY ShownFacts, TypedIs DEF TType
<1>2. \A i \in Index : buff'[0][i] = IF i = endIdx THEN c ELSE buff[0][i]
  <2>1. buff \in [Command -> Row] /\ 0 \in Command
    BY LineInvRows, Sizes
  <2>2. buff'[0] = Inserted(buff[0], endIdx, endIdx, c)
    BY <1>1, <2>1
  <2>3. \A i \in Index : ~(endIdx < i /\ i <= endIdx)
    BY LineFacts DEF Index
  <2>4. QED
    BY <2>2, <2>3 DEF Inserted
<1>3. c \in Glyph
  BY TypedIs DEF TType
<1> HIDE DEF c
<1>4. /\ scr \in Scr /\ scr.cursor \in Cell /\ scr.start \in Nat
      /\ scr.cursor = scr.start + endIdx /\ scr.cursor \in Int
      /\ scr.start + endIdx <= LastCell
      /\ endIdx \in Nat /\ endIdx \in Index /\ endIdx' \in Index
  BY ShownFacts, LineFacts, LineFactsNext, Grid
<1>5. /\ put \in Scr /\ put.cursor = scr.cursor /\ put.start = scr.start
      /\ put.cells = scr.cells
  BY <1>4, PutBackIs
<1> HIDE DEF put
<1>6. /\ typed \in Scr /\ typed.cursor = scr.cursor /\ typed.start = scr.start
      /\ \A p \in Cell :
           typed.cells[p] = IF p = scr.cursor THEN c ELSE scr.cells[p]
  BY <1>3, <1>5, PrintedIs
<1> HIDE DEF typed
<1>7. t \in Scr /\ t.cursor \in Cell
  BY <1>4, <1>6, IncIs
<1>8. PICK d \in {0, NumCols} :
        /\ t.cursor = scr.cursor + 1 - d /\ t.start = scr.start - d
        /\ d # 0 => t.cursor = LastRow
        /\ \A p \in Cell :
             t.cells[p] = IF p + d <= LastCell THEN typed.cells[p + d] ELSE Blank
  BY <1>4, <1>6, IncIs
<1> HIDE DEF t
<1>9. d \in Nat /\ d \in Rows
  BY RowsAre, Grid
<1>10. t.cursor = t.start + cursor' /\ cursor' = endIdx'
  BY <1>1, <1>4, <1>8, <1>9
<1>11. ASSUME NEW p \in Cell, p >= t.start
       PROVE  t.cells[p] = Line(buff'[0], p - t.start)
  <2>1. PICK q \in Nat : q = p + d
    BY <1>9, Grid
  <2>2. PICK i \in Nat : i = q - scr.start /\ i = p - t.start
    <3>1. t.start = scr.start - d
      BY <1>8
    <3>2. p \in Nat /\ d \in Nat /\ scr.start \in Nat
      BY <1>4, <1>9, Grid
    <3>3. q - scr.start \in Nat /\ q - scr.start = p - t.start
      BY <1>11, <2>1, <3>1, <3>2
    <3>4. QED
      BY <3>3
  <2>3. t.cells[p] = IF q <= LastCell THEN typed.cells[q] ELSE Blank
    BY <1>8, <2>1
  <2>4. CASE q = scr.cursor
    <3>1. i = endIdx /\ q <= LastCell
      BY <1>4, <2>2, <2>4
    <3>2. Line(buff'[0], i) = c
      BY <1>2, <1>4, <3>1 DEF Line
    <3>3. typed.cells[q] = c
      BY <1>4, <1>6, <2>4
    <3>4. QED
      BY <2>2, <2>3, <3>1, <3>2, <3>3
  <2>5. CASE q # scr.cursor /\ q <= LastCell
    <3>1. q \in Cell /\ q >= scr.start /\ i # endIdx /\ i = q - scr.start
      BY <1>4, <2>2, <2>5, Grid
    <3>2. typed.cells[q] = scr.cells[q]
      BY <1>6, <2>5, <3>1
    <3>3. scr.cells[q] = Line(buff[0], i)
      BY <3>1, ShownFacts DEF Shows
    <3>4. Line(buff'[0], i) = Line(buff[0], i)
      BY <1>2, <3>1 DEF Line
    <3>5. QED
      BY <2>2, <2>3, <2>5, <3>2, <3>3, <3>4
  <2>6. CASE q > LastCell
    <3>1. i >= endIdx' /\ ~(q <= LastCell)
      BY <1>1, <1>4, <2>2, <2>6, Grid
    <3>2. Line(buff'[0], i) = Blank
      BY <3>1, LineFactsNext, LineEnds
    <3>3. QED
      BY <2>2, <2>3, <3>1, <3>2
  <2>7. QED
    BY <2>4, <2>5, <2>6, Grid
<1>12. Shows(t, buff'[0])
  BY <1>11 DEF Shows
<1>13. t.start - Len(Prompt) \in Rows
  <2>1. d = 0 \/ (scr.start - d) + endIdx' >= LastRow
    <3>1. LastRow \in Int /\ endIdx' = endIdx + 1
      BY <1>1, Grid
    <3>2. d # 0 => t.cursor >= LastRow
      BY <1>8, <3>1
    <3>3. t.cursor = (scr.start - d) + endIdx'
      BY <1>8, <1>10
    <3>4. QED
      BY <3>2, <3>3
  <2>2. scr.start \in Int
    BY <1>4
  <2>3. QED
    BY <1>4, <1>8, <1>9, <2>1, <2>2, ShownFacts, Aligned
<1>14. QED
  BY <1>1, <1>7, <1>10, <1>12, <1>13, LineFactsNext, ShownLast

(* The rest of a row, from index j on, is drawn again from cell a on: a is *)
(* where that index belongs, and behind it nothing is left of the old row. *)
LEMMA TailShown ==
  ASSUME NEW s \in Scr, s.cursor \in Cell, s.start \in Nat,
         NEW row, Terminated(row), NEW n \in Index, HasText(row, n),
         NEW j \in 0 .. n, s.cursor = s.start + j,
         \A p \in Cell : p >= s.start + n => s.cells[p] = Blank,
         NEW t, t = PrintStr(s, TextFrom(row, j))
  PROVE  /\ t \in Scr
         /\ s.start + n <= LastCell => t.start = s.start
         /\ t.start = s.start =>
              \A p \in Cell :
                t.cells[p] = IF p >= s.cursor THEN Line(row, p - s.start)
                             ELSE s.cells[p]
<1>1. n \in Nat /\ j \in Nat /\ j <= n /\ s.cursor \in Nat
  BY Grid DEF Index
<1> DEFINE w == TextFrom(row, j)
<1>2. PICK m \in Nat : m = n - j
  BY <1>1
<1>3. /\ DOMAIN w = 1 .. m /\ \A i \in 1 .. m : w[i] \in Glyph
      /\ \A i \in 1 .. m : w[i] = row[j + i - 1]
  BY <1>2, TailIs
<1> HIDE DEF w
<1>4. DrawnSoFar(s, w, m, t)
  BY <1>3, PrintShows DEF w
<1>5. t \in Scr /\ t.cursor \in Cell
  BY <1>4 DEF DrawnSoFar
<1>6. PICK d \in Rows : DrawnBy(s, w, m, t, d)
  BY <1>4 DEF DrawnSoFar
<1>7. d \in Nat /\ t.start = s.start - d
  BY <1>6, RowsAre DEF DrawnBy
<1>8. s.start + n <= LastCell => t.start = s.start
  <2>1. s.cursor + m = s.start + n
    BY <1>1, <1>2
  <2>2. s.start + n <= LastCell => d = 0
    BY <1>5, <1>6, <2>1, NoScroll
  <2>3. QED
    BY <1>7, <2>2
<1>9. ASSUME t.start = s.start, NEW p \in Cell
      PROVE  t.cells[p] = IF p >= s.cursor THEN Line(row, p - s.start)
                          ELSE s.cells[p]
  <2>1. d = 0 /\ p \in Nat /\ p + d = p /\ p <= LastCell
    <3>1. d = 0
      BY <1>7, <1>9
    <3>2. QED
      BY <3>1, Grid
  <2>2. t.cells[p] = Drawn(s, w, m, p)
    BY <1>6, <2>1 DEF DrawnBy
  <2>3. CASE p < s.cursor
    BY <1>1, <2>1, <2>2, <2>3 DEF Drawn
  <2>4. CASE s.cursor <= p /\ p < s.cursor + m
    <3>1. PICK i \in 1 .. m : i = p - s.cursor + 1
      BY <1>1, <2>1, <2>4
    <3>2. PICK x \in Index : x = p - s.start /\ x = j + i - 1
      <4>1. p - s.start = j + i - 1 /\ p - s.start \in 0 .. n - 1
        BY <1>1, <1>2, <2>1, <2>4, <3>1
      <4>2. p - s.start \in Index
        BY <4>1, Sizes DEF Index
      <4>3. QED
        BY <4>1, <4>2
    <3>3. Drawn(s, w, m, p) = w[i]
      BY <2>4, <3>1 DEF Drawn
    <3>4. w[i] = row[x]
      BY <1>3, <3>2
    <3>5. QED
      BY <1>1, <2>1, <2>2, <2>4, <3>2, <3>3, <3>4 DEF Line
  <2>5. CASE p >= s.cursor + m
    <3>1. /\ p >= s.start + n /\ p - s.start \in Int /\ p - s.start >= n
          /\ p >= s.cursor /\ ~(p < s.cursor + m)
      BY <1>1, <1>2, <2>1, <2>5
    <3>2. Line(row, p - s.start) = Blank
      BY <3>1, LineEnds
    <3>3. Drawn(s, w, m, p) = s.cells[p]
      BY <2>1, <3>1 DEF Drawn
    <3>4. QED
      BY <2>2, <3>1, <3>2, <3>3
  <2>6. QED
    BY <1>1, <2>1, <2>3, <2>4, <2>5
<1>10. QED
  BY <1>5, <1>8, <1>9

(* A character in the middle of the line: the rest is drawn one cell on.   *)
LEMMA InsertShown ==
  ASSUME LineInv, TextInv, LineInv', TextInv', nulled' = {}, ScreenInv, ShownInv,
         astray = "no", astray' = "no", NEW k \in Key, TType(k), cursor # endIdx
  PROVE  ShownInv'
<1> DEFINE c     == buff'[0][cursor]
           u     == IncTextCursor(scr)
           moved == PrintStr(u, TextFrom(buff'[0], cursor'))
           put   == PutBack(moved, scr.cursor)
           typed == Printed(put, c)
           t     == IncTextCursor(typed)
<1>1. /\ cursor' = cursor + 1 /\ endIdx' = endIdx + 1
      /\ buff' = [buff EXCEPT ![0] = Inserted(buff[0], cursor, endIdx, c)]
  BY TypedIs DEF TType
<1>2. scr' = Painted(t, buff'[0][cursor']) /\ moved.start = scr.start
  BY ShownFacts DEF TType
<1>3. c \in Glyph
  BY TypedIs DEF TType
<1>4. \A i \in Index : /\ i = cursor => buff'[0][i] = c
                       /\ i < cursor => buff'[0][i] = buff[0][i]
  <2>1. buff \in [Command -> Row] /\ 0 \in Command
    BY LineInvRows, Sizes
  <2>2. buff'[0] = Inserted(buff[0], cursor, endIdx, c)
    BY <1>1, <2>1
  <2>3. \A i \in Index : i < cursor => i # cursor /\ ~(cursor < i)
    BY LineFacts DEF Index
  <2>4. QED
    BY <2>2, <2>3 DEF Inserted
<1> HIDE DEF c
<1>5. /\ scr \in Scr /\ scr.cursor \in Cell /\ scr.start \in Nat
      /\ scr.cursor = scr.start + cursor /\ scr.cursor \in Nat
      /\ scr.start + endIdx <= LastCell
  BY ShownFacts, Grid
<1>6. /\ endIdx \in Nat /\ cursor \in Nat /\ cursor < endIdx
      /\ endIdx' \in Index /\ cursor' \in 0 .. endIdx' /\ cursor \in Index
  BY LineFacts, LineFactsNext
<1>7. scr.cursor < LastCell /\ LastCell \in Nat
  BY <1>5, <1>6, Grid
<1>8. /\ u \in Scr /\ u.cursor \in Cell /\ u.cursor = scr.cursor + 1
      /\ u.start = scr.start /\ u.cells = scr.cells
  BY <1>5, <1>7, IncPlain
<1> HIDE DEF u
<1>9. \A p \in Cell : p >= scr.start => scr.cells[p] = Line(buff[0], p - scr.start)
  BY ShownFacts DEF Shows
<1>10. \A p \in Cell : p >= u.start + endIdx' => u.cells[p] = Blank
  <2> SUFFICES ASSUME NEW p \in Cell, p >= scr.start + endIdx'
               PROVE  scr.cells[p] = Blank
    BY <1>8
  <2>1. p >= scr.start /\ p - scr.start \in Int /\ p - scr.start >= endIdx
    BY <1>1, <1>5, <1>6, Grid
  <2>2. Line(buff[0], p - scr.start) = Blank
    BY <2>1, LineFacts, LineEnds
  <2>3. QED
    BY <1>9, <2>1, <2>2
<1>11. u.cursor = u.start + cursor' /\ u.start \in Nat
  BY <1>1, <1>5, <1>6, <1>8
<1>12. /\ moved \in Scr
       /\ \A p \in Cell :
            moved.cells[p] = IF p >= u.cursor THEN Line(buff'[0], p - u.start)
                             ELSE u.cells[p]
  BY <1>2, <1>6, <1>8, <1>10, <1>11, LineFactsNext, TailShown
<1> HIDE DEF moved
<1>13. /\ put \in Scr /\ put.cursor = scr.cursor /\ put.start = scr.start
       /\ put.cells = moved.cells
  BY <1>2, <1>5, <1>12, PutBackIs
<1> HIDE DEF put
<1>14. /\ typed \in Scr /\ typed.cursor = scr.cursor /\ typed.start = scr.start
       /\ \A p \in Cell :
            typed.cells[p] = IF p = scr.cursor THEN c ELSE moved.cells[p]
  BY <1>3, <1>13, PrintedIs
<1> HIDE DEF typed
<1>15. /\ t \in Scr /\ t.cursor \in Cell /\ t.cursor = scr.cursor + 1
       /\ t.start = scr.start /\ t.cells = typed.cells
  BY <1>5, <1>7, <1>14, IncPlain
<1> HIDE DEF t
<1>16. ASSUME NEW p \in Cell, p >= scr.start
       PROVE  typed.cells[p] = Line(buff'[0], p - scr.start)
  <2>1. PICK i \in Nat : i = p - scr.start /\ p \in Nat
    BY <1>5, <1>16, Grid
  <2>2. CASE p = scr.cursor
    <3>1. i = cursor
      BY <1>5, <1>6, <2>1, <2>2
    <3>2. Line(buff'[0], i) = c
      BY <1>4, <1>6, <3>1 DEF Line
    <3>3. QED
      BY <1>14, <2>1, <2>2, <3>2
  <2>3. CASE p < scr.cursor
    <3>1. i < cursor /\ i \in Index /\ p # scr.cursor /\ ~(p >= u.cursor)
      <4>1. i < cursor /\ p # scr.cursor /\ ~(p >= u.cursor)
        BY <1>5, <1>6, <1>8, <2>1, <2>3
      <4>2. i \in Index
        BY <1>6, <2>1, <4>1, Sizes DEF Index
      <4>3. QED
        BY <4>1, <4>2
    <3>2. Line(buff'[0], i) = buff[0][i] /\ Line(buff[0], i) = buff[0][i]
      BY <1>4, <3>1 DEF Line
    <3>3. typed.cells[p] = scr.cells[p]
      BY <1>8, <1>12, <1>14, <3>1
    <3>4. QED
      BY <1>9, <1>16, <2>1, <3>2, <3>3
  <2>4. CASE p > scr.cursor
    <3>1. p # scr.cursor /\ p >= u.cursor
      BY <1>5, <1>8, <2>1, <2>4
    <3>2. QED
      BY <1>8, <1>12, <1>14, <3>1
  <2>5. QED
    BY <1>5, <2>1, <2>2, <2>3, <2>4
<1>17. Shows(t, buff'[0])
  BY <1>15, <1>16 DEF Shows
<1>18. t.cursor = t.start + cursor' /\ t.start - Len(Prompt) \in Rows
  BY <1>1, <1>5, <1>6, <1>15, ShownFacts
<1>19. QED
  BY <1>2, <1>15, <1>17, <1>18, LineFactsNext, ShownLast

(* The last character erased: the cursor painted with a null byte clears   *)
(* the cell.                                                               *)
LEMMA CutShown ==
  ASSUME LineInv, TextInv, LineInv', TextInv', nulled' = {}, ScreenInv, ShownInv,
         astray = "no", TBackspace, cursor = endIdx
  PROVE  ShownInv'
<1> DEFINE back == DecTextCursor(scr)
           t    == PutBack(back, back.cursor)
<1>1. /\ cursor' = cursor - 1 /\ endIdx' = endIdx - 1 /\ cursor # 0
      /\ buff' = [buff EXCEPT ![0] = [buff[0] EXCEPT ![cursor - 1] = NUL]]
  BY DEF TBackspace, Backspace
<1>2. scr' = Painted(t, buff'[0][cursor'])
  BY ShownFacts DEF TBackspace
<1>3. /\ scr \in Scr /\ scr.cursor \in Cell /\ scr.start \in Nat
      /\ scr.cursor = scr.start + cursor /\ scr.cursor \in Nat
      /\ cursor \in Nat /\ cursor' \in Index
  BY ShownFacts, LineFacts, LineFactsNext, Grid
<1>4. \A i \in Index : buff'[0][i] = IF i = cursor' THEN NUL ELSE buff[0][i]
  <2>1. buff \in [Command -> Row] /\ 0 \in Command
    BY LineInvRows, Sizes
  <2>2. buff[0] \in Row
    BY <2>1
  <2>3. buff'[0] = [buff[0] EXCEPT ![cursor'] = NUL]
    BY <1>1, <2>1
  <2>4. QED
    BY <2>2, <2>3 DEF Row
<1>5. /\ back \in Scr /\ back.cursor \in Cell /\ back.cursor = scr.cursor - 1
      /\ back.start = scr.start /\ back.cells = scr.cells
  <2>1. scr.cursor # 0
    BY <1>1, <1>3
  <2>2. QED
    BY <1>3, <2>1, DecIs
<1> HIDE DEF back
<1>6. back.cursor \in Int
  BY <1>5 DEF Scr
<1>7. /\ t \in Scr /\ t.cursor = back.cursor /\ t.start = back.start
      /\ t.cells = back.cells
  BY <1>5, <1>6, PutBackIs
<1> HIDE DEF t
<1>8. t.cursor \in Cell /\ t.cursor = t.start + cursor' /\ t.start = scr.start
  BY <1>1, <1>3, <1>5, <1>7
<1>9. buff'[0][cursor'] = NUL /\ NUL \in Glyph
  BY <1>3, <1>4, Chars DEF Glyph
<1>10. scr' = Painted(t, NUL)
  BY <1>2, <1>9
<1>11. /\ scr'.cursor = t.cursor /\ scr'.start = t.start
       /\ \A p \in Cell : p # t.cursor => scr'.cells[p] = t.cells[p]
       /\ scr'.cells[t.cursor] = NUL
  BY <1>7, <1>8, <1>9, <1>10, PaintedIs, TerminalAssumption
<1>12. ASSUME NEW p \in Cell, p >= scr'.start
       PROVE  scr'.cells[p] = Line(buff'[0], p - scr'.start)
  <2>1. PICK i \in Nat : i = p - scr'.start /\ i = p - scr.start /\ p \in Nat
    BY <1>3, <1>8, <1>11, <1>12, Grid
  <2>2. CASE p = t.cursor
    <3>1. i = cursor'
      BY <1>1, <1>3, <1>8, <2>1, <2>2
    <3>2. Line(buff'[0], i) = NUL
      BY <1>3, <1>9, <3>1 DEF Line
    <3>3. QED
      BY <1>11, <2>1, <2>2, <3>2
  <2>3. CASE p # t.cursor
    <3>1. i # cursor' /\ p >= scr.start
      BY <1>1, <1>3, <1>8, <1>11, <1>12, <2>1, <2>3
    <3>2. Line(buff'[0], i) = Line(buff[0], i)
      BY <1>4, <3>1 DEF Line
    <3>3. scr.cells[p] = Line(buff[0], i)
      BY <2>1, <3>1, ShownFacts DEF Shows
    <3>4. QED
      BY <1>5, <1>7, <1>11, <2>1, <2>3, <3>2, <3>3
  <2>4. QED
    BY <2>2, <2>3
<1>13. scr'.start - Len(Prompt) \in Rows /\ scr'.cursor = scr'.start + cursor'
  BY <1>8, <1>11, ShownFacts
<1>14. QED
  BY <1>12, <1>13 DEF ShownInv, Shows

(* A character erased in the middle of the line.                           *)
LEMMA EraseShown ==
  ASSUME LineInv, TextInv, LineInv', TextInv', nulled' = {}, ScreenInv, ShownInv,
         astray = "no", TBackspace, cursor # endIdx
  PROVE  ShownInv'
<1> DEFINE clear == ClearCells(scr, endIdx - cursor)
           back  == DecTextCursor(clear)
           tail  == PrintStr(back, TextFrom(buff'[0], cursor'))
           t     == PutBack(tail, back.cursor)
<1>1. /\ cursor' = cursor - 1 /\ endIdx' = endIdx - 1 /\ cursor # 0
      /\ buff' = [buff EXCEPT ![0] = Erased(buff[0], cursor, endIdx)]
  BY DEF TBackspace, Backspace
<1>2. scr' = Painted(t, buff'[0][cursor'])
  BY ShownFacts DEF TBackspace
<1>3. /\ scr \in Scr /\ scr.cursor \in Cell /\ scr.start \in Nat
      /\ scr.cursor = scr.start + cursor /\ scr.cursor \in Nat
      /\ scr.start + endIdx <= LastCell
  BY ShownFacts, Grid
<1>4. /\ endIdx \in Nat /\ cursor \in Nat /\ cursor < endIdx
      /\ endIdx' \in Index /\ cursor' \in 0 .. endIdx' /\ cursor' \in Index
  BY LineFacts, LineFactsNext
<1>5. \A i \in Index : i < cursor' => buff'[0][i] = buff[0][i]
  <2>1. buff \in [Command -> Row] /\ 0 \in Command
    BY LineInvRows, Sizes
  <2>2. buff'[0] = Erased(buff[0], cursor, endIdx)
    BY <1>1, <2>1
  <2>3. \A i \in Index : i < cursor' => ~(cursor - 1 <= i)
    BY <1>1, <1>4 DEF Index
  <2>4. QED
    BY <2>2, <2>3 DEF Erased
<1>6. endIdx - cursor \in Nat /\ scr.cursor + (endIdx - cursor) - 1 <= LastCell
  BY <1>3, <1>4, Grid
<1>7. /\ clear \in Scr /\ clear.cursor = scr.cursor /\ clear.start = scr.start
      /\ Cleared(scr, endIdx - cursor, clear)
  BY <1>3, <1>6, ClearShows
<1> HIDE DEF clear
<1>8. /\ back \in Scr /\ back.cursor \in Cell /\ back.cursor = scr.cursor - 1
      /\ back.start = scr.start /\ back.cells = clear.cells
  <2>1. scr.cursor # 0
    BY <1>1, <1>3, <1>4
  <2>2. QED
    BY <1>3, <1>7, <2>1, DecIs
<1> HIDE DEF back
<1>9. \A p \in Cell : p >= scr.start => scr.cells[p] = Line(buff[0], p - scr.start)
  BY ShownFacts DEF Shows
<1>10. \A p \in Cell : p >= back.start + endIdx' => back.cells[p] = Blank
  <2> SUFFICES ASSUME NEW p \in Cell, p >= scr.start + endIdx'
               PROVE  clear.cells[p] = Blank
    BY <1>8
  <2>1. p \in Nat
    BY Grid
  <2>2. CASE p < scr.start + endIdx
    <3>1. scr.cursor <= p /\ p < scr.cursor + (endIdx - cursor)
      BY <1>1, <1>3, <1>4, <2>1, <2>2
    <3>2. QED
      BY <1>7, <3>1 DEF Cleared
  <2>3. CASE p >= scr.start + endIdx
    <3>1. /\ ~(p < scr.cursor + (endIdx - cursor))
          /\ p >= scr.start /\ p - scr.start \in Int /\ p - scr.start >= endIdx
      BY <1>3, <1>4, <2>1, <2>3
    <3>2. Line(buff[0], p - scr.start) = Blank
      BY <3>1, LineFacts, LineEnds
    <3>3. QED
      BY <1>7, <1>9, <3>1, <3>2 DEF Cleared
  <2>4. QED
    BY <1>3, <1>4, <2>1, <2>2, <2>3
<1>11. back.cursor = back.start + cursor' /\ back.start \in Nat
  BY <1>1, <1>3, <1>4, <1>8
<1>12. back.start + endIdx' <= LastCell
  BY <1>1, <1>3, <1>4, <1>8, Grid
<1>13. /\ tail \in Scr /\ tail.start = back.start
       /\ \A p \in Cell :
            tail.cells[p] = IF p >= back.cursor THEN Line(buff'[0], p - back.start)
                            ELSE back.cells[p]
  BY <1>4, <1>8, <1>10, <1>11, <1>12, LineFactsNext, TailShown
<1> HIDE DEF tail
<1>14. back.cursor \in Int
  BY <1>8 DEF Scr
<1>15. /\ t \in Scr /\ t.cursor = back.cursor /\ t.start = back.start
       /\ t.cells = tail.cells
  BY <1>13, <1>14, PutBackIs
<1> HIDE DEF t
<1>16. ASSUME NEW p \in Cell, p >= scr.start
       PROVE  tail.cells[p] = Line(buff'[0], p - scr.start)
  <2>1. PICK i \in Nat : i = p - scr.start /\ p \in Nat
    BY <1>3, <1>16, Grid
  <2>2. CASE p >= back.cursor
    BY <1>8, <1>13, <2>1, <2>2
  <2>3. CASE p < back.cursor
    <3>1. /\ i < cursor' /\ i \in Index /\ ~(p >= back.cursor)
          /\ ~(scr.cursor <= p)
      <4>1. i < cursor' /\ ~(p >= back.cursor) /\ ~(scr.cursor <= p)
        BY <1>3, <1>4, <1>8, <1>11, <2>1, <2>3
      <4>2. i \in Index
        BY <1>4, <2>1, <4>1, Sizes DEF Index
      <4>3. QED
        BY <4>1, <4>2
    <3>2. Line(buff'[0], i) = buff[0][i] /\ Line(buff[0], i) = buff[0][i]
      BY <1>5, <3>1 DEF Line
    <3>3. clear.cells[p] = scr.cells[p]
      BY <1>7, <3>1 DEF Cleared
    <3>4. tail.cells[p] = scr.cells[p]
      BY <1>8, <1>13, <3>1, <3>3
    <3>5. QED
      BY <1>9, <1>16, <2>1, <3>2, <3>4
  <2>4. QED
    BY <1>14, <2>1, <2>2, <2>3
<1>17. Shows(t, buff'[0])
  BY <1>8, <1>15, <1>16 DEF Shows
<1>18. t.cursor = t.start + cursor' /\ t.start - Len(Prompt) \in Rows
  BY <1>8, <1>11, <1>15, ShownFacts
<1>19. QED
  BY <1>2, <1>4, <1>8, <1>15, <1>17, <1>18, ShownLast

LEMMA EnterShown ==
  ASSUME Fits, LineInv, TextInv, LineInv', TextInv', nulled' = {}, ScreenInv, ShownInv,
         astray = "no", TEnter
  PROVE  ShownInv'
<1>1. PICK t : /\ t \in Scr /\ t.cursor \in Cell /\ t.start = t.cursor
               /\ scr' = Painted(t, buff'[0][cursor'])
               /\ BlankFrom(t, t.cursor) /\ t.start - Len(Prompt) \in Rows
  BY EnterDraws DEF ScreenInv
<1>2. endIdx' = 0 /\ cursor' = 0
  BY EnterEmpties DEF TEnter
<1>3. Shows(t, buff'[0])
  BY <1>1, <1>2, LineFactsNext, BlankShows
<1>4. t.cursor = t.start + cursor'
  BY <1>1, <1>2 DEF Scr
<1>5. QED
  BY <1>1, <1>3, <1>4, LineFactsNext, ShownLast

LEMMA ModifierShown ==
  ASSUME ShownInv, (Modifier /\ UNCHANGED <<scr, astray>>) \/ UNCHANGED tvars
  PROVE  ShownInv'
<1>1. UNCHANGED <<buff, cursor, scr, astray>>
  BY DEF Modifier, CapsLock, ShiftKey, tvars, vars
<1>2. QED
  BY <1>1 DEF ShownInv

LEMMA ShownStep ==
  ASSUME Fits, DrawInv, ShownInv, [TNext]_tvars
  PROVE  DrawInv' /\ ShownInv'
<1>1. LineInv /\ TextInv /\ LineInv' /\ TextInv'
  BY LineStep DEF DrawInv
<1>2. SUFFICES ASSUME astray' = "no" PROVE ScreenInv' /\ ShownInv'
  BY <1>1 DEF DrawInv, ShownInv
<1>3. astray = "no" /\ ~Tab /\ ScreenInv /\ nulled' = {}
  BY <1>1, <1>2, NotYetAstray DEF DrawInv, ScreenInv
<1>4. ScreenInv'
  BY <1>1, <1>3, ShownFacts, ScreenStep
<1>5. CASE TModifier \/ UNCHANGED tvars
  BY <1>4, <1>5, ModifierShown DEF TModifier
<1>6. CASE \E k \in Key : TType(k)
  BY <1>1, <1>2, <1>3, <1>4, <1>6, AppendShown, InsertShown
<1>7. CASE TRight \/ TLeft
  BY <1>1, <1>3, <1>4, <1>7, RightShown, LeftShown
<1>8. CASE TUp \/ TDown
  BY <1>1, <1>3, <1>4, <1>8, BrowseShown
<1>9. CASE TBackspace
  BY <1>1, <1>3, <1>4, <1>9, CutShown, EraseShown
<1>10. CASE TEnter
  BY <1>1, <1>3, <1>4, <1>10, EnterShown
<1>11. QED
  BY <1>3, <1>4, <1>5, <1>6, <1>7, <1>8, <1>9, <1>10 DEF TNext

LEMMA InitShown == ASSUME Fits PROVE TInit => ShownInv
<1> SUFFICES ASSUME TInit PROVE ShownInv
  OBVIOUS
<1>1. Init /\ cursor = 0 /\ 0 \in Command /\ buff[0] = ZeroRow
  BY Sizes DEF TInit, Init
<1>2. PICK t : t = Prompted(ClearScreen)
  OBVIOUS
<1>3. scr = Painted(t, NUL)
  BY <1>2 DEF TInit, ClearScreen
<1>4. /\ t \in Scr /\ t.cursor \in Cell /\ t.start = t.cursor
      /\ BlankFrom(t, t.cursor) /\ t.start - Len(Prompt) \in Rows
  BY <1>2, FirstPrompt
<1>5. t.cells[t.cursor] = NUL
  BY <1>4, TerminalAssumption, Grid DEF BlankFrom
<1>6. scr = t
  BY <1>3, <1>4, <1>5, SamePaint
<1>7. Shows(t, ZeroRow)
  BY <1>4, ZeroText, BlankShows
<1>8. t.cursor = t.start + 0
  BY <1>4 DEF Scr
<1>9. QED
  BY <1>1, <1>4, <1>6, <1>7, <1>8 DEF ShownInv

(* What the user sees is what the shell will get: until TAB, a scroll in   *)
(* the middle of an insertion, or a null character leads the text cursor   *)
(* astray, the cells from the start of the input on show the line and      *)
(* nothing behind it, and the text cursor stands on the cell of the buffer *)
(* cursor.  The prompt (10 cells) and the longest line (255 and the        *)
(* cursor) have to fit on the screen.                                      *)
THEOREM LineStaysShown ==
  ASSUME Fits
  PROVE  TSpec => []LineShown
<1>1. DrawInv /\ ShownInv => LineShown
  <2> SUFFICES ASSUME DrawInv, ShownInv, astray = "no"
               PROVE  /\ scr.start >= 0
                      /\ scr.cursor = scr.start + cursor
                      /\ \A p \in scr.start .. LastCell :
                           scr.cells[p] = IF p < scr.start + endIdx
                                          THEN buff[0][p - scr.start]
                                          ELSE Blank
    BY DEF LineShown
  <2>1. LineInv /\ TextInv /\ ScreenInv
    BY DEF DrawInv
  <2>2. /\ scr.start \in Nat /\ scr.cursor = scr.start + cursor
        /\ Shows(scr, buff[0])
    BY <2>1, ShownFacts
  <2>3. endIdx \in Nat /\ endIdx \in Index /\ HasText(buff[0], endIdx)
    BY <2>1, LineFacts
  <2>4. ASSUME NEW p \in scr.start .. LastCell
        PROVE  scr.cells[p] = IF p < scr.start + endIdx
                              THEN buff[0][p - scr.start] ELSE Blank
    <3>1. p \in Cell /\ p >= scr.start /\ p - scr.start \in Nat
      BY <2>2, Grid
    <3>2. scr.cells[p] = Line(buff[0], p - scr.start)
      BY <2>2, <3>1 DEF Shows
    <3>3. CASE p < scr.start + endIdx
      <4>1. p - scr.start \in Index
        BY <2>2, <2>3, <3>1, <3>3, Sizes DEF Index
      <4>2. QED
        BY <3>2, <3>3, <4>1 DEF Line
    <3>4. CASE ~(p < scr.start + endIdx)
      <4>1. p - scr.start >= endIdx
        BY <2>2, <2>3, <3>1, <3>4
      <4>2. Line(buff[0], p - scr.start) = Blank
        BY <2>3, <3>1, <4>1, LineEnds
      <4>3. QED
        BY <3>2, <3>4, <4>2
    <3>5. QED
      BY <3>3, <3>4
  <2>5. QED
    BY <2>2, <2>4
<1>2. DrawInv /\ ShownInv /\ [TNext]_tvars => DrawInv' /\ ShownInv'
  BY ShownStep
<1>3. TInit => DrawInv /\ ShownInv
  BY InitDraw, InitShown
<1>4. QED
  BY <1>1, <1>2, <1>3, PTL DEF TSpec
-----------------------------------------------------------------------------
(* The text cursor, wherever it is led: above the screen, too, it is never *)
(* behind its place in the line.                                           *)

(* t is s after the text cursor moved on n cells, along with the start of  *)
(* the line whenever the screen scrolled.                                  *)
Ahead(s, n, t) ==
  /\ t \in Scr /\ t.cursor <= LastCell /\ t.start <= s.start
  /\ t.cursor - t.start = s.cursor - s.start + n

LEMMA IncMoves ==
  ASSUME NEW s \in Scr, s.cursor <= LastCell, NEW t, t = IncTextCursor(s)
  PROVE  Ahead(s, 1, t)
<1>1. s.cursor \in Int /\ s.start \in Int
  BY DEF Scr
<1>2. CASE s.cursor = LastCell
  <2> DEFINE up == ShiftedUp(s)
  <2>1. t = [up EXCEPT !.cursor = LastRow, !.start = @ - NumCols]
    BY <1>2 DEF IncTextCursor
  <2>2. up \in Scr /\ up.start = s.start
    BY ShiftedIs
  <2> HIDE DEF up
  <2>3. t \in Scr /\ t.cursor = LastRow /\ t.start = s.start - NumCols
    <3>1. LastRow \in Int /\ s.start - NumCols \in Int
      BY <1>1, Grid
    <3>2. t = [up EXCEPT !.cursor = LastRow, !.start = s.start - NumCols]
      BY <2>1, <2>2
    <3>3. QED
      BY <2>2, <3>1, <3>2 DEF Scr
  <2>4. QED
    BY <1>1, <1>2, <2>3, Grid DEF Ahead
<1>3. CASE s.cursor # LastCell
  <2>1. t = [s EXCEPT !.cursor = s.cursor + 1]
    BY <1>3 DEF IncTextCursor
  <2>2. t \in Scr /\ t.cursor = s.cursor + 1 /\ t.start = s.start
    BY <1>1, <2>1 DEF Scr
  <2>3. QED
    BY <1>1, <1>3, <2>2, Grid DEF Ahead
<1>4. QED
  BY <1>2, <1>3

LEMMA RoundMoves ==
  ASSUME NEW does, NEW s \in Scr, s.cursor <= LastCell, NEW c,
         does = "print" => c \in Glyph, NEW t, t = Round(does, s, c)
  PROVE  Ahead(s, 1, t)
<1> DEFINE u == IF does = "print" THEN Printed(s, c) ELSE s
<1>1. t = IncTextCursor(u)
  BY DEF Round
<1>2. u \in Scr /\ u.cursor = s.cursor /\ u.start = s.start
  BY PrintedIs
<1> HIDE DEF u
<1>3. Ahead(u, 1, t)
  BY <1>1, <1>2, IncMoves
<1>4. QED
  BY <1>2, <1>3 DEF Ahead

LEMMA LoopMoves ==
  ASSUME NEW does, NEW s \in Scr, s.cursor <= LastCell, NEW n \in Nat, NEW w,
         does = "print" => \A i \in 1 .. n : w[i] \in Glyph,
         NEW g, Steps(g, does, s, w, n)
  PROVE  Ahead(s, n, g[n])
<1> DEFINE T == {k \in 0 .. n : Ahead(s, k, g[k])}
<1>1. 0 \in T
  <2>1. g[0] = s /\ s.start \in Int /\ s.cursor \in Int
    BY DEF Steps, Scr
  <2>2. QED
    BY <2>1 DEF Ahead
<1>2. ASSUME NEW k \in 1 .. n, k - 1 \in T PROVE k \in T
  <2>1. PICK u : u = g[k - 1]
    OBVIOUS
  <2>2. PICK v : v = g[k]
    OBVIOUS
  <2>3. PICK c : c = w[k]
    OBVIOUS
  <2>4. v = Round(does, u, c) /\ (does = "print" => c \in Glyph)
    BY <2>1, <2>2, <2>3 DEF Steps
  <2>5. Ahead(s, k - 1, u)
    BY <1>2, <2>1
  <2>6. u \in Scr /\ u.cursor <= LastCell
    BY <2>5 DEF Ahead
  <2>7. Ahead(u, 1, v)
    BY <2>4, <2>6, RoundMoves
  <2>8. /\ s.start \in Int /\ s.cursor \in Int /\ u.start \in Int
        /\ u.cursor \in Int /\ v.start \in Int /\ v.cursor \in Int
    BY <2>6, <2>7 DEF Ahead, Scr
  <2>9. Ahead(s, k, v)
    BY <2>5, <2>7, <2>8 DEF Ahead
  <2>10. QED
    BY <2>2, <2>9
<1>3. n \in T
  <2> HIDE DEF T
  <2>1. QED
    BY <1>1, <1>2, Loop
<1>4. QED
  BY <1>3

LEMMA PrintAhead ==
  ASSUME NEW s \in Scr, s.cursor <= LastCell, NEW n \in Nat, NEW w,
         DOMAIN w = 1 .. n, \A i \in 1 .. n : w[i] \in Glyph,
         NEW t, t = PrintStr(s, w)
  PROVE  Ahead(s, n, t)
<1>1. PICK g : Steps(g, "print", s, w, n) /\ PrintStr(s, w) = g[n]
  BY Rounds
<1>2. QED
  BY <1>1, LoopMoves

LEMMA TimesAhead ==
  ASSUME NEW s \in Scr, s.cursor <= LastCell, NEW n \in Nat,
         NEW t, t = IncTextCursorTimes(s, n)
  PROVE  Ahead(s, n, t)
<1>1. PICK w : w = [i \in 1 .. n |-> i]
  OBVIOUS
<1>2. DOMAIN w = 1 .. n
  BY <1>1
<1>3. PICK does : does = "move"
  OBVIOUS
<1>4. PICK g : /\ Steps(g, does, s, w, n)
               /\ does = "move" /\ w = [i \in 1 .. n |-> i]
                    => IncTextCursorTimes(s, n) = g[n]
  BY <1>2, Rounds
<1>5. t = g[n]
  BY <1>1, <1>3, <1>4
<1>6. ~(does = "print")
  BY <1>3
<1>7. QED
  BY <1>4, <1>5, <1>6, LoopMoves

LEMMA ClearMoves ==
  ASSUME NEW s \in Scr, s.cursor <= LastCell, NEW x \in Nat,
         NEW t, t = ClearCells(s, x)
  PROVE  t \in Scr /\ t.cursor = s.cursor /\ t.start <= s.start
<1>0. s.start \in Int /\ s.cursor \in Int
  BY DEF Scr
<1>1. CASE x = 0
  BY <1>0, <1>1 DEF ClearCells
<1>2. CASE x # 0
  <2> DEFINE w == [i \in 1 .. x - 1 |-> Blank]
             u == PrintStr(s, w)
             v == Printed(u, Blank)
  <2>1. t = [v EXCEPT !.cursor = s.cursor]
    BY <1>2 DEF ClearCells
  <2>2. PICK n \in Nat : n = x - 1
    BY <1>2
  <2>3. DOMAIN w = 1 .. n /\ \A i \in 1 .. n : w[i] \in Glyph
    BY <2>2, Grid
  <2> HIDE DEF w
  <2>4. Ahead(s, n, u)
    BY <2>3, PrintAhead
  <2> HIDE DEF u
  <2>5. u \in Scr /\ u.start <= s.start
    BY <2>4 DEF Ahead
  <2>6. v \in Scr /\ v.start = u.start
    BY <2>5, PrintedIs, Grid
  <2> HIDE DEF v
  <2>7. t \in Scr /\ t.cursor = s.cursor /\ t.start = v.start
    BY <1>0, <2>1, <2>6 DEF Scr
  <2>8. QED
    BY <2>5, <2>6, <2>7
<1>3. QED
  BY <1>1, <1>2

LEMMA DecMoves ==
  ASSUME NEW s \in Scr, s.cursor <= LastCell, NEW t, t = DecTextCursor(s)
  PROVE  /\ t \in Scr /\ t.cursor <= LastCell /\ t.start = s.start
         /\ t.cursor >= s.cursor - 1
<1>1. s.cursor \in Int
  BY DEF Scr
<1>2. CASE s.cursor = 0
  BY <1>1, <1>2, Grid DEF DecTextCursor
<1>3. CASE s.cursor # 0
  <2>1. t = [s EXCEPT !.cursor = s.cursor - 1]
    BY <1>3 DEF DecTextCursor
  <2>2. t \in Scr /\ t.cursor = s.cursor - 1 /\ t.start = s.start
    BY <1>1, <2>1 DEF Scr
  <2>3. QED
    BY <1>1, <2>2, Grid
<1>4. QED
  BY <1>2, <1>3

(* The bytes of a row that are drawn are characters, wherever it ends.     *)
LEMMA TailChars ==
  ASSUME NEW row, Terminated(row), NEW j \in Index
  PROVE  \E n \in Nat : /\ DOMAIN TextFrom(row, j) = 1 .. n
                        /\ \A i \in 1 .. n : TextFrom(row, j)[i] \in Glyph
<1>1. PICK e \in Index : e = EndFrom(row, j) /\ j <= e
  BY EndFromFinds
<1>2. e \in Nat /\ j \in Nat /\ e <= BufSize - 1 /\ BufSize \in Nat
  BY Sizes DEF Index
<1>3. PICK n \in Nat : n = e - j
  BY <1>1, <1>2
<1>4. TextFrom(row, j) = [i \in 1 .. n |-> row[j + i - 1]]
  BY <1>1, <1>3 DEF TextFrom
<1>5. ASSUME NEW i \in 1 .. n PROVE row[j + i - 1] \in Glyph
  <2>1. j + i - 1 \in Index
    BY <1>2, <1>3 DEF Index
  <2>2. QED
    BY <2>1 DEF Terminated, Row, Glyph
<1>6. QED
  BY <1>4, <1>5

MoveInv ==
  /\ scr \in Scr
  /\ scr.start + cursor <= scr.cursor
  /\ scr.cursor <= LastCell

(* The last step of every handler, and what it needs.                      *)
LEMMA MoveLast ==
  ASSUME NEW t \in Scr, t.cursor <= LastCell, t.start + cursor' <= t.cursor,
         NEW c \in Glyph, scr' = Painted(t, c)
  PROVE  MoveInv'
<1>1. scr' \in Scr /\ scr'.cursor = t.cursor /\ scr'.start = t.start
  BY PaintedIs
<1>2. QED
  BY <1>1 DEF MoveInv

(* Where a handler begins: the text cursor taken off.                      *)
LEMMA MoveFirst ==
  ASSUME LineInv, LineInv', MoveInv, NEW c \in Glyph, NEW off, off = Painted(scr, c)
  PROVE  /\ off \in Scr /\ off.cursor <= LastCell
         /\ off.start + cursor <= off.cursor
         /\ off.cursor = scr.cursor /\ off.start = scr.start
         /\ off.start \in Int /\ off.cursor \in Int /\ LastCell \in Nat
         /\ AtCursor \in Glyph /\ buff'[0][cursor'] \in Glyph
         /\ buff'[0][cursor] \in Glyph
         /\ cursor \in Nat /\ cursor' \in Nat /\ endIdx \in Nat
<1>1. /\ off \in Scr /\ off.cursor = scr.cursor /\ off.start = scr.start
  BY PaintedIs DEF MoveInv
<1>2. off.start \in Int /\ off.cursor \in Int /\ LastCell \in Nat
  BY <1>1, Grid DEF Scr
<1>3. /\ AtCursor \in Glyph /\ buff'[0][cursor'] \in Glyph
      /\ buff'[0][cursor] \in Glyph
      /\ cursor \in Nat /\ cursor' \in Nat /\ endIdx \in Nat
  BY RowFacts, RowFactsNext DEF AtCursor
<1>4. QED
  BY <1>1, <1>2, <1>3 DEF MoveInv

LEMMA RightMoves == ASSUME LineInv, LineInv', MoveInv, TRight PROVE MoveInv'
<1>1. PICK off : off = Painted(scr, AtCursor)
  OBVIOUS
<1>2. PICK t : t = IncTextCursor(off)
  OBVIOUS
<1>3. /\ cursor' = cursor + 1 /\ buff' = buff
      /\ scr' = Painted(t, buff'[0][cursor'])
  BY <1>1, <1>2 DEF TRight, Right
<1>4. AtCursor \in Glyph
  BY RowFacts DEF AtCursor
<1>5. /\ off \in Scr /\ off.cursor <= LastCell
      /\ off.start + cursor <= off.cursor /\ cursor \in Nat
      /\ off.start \in Int /\ off.cursor \in Int
      /\ buff'[0][cursor'] \in Glyph
  BY <1>1, <1>4, MoveFirst
<1>6. Ahead(off, 1, t)
  BY <1>2, <1>5, IncMoves
<1>7. t \in Scr /\ t.cursor <= LastCell /\ t.start \in Int /\ t.cursor \in Int
  BY <1>6 DEF Ahead, Scr
<1>8. t.start + cursor' <= t.cursor
  BY <1>3, <1>5, <1>6, <1>7 DEF Ahead
<1>9. QED
  BY <1>3, <1>5, <1>7, <1>8, MoveLast

LEMMA LeftMoves == ASSUME LineInv, LineInv', MoveInv, TLeft PROVE MoveInv'
<1>1. PICK off : off = Painted(scr, AtCursor)
  OBVIOUS
<1>2. PICK t : t = DecTextCursor(off)
  OBVIOUS
<1>3. /\ cursor' = cursor - 1 /\ buff' = buff
      /\ scr' = Painted(t, buff'[0][cursor'])
  BY <1>1, <1>2 DEF TLeft, Left
<1>4. AtCursor \in Glyph
  BY RowFacts DEF AtCursor
<1>5. /\ off \in Scr /\ off.cursor <= LastCell
      /\ off.start + cursor <= off.cursor /\ cursor \in Nat
      /\ off.start \in Int /\ off.cursor \in Int
      /\ buff'[0][cursor'] \in Glyph
  BY <1>1, <1>4, MoveFirst
<1>6. /\ t \in Scr /\ t.cursor <= LastCell /\ t.start = off.start
      /\ t.cursor >= off.cursor - 1
  BY <1>2, <1>5, DecMoves
<1>7. t.cursor \in Int
  BY <1>6 DEF Scr
<1>8. t.start + cursor' <= t.cursor
  BY <1>3, <1>5, <1>6, <1>7
<1>9. QED
  BY <1>3, <1>5, <1>6, <1>8, MoveLast

LEMMA TabMoves == ASSUME LineInv, LineInv', MoveInv, Tab PROVE MoveInv'
<1>1. PICK off : off = Painted(scr, AtCursor)
  OBVIOUS
<1>2. PICK t : t = IncTextCursorTimes(off, TabCells)
  OBVIOUS
<1>3. cursor' = cursor /\ scr' = Painted(t, AtCursor)
  BY <1>1, <1>2 DEF Tab, vars
<1>4. AtCursor \in Glyph
  BY RowFacts DEF AtCursor
<1>5. /\ off \in Scr /\ off.cursor <= LastCell
      /\ off.start + cursor <= off.cursor /\ cursor \in Nat
      /\ off.start \in Int /\ off.cursor \in Int
  BY <1>1, <1>4, MoveFirst
<1>6. Ahead(off, TabCells, t) /\ TabCells \in Nat
  BY <1>2, <1>5, TerminalAssumption, TimesAhead
<1>7. t \in Scr /\ t.cursor <= LastCell /\ t.start \in Int /\ t.cursor \in Int
  BY <1>6 DEF Ahead, Scr
<1>8. t.start + cursor' <= t.cursor
  BY <1>3, <1>5, <1>6, <1>7 DEF Ahead
<1>9. QED
  BY <1>3, <1>4, <1>7, <1>8, MoveLast

(* The line cleared and another row printed from its start on.             *)
LEMMA ReplacedMoves ==
  ASSUME LineInv, LineInv', MoveInv, NEW shown \in Glyph,
         scr' = Replaced(scr, buff'[0], shown), cursor' = Strlen(buff'[0])
  PROVE  MoveInv'
<1>1. PICK off : off = Painted(scr, shown)
  OBVIOUS
<1>2. /\ off \in Scr /\ off.cursor <= LastCell
      /\ off.start + cursor <= off.cursor /\ off.start = scr.start
      /\ off.start \in Int /\ off.cursor \in Int /\ LastCell \in Nat
      /\ cursor \in Nat /\ cursor' \in Nat /\ endIdx \in Nat
  BY <1>1, MoveFirst
<1> DEFINE at    == [off EXCEPT !.cursor = off.start]
           c     == ClearCells(at, endIdx)
           clear == [c EXCEPT !.cursor = off.cursor]
           home  == PutBack(clear, clear.start)
           t     == PrintStr(home, Text(buff'[0]))
<1>3. scr' = Painted(t, NUL)
  BY <1>1, <1>2 DEF Replaced, ClearCellsAt
<1>4. at \in Scr /\ at.cursor = off.start /\ at.start = off.start
  BY <1>2 DEF Scr
<1> HIDE DEF at
<1>5. at.cursor <= LastCell
  BY <1>2, <1>4
<1>6. c \in Scr /\ c.start <= at.start
  BY <1>2, <1>4, <1>5, ClearMoves
<1> HIDE DEF c
<1>7. clear \in Scr /\ clear.start = c.start /\ clear.start \in Int
  BY <1>2, <1>6 DEF Scr
<1> HIDE DEF clear
<1>8. home \in Scr /\ home.cursor = clear.start /\ home.start = clear.start
  BY <1>7, PutBackIs
<1> HIDE DEF home
<1>9. home.cursor <= LastCell
  BY <1>2, <1>4, <1>6, <1>7, <1>8
<1>10. /\ cursor' \in Nat /\ DOMAIN Text(buff'[0]) = 1 .. cursor'
       /\ \A i \in 1 .. cursor' : Text(buff'[0])[i] \in Glyph
  BY <1>2, RowFactsNext, TextOfRow DEF Written, Glyph
<1>11. Ahead(home, cursor', t)
  BY <1>8, <1>9, <1>10, PrintAhead
<1> HIDE DEF t
<1>12. t \in Scr /\ t.cursor <= LastCell /\ t.start \in Int /\ t.cursor \in Int
  BY <1>11 DEF Ahead, Scr
<1>13. t.start + cursor' <= t.cursor
  BY <1>2, <1>7, <1>8, <1>11, <1>12 DEF Ahead
<1>14. NUL \in Glyph
  BY Chars DEF Glyph
<1>15. QED
  BY <1>3, <1>12, <1>13, <1>14, MoveLast

LEMMA BrowseMoves ==
  ASSUME LineInv, LineInv', MoveInv, TUp \/ TDown PROVE MoveInv'
<1>1. AtCursor \in Glyph /\ buff'[0][cursor] \in Glyph
  BY RowFacts, RowFactsNext DEF AtCursor
<1>2. cursor' = Strlen(buff'[0])
  <2>1. buff \in [Command -> Row] /\ 0 \in Command
    BY LineInvRows, Sizes
  <2>2. QED
    BY <2>1 DEF TUp, TDown, Up, Down, SetLine
<1>3. CASE TUp
  <2>1. scr' = Replaced(scr, buff'[0], AtCursor)
    BY <1>3 DEF TUp
  <2>2. QED
    BY <1>1, <1>2, <2>1, ReplacedMoves
<1>4. CASE TDown
  <2> DEFINE shown == IF curr = 1 THEN buff'[0][cursor] ELSE AtCursor
  <2>1. scr' = Replaced(scr, buff'[0], shown)
    BY <1>4 DEF TDown
  <2>2. shown \in Glyph
    BY <1>1
  <2> HIDE DEF shown
  <2>3. QED
    BY <1>2, <2>1, <2>2, ReplacedMoves
<1>5. QED
  BY <1>3, <1>4

LEMMA BackspaceMoves ==
  ASSUME LineInv, LineInv', MoveInv, TBackspace PROVE MoveInv'
<1> DEFINE off   == Painted(scr, AtCursor)
           clear == IF cursor = endIdx THEN off
                    ELSE ClearCells(off, endIdx - cursor)
           back  == DecTextCursor(clear)
           tail  == IF cursor = endIdx THEN back
                    ELSE PrintStr(back, TextFrom(buff'[0], cursor'))
           t     == PutBack(tail, back.cursor)
<1>1. cursor' = cursor - 1 /\ scr' = Painted(t, buff'[0][cursor'])
  BY DEF TBackspace, Backspace
<1>2. AtCursor \in Glyph
  BY RowFacts DEF AtCursor
<1>3. /\ off \in Scr /\ off.cursor <= LastCell
      /\ off.start + cursor <= off.cursor /\ cursor \in Nat
      /\ off.start \in Int /\ off.cursor \in Int
      /\ buff'[0][cursor'] \in Glyph
  BY <1>2, MoveFirst
<1> HIDE DEF off
<1>4. clear \in Scr /\ clear.cursor = off.cursor /\ clear.start <= off.start
  <2>1. CASE cursor = endIdx
    BY <1>3, <2>1
  <2>2. CASE cursor # endIdx
    <3>1. endIdx - cursor \in Nat
      BY RowFacts
    <3>2. QED
      BY <1>3, <2>2, <3>1, ClearMoves
  <2>3. QED
    BY <2>1, <2>2
<1> HIDE DEF clear
<1>5. /\ back \in Scr /\ back.cursor <= LastCell /\ back.start = clear.start
      /\ back.cursor >= clear.cursor - 1
  BY <1>3, <1>4, DecMoves
<1> HIDE DEF back
<1>6. /\ clear.start \in Int /\ clear.cursor \in Int
      /\ back.start \in Int /\ back.cursor \in Int
  BY <1>4, <1>5 DEF Scr
<1>7. tail \in Scr /\ tail.start <= back.start
  <2>1. CASE cursor = endIdx
    BY <1>5, <1>6, <2>1
  <2>2. CASE cursor # endIdx
    <3>1. PICK w : w = TextFrom(buff'[0], cursor')
      OBVIOUS
    <3>2. PICK n \in Nat : DOMAIN w = 1 .. n /\ \A i \in 1 .. n : w[i] \in Glyph
      BY <3>1, RowFactsNext, TailChars
    <3>3. tail = PrintStr(back, w)
      BY <2>2, <3>1
    <3>4. Ahead(back, n, tail)
      BY <1>5, <3>2, <3>3, PrintAhead
    <3>5. QED
      BY <3>4 DEF Ahead
  <2>3. QED
    BY <2>1, <2>2
<1> HIDE DEF tail
<1>8. t \in Scr /\ t.cursor = back.cursor /\ t.start = tail.start
  BY <1>6, <1>7, PutBackIs
<1> HIDE DEF t
<1>9. t.start \in Int
  BY <1>8 DEF Scr
<1>10. t.start + cursor' <= t.cursor
  BY <1>1, <1>3, <1>4, <1>5, <1>6, <1>7, <1>8, <1>9
<1>11. QED
  BY <1>1, <1>3, <1>5, <1>8, <1>10, MoveLast

LEMMA TypeMoves ==
  ASSUME LineInv, LineInv', MoveInv, NEW k \in Key, TType(k) PROVE MoveInv'
<1> DEFINE off   == Painted(scr, AtCursor)
           moved == IF cursor = endIdx THEN off
                    ELSE PrintStr(IncTextCursor(off), TextFrom(buff'[0], cursor'))
           put   == PutBack(moved, off.cursor)
           typed == Printed(put, buff'[0][cursor])
           t     == IncTextCursor(typed)
<1>1. cursor' = cursor + 1 /\ scr' = Painted(t, buff'[0][cursor'])
  BY TypedIs DEF TType
<1>2. AtCursor \in Glyph
  BY RowFacts DEF AtCursor
<1>3. /\ off \in Scr /\ off.cursor <= LastCell
      /\ off.start + cursor <= off.cursor /\ cursor \in Nat
      /\ off.start \in Int /\ off.cursor \in Int
      /\ buff'[0][cursor'] \in Glyph /\ buff'[0][cursor] \in Glyph
  BY <1>2, MoveFirst
<1> HIDE DEF off
<1>4. moved \in Scr /\ moved.start <= off.start
  <2>1. CASE cursor = endIdx
    BY <1>3, <2>1
  <2>2. CASE cursor # endIdx
    <3>1. PICK w : w = TextFrom(buff'[0], cursor')
      OBVIOUS
    <3>2. PICK n \in Nat : DOMAIN w = 1 .. n /\ \A i \in 1 .. n : w[i] \in Glyph
      BY <3>1, RowFactsNext, TailChars
    <3>3. PICK u : u = IncTextCursor(off)
      OBVIOUS
    <3>4. Ahead(off, 1, u)
      BY <1>3, <3>3, IncMoves
    <3>5. u \in Scr /\ u.cursor <= LastCell /\ u.start <= off.start /\ u.start \in Int
      BY <3>4 DEF Ahead, Scr
    <3>6. moved = PrintStr(u, w)
      BY <2>2, <3>1, <3>3
    <3>7. Ahead(u, n, moved)
      BY <3>2, <3>5, <3>6, PrintAhead
    <3>8. moved \in Scr /\ moved.start <= u.start /\ moved.start \in Int
      BY <3>7 DEF Ahead, Scr
    <3>9. QED
      BY <1>3, <3>5, <3>8
  <2>3. QED
    BY <2>1, <2>2
<1> HIDE DEF moved
<1>5. put \in Scr /\ put.cursor = off.cursor /\ put.start = moved.start
  BY <1>3, <1>4, PutBackIs
<1> HIDE DEF put
<1>6. typed \in Scr /\ typed.cursor = off.cursor /\ typed.start = moved.start
  BY <1>3, <1>5, PrintedIs
<1> HIDE DEF typed
<1>7. Ahead(typed, 1, t)
  BY <1>3, <1>6, IncMoves
<1> HIDE DEF t
<1>8. /\ t \in Scr /\ t.cursor <= LastCell /\ t.start \in Int /\ t.cursor \in Int
      /\ typed.start \in Int
  BY <1>6, <1>7 DEF Ahead, Scr
<1>9. t.start + cursor' <= t.cursor
  BY <1>1, <1>3, <1>4, <1>6, <1>7, <1>8 DEF Ahead
<1>10. QED
  BY <1>1, <1>3, <1>8, <1>9, MoveLast

LEMMA EnterMoves == ASSUME LineInv, LineInv', MoveInv, TEnter PROVE MoveInv'
<1>1. PICK t : /\ t \in Scr /\ t.cursor \in Cell /\ t.start = t.cursor
               /\ scr' = Painted(t, buff'[0][cursor'])
  BY EnterDraws DEF MoveInv
<1>2. cursor' = 0 /\ buff'[0][cursor'] \in Glyph
  BY EnterEmpties, RowFactsNext DEF TEnter
<1>3. t.cursor <= LastCell /\ t.start + cursor' <= t.cursor
  BY <1>1, <1>2, Grid
<1>4. QED
  BY <1>1, <1>2, <1>3, MoveLast

LEMMA MoveStep ==
  ASSUME LineInv, LineInv', MoveInv, [TNext]_tvars PROVE MoveInv'
<1>1. CASE TModifier \/ UNCHANGED tvars
  <2>1. UNCHANGED <<cursor, scr>>
    BY <1>1 DEF TModifier, Modifier, CapsLock, ShiftKey, tvars, vars
  <2>2. QED
    BY <2>1 DEF MoveInv
<1>2. CASE TRight \/ TLeft \/ Tab
  BY <1>2, RightMoves, LeftMoves, TabMoves
<1>3. CASE TUp \/ TDown
  BY <1>3, BrowseMoves
<1>4. CASE TBackspace \/ TEnter
  BY <1>4, BackspaceMoves, EnterMoves
<1>5. CASE \E k \in Key : TType(k)
  BY <1>5, TypeMoves
<1>6. QED
  BY <1>1, <1>2, <1>3, <1>4, <1>5 DEF TNext

LEMMA InitMoves == TInit => MoveInv
<1> SUFFICES ASSUME TInit PROVE MoveInv
  OBVIOUS
<1>1. PICK t : t = Prompted(ClearScreen)
  OBVIOUS
<1>2. scr = Painted(t, NUL) /\ cursor = 0
  BY <1>1 DEF TInit, Init, ClearScreen
<1>3. t \in Scr /\ t.cursor \in Cell /\ t.start = t.cursor
  BY <1>1, FirstPrompt
<1>4. NUL \in Glyph
  BY Chars DEF Glyph
<1>5. scr \in Scr /\ scr.cursor = t.cursor /\ scr.start = t.start
  BY <1>2, <1>3, <1>4, PaintedIs
<1>6. QED
  BY <1>2, <1>3, <1>5, Grid DEF MoveInv

(* The text cursor is never behind the place of the buffer cursor in the   *)
(* line, and never below the screen: after any keys and any output of the  *)
(* shell, for every size of the screen, of the prompt and of the line,     *)
(* whatever the byte at address 0, and wherever TAB and the scrolls have   *)
(* led it, rows above the screen included.                                 *)
THEOREM CursorNeverBehind == TSpec => []NeverBehind
<1>1. MoveInv => NeverBehind
  BY DEF MoveInv, NeverBehind
<1>2. LineInv /\ TextInv /\ MoveInv /\ [TNext]_tvars
        => LineInv' /\ TextInv' /\ MoveInv'
  BY LineStep, MoveStep
<1>3. TInit => LineInv /\ TextInv /\ MoveInv
  BY InitLineInv, InitTextInv, InitMoves DEF TInit
<1>4. QED
  BY <1>1, <1>2, <1>3, PTL DEF TSpec
=============================================================================
