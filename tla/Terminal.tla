------------------------------ MODULE Terminal ------------------------------
(***************************************************************************)
(* The terminal: each key's handler in terminal_input_parser.c as a whole, *)
(* what it does to the line (module LineEditor) and what it draws (module  *)
(* VgaText), in the order of the code.                                     *)
(*                                                                         *)
(* The shell that ENTER calls is external here: what it prints is a line   *)
(* of one of OutputLengths cells.                                          *)
(***************************************************************************)
EXTENDS LineEditor, VgaText

CONSTANTS
  Prompt,         (* terminal_prompt_msg, as a sequence.                   *)
  Output,         (* The character the shell's output is made of.          *)
  OutputLengths,  (* How many cells it may take.                           *)
  TabCells,       (* TAB_TEXT_CELL_COUNT.                                  *)
  RowsAbove       (* Bound: how many rows above the terminal the line's    *)
                  (* start may be led.                                     *)

ASSUME TerminalAssumption ==
  /\ NUL = Blank
  /\ Prompt \in Seq(Range(Prompt)) /\ OutputLengths \subseteq Nat
  /\ TabCells \in Nat /\ RowsAbove \in Nat

VARIABLES
  scr,      (* The cells, text_cursor (cursor) and input.start (start).    *)
  astray    (* History: "no", or what first parted line and screen: "tab", *)
            (* a "scroll" of the screen in the middle of an insertion, or  *)
            (* a "null" character typed.                                   *)

tvars == <<vars, scr, astray>>

-----------------------------------------------------------------------------
(* strlen and print_str from position i of a row on.                       *)
TextFrom(row, i) == [j \in 1 .. EndFrom(row, i) - i |-> row[i + j - 1]]

AtCursor == buff[0][cursor]

(* The draws that put back the text cursor they found.                     *)
PutBack(s, p) == [s EXCEPT !.cursor = p]

(* replace_curr_cmd_with_diff_cmd, once row 0 is replaced by row; shown is *)
(* the character the cursor is taken off with.                             *)
Replaced(s, row, shown) ==
  LET clear == ClearCellsAt(Painted(s, shown), s.start, endIdx)
      home  == PutBack(clear, clear.start)
  IN  Painted(PrintStr(home, Text(row)), NUL)

(* initialize_new_input_line; start is where the prompt ends.              *)
Prompted(s) == LET t == PrintStr(s, Prompt) IN [t EXCEPT !.start = t.cursor]

-----------------------------------------------------------------------------
(* init_terminal and init_terminal_subsystem: a cleared screen, the prompt *)
(* printed, start set after it.                                            *)
TInit ==
  /\ Init
  /\ scr = Painted(Prompted([cells |-> [p \in Cell |-> Blank],
                             cursor |-> 0, start |-> 0]), NUL)
  /\ astray = "no"

TRight ==
  /\ Right
  /\ scr' = Painted(IncTextCursor(Painted(scr, AtCursor)), buff[0][cursor'])
  /\ UNCHANGED astray

TLeft ==
  /\ Left
  /\ scr' = Painted(DecTextCursor(Painted(scr, AtCursor)), buff[0][cursor'])
  /\ UNCHANGED astray

TUp ==
  /\ Up
  /\ scr' = Replaced(scr, buff'[0], AtCursor)
  /\ UNCHANGED astray

(* The line put aside is copied to row 0 before the cursor is taken off;   *)
(* a row of the history is copied after.                                   *)
TDown ==
  /\ Down
  /\ scr' = Replaced(scr, buff'[0],
                     IF curr = 1 THEN buff'[0][cursor] ELSE AtCursor)
  /\ UNCHANGED astray

(* KEY_TAB, on the make and on the break code alike: only the text cursor  *)
(* moves.                                                                  *)
Tab ==
  /\ cursor = 0
  /\ scr' = Painted(IncTextCursorTimes(Painted(scr, AtCursor), TabCells),
                    AtCursor)
  /\ astray' = IF astray = "no" THEN "tab" ELSE astray
  /\ UNCHANGED vars

TBackspace_NoClear ==
  /\ Backspace
  /\ LET back == DecTextCursor(Painted(scr, AtCursor))
         tail == PrintStr(back, TextFrom(buff'[0], cursor'))
     IN  scr' = Painted(PutBack(tail, back.cursor), buff'[0][cursor'])
  /\ UNCHANGED astray

TBackspace ==
  /\ Backspace
  /\ LET off   == Painted(scr, AtCursor)
         clear == IF cursor = endIdx THEN off
                  ELSE ClearCells(off, endIdx - cursor)
         back  == DecTextCursor(clear)
         tail  == IF cursor = endIdx THEN back
                  ELSE PrintStr(back, TextFrom(buff'[0], cursor'))
     IN  scr' = Painted(PutBack(tail, back.cursor), buff'[0][cursor'])
  /\ UNCHANGED astray

(* The shell prints and goes to a new line before the rows are logged.     *)
TEnter ==
  /\ Enter
  /\ \E n \in OutputLengths :
       LET below == NewLineAfterInput(Painted(scr, AtCursor),
                                      endIdx + Len(Prompt))
           shell == NewLine(PrintStr(below, [i \in 1 .. n |-> Output]))
       IN  scr' = Painted(Prompted(shell), buff'[0][cursor'])
  /\ UNCHANGED astray

(* place_char_at_cursor_pos: the rest of the line is drawn one cell on,    *)
(* the text cursor put back, the new character (by now in the row) drawn.  *)
TType(k) ==
  /\ Type(k)
  /\ LET off   == Painted(scr, AtCursor)
         moved == IF cursor = endIdx THEN off
                  ELSE PrintStr(IncTextCursor(off),
                                TextFrom(buff'[0], cursor'))
         new   == buff'[0][cursor]
     IN  /\ scr' = Painted(IncTextCursor(
                             Printed(PutBack(moved, off.cursor), new)),
                           buff'[0][cursor'])
         /\ astray' = IF astray # "no" THEN astray
                    ELSE IF new = NUL THEN "null"
                    ELSE IF moved.start # off.start THEN "scroll" ELSE "no"

TModifier ==
  /\ Modifier
  /\ UNCHANGED <<scr, astray>>

(* TAB moves the text cursor alone, so enough of it scrolls the line's     *)
(* start off the screen, and the arrows take the text cursor there.        *)
TNext ==
  /\ \/ TRight
     \/ TLeft
     \/ TUp
     \/ TDown
     \/ Tab
     \/ TBackspace
     \/ \E k \in Key : TType(k)
     \/ TEnter
     \/ TModifier
  /\ scr'.start >= 0 - RowsAbove * NumCols

TSpec == TInit /\ [][TNext]_tvars

-----------------------------------------------------------------------------
(* Properties.                                                             *)

(* Wherever TAB, the scrolls of inc_textCursor and null characters lead    *)
(* it, above the screen too, the text cursor is never behind the place of  *)
(* the buffer cursor in the line (whose start every scroll must move       *)
(* along), so nothing is typed or erased over the prompt or the output     *)
(* before it; and it never leaves the screen at its lower end, where no    *)
(* row would scroll.                                                       *)
NeverBehind ==
  /\ scr.start + cursor <= scr.cursor
  /\ scr.cursor <= LastCell

(* What the user sees is what the shell will get: the cells from the start *)
(* of the input line on show the line's characters and then nothing, and   *)
(* the text cursor stands on the cell of the buffer cursor, however the    *)
(* line was edited, replaced from the history, wrapped and scrolled (until *)
(* the text cursor was led astray or a null character was typed).          *)
LineShown ==
  astray = "no" =>
    /\ scr.start >= 0
    /\ scr.cursor = scr.start + cursor
    /\ \A p \in scr.start .. LastCell :
         scr.cells[p] = IF p < scr.start + endIdx THEN buff[0][p - scr.start]
                        ELSE Blank
=============================================================================
