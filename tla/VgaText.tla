------------------------------- MODULE VgaText ------------------------------
(***************************************************************************)
(* The text mode of drivers/video/VGA_driver.c: the terminal as a grid of  *)
(* text cells, and what each drawing function does to the cells, to        *)
(* terminal->text_cursor and to terminal->input.start.                     *)
(*                                                                         *)
(* Cells are numbered row by row, so a pointer to a cell is its number.  A *)
(* cell is the character it shows; colours are left out.                   *)
(*                                                                         *)
(* Cells above the terminal have numbers below 0 and show nothing here.    *)
(* The row of such a cell is divided as an unsigned number, a huge one;    *)
(* multiplied out again, it is the row above where width * font.height of  *)
(* the framebuffer divides 2^32, as taken here.  (Where it does not, the   *)
(* cursor does not wrap there but runs on over the margin.)                *)
(***************************************************************************)
EXTENDS Integers, Sequences, SequencesExt

CONSTANTS
  NumRows,      (* terminal->num_rows.                                     *)
  NumCols,      (* terminal->num_cols.                                     *)
  Blank,        (* What character 0 and a cleared cell show.               *)
  Smudge        (* What two different characters drawn over each other     *)
                (* show.                                                   *)

ASSUME VgaTextAssumption == NumRows \in Nat \ {0} /\ NumCols \in Nat \ {0}

Cell     == 0 .. NumRows * NumCols - 1
LastCell == NumRows * NumCols - 1
LastRow  == (NumRows - 1) * NumCols         \* the first cell of that row

(* get_pixel_term_text_row.                                                *)
RowOf(p) == p \div NumCols

(* print_char in both colours.                                             *)
Printed(s, c) ==
  IF s.cursor \in Cell THEN [s EXCEPT !.cells[s.cursor] = c] ELSE s

(* plot_text_cursor and unplot_text_cursor paint around the glyph of c and *)
(* leave the glyph itself: c had better be what the cell shows.            *)
Painted(s, c) ==
  IF s.cursor \in Cell
  THEN [s EXCEPT !.cells[s.cursor] =
          IF @ = c \/ c = Blank THEN c ELSE Smudge]
  ELSE s

(* shift_text_screen_up_one_row, and the clear_x_cells of the last row     *)
(* that every caller follows it with.                                      *)
ShiftedUp(s) ==
  [s EXCEPT !.cells =
     [p \in Cell |-> IF p < LastRow THEN s.cells[p + NumCols] ELSE Blank]]

IncTextCursor_StartStays(s) ==               \* forgets the start of the line
  IF s.cursor = LastCell THEN [ShiftedUp(s) EXCEPT !.cursor = LastRow]
  ELSE [s EXCEPT !.cursor = @ + 1]

(* inc_textCursor: behind the last cell the screen scrolls, and the start  *)
(* of the input line with it.                                              *)
IncTextCursor(s) ==
  IF s.cursor = LastCell
  THEN [ShiftedUp(s) EXCEPT !.cursor = LastRow, !.start = @ - NumCols]
  ELSE [s EXCEPT !.cursor = @ + 1]

(* dec_textCursor: stops at the first cell.                                *)
DecTextCursor(s) == IF s.cursor = 0 THEN s ELSE [s EXCEPT !.cursor = @ - 1]

(* print_str.                                                              *)
PrintStr(s, string) ==
  FoldLeft(LAMBDA t, c : IncTextCursor(Printed(t, c)), s, string)

(* inc_textCursor_x_times.                                                 *)
IncTextCursorTimes(s, x) ==
  FoldLeft(LAMBDA t, i : IncTextCursor(t), s, [i \in 1 .. x |-> i])

(* clear_x_cells: no increment after the last cell, the cursor put back.   *)
ClearCells(s, x) ==
  IF x = 0 THEN s
  ELSE LET upToLast == PrintStr(s, [i \in 1 .. x - 1 |-> Blank])
       IN  [Printed(upToLast, Blank) EXCEPT !.cursor = s.cursor]

(* clear_x_cells_at.                                                       *)
ClearCellsAt(s, p, x) ==
  [ClearCells([s EXCEPT !.cursor = p], x) EXCEPT !.cursor = s.cursor]

(* The common end of the two functions below: the start of the row, below  *)
(* the one of cell p by down rows, after a scroll if there is no such row, *)
(* as there is none below a huge one.                                      *)
MovedBelow(s, p, down) ==
  IF p < 0 \/ RowOf(p) + down > NumRows - 1
  THEN [ShiftedUp(s) EXCEPT !.cursor = LastRow]
  ELSE [s EXCEPT !.cursor = (RowOf(p) + down) * NumCols]

(* move_textCursor_to_new_line_start: below the rows the prompt and the    *)
(* used cells of the input take.                                           *)
NewLineAfterInput(s, used) ==
  MovedBelow(s, s.start, (used + NumCols - 1) \div NumCols)

(* move_textCursor_to_new_line_start_from_textCursor.                      *)
NewLine(s) == MovedBelow(s, s.cursor, 1)
=============================================================================
