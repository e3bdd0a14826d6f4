---------------------------- MODULE MCLineEditor ----------------------------
(* LineEditor with one letter in both cases, a key without a modified      *)
(* character (the space bar) and one without any whose keycode is past the *)
(* end of that table (F1), lines of up to two characters and a history of  *)
(* two submitted lines: full lines, insertion before the end, the loss of  *)
(* the oldest line, browsing past the newest, and null characters at each  *)
(* place of a line all occur.  The byte at address 0 is null or the letter.*)
EXTENDS LineEditor

CONSTANT a

MCBytesAtZero == {NUL, <<a, "base">>}
=============================================================================
