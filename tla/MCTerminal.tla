----------------------------- MODULE MCTerminal -----------------------------
(* A screen of two rows of two cells and a prompt of one cell: a line of   *)
(* two characters wraps, and from the second line on the screen scrolls in *)
(* the middle of a line.  The two keys have no modified character, so with *)
(* shift they type the null byte at address 0.  TAB may lead the start of  *)
(* the line to the row above the screen, which lies in the margin of 20    *)
(* pixels.                                                                 *)
EXTENDS Terminal

CONSTANT p

OneCellPrompt == <<p>>

(* Neither key is a letter: nothing tells them apart.                      *)
KeySymmetry == Permutations(Key)
=============================================================================
