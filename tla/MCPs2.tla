------------------------------- MODULE MCPs2 --------------------------------
(* A keyboard with a letter, an arrow and the keypad key whose code ends   *)
(* like the arrow's, holding four bytes: sequences of up to three bytes    *)
(* meet every amount of room.                                              *)
EXTENDS Ps2

CONSTANTS letter, digit

Keys == {<<letter, "base">>, <<digit, "base">>, <<digit, "prefixed">>}
=============================================================================
