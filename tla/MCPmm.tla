------------------------------- MODULE MCPmm --------------------------------
(* Pmm on a bitmap of seven frames: two whole "bytes" of three bits and a  *)
(* partial one, the bitmap itself in frame 2, two interchangeable callers  *)
(* that may ask for up to three pages.                                     *)
EXTENDS Pmm, TLC

Symmetry == Permutations(Client)
=============================================================================
