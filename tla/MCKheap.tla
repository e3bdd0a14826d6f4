------------------------------ MODULE MCKheap -------------------------------
(* Kheap with a two-byte tag and a first range of 18 bytes, one extension  *)
(* of 8 bytes and one range lost: sizes 1, 3 and 4 leave every remainder   *)
(* around the split limit (none, less than a tag, a tag, a tag and more).  *)
EXTENDS Kheap
=============================================================================
