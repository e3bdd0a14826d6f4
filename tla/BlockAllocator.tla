--------------------------- MODULE BlockAllocator ---------------------------
(***************************************************************************)
(* What kmalloc and kfree promise: blocks at least as long as asked for,   *)
(* inside the arena, overlapping no other live block, that neither move    *)
(* nor change size until they are freed; the arena may grow but never      *)
(* shrinks.  Module Kheap (kheap.c) is shown to implement it.              *)
(***************************************************************************)
EXTENDS Integers

CONSTANTS
  Base,     (* The first address of the arena.                             *)
  Sizes     (* The sizes that are asked for.                               *)

VARIABLES
  limit,    (* The first address above the arena.                          *)
  blocks    (* The live blocks, as pairs of first and last address.        *)

vars == <<limit, blocks>>

Disjoint(b, c) == b[2] < c[1] \/ c[2] < b[1]

Init ==
  /\ limit > Base
  /\ blocks = {}

Alloc(b) ==
  /\ limit' >= limit
  /\ b[1] >= Base /\ b[2] < limit'
  /\ \E n \in Sizes : b[2] - b[1] + 1 >= n
  /\ \A c \in blocks : Disjoint(b, c)
  /\ blocks' = blocks \cup {b}

Free(b) ==
  /\ blocks' = blocks \ {b}
  /\ UNCHANGED limit

Grow == limit' > limit /\ UNCHANGED blocks

Next ==
  \/ \E b \in blocks' \ blocks : Alloc(b)
  \/ \E b \in blocks : Free(b)
  \/ Grow

Spec == Init /\ [][Next]_vars
=============================================================================
