--------------------------- MODULE FrameAllocator ---------------------------
(***************************************************************************)
(* What a physical page frame allocator promises its callers: a frame is   *)
(* in the free pool or held by at most one client, a grant is a contiguous *)
(* run taken out of the pool in one piece, and only the holder of a frame  *)
(* puts it back.  Module Pmm (pmm.c) is shown to implement it.             *)
(***************************************************************************)
EXTENDS Naturals

CONSTANTS
  Frame,    (* Page frame numbers.                                         *)
  Client    (* Outstanding allocations: whoever may hold frames.           *)

VARIABLES
  pool,     (* Frames nobody holds.                                        *)
  owned     (* The frames each client holds.                               *)

vars == <<pool, owned>>

Init ==
  /\ pool \in SUBSET Frame
  /\ owned = [c \in Client |-> {}]

Grant(c, first, last) ==
  /\ owned[c] = {}
  /\ first <= last
  /\ first .. last \subseteq pool
  /\ pool'  = pool \ (first .. last)
  /\ owned' = [owned EXCEPT ![c] = first .. last]

Release(c, f) ==
  /\ f \in owned[c]
  /\ pool'  = pool \cup {f}
  /\ owned' = [owned EXCEPT ![c] = @ \ {f}]

Next ==
  \E c \in Client, f \in Frame :
    \/ \E l \in Frame : Grant(c, f, l)
    \/ Release(c, f)

Spec == Init /\ [][Next]_vars
=============================================================================
