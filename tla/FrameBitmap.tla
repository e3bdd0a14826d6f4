---------------------------- MODULE FrameBitmap -----------------------------
(***************************************************************************)
(* The bit operations and searches of kernel/memory_management/pmm.c on a  *)
(* frame bitmap (set = allocated), shared by Pmm and Vmm.                  *)
(*                                                                         *)
(* A bit is addressed by its frame number; addresses are page aligned, so  *)
(* pfn_to_phys_addy and phys_addy_to_pfn are not modelled.  The bit at     *)
(* index NumBits lies past the bitmap and is read all the same.            *)
(***************************************************************************)
EXTENDS Integers

CONSTANT
  NumBits       (* bitmap_num_bits: how many frames the bitmap describes.  *)

ASSUME NumBitsAssumption == NumBits \in Nat

Frame   == 0 .. NumBits - 1
NoFrame == -1                       \* what the callers see as NULL

Run(first, n) == first .. first + n - 1

SetBits(map, S)   == [i \in DOMAIN map |-> i \in S \/ map[i]]
ClearBits(map, S) == [i \in DOMAIN map |-> i \notin S /\ map[i]]

(* A plausible slip: only the first bit of the run is tested.              *)
Avail_FirstOnly(map, b, n) ==
  /\ b + n - 1 < NumBits
  /\ ~map[b]

(* The body of the loop of find_first_avail_pfn: the bit itself is clear,  *)
(* the run ends inside the bitmap, and n further bits are clear.  (A first *)
(* clear bit too near the end makes the code give up; so would every later *)
(* one, so it is no more than a bit that is not Avail.)                    *)
Avail(map, b, n) ==
  /\ b + n - 1 < NumBits
  /\ \A i \in b .. b + n : ~map[i]

(* alloc_requested_pageframe: is the requested run inside, and clear?      *)
CanRequest(map, first, n) ==
  /\ first + n < NumBits
  /\ \A f \in Run(first, n) : ~map[f]
=============================================================================
