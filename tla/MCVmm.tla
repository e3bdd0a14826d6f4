------------------------------- MODULE MCVmm --------------------------------
(* Vmm with pages of two bytes and tables of eight pages, the first        *)
(* identity mapped; the heap in pages 13 to 15 under Top, Bottom one page  *)
(* above it as the kernel lies above the memory of most machines, and the  *)
(* recursive region in pages 24 to 31.  An extension of the heap, three    *)
(* pages, needs a table, which the range below the recursive region        *)
(* shares: an extension can fail with its first pages mapped, and the      *)
(* range after it succeed, apart from it or, below the second device,      *)
(* across it.  Devices: one that touches the recursive region and one, of  *)
(* less than a page, that touches the first; one between the region and    *)
(* the heap; one that touches the heap.  What page 0 holds lies between    *)
(* the heap and the recursive region, and its end wraps around.            *)
EXTENDS Vmm

MCDevices  == {<<64, 2>>, <<66, 1>>, <<40, 4>>, <<32, 2>>}
MCPageZero == [start |-> 46, length |-> 56]

(* The theorems about layouts speak of this one.                           *)
ASSUME MCLayout == Layout
=============================================================================
