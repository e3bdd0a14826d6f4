-------------------------------- MODULE Pmm ---------------------------------
(***************************************************************************)
(* The physical memory manager, kernel/memory_management/pmm.c: a bitmap   *)
(* with one bit per page frame (set = allocated), searched first-fit.      *)
(*                                                                         *)
(* A bit is addressed by its frame number; addresses are page aligned, so  *)
(* pfn_to_phys_addy and phys_addy_to_pfn are not modelled.  The bit at     *)
(* index NumBits lies past the bitmap and is read all the same: it and the *)
(* bits that memset does not reach hold whatever was in memory.            *)
(***************************************************************************)
EXTENDS FrameBitmap

CONSTANTS
  ByteBits,     (* Bits in a byte (8): memset covers whole bytes only.     *)
  LowFrames,    (* pfn_for_1MiB: the frames below are never freed.         *)
  BitmapFirst,  (* The frame pmm_bitmap_start_addy lies in.                *)
  BitmapPages,  (* How many frames the bitmap itself takes.                *)
  MaxPages,     (* Bound: the largest request a caller makes, in pages.    *)
  Client        (* Outstanding allocations.                                *)

ASSUME PmmAssumption ==
  /\ ByteBits \in Nat \ {0} /\ LowFrames \in Nat \ {0}
  /\ BitmapFirst \in Nat /\ BitmapPages \in Nat \ {0} /\ MaxPages \in Nat \ {0}
  /\ LowFrames <= (NumBits \div ByteBits) * ByteBits

VARIABLES
  bitmap,   (* alloc_bitmap, and the bit just past it.                     *)
  usable,   (* The frames is_page_usable accepts (fixed at boot).          *)
  grants,   (* History: the frames each caller was given and still holds.  *)
  boot,     (* History: the frames marked when init_pmm returned.          *)
  ret       (* The last call: its name, its size in pages, its result.     *)

vars == <<bitmap, usable, grants, boot, ret>>

-----------------------------------------------------------------------------
(* Helpers of the code.                                                    *)

Result(op, n, pfn) == [op |-> op, n |-> n, pfn |-> pfn]

(* memset covers NumBits \div ByteBits bytes: the bits from here on, with   *)
(* the one past the bitmap, keep what memory held.                         *)
Tail == (NumBits \div ByteBits) * ByteBits .. NumBits

-----------------------------------------------------------------------------
AfterSweep_NoLimit(raw) ==
  [i \in 0 .. NumBits |->
     /\ i \in Tail => i \in raw
     /\ ~(i < NumBits /\ i \in usable)]

(* init_pmm: all bytes set, then the usable frames above the first MiB     *)
(* freed, then the bitmap's own frames requested, the result ignored.      *)
AfterSweep(raw) ==
  [i \in 0 .. NumBits |->
     /\ i \in Tail => i \in raw
     /\ ~(i < NumBits /\ i >= LowFrames /\ i \in usable)]

Init_NoReserve ==
  /\ usable \in SUBSET Frame
  /\ \E raw \in SUBSET Tail : bitmap = AfterSweep(raw)
  /\ grants = [c \in Client |-> {}]
  /\ boot = {f \in Frame : bitmap[f]}
  /\ ret = Result("boot", 0, NoFrame)

Init ==
  /\ usable \in SUBSET Frame
  /\ \E raw \in SUBSET Tail :
       bitmap = IF CanRequest(AfterSweep(raw), BitmapFirst, BitmapPages)
                THEN SetBits(AfterSweep(raw), Run(BitmapFirst, BitmapPages))
                ELSE AfterSweep(raw)
  /\ grants = [c \in Client |-> {}]
  /\ boot = {f \in Frame : bitmap[f]}
  /\ ret = Result("boot", 0, NoFrame)

Give_ShortMark(c, op, first, n) ==
  /\ bitmap' = SetBits(bitmap, Run(first, n - 1))
  /\ grants' = [grants EXCEPT ![c] = Run(first, n)]
  /\ ret' = Result(op, n, first)
  /\ UNCHANGED <<usable, boot>>

(* A caller takes the run it was given.                                    *)
Give(c, op, first, n) ==
  /\ bitmap' = SetBits(bitmap, Run(first, n))
  /\ grants' = [grants EXCEPT ![c] = Run(first, n)]
  /\ ret' = Result(op, n, first)
  /\ UNCHANGED <<usable, boot>>

Refuse(op, n) ==
  /\ ret' = Result(op, n, NoFrame)
  /\ UNCHANGED <<bitmap, usable, grants, boot>>

(* alloc_pageframe: the first run find_first_avail_pfn finds.              *)
AllocPageframe(c, n) ==
  /\ grants[c] = {}
  /\ \E b \in Frame :
       /\ Avail(bitmap, b, n)
       /\ \A x \in 0 .. b - 1 : ~Avail(bitmap, x, n)
       /\ Give(c, "alloc", b, n)

AllocPageframeFails(c, n) ==
  /\ grants[c] = {}
  /\ \A b \in Frame : ~Avail(bitmap, b, n)
  /\ Refuse("alloc", n)

(* alloc_requested_pageframe: that run or nothing.                         *)
AllocRequested(c, first, n) ==
  /\ grants[c] = {}
  /\ CanRequest(bitmap, first, n)
  /\ Give(c, "requested", first, n)

AllocRequestedFails(c, first, n) ==
  /\ grants[c] = {}
  /\ ~CanRequest(bitmap, first, n)
  /\ Refuse("requested", n)

(* free_pageframe of a frame the caller holds: one frame at a time.  The   *)
(* code returns a truth value; here the frame stands for true.             *)
FreePageframe(c, f) ==
  /\ f \in grants[c]
  /\ bitmap[f]
  /\ bitmap' = ClearBits(bitmap, {f})
  /\ grants' = [grants EXCEPT ![c] = @ \ {f}]
  /\ ret' = Result("free", 1, f)
  /\ UNCHANGED <<usable, boot>>

(* free_pageframe of a frame already free changes nothing.                 *)
FreePageframeFails(f) ==
  /\ ~bitmap[f]
  /\ Refuse("free", 1)

Next ==
  \/ \E c \in Client, n \in 1 .. MaxPages :
       \/ AllocPageframe(c, n)
       \/ AllocPageframeFails(c, n)
       \/ \E f \in Frame : AllocRequested(c, f, n)
       \/ \E f \in Frame : AllocRequestedFails(c, f, n)
  \/ \E c \in Client, f \in Frame : FreePageframe(c, f)
  \/ \E f \in Frame : FreePageframeFails(f)

Spec == Init /\ [][Next]_vars

-----------------------------------------------------------------------------
(* Properties.                                                             *)

(* Every variable keeps its type.                                          *)
TypeOK ==
  /\ bitmap \in [0 .. NumBits -> BOOLEAN]
  /\ usable \in SUBSET Frame
  /\ grants \in [Client -> SUBSET Frame]
  /\ boot \in SUBSET Frame
  /\ ret \in [op : {"boot", "alloc", "requested", "free"},
              n : 0 .. MaxPages, pfn : Frame \cup {NoFrame}]

(* No frame is ever given to two callers, by either allocation function,   *)
(* after any interleaving of grants and single-frame frees.                *)
NoFrameShared ==
  \A c, d \in Client : c # d => grants[c] \cap grants[d] = {}

(* The bitmap accounts for every frame: a marked frame was marked at boot  *)
(* or is held by a caller, and never both.  So no call leaks a frame (a    *)
(* failed or partly done allocation leaves nothing marked) and no held     *)
(* frame ever looks free.                                                  *)
FramesAccounted ==
  /\ {f \in Frame : bitmap[f]} = boot \cup UNION {grants[c] : c \in Client}
  /\ boot \cap UNION {grants[c] : c \in Client} = {}

(* Both together: what the callers hold and what the bitmap says of it     *)
(* never part, through partly done allocations and single-frame frees.     *)
FramesSound == NoFrameShared /\ FramesAccounted

(* A caller only ever receives frames the memory map calls usable, above   *)
(* the first MiB (so never frame 0, whose address would read as NULL), or  *)
(* frames of the last, partial byte of the bitmap, which memset misses.    *)
GrantsAreUsable ==
  \A c \in Client : \A f \in grants[c] :
    (f \in usable /\ f >= LowFrames) \/ f \in Tail

(* The bitmap's own frames, when init_pmm could reserve them, are never    *)
(* handed out: else a caller's data would overwrite the bitmap.            *)
BitmapKept ==
  ( /\ BitmapFirst >= LowFrames
    /\ BitmapFirst + BitmapPages < NumBits
    /\ Run(BitmapFirst, BitmapPages) \subseteq usable )
  => \A c \in Client : grants[c] \cap Run(BitmapFirst, BitmapPages) = {}

(* Pmm implements the abstract allocator.                                  *)
Abstract == INSTANCE FrameAllocator
              WITH pool <- {f \in Frame : ~bitmap[f]}, owned <- grants

ImplementsFrameAllocator == Abstract!Spec
=============================================================================
