----------------------------- MODULE PmmProofs ------------------------------
(***************************************************************************)
(* Proofs about Pmm, for every number of frames, every memory map, every   *)
(* content of the bits memset misses, and every set of callers.            *)
(*                                                                         *)
(* That no frame is shared follows from the accounting: a run that passes  *)
(* the bit tests contains no frame of boot and none of any caller, because *)
(* the bitmap marks exactly those.  The accounting and the disjointness of *)
(* the grants are therefore proved together.                               *)
(***************************************************************************)
EXTENDS Pmm, TLAPS

Held == UNION {grants[c] : c \in Client}

LEMMA FrameBits ==
  /\ NumBits \in Nat
  /\ Frame \subseteq 0 .. NumBits
BY NumBitsAssumption DEF Frame

(* SetBits and ClearBits, bit by bit.                                      *)
LEMMA SetBitsAt ==
  ASSUME NEW map \in [0 .. NumBits -> BOOLEAN], NEW S, NEW i \in 0 .. NumBits
  PROVE  SetBits(map, S)[i] <=> i \in S \/ map[i]
<1>1. DOMAIN map = 0 .. NumBits
  OBVIOUS
<1>2. SetBits(map, S)[i] = (i \in S \/ map[i])
  BY <1>1, Zenon DEF SetBits
<1>3. QED
  BY <1>2, Zenon

LEMMA ClearBitsAt ==
  ASSUME NEW map \in [0 .. NumBits -> BOOLEAN], NEW S, NEW i \in 0 .. NumBits
  PROVE  ClearBits(map, S)[i] <=> i \notin S /\ map[i]
<1>1. DOMAIN map = 0 .. NumBits
  OBVIOUS
<1>2. ClearBits(map, S)[i] = (i \notin S /\ map[i])
  BY <1>1, Zenon DEF ClearBits
<1>3. QED
  BY <1>2, Zenon

(* What init_pmm leaves marked, whichever way its last request went.       *)
BootSound ==
  /\ \A f \in Frame \ boot : (f \in usable /\ f >= LowFrames) \/ f \in Tail
  /\ ( /\ BitmapFirst >= LowFrames
       /\ BitmapFirst + BitmapPages < NumBits
       /\ Run(BitmapFirst, BitmapPages) \subseteq usable )
     => Run(BitmapFirst, BitmapPages) \cap Frame \subseteq boot

(* The inductive invariant.                                                *)
IInv ==
  /\ TypeOK
  /\ NoFrameShared
  /\ FramesAccounted
  /\ BootSound

-----------------------------------------------------------------------------
LEMMA InitIInv == Init => IInv
<1> SUFFICES ASSUME Init PROVE IInv
  OBVIOUS
<1> USE PmmAssumption, NumBitsAssumption
<1>1. PICK raw \in SUBSET Tail :
        bitmap = IF CanRequest(AfterSweep(raw), BitmapFirst, BitmapPages)
                 THEN SetBits(AfterSweep(raw), Run(BitmapFirst, BitmapPages))
                 ELSE AfterSweep(raw)
  BY DEF Init
<1> DEFINE swept == AfterSweep(raw)
<1>0. \A f \in Frame : ~swept[f] =>
        (f \in usable /\ f >= LowFrames) \/ f \in Tail
  <2> SUFFICES ASSUME NEW f \in Frame, ~swept[f], f \notin Tail
               PROVE  f \in usable /\ f >= LowFrames
    OBVIOUS
  <2>1. f \in 0 .. NumBits
    BY FrameBits
  <2>2. swept[f] = ((f \in Tail => f \in raw)
                    /\ ~(f < NumBits /\ f >= LowFrames /\ f \in usable))
    BY <2>1, Zenon DEF AfterSweep
  <2>3. QED
    BY <2>2, Zenon
<1>2. swept \in [0 .. NumBits -> BOOLEAN]
  BY DEF AfterSweep
<1>3. bitmap \in [0 .. NumBits -> BOOLEAN]
  BY <1>1, <1>2 DEF SetBits
<1>4. \A f \in Frame : swept[f] => bitmap[f]
  BY <1>1, <1>2 DEF SetBits, Frame
<1>5. grants = [c \in Client |-> {}] /\ boot = {f \in Frame : bitmap[f]}
  BY DEF Init
<1>6. TypeOK
  BY <1>3, <1>5 DEF Init, TypeOK, Result
<1>7. NoFrameShared /\ FramesAccounted
  BY <1>5 DEF NoFrameShared, FramesAccounted
<1>8. BootSound
  <2>1. ASSUME NEW f \in Frame \ boot
        PROVE  (f \in usable /\ f >= LowFrames) \/ f \in Tail
    BY <1>0, <1>4, <1>5
  <2>2. ASSUME BitmapFirst >= LowFrames, BitmapFirst + BitmapPages < NumBits,
               Run(BitmapFirst, BitmapPages) \subseteq usable
        PROVE  Run(BitmapFirst, BitmapPages) \cap Frame \subseteq boot
    <3>1. \A f \in Run(BitmapFirst, BitmapPages) : ~swept[f]
      BY <2>2 DEF AfterSweep, Run, Frame
    <3>2. CanRequest(swept, BitmapFirst, BitmapPages)
      BY <2>2, <3>1 DEF CanRequest
    <3>3. bitmap = SetBits(swept, Run(BitmapFirst, BitmapPages))
      BY <1>1, <3>2
    <3>4. \A f \in Run(BitmapFirst, BitmapPages) \cap Frame : bitmap[f]
      BY <1>2, <3>3, FrameBits, SetBitsAt
    <3>5. QED
      BY <1>5, <3>4
  <2>3. QED
    BY <2>1, <2>2 DEF BootSound
<1>9. QED
  BY <1>6, <1>7, <1>8 DEF IInv

(* Giving a caller that holds nothing a run of clear frames keeps the      *)
(* invariant, whichever function found the run.                            *)
LEMMA GiveKeeps ==
  ASSUME IInv, NEW c \in Client, NEW op \in {"alloc", "requested"},
         NEW b \in Frame, NEW n \in 1 .. MaxPages,
         grants[c] = {}, Run(b, n) \subseteq Frame,
         \A f \in Run(b, n) : ~bitmap[f], Give(c, op, b, n)
  PROVE  IInv'
<1> USE PmmAssumption, NumBitsAssumption
<1>1. /\ bitmap' = SetBits(bitmap, Run(b, n))
      /\ grants' = [grants EXCEPT ![c] = Run(b, n)]
      /\ ret' = [op |-> op, n |-> n, pfn |-> b]
      /\ usable' = usable /\ boot' = boot
  BY DEF Give, Result
<1>2. /\ bitmap \in [0 .. NumBits -> BOOLEAN] /\ usable \in SUBSET Frame
      /\ grants \in [Client -> SUBSET Frame] /\ boot \in SUBSET Frame
  BY DEF IInv, TypeOK
<1>3. grants' \in [Client -> SUBSET Frame]
  BY <1>1, <1>2
<1>4. bitmap' \in [0 .. NumBits -> BOOLEAN]
  BY <1>1, <1>2 DEF SetBits
<1>5. grants'[c] = Run(b, n) /\ \A d \in Client : d # c => grants'[d] = grants[d]
  BY <1>1, <1>2
<1>6. TypeOK'
  BY <1>1, <1>2, <1>3, <1>4 DEF TypeOK
<1>7. \A f \in Frame : bitmap'[f] <=> f \in Run(b, n) \/ bitmap[f]
  BY <1>1, <1>2, FrameBits, SetBitsAt
<1>8. \A d \in Client : Run(b, n) \cap grants[d] = {}
  BY <1>2 DEF IInv, FramesAccounted
<1>9. NoFrameShared'
  BY <1>5, <1>8 DEF IInv, NoFrameShared
<1>10. Held' = Held \cup Run(b, n)
  BY <1>5 DEF Held
<1>11. FramesAccounted'
  <2>1. {f \in Frame : bitmap'[f]} = boot \cup Held \cup Run(b, n)
    BY <1>7 DEF IInv, FramesAccounted, Held
  <2>2. boot \cap (Held \cup Run(b, n)) = {}
    BY DEF IInv, FramesAccounted, Held
  <2>3. QED
    BY <1>1, <1>10, <2>1, <2>2 DEF FramesAccounted, Held
<1>12. BootSound'
  BY <1>1, <1>2 DEF IInv, BootSound
<1>13. QED
  BY <1>6, <1>9, <1>11, <1>12 DEF IInv

LEMMA FreeKeeps ==
  ASSUME IInv, NEW c \in Client, NEW f \in Frame, FreePageframe(c, f)
  PROVE  IInv'
<1> USE PmmAssumption, NumBitsAssumption
<1>1. /\ f \in grants[c] /\ bitmap' = ClearBits(bitmap, {f})
      /\ grants' = [grants EXCEPT ![c] = @ \ {f}]
      /\ ret' = [op |-> "free", n |-> 1, pfn |-> f]
      /\ usable' = usable /\ boot' = boot
  BY DEF FreePageframe, Result
<1>2. /\ bitmap \in [0 .. NumBits -> BOOLEAN] /\ usable \in SUBSET Frame
      /\ grants \in [Client -> SUBSET Frame] /\ boot \in SUBSET Frame
  BY DEF IInv, TypeOK
<1>3. grants' \in [Client -> SUBSET Frame]
  BY <1>1, <1>2
<1>4. bitmap' \in [0 .. NumBits -> BOOLEAN]
  BY <1>1, <1>2 DEF ClearBits
<1>5. grants'[c] = grants[c] \ {f} /\ \A d \in Client : d # c => grants'[d] = grants[d]
  BY <1>1, <1>2
<1>6. TypeOK'
  <2>1. ret' \in [op : {"boot", "alloc", "requested", "free"},
                  n : 0 .. MaxPages, pfn : Frame \cup {NoFrame}]
    BY <1>1
  <2>2. QED
    BY <1>1, <1>2, <1>3, <1>4, <2>1 DEF TypeOK
<1>7. \A g \in Frame : bitmap'[g] <=> g # f /\ bitmap[g]
  BY <1>1, <1>2, FrameBits, ClearBitsAt
<1>8. \A d \in Client : d # c => f \notin grants[d]
  BY <1>1 DEF IInv, NoFrameShared
<1>9. NoFrameShared'
  BY <1>5 DEF IInv, NoFrameShared
<1>10. Held' = Held \ {f}
  BY <1>1, <1>5, <1>8 DEF Held
<1>11. FramesAccounted'
  <2>1. f \notin boot
    BY <1>1 DEF IInv, FramesAccounted
  <2>2. {g \in Frame : bitmap'[g]} = boot \cup (Held \ {f})
    BY <1>7, <2>1 DEF IInv, FramesAccounted, Held
  <2>3. boot \cap (Held \ {f}) = {}
    BY DEF IInv, FramesAccounted, Held
  <2>4. QED
    BY <1>1, <1>10, <2>2, <2>3 DEF FramesAccounted, Held
<1>12. BootSound'
  BY <1>1, <1>2 DEF IInv, BootSound
<1>13. QED
  BY <1>6, <1>9, <1>11, <1>12 DEF IInv

(* A call that changes nothing but its result.                             *)
LEMMA RefuseKeeps ==
  ASSUME IInv, NEW op \in {"alloc", "requested", "free"}, NEW n \in 0 .. MaxPages,
         Refuse(op, n)
  PROVE  IInv'
<1>1. /\ ret' = [op |-> op, n |-> n, pfn |-> NoFrame]
      /\ UNCHANGED <<bitmap, usable, grants, boot>>
  BY DEF Refuse, Result
<1>2. TypeOK'
  BY <1>1 DEF IInv, TypeOK
<1>3. NoFrameShared' /\ FramesAccounted' /\ BootSound'
  BY <1>1 DEF IInv, NoFrameShared, FramesAccounted, BootSound
<1>4. QED
  BY <1>2, <1>3 DEF IInv

(* The runs both allocation functions take lie inside the bitmap.          *)
LEMMA RunInside ==
  ASSUME NEW b \in Frame, NEW n \in 1 .. MaxPages, b + n - 1 < NumBits
  PROVE  Run(b, n) \subseteq Frame /\ Run(b, n) \subseteq b .. b + n
BY PmmAssumption, NumBitsAssumption DEF Run, Frame

LEMMA NextKeeps ==
  ASSUME IInv, [Next]_vars
  PROVE  IInv'
<1>1. ASSUME NEW c \in Client, NEW n \in 1 .. MaxPages, AllocPageframe(c, n)
      PROVE  IInv'
  <2>1. PICK b \in Frame : Avail(bitmap, b, n) /\ Give(c, "alloc", b, n)
    BY <1>1 DEF AllocPageframe
  <2>2. Run(b, n) \subseteq Frame /\ \A f \in Run(b, n) : ~bitmap[f]
    BY <2>1, RunInside DEF Avail
  <2>3. grants[c] = {}
    BY <1>1 DEF AllocPageframe
  <2>4. QED
    BY <2>1, <2>2, <2>3, GiveKeeps
<1>2. ASSUME NEW c \in Client, NEW n \in 1 .. MaxPages, AllocPageframeFails(c, n)
      PROVE  IInv'
  <2>1. n \in 0 .. MaxPages
    BY PmmAssumption
  <2>2. QED
    BY <1>2, <2>1, RefuseKeeps DEF AllocPageframeFails
<1>3. ASSUME NEW c \in Client, NEW n \in 1 .. MaxPages, NEW b \in Frame,
             AllocRequested(c, b, n)
      PROVE  IInv'
  <2>1. b + n - 1 < NumBits
    BY <1>3, FrameBits DEF AllocRequested, CanRequest, Frame
  <2>2. /\ Run(b, n) \subseteq Frame /\ \A f \in Run(b, n) : ~bitmap[f]
        /\ Give(c, "requested", b, n) /\ grants[c] = {}
    BY <1>3, <2>1, RunInside DEF AllocRequested, CanRequest
  <2>3. QED
    BY <2>2, GiveKeeps
<1>4. ASSUME NEW c \in Client, NEW n \in 1 .. MaxPages, NEW b \in Frame,
             AllocRequestedFails(c, b, n)
      PROVE  IInv'
  <2>1. n \in 0 .. MaxPages
    BY PmmAssumption
  <2>2. QED
    BY <1>4, <2>1, RefuseKeeps DEF AllocRequestedFails
<1>5. ASSUME NEW f \in Frame, FreePageframeFails(f)
      PROVE  IInv'
  <2>1. 1 \in 0 .. MaxPages
    BY PmmAssumption
  <2>2. QED
    BY <1>5, <2>1, RefuseKeeps DEF FreePageframeFails
<1>6. CASE UNCHANGED vars
  BY <1>6 DEF vars, IInv, TypeOK, NoFrameShared, FramesAccounted, BootSound
<1>7. QED
  BY <1>1, <1>2, <1>3, <1>4, <1>5, <1>6, FreeKeeps DEF Next

LEMMA IInvAlways == Spec => []IInv
BY InitIInv, NextKeeps, PTL DEF Spec

-----------------------------------------------------------------------------
(* Types are kept by every call of the physical memory manager (pmm.c).    *)
THEOREM TypeCorrect == Spec => []TypeOK
BY IInvAlways, PTL DEF IInv

(* No two callers of alloc_pageframe and alloc_requested_pageframe ever    *)
(* hold the same frame.                                                    *)
THEOREM FramesExclusive == Spec => []NoFrameShared
BY IInvAlways, PTL DEF IInv

(* The marked frames always are those marked at boot and those held.       *)
THEOREM NoFrameLeaked == Spec => []FramesAccounted
BY IInvAlways, PTL DEF IInv

(* So callers and bitmap always agree on who holds what.                   *)
THEOREM HoldersAgree == Spec => []FramesSound
BY IInvAlways, PTL DEF IInv, FramesSound

(* Every held frame is usable RAM above the first MiB, or one of those     *)
(* the last partial byte of the bitmap describes.                          *)
THEOREM GrantsUsable == Spec => []GrantsAreUsable
<1>1. IInv => GrantsAreUsable
  BY DEF IInv, TypeOK, FramesAccounted, BootSound, GrantsAreUsable
<1>2. QED
  BY <1>1, IInvAlways, PTL

(* The frames of the bitmap, once reserved by init_pmm, are never granted. *)
THEOREM BitmapNeverGranted == Spec => []BitmapKept
<1>1. IInv => BitmapKept
  <2> SUFFICES ASSUME IInv, BitmapFirst >= LowFrames,
                      BitmapFirst + BitmapPages < NumBits,
                      Run(BitmapFirst, BitmapPages) \subseteq usable, NEW c \in Client
               PROVE  grants[c] \cap Run(BitmapFirst, BitmapPages) = {}
    BY DEF BitmapKept
  <2>1. Run(BitmapFirst, BitmapPages) \cap Frame \subseteq boot
    BY DEF IInv, BootSound
  <2>2. grants[c] \subseteq Frame /\ grants[c] \cap boot = {}
    BY DEF IInv, TypeOK, FramesAccounted
  <2>3. QED
    BY <2>1, <2>2
<1>2. QED
  BY <1>1, IInvAlways, PTL

-----------------------------------------------------------------------------
(* The refinement: a grant takes a run out of the pool, a free puts one    *)
(* frame back, and a refused call stutters.                                *)
LEMMA GiveRefines ==
  ASSUME IInv, NEW c \in Client, NEW op, NEW b \in Frame, NEW n \in 1 .. MaxPages,
         grants[c] = {}, Run(b, n) \subseteq Frame,
         \A f \in Run(b, n) : ~bitmap[f], Give(c, op, b, n)
  PROVE  Abstract!Next
<1>1. bitmap' = SetBits(bitmap, Run(b, n)) /\ bitmap \in [0 .. NumBits -> BOOLEAN]
  BY DEF Give, IInv, TypeOK
<1>2. \A f \in Frame : bitmap'[f] <=> f \in Run(b, n) \/ bitmap[f]
  BY <1>1, FrameBits, SetBitsAt
<1>3. {f \in Frame : ~bitmap'[f]} = {f \in Frame : ~bitmap[f]} \ Run(b, n)
  BY <1>2
<1>4. b <= b + n - 1 /\ b + n - 1 \in Frame /\ Run(b, n) = b .. b + n - 1
  BY PmmAssumption, NumBitsAssumption DEF Run, Frame
<1>5. Run(b, n) \subseteq {f \in Frame : ~bitmap[f]}
  OBVIOUS
<1>6. grants' = [grants EXCEPT ![c] = b .. b + n - 1]
  BY <1>4 DEF Give
<1>7. Abstract!Grant(c, b, b + n - 1)
  BY <1>3, <1>4, <1>5, <1>6 DEF Abstract!Grant
<1>8. QED
  BY <1>4, <1>7 DEF Abstract!Next

(* pmm.c implements the abstract frame allocator.                          *)
THEOREM PmmImplementsFrameAllocator == Spec => ImplementsFrameAllocator
<1>1. Init => Abstract!Init
  BY DEF Init, Abstract!Init
<1>2. ASSUME IInv, [Next]_vars
      PROVE  [Abstract!Next]_(Abstract!vars)
  <2>1. ASSUME NEW c \in Client, NEW n \in 1 .. MaxPages, AllocPageframe(c, n)
        PROVE  Abstract!Next
    <3>1. PICK b \in Frame : Avail(bitmap, b, n) /\ Give(c, "alloc", b, n)
      BY <2>1 DEF AllocPageframe
    <3>2. Run(b, n) \subseteq Frame /\ \A f \in Run(b, n) : ~bitmap[f]
      BY <3>1, RunInside DEF Avail
    <3>3. grants[c] = {}
      BY <2>1 DEF AllocPageframe
    <3>4. QED
      BY <1>2, <3>1, <3>2, <3>3, GiveRefines
  <2>2. ASSUME NEW c \in Client, NEW n \in 1 .. MaxPages, NEW b \in Frame,
               AllocRequested(c, b, n)
        PROVE  Abstract!Next
    <3>1. b + n - 1 < NumBits
      BY <2>2, FrameBits DEF AllocRequested, CanRequest, Frame
    <3>2. /\ Run(b, n) \subseteq Frame /\ \A f \in Run(b, n) : ~bitmap[f]
          /\ Give(c, "requested", b, n) /\ grants[c] = {}
      BY <2>2, <3>1, RunInside DEF AllocRequested, CanRequest
    <3>3. QED
      BY <1>2, <3>2, GiveRefines
  <2>3. ASSUME NEW c \in Client, NEW f \in Frame, FreePageframe(c, f)
        PROVE  Abstract!Next
    <3>1. f \in grants[c] /\ grants' = [grants EXCEPT ![c] = @ \ {f}]
      BY <2>3 DEF FreePageframe
    <3>2. bitmap' = ClearBits(bitmap, {f}) /\ bitmap \in [0 .. NumBits -> BOOLEAN]
      BY <1>2, <2>3 DEF FreePageframe, IInv, TypeOK
    <3>3. \A g \in Frame : bitmap'[g] <=> g # f /\ bitmap[g]
      BY <3>2, FrameBits, ClearBitsAt
    <3>4. {g \in Frame : ~bitmap'[g]} = {g \in Frame : ~bitmap[g]} \cup {f}
      BY <3>3
    <3>5. Abstract!Release(c, f)
      BY <3>1, <3>4 DEF Abstract!Release
    <3>6. QED
      BY <3>5 DEF Abstract!Next
  <2>4. ASSUME NEW op, NEW n, Refuse(op, n)
        PROVE  UNCHANGED Abstract!vars
    BY <2>4 DEF Refuse, Abstract!vars
  <2>5. CASE UNCHANGED vars
    BY <2>5 DEF vars, Abstract!vars
  <2>6. QED
    BY <1>2, <2>1, <2>2, <2>3, <2>4, <2>5
       DEF Next, AllocPageframeFails, AllocRequestedFails, FreePageframeFails
<1>3. QED
  BY <1>1, <1>2, IInvAlways, PTL DEF Spec, ImplementsFrameAllocator, Abstract!Spec
=============================================================================
