------------------------------- MODULE Kheap --------------------------------
(***************************************************************************)
(* The kernel heap, kernel/memory_management/kheap.c: one heap range whose *)
(* bytes are tiled by blocks, each a tag {size, used} followed by its      *)
(* payload, searched first-fit from a cached lowest free tag.              *)
(*                                                                         *)
(* tags maps the address of every tag reached from the start of the range  *)
(* to its contents; the payloads belong to the callers and are left out.   *)
(* heap_ranges never holds a second range: init_new_heap_range assigns the *)
(* new one to a local variable only, so range->next is always NULL.        *)
(***************************************************************************)
EXTENDS Integers

CONSTANTS
  Start,      (* heap_start, the address init_kheap is given.              *)
  Tag,        (* sizeof(heap_alloc_t).                                     *)
  Header,     (* sizeof(heap_range_t), kept in the first block.            *)
  HeapSize,   (* HEAP_SIZE.                                                *)
  Growth,     (* NUM_PAGES_REQUESTED_WHEN_FULL * PAGE_SIZE.                *)
  Sizes,      (* The sizes callers ask kmalloc for.                        *)
  NodeSize,   (* sizeof a vmm area node, kmalloc'ed by vmalloc.            *)
  MaxEnd,     (* Bound: the range grows no further than this address.      *)
  MaxLost     (* Bound: how many ranges vmalloc may yet supply.            *)

(* Callers keep to the limit stated at the top of kheap.c: nothing larger  *)
(* than one growth step.                                                   *)
ASSUME KheapAssumption ==
  /\ Start \in Nat \ {0} /\ Tag \in Nat \ {0} /\ Header \in Nat \ {0}
  /\ HeapSize \in Nat /\ HeapSize > 2 * Tag + Header
  /\ Growth \in Nat /\ Growth > Tag
  /\ Sizes \subseteq 1 .. Growth - Tag /\ NodeSize \in Sizes
  /\ MaxEnd \in Nat /\ MaxLost \in Nat

Null == 0

(* What a read of a tag at range->end meets: an unmapped page (the fault   *)
(* handler halts), or bytes of another mapping that do or do not look like *)
(* a tag that is not free.                                                 *)
AboveKinds == {"unmapped", "nonfree", "zero"}

VARIABLES
  tags,       (* The tags of the chain that starts at Start.               *)
  end,        (* range->end.                                               *)
  firstFree,  (* range->first_free_tag.                                    *)
  above,      (* What lies at range->end, one of AboveKinds.               *)
  stop,       (* "no", or why the kernel went no further: it read past the *)
              (* range ("end"), through the NULL range ("null"), recursed  *)
              (* without end ("stack"), or merged a block with what lies   *)
              (* past the range ("overrun", followed no further).          *)
  lost,       (* Ranges obtained from vmalloc and linked to no list.       *)
  asked       (* History: the size asked for each live block, by its tag.  *)

vars == <<tags, end, firstFree, above, stop, lost, asked>>

-----------------------------------------------------------------------------
(* Helpers of the code, on a chain t.                                      *)

NextTag(t, a) == a + t[a].size + Tag          \* get_next_heap_tag

(* init_heap_alloc_entry: take avail bytes at tag a for a request of n;    *)
(* what is left becomes a free block if a tag and at least a byte fit.     *)
InitEntry_EagerSplit(t, a, n, avail) ==     \* a slip: splits in any case
  [b \in DOMAIN t \cup {a, a + Tag + n} |->
     IF b = a THEN [size |-> n, used |-> TRUE]
     ELSE IF b = a + Tag + n THEN [size |-> avail - n - Tag, used |-> FALSE]
     ELSE t[b]]

InitEntry(t, a, n, avail) ==
  LET split == n + Tag < avail
      rest  == a + Tag + n
  IN  [b \in DOMAIN t \cup {a} \cup (IF split THEN {rest} ELSE {}) |->
         IF b = a THEN [size |-> IF split THEN n ELSE avail, used |-> TRUE]
         ELSE IF split /\ b = rest
              THEN [size |-> avail - (n + Tag), used |-> FALSE]
         ELSE t[b]]

FreeFrom_Strict(t, a) == {b \in DOMAIN t : b > a /\ ~t[b].used}

FreeFrom(t, a) == {b \in DOMAIN t : b >= a /\ ~t[b].used}

Fault == -1         \* no value: the read past the range faulted

(* goto_first_free_tag from tag a: the lowest free tag from there on.  If  *)
(* there is none the code reads a tag at range->end.                       *)
GotoFirstFree(t, e, kind, a) ==
  IF FreeFrom(t, a) # {}
  THEN {b \in FreeFrom(t, a) : \A x \in FreeFrom(t, a) : b <= x}
  ELSE CASE kind = "unmapped" -> {Fault}
         [] kind = "nonfree"  -> {Null}
         [] kind = "zero"     -> {e}

(* Record what the search found; the kernel then goes on to end as why     *)
(* says, unless the search faulted.                                        *)
SetFirstFree(f, why) ==
  IF f = Fault THEN stop' = "end" /\ UNCHANGED firstFree
               ELSE firstFree' = f /\ stop' = why

(* The tags find_first_fit considers for n bytes.                          *)
Fits_Smaller(n) ==
  {a \in DOMAIN tags : /\ firstFree # Null /\ a >= firstFree
                       /\ ~tags[a].used /\ tags[a].size + 1 >= n}

Fits(n) ==
  {a \in DOMAIN tags : /\ firstFree # Null /\ a >= firstFree
                       /\ ~tags[a].used /\ tags[a].size >= n}

Remember(a, n) ==
  [b \in DOMAIN asked \cup {a} |-> IF b = a THEN n ELSE asked[b]]

Forget(a) == [b \in DOMAIN asked \ {a} |-> asked[b]]

-----------------------------------------------------------------------------
(* init_kheap -> init_new_heap_range.                                      *)
Init ==
  /\ end = Start + HeapSize
  /\ tags = InitEntry([b \in {} |-> {}], Start, Header, HeapSize - Tag)
  /\ firstFree = Start + Tag + Header
  /\ above \in AboveKinds
  /\ stop = "no" /\ lost = 0
  /\ asked = [b \in {} |-> {}]

(* find_first_fit takes the lowest tag that fits; if that was the cached   *)
(* first free tag, the next one is looked for from the tag after it.       *)
Take_NoSearch(a, n, why) ==
  /\ \A b \in Fits(n) : a <= b
  /\ tags' = InitEntry(tags, a, n, tags[a].size)
  /\ firstFree' = firstFree /\ stop' = why

Take(a, n, why) ==
  /\ \A b \in Fits(n) : a <= b
  /\ tags' = InitEntry(tags, a, n, tags[a].size)
  /\ IF a = firstFree
     THEN \E f \in GotoFirstFree(tags', end, above, NextTag(tags', a)) :
            SetFirstFree(f, why)
     ELSE firstFree' = firstFree /\ stop' = why

(* kmalloc, a block of the range fits.                                     *)
KmallocFit(n) ==
  /\ stop = "no"
  /\ \E a \in Fits(n) :
       /\ Take(a, n, "no")
       /\ asked' = IF stop' = "no" THEN Remember(a, n) ELSE asked
  /\ UNCHANGED <<end, above, lost>>

(* kmalloc -> get_more_mem, vmalloc_request_more_memory extends the range: *)
(* it does so only over addresses no area is mapped at.  The new block     *)
(* starts at the old end, whatever the block before it.                    *)
KmallocExtend_KeepFirst(n) ==
  /\ stop = "no" /\ Fits(n) = {}
  /\ above = "unmapped" /\ end + Growth <= MaxEnd
  /\ end' = end + Growth
  /\ tags' = InitEntry(tags, end, n, Growth - Tag)
  /\ above' \in AboveKinds
  /\ \E f \in GotoFirstFree(tags', end', above', end) : SetFirstFree(f, "no")
  /\ asked' = IF stop' = "no" THEN Remember(end, n) ELSE asked
  /\ UNCHANGED lost

KmallocExtend(n) ==
  /\ stop = "no" /\ Fits(n) = {}
  /\ above = "unmapped" /\ end + Growth <= MaxEnd
  /\ end' = end + Growth
  /\ tags' = InitEntry(tags, end, n, Growth - Tag)
  /\ above' \in AboveKinds
  /\ \E f \in GotoFirstFree(tags', end', above', Start) : SetFirstFree(f, "no")
  /\ asked' = IF stop' = "no" THEN Remember(end, n) ELSE asked
  /\ UNCHANGED lost

(* kmalloc -> get_more_mem -> vmalloc: the range cannot be extended.       *)
(* vmalloc kmallocs an area node and returns a new range; get_more_mem     *)
(* then finds range NULL, so it reads ->start and ->end from physical page *)
(* 0, and the walk from there may fault ("null") or end harmlessly.        *)
KmallocNewRange(n) ==
  /\ stop = "no" /\ Fits(n) = {} /\ lost < MaxLost
  /\ \E a \in Fits(NodeSize), why \in {"no", "null"} :
       /\ Take(a, NodeSize, why)
       /\ asked' = IF stop' = "end" THEN asked ELSE Remember(a, NodeSize)
       /\ lost'  = IF stop' = "end" THEN lost ELSE lost + 1
  /\ UNCHANGED <<end, above>>

(* If no free block holds the node either, that inner kmalloc ends in      *)
(* vmalloc again, which kmallocs the same node: the recursion never ends.  *)
KmallocRecursion(n) ==
  /\ stop = "no" /\ Fits(n) = {} /\ Fits(NodeSize) = {}
  /\ stop' = "stack"
  /\ UNCHANGED <<tags, end, firstFree, above, lost, asked>>

(* kfree of a live block of the range (a block of a lost range lies in no  *)
(* range, and kfree returns without effect).  The following block is       *)
(* merged in if it is free; past the last block the code takes what it     *)
(* finds at end for a tag.                                                 *)
Unused(t, a) == [t EXCEPT ![a].used = FALSE]

MergedWith_NoTag(t, a, b) ==
  [c \in DOMAIN t \ {b} |->
     IF c = a THEN [size |-> t[a].size + t[b].size, used |-> FALSE]
     ELSE t[c]]

MergedWith(t, a, b) ==
  [c \in DOMAIN t \ {b} |->
     IF c = a THEN [size |-> t[a].size + t[b].size + Tag, used |-> FALSE]
     ELSE t[c]]

Overrun(t, a) == [t EXCEPT ![a] = [size |-> @.size + Tag, used |-> FALSE]]

Refind(t, why) ==
  \E f \in GotoFirstFree(t, end, above, Start) : SetFirstFree(f, why)

KfreeInside(a) ==
  /\ stop = "no" /\ NextTag(tags, a) < end
  /\ tags' = IF tags[NextTag(tags, a)].used
             THEN Unused(tags, a) ELSE MergedWith(tags, a, NextTag(tags, a))
  /\ Refind(tags', "no")
  /\ asked' = Forget(a)
  /\ UNCHANGED <<end, above, lost>>

KfreeLast(a) ==
  /\ stop = "no" /\ NextTag(tags, a) = end
  /\ CASE above = "unmapped" ->
            tags' = Unused(tags, a) /\ stop' = "end" /\ UNCHANGED firstFree
       [] above = "nonfree"  -> tags' = Unused(tags, a) /\ Refind(tags', "no")
       [] above = "zero"     -> tags' = Overrun(tags, a) /\ Refind(tags', "overrun")
  /\ asked' = Forget(a)
  /\ UNCHANGED <<end, above, lost>>

Next ==
  \/ \E n \in Sizes : \/ KmallocFit(n)
                      \/ KmallocExtend(n)
                      \/ KmallocNewRange(n)
                      \/ KmallocRecursion(n)
  \/ \E a \in DOMAIN asked : KfreeInside(a) \/ KfreeLast(a)

Spec == Init /\ [][Next]_vars

-----------------------------------------------------------------------------
(* Properties.                                                             *)

(* Every variable keeps its type.                                          *)
ChainType(t) ==
  /\ t \in [DOMAIN t -> [size : Nat, used : BOOLEAN]]
  /\ DOMAIN t \subseteq Nat

TypeOK ==
  /\ ChainType(tags)
  /\ end \in Nat /\ firstFree \in Nat /\ lost \in Nat
  /\ above \in AboveKinds
  /\ stop \in {"no", "end", "null", "stack", "overrun"}
  /\ asked \in [DOMAIN asked -> Sizes]
  /\ DOMAIN asked \subseteq DOMAIN tags

(* The blocks tile the range: following the sizes from any tag leads to    *)
(* the next tag or to the end of the range, and no tag lies inside another *)
(* block, however the heap was split, merged and extended.                 *)
Tiles(t, e) ==
  /\ Start \in DOMAIN t
  /\ \A a \in DOMAIN t : /\ Start <= a /\ a < e
                         /\ NextTag(t, a) \in DOMAIN t \cup {e}
  /\ \A a, b \in DOMAIN t : a < b => NextTag(t, a) <= b

ChainTiles == stop # "overrun" => Tiles(tags, end)

(* A block handed out by kmalloc and not yet freed is marked used, is at   *)
(* least as long as asked, and is not the block of the range header; and   *)
(* nothing else is marked used, so no block is lost to the callers.        *)
LiveBlocksSound ==
  /\ \A a \in DOMAIN asked :
       a # Start /\ tags[a].used /\ tags[a].size >= asked[a]
  /\ stop \in {"no", "null", "stack"} =>
       {a \in DOMAIN tags : tags[a].used} = {Start} \cup DOMAIN asked

(* The cached first free tag is the lowest free tag of the whole range, or *)
(* none (NULL, or the end of the range) when every block is used.  A stale *)
(* one above a free block would hide that block from kmalloc for good.     *)
FirstFreeIsLowest ==
  stop = "no" =>
    IF FreeFrom(tags, Start) = {}
    THEN firstFree \in {Null, end}
    ELSE /\ firstFree \in FreeFrom(tags, Start)
         /\ \A b \in FreeFrom(tags, Start) : firstFree <= b

(* "utilizing the first fit algorithm" (README.md): a block given out is   *)
(* the lowest of all free blocks of the range that are long enough, and    *)
(* the range is only extended when there is none.                          *)
TakesFirst ==
  \A a \in DOMAIN asked' \ DOMAIN asked :
    LET enough == {b \in DOMAIN tags : ~tags[b].used /\ tags[b].size >= asked'[a]}
    IN  IF a \in DOMAIN tags
        THEN a \in enough /\ \A b \in enough : a <= b
        ELSE enough = {}

FirstFit == [][TakesFirst]_vars

(* The kernel reads or merges past the range only in a kmalloc that leaves *)
(* no free block anywhere in it, or in a kfree of the block that reaches   *)
(* its end: while both are avoided, no read leaves the range.              *)
StopsOnlyAtTheEnd ==
  [][stop' \in {"end", "overrun"} =>
       \/ FreeFrom(tags', Start) = {}
       \/ \E a \in DOMAIN asked \ DOMAIN asked' : NextTag(tags', a) >= end']_vars

(* kmalloc only recurses to the end of the stack when no free block, known *)
(* to the cache or not, holds the area node that vmalloc asks it for.      *)
RecursesOnlyWhenFull ==
  stop = "stack" => \A a \in DOMAIN tags : ~tags[a].used => tags[a].size < NodeSize

(* Kheap implements the abstract allocator: the live blocks are the        *)
(* payloads, the arena the range.                                          *)
Payload(a) == <<a + Tag, a + Tag + tags[a].size - 1>>

Abstract == INSTANCE BlockAllocator
              WITH Base <- Start, limit <- end,
                   blocks <- {Payload(a) : a \in DOMAIN asked}

ImplementsBlockAllocator == Abstract!Spec
=============================================================================
