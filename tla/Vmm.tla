-------------------------------- MODULE Vmm ---------------------------------
(***************************************************************************)
(* The virtual memory manager and paging, vmm.c and paging.c of            *)
(* kernel/memory_management, on the frame bitmap of pmm.c: the list of     *)
(* areas of the kernel address space, the page tables, and the calls that  *)
(* grow both, init_MMIO_device (driver.c) and get_more_mem (kheap.c).      *)
(*                                                                         *)
(* Addresses are bytes; a page table is its entries.  The list is a        *)
(* sequence, head first: an area that nothing links to is gone.  A pointer *)
(* next_area that is NULL is followed to page 0, which is mapped.          *)
(* (kheap.c writes there, but no word that is a start or a length.)        *)
(* Left out: the flags other than MMIO, the direct map (it shares the      *)
(* tables of the identity map), and vmalloc_free, which nothing calls.     *)
(***************************************************************************)
EXTENDS FrameBitmap, Sequences

CONSTANTS
  PageSize,     (* PAGE_SIZE.                                              *)
  PtEntries,    (* Entries of a page table.                                *)
  NumTables,    (* Entries of the page directory.                          *)
  NumStatic,    (* Entries set up before paging: the identity map.         *)
  RecursivePde, (* RECURSIVE_PDE_IDX, the entry of the directory itself.   *)
  Bottom,       (* dynamic_alloc_area_bottom.                              *)
  Top,          (* dynamic_alloc_area_top.                                 *)
  HeapSize,     (* HEAP_SIZE.                                              *)
  Growth,       (* NUM_PAGES_REQUESTED_WHEN_FULL * PAGE_SIZE.              *)
  Devices,      (* The <<address, length>> of the devices to be mapped.    *)
  PageZero,     (* What the bytes of page 0 mean as an area.               *)
  MaxAreas,     (* Bound: no new range while the list has so many areas.   *)
  StackDepth    (* Bound: how often kmalloc and vmalloc call each other.   *)

Wrap(a) == a % (NumTables * PtEntries * PageSize)      \* unsigned long

Page      == 0 .. NumTables * PtEntries - 1
TableOf(p) == p \div PtEntries                          \* get_PDE_idx
NoPage    == -1                                         \* not present
Null      == 0

TableSize      == PtEntries * PageSize        \* bytes one entry of the directory maps
StaticTables   == 0 .. NumStatic - 1
IdentityEnd    == NumStatic * TableSize
RecursiveStart == RecursivePde * TableSize

(* The kernel, and Bottom above it, is linked far above the identity map.  *)
ASSUME VmmAssumption ==
  /\ PageSize \in Nat \ {0} /\ PtEntries \in Nat \ {0} /\ NumTables \in Nat \ {0}
  /\ NumStatic \in Nat \ {0} /\ RecursivePde \in NumStatic .. NumTables - 2
  /\ HeapSize \in Nat \ {0} /\ Growth \in Nat \ {0}
  /\ HeapSize % PageSize = 0 /\ Growth % PageSize = 0
  /\ HeapSize % Growth = 0 /\ Growth <= TableSize
  /\ NumBits <= NumTables * PtEntries
  /\ Bottom \in Nat /\ Top \in Nat /\ IdentityEnd <= Bottom
  /\ Bottom % PageSize = 0 /\ Top % PageSize = 0
  /\ HeapSize < Top /\ Top <= NumTables * PtEntries * PageSize
  /\ \A d \in Devices : /\ d[1] \in Nat \ {0} /\ d[1] % PageSize = 0
                        /\ d[2] \in Nat \ {0}
  /\ PageZero \in [start : Nat, length : Nat]
  /\ StackDepth \in Nat

VARIABLES
  mem,    (* The bitmap of the pmm (bitmap), the page directory (pde: the  *)
          (* frame of each table made since boot), the entries (pte: the   *)
          (* physical page each page is mapped to), and why the kernel is  *)
          (* followed no further (stop), "no" as long as it is.            *)
  areas,  (* allocated_areas_list.                                         *)
  ret     (* The last call: its name, the region asked for, its result.    *)

vars == <<mem, areas, ret>>

-----------------------------------------------------------------------------
(* Paging.                                                                 *)

NumPages(size) == (size + PageSize - 1) \div PageSize   \* num_pages_needed
PageAt(address) == address \div PageSize

FirstAvail_OneMore(map, n) ==
  {b \in Frame : Avail(map, b, n + 1) /\ \A x \in 0 .. b - 1 : ~Avail(map, x, n + 1)}

FirstAvail(map, n) ==          \* find_first_avail_pfn
  {b \in Frame : Avail(map, b, n) /\ \A x \in 0 .. b - 1 : ~Avail(map, x, n)}

HasTable(m, p) == TableOf(p) \in StaticTables \/ m.pde[TableOf(p)] # NoFrame

AllocPageTable_Unmarked(m, p) ==
  LET t == CHOOSE b \in FirstAvail(m.bitmap, 1) : TRUE
  IN  IF FirstAvail(m.bitmap, 1) = {} THEN [m EXCEPT !.stop = "table"]
      ELSE [m EXCEPT !.pde[TableOf(p)] = t,
                     !.stop = IF m.pte[t] = t THEN "no" ELSE "table"]

(* alloc_page_table.  It clears the new table at its physical address: if  *)
(* that page is not identity mapped, this faults or clears another page.   *)
(* With no frame left it clears page 0 and installs frame 0 as a table.    *)
AllocPageTable(m, p) ==
  LET t == CHOOSE b \in FirstAvail(m.bitmap, 1) : TRUE
  IN  IF FirstAvail(m.bitmap, 1) = {} THEN [m EXCEPT !.stop = "table"]
      ELSE [m EXCEPT !.bitmap = SetBits(@, {t}),
                     !.pde[TableOf(p)] = t,
                     !.stop = IF m.pte[t] = t THEN "no" ELSE "table"]

SetPte(m, p, phys) ==
  IF m.stop = "no" THEN [m EXCEPT !.pte[p] = phys] ELSE m

(* map_pageframe.  The entries of the recursive region are those of the    *)
(* page directory.                                                         *)
MapPageframe(m, p, phys) ==
  CASE m.stop # "no" -> m
    [] m.stop = "no" /\ TableOf(p) = RecursivePde -> [m EXCEPT !.stop = "directory"]
    [] m.stop = "no" /\ TableOf(p) # RecursivePde ->
         SetPte(IF HasTable(m, p) THEN m ELSE AllocPageTable(m, p), p, phys)

(* map_contiguous_pages; identity_map_pageframes when phys = p.            *)
MapContiguous_Short(m, p, phys, n) ==
  LET mapped[k \in 0 .. n] ==
        IF k <= 1 THEN m
        ELSE MapPageframe(mapped[k - 1], p + k - 2, phys + k - 2)
  IN  mapped[n]

MapContiguous(m, p, phys, n) ==
  LET mapped[k \in 0 .. n] ==
        IF k = 0 THEN m
        ELSE MapPageframe(mapped[k - 1], p + k - 1, phys + k - 1)
  IN  mapped[n]

-----------------------------------------------------------------------------
(* vmalloc_core: frames for size bytes, mapped from address on.  A run of  *)
(* frames if there is one, or a frame for each page until there is none:   *)
(* what was taken and mapped by then stays so.                             *)
CoreScattered(m, address, n) ==
  LET got[k \in 0 .. n] ==
        IF k = 0 THEN [mem |-> m, addr |-> address]
        ELSE LET prev == got[k - 1]
                 free == FirstAvail(prev.mem.bitmap, 1)
             IN  IF prev.mem.stop # "no" \/ prev.addr = Null THEN prev
                 ELSE IF free = {} THEN [prev EXCEPT !.addr = Null]
                 ELSE LET f == CHOOSE b \in free : TRUE
                          marked == [prev.mem EXCEPT !.bitmap = SetBits(@, {f})]
                      IN  [prev EXCEPT !.mem =
                             MapPageframe(marked, PageAt(address) + k - 1, f)]
  IN  got[n]

CoreMmio(m, address, n) ==
  LET p == PageAt(address)
      reserved == IF CanRequest(m.bitmap, p, n)
                  THEN [m EXCEPT !.bitmap = SetBits(@, Run(p, n))] ELSE m
  IN  [mem |-> MapContiguous(reserved, p, p, n), addr |-> address]

VmallocCore_OneMore(m, address, size, mmio) ==
  LET n == NumPages(size)
      free == FirstAvail(m.bitmap, n)
  IN  CASE mmio -> CoreMmio(m, address, n)
        [] ~mmio /\ free # {} ->
             LET f == CHOOSE b \in free : TRUE
             IN  [mem |-> MapContiguous([m EXCEPT !.bitmap = SetBits(@, Run(f, n + 1))],
                                        PageAt(address), f, n),
                  addr |-> address]
        [] OTHER -> CoreScattered(m, address, n)

VmallocCore(m, address, size, mmio) ==
  LET n == NumPages(size)
      free == FirstAvail(m.bitmap, n)
  IN  CASE mmio -> CoreMmio(m, address, n)
        [] ~mmio /\ free # {} ->
             LET f == CHOOSE b \in free : TRUE
             IN  [mem |-> MapContiguous([m EXCEPT !.bitmap = SetBits(@, Run(f, n))],
                                        PageAt(address), f, n),
                  addr |-> address]
        [] OTHER -> CoreScattered(m, address, n)

-----------------------------------------------------------------------------
(* The list of areas.                                                      *)

(* init_dynamic_alloc_area.                                                *)
NewArea(start, size) == [start |-> start, length |-> NumPages(size) * PageSize]

EndOf(area) == Wrap(area.start + area.length)
Inside(a, start, end) == start <= a /\ a < end       \* virtyAddyIsInArea

(* virt_region_exists_in_area: the end of the region counts as inside it.  *)
Exists(list, start, size) ==
  LET end == Wrap(start + size)
  IN  \E i \in DOMAIN list :
        \/ Inside(start, list[i].start, EndOf(list[i]))
        \/ Inside(end, list[i].start, EndOf(list[i]))
        \/ Inside(list[i].start, start, end)

(* The loops over the list look one area past next, through NULL if next   *)
(* is the last.                                                            *)
AfterNext(list, prev) == IF prev + 2 <= Len(list) THEN list[prev + 2] ELSE PageZero

Least(S) == CHOOSE i \in S : \A j \in S : i <= j

(* find_first_alloc, NULL if nothing fits.                                 *)
FindFirstAlloc(list, size) ==
  LET below(i) == Wrap(list[i].start - size)
      gap(i)   == Wrap(list[i].start - EndOf(AfterNext(list, i)))
      fits     == {i \in 1 .. Len(list) - 1 :
                     gap(i) >= size /\ below(i) >= EndOf(AfterNext(list, i))}
  IN  CASE list = <<>> -> Wrap(Top - NumPages(size))
        [] list # <<>> /\ Wrap(Top - size) >= EndOf(list[1]) -> Wrap(Top - size)
        [] list # <<>> /\ Wrap(Top - size) < EndOf(list[1]) /\ fits # {} ->
             below(Least(fits))
        [] OTHER -> IF below(Len(list)) >= Bottom THEN below(Len(list)) ELSE Null

InsertNewArea_NoHead(list, new) == Append(list, new)

(* The areas at which the loop of insert_new_vm_area stops.                *)
NextEnd(list, i) == Wrap(AfterNext(list, i).start + list[i + 1].length)
Stops(list, new) == {i \in 1 .. Len(list) - 1 : \/ new.start > AfterNext(list, i).start
                                                \/ new.start >= NextEnd(list, i)}

(* insert_new_vm_area.  In the middle of the list the new area is linked   *)
(* to prev, and nothing is linked to the new area.                         *)
InsertNewArea(list, new) ==
  LET stops == Stops(list, new)
      prev  == Least(stops)
  IN  CASE list = <<>> -> <<new>>
        [] list # <<>> /\ new.start > list[1].start -> <<new>> \o list
        [] list # <<>> /\ new.start <= list[1].start /\ stops = {} -> Append(list, new)
        [] OTHER -> IF new.start > AfterNext(list, prev).start
                    THEN Append(SubSeq(list, 1, prev), new)
                    ELSE list

(* Where the end of next wraps around, none of the loop's cases may hold:  *)
(* it does not move on.                                                    *)
Hangs(list, new) ==
  /\ list # <<>> /\ new.start <= list[1].start /\ Stops(list, new) # {}
  /\ LET prev == Least(Stops(list, new))
     IN  new.start <= AfterNext(list, prev).start /\ new.start # NextEnd(list, prev)

-----------------------------------------------------------------------------
(* The calls, as operators on a state of mem and areas.                    *)

HeapStart == Top - HeapSize

StartingAt(list, start) == {i \in DOMAIN list : list[i].start = start}

RequestMore_LongFirst(m, list) ==
  IF StartingAt(list, HeapStart) = {} THEN [mem |-> m, areas |-> list, addr |-> Null]
  ELSE LET i   == Least(StartingAt(list, HeapStart))
           longer == [list EXCEPT ![i].length = @ + Growth]
           end == EndOf(longer[i])
           got == VmallocCore(m, end, Growth, FALSE)
       IN  IF Exists(longer, end, Growth)
           THEN [mem |-> m, areas |-> list, addr |-> Null]
           ELSE [mem |-> got.mem, addr |-> got.addr, areas |-> longer]

(* vmalloc_request_more_memory for the heap.  The area grows even if       *)
(* vmalloc_core failed.                                                    *)
RequestMore(m, list) ==
  IF StartingAt(list, HeapStart) = {} THEN [mem |-> m, areas |-> list, addr |-> Null]
  ELSE LET i   == Least(StartingAt(list, HeapStart))
           end == EndOf(list[i])
           got == VmallocCore(m, end, Growth, FALSE)
       IN  IF Exists(list, end, Growth)
           THEN [mem |-> m, areas |-> list, addr |-> Null]
           ELSE [mem |-> got.mem, addr |-> got.addr,
                 areas |-> [list EXCEPT ![i].length = @ + Growth]]

(* get_more_mem where the heap cannot be extended, as far as vmalloc_core. *)
(* kheap.c calls vmalloc without a declaration and without flags: the MMIO *)
(* flag is whatever lies on the stack.  If vmalloc returns NULL the heap   *)
(* writes a range to page 0, and kmalloc returns to its caller.            *)
NewRange(s, mmio) ==
  LET more == RequestMore(s.mem, s.areas)
      core == VmallocCore(more.mem, FindFirstAlloc(more.areas, Growth), Growth, mmio)
  IN  [mem   |-> IF core.addr = Null THEN [core.mem EXCEPT !.stop = "null"] ELSE core.mem,
       areas |-> more.areas]

(* vmalloc calls kmalloc for its own area struct, which calls vmalloc      *)
(* again: what that ends with when memory runs out.  (While it does not,   *)
(* no kmalloc returns; see Kheap.)                                         *)
OutOfMemory(m, list) ==
  LET deep[k \in 0 .. StackDepth] ==
        IF k = 0 THEN {[mem |-> m, areas |-> list]}
        ELSE {NewRange(s, mmio) : s \in {t \in deep[k - 1] : t.mem.stop = "no"},
                                  mmio \in BOOLEAN}
  IN  {s \in UNION {deep[k] : k \in 0 .. StackDepth} : s.mem.stop # "no"}

(* kmalloc of an area struct: a block of the heap fits, or the heap grows  *)
(* first, or it cannot grow.                                               *)
AfterKmalloc(m, list) ==
  LET grown == RequestMore(m, list)
  IN  {[mem |-> m, areas |-> list]} \cup
      IF grown.addr = Null THEN OutOfMemory(m, list)
      ELSE {[mem |-> grown.mem, areas |-> grown.areas]}

AfterInsert(m, list, new) ==
  IF m.stop = "no" /\ Hangs(list, new) THEN [m EXCEPT !.stop = "insertion"] ELSE m

Result(op, address, size, addr) ==
  [op |-> op, address |-> address, size |-> size, addr |-> addr]

(* init_vmm, vmm_init_kheap: the heap, then the recursive region.  Bound:  *)
(* at boot there are frames for the heap.                                  *)
Init ==
  \E marked \in SUBSET (0 .. NumBits) :
    LET boot == [bitmap |-> [i \in 0 .. NumBits |-> i \in marked],
                 pde    |-> [d \in 0 .. NumTables - 1 |-> NoFrame],
                 pte    |-> [p \in Page |-> IF TableOf(p) \in StaticTables
                                            THEN p ELSE NoPage],
                 stop   |-> "no"]
        heap == VmallocCore(boot, HeapStart, HeapSize, FALSE)
    IN  /\ 0 \in marked
        /\ heap.addr # Null /\ heap.mem.stop = "no"
        /\ mem = heap.mem
        /\ areas = InsertNewArea(<<NewArea(HeapStart, HeapSize)>>,
                     NewArea(RecursiveStart, TableSize))
        /\ ret = Result("boot", HeapStart, HeapSize, HeapStart)

(* init_MMIO_device -> vmalloc_request_virtual_address: the region is      *)
(* mapped, a struct kmalloc'ed, the area inserted.                         *)
MapDevice(address, size) ==
  /\ mem.stop = "no"
  /\ ~Exists(areas, address, size)
  /\ \E s \in AfterKmalloc(VmallocCore(mem, address, size, TRUE).mem, areas) :
       /\ mem' = AfterInsert(s.mem, s.areas, NewArea(address, size))
       /\ areas' = InsertNewArea(s.areas, NewArea(address, size))
  /\ ret' = Result("mmio", address, size, address)

(* The same for a region that overlaps an area: only the address returns.  *)
DeviceKnown(address, size) ==
  /\ mem.stop = "no"
  /\ Exists(areas, address, size)
  /\ ret' = Result("known", address, size, address)
  /\ UNCHANGED <<mem, areas>>

(* kmalloc -> get_more_mem: the heap is extended.                          *)
HeapGrows ==
  /\ mem.stop = "no"
  /\ LET more == RequestMore(mem, areas)
     IN  /\ more.addr # Null
         /\ mem' = more.mem /\ areas' = more.areas
         /\ ret' = Result("more", more.addr, Growth, more.addr)

(* kmalloc -> get_more_mem -> vmalloc, when it is not, and a block of the  *)
(* heap fits the area struct.                                              *)
HeapMovesOn(mmio) ==
  /\ mem.stop = "no" /\ Len(areas) < MaxAreas
  /\ LET more  == RequestMore(mem, areas)
         found == FindFirstAlloc(more.areas, Growth)
         core  == VmallocCore(more.mem, found, Growth, mmio)
     IN  /\ more.addr = Null
         /\ IF core.addr = Null
            THEN mem' = [core.mem EXCEPT !.stop = "null"] /\ areas' = more.areas
            ELSE /\ mem' = AfterInsert(core.mem, more.areas, NewArea(found, Growth))
                 /\ areas' = InsertNewArea(more.areas, NewArea(found, Growth))
         /\ ret' = Result("vmalloc", found, Growth, core.addr)

Next ==
  \/ \E d \in Devices : MapDevice(d[1], d[2]) \/ DeviceKnown(d[1], d[2])
  \/ HeapGrows
  \/ \E mmio \in BOOLEAN : HeapMovesOn(mmio)

Spec == Init /\ [][Next]_vars

-----------------------------------------------------------------------------
(* Properties.                                                             *)

(* What theorems ask of the machine.  Layout: memory ends so far above the *)
(* identity map that the heap lies between them, and below the recursive   *)
(* region; devices lie above the identity map and not at the very end of   *)
(* the address space; what find_first_alloc takes for the end of the area  *)
(* at page 0 is above the identity map, unless its start is below.         *)
Layout ==
  /\ IdentityEnd <= HeapStart /\ Top <= RecursiveStart
  /\ \A d \in Devices :
       /\ IdentityEnd <= d[1]
       /\ d[1] + NumPages(d[2]) * PageSize < NumTables * TableSize
       /\ d[1] + Growth < NumTables * TableSize
  /\ PageZero.start < IdentityEnd \/ IdentityEnd <= EndOf(PageZero)

(* The head of the list is the highest area: find_first_alloc hands out    *)
(* addresses above the head without looking at the others.                 *)
HeadIsHighest == \A i \in DOMAIN areas : areas[i].start <= areas[1].start

(* Every variable keeps its type; areas and results are whole pages        *)
(* ("these addreses should be multiples of pages", vmm.c:13), and the list *)
(* starts with the highest area.                                           *)
TypeOK ==
  /\ mem.bitmap \in [0 .. NumBits -> BOOLEAN]
  /\ mem.pde \in [0 .. NumTables - 1 -> Frame \cup {NoFrame}]
  /\ mem.pte \in [Page -> Page \cup Frame \cup {NoPage}]
  /\ mem.stop \in {"no", "table", "directory", "null", "insertion"}
  /\ \A i \in DOMAIN areas :
       /\ areas[i].start \in Nat /\ areas[i].start % PageSize = 0
       /\ areas[i].length \in Nat /\ areas[i].length % PageSize = 0
  /\ ret.addr \in Nat /\ ret.addr % PageSize = 0
  /\ HeadIsHighest

Region(address, size) == Run(PageAt(address), NumPages(size))

Mapped  == {p \in Page : TableOf(p) \notin StaticTables /\ mem.pte[p] # NoPage}
FromPmm == {p \in Mapped : mem.pte[p] # p}      \* the others are identity mapped
Tables  == {d \in DOMAIN mem.pde : mem.pde[d] # NoFrame}

(* A frame of the pmm serves one purpose: it backs one page or is one page *)
(* table, and is marked in the bitmap, however the runs, single frames and *)
(* frames for new tables of one call were interleaved.                     *)
FramesExclusive ==
  /\ \A p, q \in FromPmm : p # q => mem.pte[p] # mem.pte[q]
  /\ \A d, e \in Tables : d # e => mem.pde[d] # mem.pde[e]
  /\ \A p \in FromPmm, d \in Tables : mem.pte[p] # mem.pde[d]
  /\ \A p \in FromPmm : mem.bitmap[mem.pte[p]]
  /\ \A d \in Tables : mem.bitmap[mem.pde[d]]

(* The heap takes an extension to start where its range ends (kheap.c:106) *)
(* and never looks at the address returned: after an extension every page  *)
(* from the start of the heap to the end of the extension is mapped.       *)
HeapStaysWhole ==
  ret.op = "more" /\ mem.stop = "no" =>
    Region(HeapStart, ret.addr + ret.size - HeapStart) \subseteq Mapped

(* The region a call has newly mapped and returned is mapped, every page   *)
(* of it, also when its frames came one by one or tables had to be made;   *)
(* and so is the heap it lengthens.                                        *)
ReturnedIsMapped ==
  /\ ret.addr # Null /\ ret.op # "known" /\ mem.stop = "no" =>
       Region(ret.addr, ret.size) \subseteq Mapped
  /\ HeapStaysWhole

(* The extension of the heap this call tries first lies in the region.     *)
GrowsInto(region) ==
  \E i \in StartingAt(areas, HeapStart) :
    /\ ~Exists(areas, EndOf(areas[i]), Growth)
    /\ Region(EndOf(areas[i]), Growth) \cap region # {}

(* A heap extension or new range that succeeds marks no frame that it does *)
(* not use, as a page or as a table, also when it follows an extension     *)
(* that failed half way; only a new range laid across that extension (the  *)
(* frames of whose pages it replaces) does.                                *)
SuccessLeaksNothing ==
  [][ret'.op \in {"more", "vmalloc"} /\ mem'.stop = "no" =>
       \/ ret'.op = "vmalloc" /\ GrowsInto(Region(ret'.addr, ret'.size))
       \/ \A f \in Frame : mem'.bitmap[f] /\ ~mem.bitmap[f] =>
            \/ \E p \in Page : mem'.pte[p] = f
            \/ \E d \in DOMAIN mem.pde : mem'.pde[d] = f]_vars

(* Making a page table only goes wrong when no two frames in a row are     *)
(* left below the end of the identity map: as long as there are, the table *)
(* is taken from there and cleared through the identity map, whatever else *)
(* is allocated.  (The search passes over a single free frame.)            *)
TablesFromLowMemory ==
  mem.stop = "table" =>
    \A f \in Frame : TableOf(f) \in StaticTables => mem.bitmap[f] \/ mem.bitmap[f + 1]

(* A device just mapped shows at its own addresses, every page of it, also *)
(* when tables were made and the heap grew on the way; only a heap that    *)
(* grows into the region, not yet in the list, takes it away again.        *)
DeviceShows ==
  [][ret'.op = "mmio" /\ mem'.stop = "no" =>
       LET region == Region(ret'.address, ret'.size)
       IN  GrowsInto(region) \/ \A p \in region : mem'.pte[p] = p]_vars

(* "make sure the vmm knows this area cannot be allocated" (vmm.c:367):    *)
(* the area of the recursive entry stays in the list.  An insertion in the *)
(* middle of the list forgets all lower areas.                             *)
RecursiveAreaKnown ==
  \E i \in DOMAIN areas : TableOf(PageAt(areas[i].start)) = RecursivePde
=============================================================================
