------------------------------ MODULE BootInfo ------------------------------
(***************************************************************************)
(* The first half of kernel_start (boot/finish_booting.c): the walk over   *)
(* the boot information of a Multiboot2 loader, one action per tag, with   *)
(* init_memory (mem_map.c), process_acpi_info (acpi.c) and the framebuffer *)
(* (VGA_driver.c), then initialize_lapic (lapic.c) and initialize_ioapic   *)
(* (apic.c).  It ends where Boot begins.                                   *)
(*                                                                         *)
(* Addresses are numbers of units, PageSize to the page; those of the      *)
(* memory map have 64 bits, those of the kernel wrap at AddressSpace.      *)
(* Virtual pages that show the frame of the same number are mapped.  Where *)
(* memory that nothing has set is used as an address, or a page fault      *)
(* halts the kernel, stop says so and the kernel is followed no further.   *)
(* Left out: page tables, scattered heaps and insertions that never end,   *)
(* which are Vmm's matter, and a processor without a local APIC.  Assumed: *)
(* the boot information itself lies in the low pages, and each of its tags *)
(* comes once at most.                                                     *)
(***************************************************************************)
EXTENDS Integers, Sequences, FiniteSetsExt, SequencesExt

CONSTANTS
  PageSize, AddressSpace,
  ByteBits,     (* Bits in a byte (8): memset covers whole bytes only.     *)
  LowFrames,    (* pfn_for_1MiB.                                           *)
  LowPages,     (* The pages early_paging_setup.c maps to themselves.      *)
  Image,        (* The frames of the kernel image.                         *)
  BitmapFirst, BitmapPages,  (* Where pmm.c puts its bitmap.               *)
  HeapPages,    (* HEAP_SIZE in pages.                                     *)
  MaxRegions,   (* MAX_SUPPORTED_RESERVED_BOOT_REGIONS.                    *)
  Recursive,    (* The area of the recursive entry, [addr, len].           *)
  Framebuffer, Lapic,        (* The ranges of these devices.               *)
  IoapicLength, (* IOAPIC_MMIO_LENGTH.                                     *)
  (* What a loader may hand over: orders of the tags, memory maps,         *)
  (* addresses of ACPI tables, and entries of the MADT.                     *)
  TagOrders, MemoryMaps, Places, Madts

(* unsigned long and size_t; what has 64 bits is a natural number.         *)
Word   == 0 .. AddressSpace - 1
Ranges == [addr : Word, len : Word]

TagType   == {"mmap", "acpi", "framebuffer", "other"}
MmapEntry == [type : {"available", "acpi", "reserved"}, addr : Nat, len : Nat]
MadtEntry == [type : {"lapic", "ioapic", "iso"}, addr : Word]

ASSUME BootInfoAssumption ==
  /\ PageSize \in Nat \ {0} /\ AddressSpace \in Nat
  /\ AddressSpace % PageSize = 0 /\ LowPages * PageSize <= AddressSpace
  /\ {ByteBits, LowFrames, LowPages, BitmapFirst, BitmapPages, HeapPages, MaxRegions,
      IoapicLength} \subseteq Nat \ {0}
  /\ Image \subseteq Nat /\ IoapicLength \in Word
  /\ {Recursive, Framebuffer, Lapic} \subseteq Ranges
  /\ TagOrders \subseteq Seq(TagType) /\ MemoryMaps \subseteq Seq(MmapEntry)
  /\ \A tags \in TagOrders : \A i, j \in DOMAIN tags :
       tags[i] = tags[j] /\ tags[i] # "other" => i = j
  /\ Places \subseteq Word /\ Madts \subseteq Seq(MadtEntry)

VARIABLES
  info,     (* What the loader handed over: the tags, the memory map, where *)
            (* the RSDT and its tables lie, the entries of the MADT.       *)
  pc,       (* "tags", then "lapic", "ioapic", and "sti".                  *)
  todo,     (* The tags not yet seen.                                      *)
  regions,  (* The regions stored; behind them the array is zero.          *)
  length,   (* boot_cpu_mem.length, and the top of the vmm.                *)
  free,     (* The frames clear in the bitmap.                             *)
  heap,     (* The frames of the heap; none: init_memory has not run.      *)
  areas,    (* The areas the vmm knows, as ranges.                         *)
  mapped,   (* The pages mapped to their own frames.                       *)
  madt,     (* Where the MADT lies, or NULL.                               *)
  ioapic,   (* The address of the I/O APIC, or NULL.                       *)
  stop      (* Why the kernel is followed no further, "no" if it is.       *)

memory  == <<regions, length, free, heap>>
devices == <<areas, mapped>>
vars    == <<info, pc, todo, memory, devices, madt, ioapic, stop>>

NULL == -1

-----------------------------------------------------------------------------
(* mem_map.c.                                                              *)

Wrap(a)  == a % AddressSpace
End(r)   == r.addr + r.len
Inside(a, e) == a >= e.addr /\ a < End(e)
Within(a, r) == a >= r.addr /\ a < Wrap(End(r))
Frames   == 0 .. length \div PageSize - 1
Memory(f) == {f * PageSize + i : i \in 0 .. PageSize - 1}
PageOf(a) == a \div PageSize

(* The entries of a type, in the order of the loop over the memory map.    *)
OfType(type) ==
  FoldLeft(LAMBDA seq, e : IF e.type = type THEN Append(seq, e) ELSE seq,
           <<>>, info.mmap)

(* init_usable_region: 64 bits are stored in 32.                           *)
Stored(e) == [addr |-> Wrap(e.addr), len |-> Wrap(e.len)]

SumOfLengths_Unwrapped(mmap) == FoldLeft(LAMBDA sum, e : sum + e.len, 0, mmap)

SumOfLengths_Usable(mmap) ==
  FoldLeft(LAMBDA sum, e : IF e.type = "available" THEN Wrap(sum + e.len) ELSE sum,
           0, mmap)

SumOfLengths(mmap) == FoldLeft(LAMBDA sum, e : Wrap(sum + e.len), 0, mmap)

is_page_usable_Partly(rs, f) ==
  \E i \in DOMAIN rs : \E a \in Memory(f) : Within(a, rs[i])

(* is_page_usable: the whole frame lies in a region, before the first of   *)
(* length zero, where the loop ends.                                       *)
is_page_usable(rs, f) ==
  \E i \in DOMAIN rs : /\ \A j \in 1 .. i : rs[j].len # 0
                       /\ \A a \in Memory(f) : Within(a, rs[i])

(* Behind a full array the loop goes on into other memory, whose bytes may *)
(* accept any frame.                                                       *)
Beyond(rs, n) ==
  IF Len(rs) = MaxRegions /\ \A i \in DOMAIN rs : rs[i].len # 0
  THEN {{}, 0 .. n - 1} ELSE {{}}

Bitmap(n) == INSTANCE FrameBitmap WITH NumBits <- n

Marked(f, n) == [i \in 0 .. n |-> i \notin f]

(* alloc_requested_pageframe: these count frames are taken, all or none.   *)
Requested(f, n, first, count) ==
  IF Bitmap(n)!CanRequest(Marked(f, n), first, count)
  THEN f \ Bitmap(n)!Run(first, count) ELSE f

(* memset sets whole bytes of the bitmap: these bits, with the one past    *)
(* its end that the search reads, keep what memory held.                   *)
Unreached(n) == (n \div ByteBits) * ByteBits .. n

(* init_pmm, raw the bits found clear: the usable frames above the first   *)
(* MiB become free, and the bitmap's own are taken.                        *)
Usable(rs, n, beyond) ==
  {f \in LowFrames .. n - 1 : is_page_usable(rs, f) \/ f \in beyond}

AfterInitPmm(rs, n, beyond, raw) ==
  Requested(Usable(rs, n, beyond) \cup raw, n, BitmapFirst, BitmapPages)

HeapRuns(f, n) ==
  {b \in 0 .. n - 1 : Bitmap(n)!Avail(Marked(f, n), b, HeapPages)}

(* alloc_pageframe for the heap: the first run found.                      *)
HeapFrames(f, n) == Bitmap(n)!Run(Min(HeapRuns(f, n)), HeapPages)

HeapRange(top) == [addr |-> top - HeapPages * PageSize, len |-> HeapPages * PageSize]

-----------------------------------------------------------------------------
(* driver.c and vmm.c: devices are mapped to their own addresses.          *)

(* virt_region_exists_in_area: the end counts as part of the region.       *)
Exists(r, known) ==
  \E a \in known :
    Within(r.addr, a) \/ Within(Wrap(End(r)), a) \/ Within(a.addr, r)

NumPages(len) == Wrap(len + PageSize - 1) \div PageSize

Pages_OneLess(r) ==
  {PageOf(Wrap(r.addr + i * PageSize)) : i \in 0 .. (r.len \div PageSize) - 1}

(* identity_map_pageframes, from the page of the address on.               *)
Pages(r) ==
  {PageOf(Wrap(r.addr + i * PageSize)) : i \in 0 .. NumPages(r.len) - 1}

(* init_dynamic_alloc_area: what is remembered ends on a whole page.       *)
Area(r) == [addr |-> r.addr, len |-> NumPages(r.len) * PageSize]

(* insert_new_vm_area: in front of all others; or behind one of them, and  *)
(* what followed that one is forgotten, see Vmm; or not at all.  The list  *)
(* begins with its highest area.                                           *)
Inserted(r, known) ==
  IF \A a \in known : a.addr < r.addr THEN {known \cup {r}}
  ELSE {known} \cup {kept \cup {r} : kept \in
         {k \in SUBSET known : \E a \in k : \A b \in known : b.addr <= a.addr}}

(* init_MMIO_device: the areas it may leave known, the pages mapped, and   *)
(* the frames still free: the device's are not, if all of them were.       *)
AreasWith(r, known)    == IF Exists(r, known) THEN {known} ELSE Inserted(Area(r), known)
PagesWith(r, known, m) == IF Exists(r, known) THEN m ELSE m \cup Pages(r)
FreeWith(r, known, f, top) ==
  IF Exists(r, known) THEN f
  ELSE Requested(f, PageOf(top), PageOf(r.addr), NumPages(r.len))

Stops(why) == stop' = why /\ UNCHANGED <<memory, devices>>

(* Mapped over the heap, a device takes the heap's place.                  *)
InitDevice(r) ==
  IF heap = {} THEN Stops("early")
  ELSE IF ~Exists(r, areas) /\ Pages(r) \cap Pages(HeapRange(length)) # {}
  THEN Stops("heap")
  ELSE /\ areas' \in AreasWith(r, areas) /\ mapped' = PagesWith(r, areas, mapped)
       /\ free' = FreeWith(r, areas, free, length)
       /\ UNCHANGED <<regions, length, heap, stop>>

(* The same for registers that are accessed next: if their page is not     *)
(* mapped, that faults.                                                    *)
InitRegisters(r, why) ==
  IF heap = {} \/ PageOf(r.addr) \in PagesWith(r, areas, mapped)
  THEN InitDevice(r) ELSE Stops(why)

-----------------------------------------------------------------------------
(* The tags.                                                               *)

Tag(type) == stop = "no" /\ pc = "tags" /\ todo # <<>> /\ Head(todo) = type
             /\ todo' = Tail(todo) /\ UNCHANGED <<info, pc, ioapic>>

AcpiEntry_First == IF OfType("acpi") = <<>> THEN {} ELSE {Stored(Head(OfType("acpi")))}

(* acpi_entry, the last one.  Without one, address and length are read at  *)
(* address 0: zeroes, or other bytes.                                      *)
AcpiEntry == IF OfType("acpi") = <<>> THEN {} ELSE {Stored(Last(OfType("acpi")))}

(* init_memory.  Bound: a heap that is not one run of frames, or that lies *)
(* on the low pages, is not followed.                                      *)
InitMemory ==
  /\ Tag("mmap") /\ UNCHANGED madt
  /\ LET stored == [i \in DOMAIN OfType("available") |-> Stored(OfType("available")[i])]
         top    == SumOfLengths(info.mmap)
         n      == PageOf(top)
         known  == {Recursive, HeapRange(top)}
         low    == mapped \ Pages(HeapRange(top))
     IN  \/ /\ Len(stored) > MaxRegions /\ Stops("regions")
         \/ /\ Len(stored) <= MaxRegions
            /\ \E beyond \in Beyond(stored, n), raw \in SUBSET Unreached(n) :
                 LET f    == AfterInitPmm(stored, n, beyond, raw)
                     left == f \ (HeapFrames(f, n) \cup {n})
                 IN  IF HeapRuns(f, n) = {} \/ top < (HeapPages + LowPages) * PageSize
                     THEN Stops("heap")
                     ELSE /\ regions' = stored /\ length' = top
                          /\ heap' = HeapFrames(f, n)
                          /\ IF AcpiEntry = {}
                             THEN /\ areas' \in Inserted([addr |-> 0, len |-> 0], known)
                                  /\ mapped' = low /\ free' = left
                                  /\ stop' \in {"no", "null"}
                             ELSE \E e \in AcpiEntry :
                                  /\ areas' \in AreasWith(e, known)
                                  /\ mapped' = PagesWith(e, known, low)
                                  /\ free' = FreeWith(e, known, left, top)
                                  /\ UNCHANGED stop

(* initialize_framebuffer_attributes.                                      *)
InitFramebuffer == Tag("framebuffer") /\ InitDevice(Framebuffer) /\ UNCHANGED madt

IsMadt(i) == info.tables[i].sig = "APIC"

(* The addresses process_acpi_info reads: the RSDT, and the tables in its  *)
(* order up to the MADT.                                                   *)
Reads == {info.rsdt} \cup {info.tables[i].addr : i \in
            {j \in DOMAIN info.tables : \A k \in 1 .. j - 1 : ~IsMadt(k)}}

process_acpi_info ==
  /\ Tag("acpi") /\ UNCHANGED <<memory, devices>>
  /\ IF \A a \in Reads : PageOf(a) \in mapped
     THEN /\ madt' = IF \E i \in DOMAIN info.tables : IsMadt(i)
                     THEN info.tables[Min({i \in DOMAIN info.tables : IsMadt(i)})].addr
                     ELSE NULL
          /\ UNCHANGED stop
     ELSE stop' = "acpi" /\ UNCHANGED madt

OtherTag == Tag("other") /\ UNCHANGED <<memory, devices, madt, stop>>

EndTag ==
  /\ stop = "no" /\ pc = "tags" /\ todo = <<>> /\ pc' = "lapic"
  /\ UNCHANGED <<info, todo, memory, devices, madt, ioapic, stop>>

-----------------------------------------------------------------------------
(* initialize_interrupts.                                                  *)

initialize_lapic ==
  /\ stop = "no" /\ pc = "lapic" /\ pc' = "ioapic"
  /\ InitRegisters(Lapic, "lapic")
  /\ UNCHANGED <<info, todo, madt, ioapic>>

(* get_interruptcontroller(IOAPIC).                                        *)
IoapicEntries == {i \in DOMAIN info.madt : info.madt[i].type = "ioapic"}

IoapicRange(a) == [addr |-> a, len |-> IoapicLength]

(* initialize_ioapic.  The list of entries is written through a pointer    *)
(* that nothing has set, which may work.  Without a MADT or an entry the   *)
(* address of the I/O APIC is whatever is found.                           *)
initialize_ioapic ==
  /\ stop = "no" /\ pc = "ioapic" /\ pc' = "sti"
  /\ \/ Stops("array") /\ UNCHANGED ioapic
     \/ /\ madt # NULL /\ IoapicEntries # {}
        /\ ioapic' = info.madt[Min(IoapicEntries)].addr
        /\ InitRegisters(IoapicRange(ioapic'), "ioapic")
  /\ UNCHANGED <<info, todo, madt>>

(* before_paging_init_page_tables: the low pages, to themselves.           *)
EarlyMapped == 0 .. LowPages - 1

(* The tables the firmware has put somewhere, not in RAM it gives away.    *)
InRam(a, mmap) ==
  \E i \in DOMAIN mmap : mmap[i].type = "available" /\ Inside(a, mmap[i])

Init ==
  /\ \E tags \in TagOrders, mmap \in MemoryMaps, entries \in Madts :
       \E rsdt, apic \in {a \in Places : ~InRam(a, mmap)} :
         info = [tags |-> tags, mmap |-> mmap, rsdt |-> rsdt, madt |-> entries,
                 tables |-> <<[sig |-> "other", addr |-> rsdt],
                              [sig |-> "APIC", addr |-> apic]>>]
  /\ pc = "tags" /\ todo = info.tags
  /\ regions = <<>> /\ length = 0 /\ free = {} /\ heap = {}
  /\ areas = {} /\ mapped = EarlyMapped
  /\ madt = NULL /\ ioapic = NULL /\ stop = "no"

Next == \/ InitMemory \/ InitFramebuffer \/ process_acpi_info \/ OtherTag \/ EndTag
        \/ initialize_lapic \/ initialize_ioapic

Spec == Init /\ [][Next]_vars

-----------------------------------------------------------------------------
(* Properties.                                                             *)

(* Every variable keeps its type; the heap's frames are not free.          *)
TypeOK ==
  /\ info.mmap \in MemoryMaps /\ pc \in {"tags", "lapic", "ioapic", "sti"}
  /\ \E i \in 0 .. Len(info.tags) : todo = SubSeq(info.tags, i + 1, Len(info.tags))
  /\ Len(regions) <= MaxRegions /\ length \in 0 .. AddressSpace - 1
  /\ free \subseteq Frames /\ heap \subseteq Frames \ free
  /\ \A a \in areas : a \in Ranges
  /\ mapped \subseteq 0 .. PageOf(AddressSpace) - 1
  /\ {madt, ioapic} \subseteq Nat \cup {NULL}
  /\ stop \in {"no", "early", "regions", "null", "heap", "acpi", "lapic",
               "array", "ioapic"}

Available == {i \in DOMAIN info.mmap : info.mmap[i].type = "available"}

(* r ends before s, or begins behind it.                                   *)
Apart(r, s) == End(r) < s.addr \/ (s.addr < r.addr /\ End(s) <= r.addr)

InOneEntry(f) ==
  \E i \in Available : /\ End(info.mmap[i]) < AddressSpace
                       /\ \A a \in Memory(f) : Inside(a, info.mmap[i])

IsRam(f) == \A a \in Memory(f) : \E i \in Available : Inside(a, info.mmap[i])

(* f passes for RAM because of an entry that reaches above 4 GiB: cut to   *)
(* 32 bits it stands for other addresses.                                  *)
CutFrom(f) ==
  \E i \in Available : /\ End(info.mmap[i]) > AddressSpace
                       /\ \A a \in Memory(f) : Within(a, Stored(info.mmap[i]))

(* No region ends the loop over the regions before the last.               *)
NoneEmpty == \A i \in Available : Wrap(info.mmap[i].len) # 0

BitmapFrames == BitmapFirst .. BitmapFirst + BitmapPages - 1

(* The frames of the kernel image are free in the bitmap: nothing marks    *)
(* them.  The heap spares them as long as there is RAM below the image for *)
(* it, and one more frame that the search asks for.                        *)
HeapSparesImage ==
  /\ NoneEmpty /\ LowFrames + HeapPages <= Min(Image)
  /\ \A f \in LowFrames .. LowFrames + HeapPages :
       InOneEntry(f) /\ f \notin BitmapFrames
  => heap \cap Image = {}

(* What is handed out is RAM, or passes for it in one of two ways: its bit *)
(* is one that memset has not reached, or the entry it seems to lie in was *)
(* cut; and the heap spares the kernel.  So it is when the loader reports  *)
(* fewer regions than there is room for.                                   *)
HandsOutRam ==
  Cardinality(Available) < MaxRegions =>
    /\ \A f \in free \cup heap :
         IsRam(f) \/ f \in Unreached(PageOf(length)) \/ CutFrom(f)
    /\ HeapSparesImage

(* The devices, or what is taken for one, that have been set up.           *)
Devices ==
  {r \in {Framebuffer} : "framebuffer" \in Range(info.tags) \ Range(todo)}
  \cup {r \in {Lapic} : pc \in {"ioapic", "sti"}}
  \cup {IoapicRange(a) : a \in {ioapic} \ {NULL}}

(* The lengths of all entries together.                                    *)
Total == Wrap(FoldLeft(LAMBDA sum, e : sum + e.len, 0, info.mmap))

(* The bitmap covers as much memory as the entries are long together, from *)
(* address 0 on, wherever they lie.  Every frame of RAM below that is      *)
(* free, the heap's, the bitmap's or a device's.  (What a hole pushes up   *)
(* to that address or above it is lost, up to the size of the holes.)      *)
NoRamLost ==
  NoneEmpty /\ heap # {} =>
    \A f \in LowFrames .. PageOf(Total) - 1 :
      InOneEntry(f) => f \in free \cup heap \cup BitmapFrames
                            \cup UNION {Pages(r) : r \in Devices \cup AcpiEntry}

Before(t, u) ==
  \A j \in DOMAIN info.tags : info.tags[j] = u
    => \E i \in 1 .. j - 1 : info.tags[i] = t

(* "ACPI addresses were allocated/mapped in init_memory" (acpi.c:68): so   *)
(* they are if the memory map comes before the ACPI tag, and each table    *)
(* lies in the low 8 MiB or in the last entry of its type, short of a last *)
(* page that an entry off the page boundary is not mapped with, and no     *)
(* other area reaches to that entry.                                       *)
AcpiInPlace ==
  /\ Before("mmap", "acpi")
  /\ \A a \in Reads :
       \/ PageOf(a) < LowPages
       \/ \E i \in DOMAIN info.mmap : LET e == info.mmap[i] IN
            /\ e.type = "acpi" /\ Inside(a, e) /\ End(e) < AddressSpace
            /\ \A j \in i + 1 .. Len(info.mmap) : info.mmap[j].type # "acpi"
            /\ e.addr % PageSize = 0 \/ PageOf(a) < PageOf(End(e))
            /\ \A s \in {Recursive, HeapRange(SumOfLengths(info.mmap))} : Apart(e, s)

AcpiFound == AcpiInPlace => stop # "acpi"

(* A device that is set up behind init_memory and begins and ends apart    *)
(* from every area is mapped, but for a last page that one off the page    *)
(* boundary is not mapped with.  One that ends where another area begins   *)
(* is taken for known and is not mapped: the end of a region counts as     *)
(* inside, and areas are rounded up to whole pages.                        *)
Alone(r) ==
  /\ r.addr > 0 /\ End(r) < AddressSpace
  /\ \A s \in {Recursive, HeapRange(length)} : Apart(r, s)
  /\ \A s \in AcpiEntry \cup (Devices \ {r}) : Apart(r, Area(s))

DevicesMapped ==
  stop \notin {"early", "regions", "heap"} =>
    \A r \in Devices : Alone(r) =>
      \A a \in r.addr .. End(r) - 1 :
        r.addr % PageSize = 0 \/ PageOf(a) < PageOf(End(r)) => PageOf(a) \in mapped
=============================================================================
