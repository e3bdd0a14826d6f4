# A verification project for maybeOS

maybeOS is a 32-bit kernel for IA-32 that ends in a terminal with a small
shell. This directory holds TLA+ models of its parts, the TLC configurations
that check them on small instances, and proofs for every instance that the TLA+
proof system checks. Paths below are relative to `src/src/` of the repository.

    tlc -workers 2 -config Pmm.cfg MCPmm      check one configuration
    tlapm PmmProofs.tla                       check one module of proofs

## The system

maybeOS has one processor, no processes and no locks. After boot, the kernel
loops in `shell_main` and everything happens in the keyboard interrupt, with
interrupts off:

    keyboard -> handle_kbd_irq (ps2.c) -> handle_keycode (terminal_input_parser.c)
       -> the line buffers, the drawing of VGA_driver.c, and on ENTER
          shell_input (shell.c) -> kmalloc / kfree (kheap.c)
             -> vmalloc... (vmm.c) -> alloc_pageframe (pmm.c), map_pageframe (paging.c)

So a key is one atomic step, and what is hard is in the data: structures that
hold only through a long sequence of legal calls, limits (full line, full heap,
last cell of the screen, last bit of the bitmap), caches and saved positions that
grow stale, bytes lost by the keyboard, and steps that fail half way. True
interleaving exists during boot only, between `sti` and the end of the start-up.
Before that, the boot is a walk over what the loader and the firmware hand over,
in an order and with addresses the kernel does not choose.

| component | state | operations | what makes it correct | hard |
|---|---|---|---|---|
| physical memory manager, `kernel/memory_management/pmm.c` | the frame bitmap | `init_pmm`, `alloc_pageframe`, `alloc_requested_pageframe`, `free_pageframe` | a frame has one holder; no frame leaks; only usable frames are handed out; the bitmap keeps its own frames | bits past the bitmap, runs freed frame by frame, failure half way, a search that asks for one bit too many |
| memory map, `mem_map.c` | usable regions, size of RAM | `init_memory`, `is_page_usable` | only RAM is handed out, and none is lost | 64-bit addresses in 32 bits, sums over holes, a fixed array |
| virtual memory manager, `vmm.c` | sorted list of areas | `vmalloc`, `vmalloc_request_virtual_address`, `vmalloc_request_more_memory`, `vmalloc_free` | the list is sorted, complete, without overlaps; what is returned is mapped; no frame mapped twice | insertion in mid-list, reads through NULL, partial failure |
| paging, `paging.c` | page directory and tables | `map_pageframe`, `get_pte`, `free_mapping` | a page table exists before it is written | no frame left for a table |
| kernel heap, `kheap.c` | tags in the heap range, cached free tag | `init_kheap`, `kmalloc`, `kfree` | blocks tile the range; live blocks do not overlap or shrink; the cache is the lowest free tag; first fit | split limit, forward merge, full heap, the end of the range, recursion with vmalloc |
| PS/2 keyboard, `drivers/keyboard/ps2.c` | two prefix flags | `handle_kbd_irq`; the controller start-up | each key event is handed over once, as what it was | multi-byte sequences across interrupts, lost bytes, a start-up loop |
| keycode tables, `keycodes.c` | - | - | every printable key has both characters | keys missing from a table |
| line editor, `kernel/terminal/terminal_input_parser.c` | 25 rows of commands, a saved row, cursors, modifiers | one per class of keycode | rows terminated; `end_idx` is the terminator; history in order; the draft comes back | full rows, browsing and editing mixed |
| text mode, `drivers/video/VGA_driver.c`, `terminal.c` | cells, text cursor, start of the input | print, clear, scroll, move the cursor | the screen shows the line; both cursors together | wrapping and scrolling inside every other operation |
| shell, `shell.c` | - | `shell_input` | the command that runs is the one typed | a copy without terminator, reads past the end |
| interrupts, `kernel/interrupts/` | IDT, local APIC, I/O APIC | set-up, dispatch, EOI | the PIC stays silent, the keyboard's interrupt arrives and ends, none before its handler's data exists | the order of start-up, register layouts, where the APIC is |
| ACPI tables, `kernel/interrupts/acpi.c` | pointers to RSDT and MADT | `process_acpi_info`, `get_interruptcontroller` | tables are mapped when read; the I/O APIC is found | depends on the order of the loader's tags and on the memory map |
| boot, `boot/finish_booting.c` | - | the walk over the boot information, then the devices | memory before devices before interrupts | order of initialisation |
| serial, fonts, libc | - | straight-line code | - | - |

`PROJECT.json` lists the components with their state of modelling, every hazard
of the code at its line with the properties aimed at it, and for each definition
the lines it models.

## The modules

| module | models | abstract specification | instance | proofs |
|---|---|---|---|---|
| `FrameBitmap`, `Pmm` | `pmm.c` | `FrameAllocator` | `MCPmm` | `PmmProofs` |
| `Vmm` on `FrameBitmap` | `vmm.c` and `paging.c`, and the calls that reach them from `driver.c` and `kheap.c` | | `MCVmm` | `VmmProofs` |
| `Kheap` | `kheap.c` | `BlockAllocator` | `MCKheap` | `KheapProofs` |
| `LineEditor` | buffers and cursors of `terminal_input_parser.c` | `LineBuffer` | `MCLineEditor` | `TerminalProofs` |
| `VgaText` | text functions of `VGA_driver.c` (operators only) | | | |
| `Terminal` | `LineEditor` and `VgaText` composed: each key's handler whole | | `MCTerminal` | `TerminalProofs` |
| `Ps2` | `handle_kbd_irq`, and the keyboard as its environment | | `MCPs2` | `Ps2Proofs` |
| `Shell` | `shell_input` and the string functions it calls, on the bytes of the last block of the heap | | `MCShell` | `ShellProofs` |
| `BootInfo` on `FrameBitmap` | the first half of `kernel_start`: the tags of the loader, `init_memory`, the ACPI tables, the framebuffer, the addresses of both APICs; the loader and the firmware as its inputs | | `MCBootInfo` | `BootInfoProofs` |
| `Boot` | the second half: local APIC, I/O APIC entry, `sti`, `initialize_ps2keyboard`, the terminal; the controller, the keyboard, the PIC and interrupts as its environment | | `MCBoot` | `BootProofs` |

Conventions. An operator or an action has the name of the function it models
where there is one. A definition `X_Something` just before `X` is `X` with a
plausible slip: it is used by no specification, and each property is known to
fail when such a slip replaces the definition it stands beside. Variables
marked History record what the code does not, to state properties.

**Pmm.** `bitmap` is `alloc_bitmap` and the bit just past it, which the search
reads. `usable` is what `is_page_usable` accepts and may be any set. `Init` is
`init_pmm`: all whole bytes set, the usable frames above 1 MiB freed, the
bitmap's own frames requested, with the failure ignored as in the code; the
bits memset does not reach start with any value. Each allocation function is an
action that succeeds or one that fails. `grants` records who holds what; a client
is one outstanding allocation. The first-fit search is stated by what it finds (the lowest frame that passes the
loop's tests, which cover one bit too many, `pmm.c`:51), not by its loop. A hole of
exactly the frames asked for is therefore passed over, in the model as in the code; that is modelled and no
property speaks of it, as one that did would only repeat the guard. The mapping of
the bitmap in `init_pmm` is left out.

**Kheap.** `tags` maps the address of each tag of the chain to its size and used
flag; payloads are left out. Addresses are bytes, so the arithmetic of splits and
merges is the code's. The virtual memory manager appears as it does to the
heap: an extension succeeds only if no area is mapped above the range. `above`
is what lies there: an unmapped page, or bytes that look like a used or like a
free tag of size zero; the code reads a tag there in several places, and
`stop` tells how such a read ended the kernel. `KmallocNewRange` is the path
through `vmalloc` that loses the new range, `KmallocRecursion` the one that
never returns. The behaviour after a merge with what lies past the range is not
followed. Callers ask for no more than one growth step (the limit at the top of
`kheap.c`) and free only what they hold.

**Vmm.** `mem` is what a call of `vmalloc_core` changes: the bitmap of `pmm.c`, the
page directory and the entries of all tables. `areas` is `allocated_areas_list`
as a sequence, head first; an area nothing links to is gone from it. Both loops
over the list look at the area after next, which at the end of the list is what
lies at address 0: the constant `PageZero`. The operators take a state of `mem` and
the list and return the next, in the order of the code, so one call is one
action: mapping a device includes the `kmalloc` of its area struct, which may
extend the heap on the way. `kmalloc` calls `vmalloc` without flags, so whether
the new range is identity mapped is a choice. Where the heap cannot be extended, that `kmalloc` calls
`vmalloc`, which calls `kmalloc` again, at the same address of a list not yet changed; `OutOfMemory` follows
these calls, at most `StackDepth` of them, to the one that gets NULL and returns, or into a table that cannot be had.
(While each gets memory none returns; that is `KmallocRecursion` of Kheap.) `mem.stop` says where the kernel is
followed no further: a page table that cannot be had or lies beyond the identity map
("table"), an entry written into the page directory ("directory"), a heap range
at page 0 ("null"), a loop that does not move on ("insertion"). The bits of the
bitmap at boot may be anything that leaves room for the heap. Kheap and Vmm are two views
of one call: Kheap keeps the tags and chooses whether an extension succeeds, Vmm
keeps the areas and chooses whether a block fits.

**LineEditor.** `buff` has the rows of `command_buff`, bytes included that lie
behind a terminator. A character is the key and the table it comes from. A key
missing from a table types the byte at address 0, as the code reads through NULL: one of
`BytesAtZero`, the null character among them if so chosen. With shift a key past the end of the
shorter table (`PastModified`: F1 to NUM LOCK and the keypad) types any character, since
the code takes what lies behind the table for a pointer; one that faults is left out. A null character typed
into the line ends it for `strlen` and not for `end_idx`; the history variable `nulled` follows the rows such a
line is copied to. The
memory of the terminal structure is taken as zero at start: the heap block is
fresh, and the code relies on it. The signal keys, whose handler is empty, are left out.

**VgaText, Terminal.** A cell of the screen holds the character it shows. The
text cursor and the start of the input are cell numbers, not pixel addresses.
Taking the painted cursor off, or painting it, with another character than the
cell shows leaves a smudge, so the order of buffer updates and drawing matters
in the model as it does on the screen. The shell is external: it prints a line.
TAB may scroll the start of the input off the screen, and UP, DOWN and the arrows then take the text cursor
there: cells above the screen have numbers below 0, drawing on them changes no cell, and a line ended there
goes to the last row (its row, divided as an unsigned number, is a huge one). `RowsAbove` bounds in `TNext` how
far up the start may be led; the proofs hold for every value of it.

**Ps2.** The driver takes one byte per interrupt. The keyboard sends the bytes
of set 2, has room for `WireSize` of them and replaces the last one by `00` when
it overflows, so a sequence may lose its end or its beginning; `due` keeps, byte by byte,
what the driver should make of them. Key names are
their code and the table they are in, so that an arrow and the keypad key with
the same code differ.

**Shell.** Between two lines the heap ends in one free block, which `kmalloc` splits
for the copy of the line and `kfree` puts together again. `size` is what the tag of that block
says and `mem` the bytes behind the tag, the tag `kmalloc` writes behind the copy
included, byte by byte: the copy has no terminator, so `strtok` reads on into it, and may
write a null byte into it, which `kfree` then reads as part of a size. Bytes have
few values, one of them the blank, so every byte of a size may be one. `Lines`
are what the line editor can hold. Where no word is found the code prints an
uninitialised pointer; the kernel may survive it or halt.

**BootInfo.** Each tag of the boot information is one action, then `initialize_lapic`
and `initialize_ioapic`. Addresses are in units, two to the page, so that
ranges may start and end off the page boundary; those of the kernel wrap at
`AddressSpace`, those of the memory map do not (`Inside` and `Within` compare with the one and
the other end). `free` are the frames left clear by `init_pmm` and by the devices since, which
take those at their own addresses if all of them are free; `heap` are the frames taken by
`vmm_init_kheap`; both are found with the operators of `FrameBitmap`. The bits of a last partial byte, and
the one past the bitmap, which memset does not reach (`Unreached`), start with any value, as in Pmm. A new
area goes in front of all others, or behind any of them with what followed that one forgotten, or nowhere
(`Inserted`): the code compares it with the area after next, and at the end of the list with page 0. The array of
regions ends at the first region of length zero, and behind a full array at some byte of other memory (`Beyond`). `areas`
and `mapped` are what the vmm knows, rounded up to whole pages (`Area`), and has mapped to itself,
page tables aside. `stop` says where memory that
nothing has set is used as an address or a fault halts the kernel: devices before
memory ("early"), more regions than there is room for ("regions"), no ACPI entry ("null"), no heap
or a device over it ("heap"), tables or registers not mapped ("acpi", "lapic", "ioapic"), and the
list of I/O APICs, which is written through a pointer that nothing sets ("array").

**Boot.** One step is one access of the kernel to a device, so keys and
interrupts come between any two. The controller answers a command at once, behind
a byte not yet read, as the one of QEMU (the platform in the README of the
repository) does, and its output register keeps a byte that has been read. The processor
takes an interrupt before its next access; the handler reads, handles and
returns in three steps, between which the keyboard may send. An edge of the
interrupt line is lost while the entry of the I/O APIC is masked, and may be lost while
its destination is the old one. The self test may pass or fail and may reset the control
register, as the comment in `controller_self_test` expects. A byte read where the
control register was expected may have any bits. A scancode handled before the
terminal exists goes through a NULL pointer: the kernel may survive it or halt.
`machine` says which of three things a machine does: whether it ignores that the APIC
base register is written without an address, whether the processor's APIC ID
is 0 (the entry of the I/O APIC always names processor 0), and whether the controller has a
second port. The PIC may interrupt at any moment at which it is not masked.

## What is checked

| run | instance and bounds | states | shows |
|---|---|---|---|
| `Pmm` | 7 frames, bytes of 3 bits, the bitmap in frame 2, 2 callers, requests of 1 to 3 | 21 thousand | exclusive frames, no leak, usable frames only, the bitmap kept; implements `FrameAllocator` |
| `Kheap` | tags of 2 bytes, a range of 18, one extension of 8, sizes 1, 3, 4, one range lost | 209 thousand | blocks tile the range, live blocks sound, cached tag lowest, the range left only when full or from its last block, endless recursion only when full; implements `BlockAllocator` |
| `Vmm` | pages of 2 bytes, tables of 8 pages, 40 pages of which 8 are identity mapped, 12 frames, a heap of 3 pages growing by 3, four devices next to each other's, the recursive and the heap's areas, no new range beyond 4 areas, 3 calls of `vmalloc` in each other | 94 thousand | frames serve one purpose, what is returned is mapped, the heap is mapped throughout, the head of the list is its highest area, success leaks no frame unless the new range lies across the extension that failed, page tables fail only without low memory, a device shows at its addresses unless the heap grows over it |
| `VmmForgets` | same | | violation: an insertion in mid-list forgets the recursive area |
| `LineEditor` | lines of 2 characters, 2 remembered commands, a letter in both cases, F1, all modifier keys, the byte at address 0 null or the letter | 1.2 million | rows terminated, `end_idx` the terminator where no null was typed, browsing sound, draft restored; implements `LineBuffer` |
| `Terminal` | 2 rows of 2 cells, prompt of 1, lines of 2 characters from two keys that type null with shift, 1 remembered command, TAB of 1, the line up to a row above the screen | 1.7 million | the screen shows the line and the cursors agree until TAB, a scroll during an insertion or a null; the text cursor is never behind its place, wherever it is led |
| `Ps2` | a letter, an arrow and the keypad key of the same code, 4 bytes of room | 2.3 million | presses decoded, no release taken for a press, no prefix outlives a whole sequence |
| `Shell` | bytes of 5 values, sizes of 2 bytes, lines of 4 characters from 2 letters and the blank, commands of 1 and 2 letters, free blocks of 3 sizes, fresh memory of zeroes or letters | 13 thousand | another command only through the byte behind the copy, words answered, echo prints the line, the tokeniser stops in the tag, the heap comes back whole or shorter |
| `ShellStale` | same, fresh memory of zeroes | | violation: a short line's word is completed by a byte of the tag that an earlier line left |
| `BootInfo` | 18 pages of 2 units, bytes of 2 bits, 216 memory maps, 5 orders of the tags, 3 lists of APICs, 4 places for the tables | 232 thousand | only RAM handed out but for cut entries and unreached bits, none lost below the summed size, ACPI tables found, devices mapped, the heap spares the image, each under the condition the property states |
| `Boot` | eight kinds of machine; the firmware's local APIC off, on, or on with the PIC's pin masked; the keyboard on, with or without interrupts, translation and an unread byte at the start; a self test that may set the register to its power-on value | 11 thousand | the PIC never gets through, answers are read as what they are, no interrupt during the probing, no edge lost, both ports end as meant unless a key crosses, the boot ends, every byte is taken |
| `BootEoi` | same | | violation: where the APIC obeys the write of its base, the first EOI is lost |

Why the bounds are enough. Pmm: seven frames hold two runs of three with a hole,
whole and partial bytes, the bitmap's frame inside, and the first and last bit;
every memory map is an initial state. Kheap: the sizes leave every remainder
around the split limit (none, less than a tag, exactly one, more), three or
four blocks stand side by side, the range grows once and cannot grow again.
Vmm: the devices lie above the recursive region, at its end, between it and the heap, and at the
heap's end, so that an insertion happens at the head, in the middle and at the tail;
over all bitmaps a call gets a run, single frames, too few, or none for a table. Frames can run out in the
middle of an extension with its table made, and a new range succeed after it, in the same table, apart from its pages or
(below the second device) across them: the case that `SuccessLeaksNothing` is hard for and the one it
lets off, both of which occur. `Bottom` lies above `Top`
as it does where the kernel is linked above the memory there is. The instance reaches every reason to
stop but "insertion", a loop that does not move on; the theorems cover it.
LineEditor: two characters are the least with a line that is full, a cursor in
the middle and one at each end; two remembered commands are the least in which
the oldest is lost and browsing passes over one; with the letter and the null a null character comes to every place
of a line, and with it to every row and back. Terminal: the prompt takes a cell of the two of a row, so a
line of one character ends its row and one of two wraps; two rows make every
line after the first scroll, the third cell of a line in the middle of it. One row above the screen lets the start
and the text cursor be there with the line, or its end, still on it; in the code the margin of 20 pixels holds that
row, and what lies further up is other memory. The two keys have the same tables and stand for each other
(symmetry). Ps2: the longest sequence has three bytes and meets
every amount of room, zero included. Shell: a line is longer than the longest
command and an argument, several shorter lines reach the tag of a longer one's copy,
and the sizes of the free block put null, blank and other digits into that
tag. BootInfo: RAM, ACPI tables, reserved ranges and holes in every arrangement of three slots,
one off the page boundary, above all of them RAM beyond the address space or none, below them a hole, RAM
or an empty entry; the tables in each slot, in the low pages or beyond; an I/O APIC apart from the other
devices, at the framebuffer's page, and ending where the local APIC begins. Bytes of two bits leave a last bit unreached, or
only the one past the bitmap, as the summed size is odd or even. Boot has no
size: its states are all there are, and keys are unbounded. What grows with the real sizes only
repeats these cases; for Pmm and Kheap the proofs settle every size.

Deadlock is checked except for Kheap, Vmm, Shell, BootInfo and Boot, where the kernel really stops: after a
fault or an endless recursion no call is made, the walk over the boot information ends
(Boot goes on from there), and at the shell with a keyboard that is off nothing happens.

The violations are disagreements between the code and what its own documents and
comments say; `PROJECT.json` quotes them under "findings". More of them show in the models without
a run of their own: a `kmalloc` that takes the last free block reads a tag past the range (stop =
"end" in Kheap), though "may be null if there are no free tags" (`kheap.c`:132); TAB, and an insertion that
scrolls, part the text cursor from the buffer cursor (the premise of `LineShown`); a space
typed with shift reads its character through NULL, and where the byte there is null `end_idx` passes what it
"is the index of", the null terminator (`terminal.h`:18, the premise of `EndIsTerminator`), and ENTER leaves a line
that begins with it in its buffer; a key that crosses `enable_interrupt_ports` is written
back as the control register and may turn translation on (the premise of `StartsRight`); RAM that the loader
reports above 4 GiB passes for frames below (`CutFrom` in `HandsOutRam`), the bits of a last partial byte may give
out frames past the last entry (`Unreached`), and what holes push above the summed size is lost (`NoRamLost`).

Fairness. Only Boot needs it: elsewhere each handler runs to its end in one step,
and what users or callers do next is not owed. In Boot the interrupt and its handler are
weakly fair (the processor runs), the interrupted code strongly fair: whenever
interrupts leave it a moment again and again, it goes on. That they do is a
premise of `BootEnds`, as nothing in the code bounds the rate of keys; a byte of
the keyboard takes a millisecond. Nothing is assumed of the keyboard. A failed self
test is the other premise: the loop after it never ends. `ByteTaken` holds for the machines whose local
APIC stays in place and has the ID 0; for others the code cannot do better than `BootEoi` shows.

## What is proved

For every value of the constants that meets the named assumptions of each module.

`PmmProofs` (`PmmAssumption`, `NumBitsAssumption`): types, `FramesSound` with its parts
`NoFrameShared` and `FramesAccounted`, `GrantsAreUsable`, `BitmapKept`, and that
every step of Pmm is a step of `FrameAllocator`. That no frame is shared is not
inductive: a run that passes the bit tests could overlap a held frame if its bit
were clear. The inductive invariant therefore adds the accounting (the marked
frames are those of boot and those held, disjoint), which the bit tests turn
into exclusiveness, and what `init_pmm` left marked (`BootSound`), from which
usability and the keeping of the bitmap follow.

`KheapProofs` (`KheapAssumption`): types, `ChainTiles`, `LiveBlocksSound`,
`FirstFreeIsLowest`, `RecursesOnlyWhenFull`, the action properties `FirstFit` and
`StopsOnlyAtTheEnd`, and that every step of Kheap is a step of `BlockAllocator`. Lemmas on chains
carry the weight: a split, an extension, a
free and a merge of a chain that tiles the range give one that does
(`SplitTiles`, `ExtendTiles`, `FreeTiles`, `MergeTiles`), and the search returns
the lowest free tag (`SearchFinds`). They are proved together as the three depend on
each other: a block is split inside its size because the chain tiles, the next
tag searched from is a tag because of the same, and the cache is right after a
take because there was nothing free below it before. First fit, and that recursion means a full heap,
follow from the same: the search from the cached tag misses no free block (`CacheHidesNothing`). The
refinement (`AllocRefines`, `FreeRefines`) rests on the tiling, which keeps a new block off those held.

`VmmProofs` (`VmmAssumption`; for `DeviceShows` also that every device lies inside the address space; for
the last three the layouts told below): types, `FramesExclusive`, `DeviceShows`, `ReturnedIsMapped`,
`TablesFromLowMemory` and `SuccessLeaksNothing`, for every size of memory, tables and pages, every set of
devices and whatever lies at page 0. `FramesExclusive` is not inductive in the middle of a call: a run of
frames is marked before the first of them is mapped, and a page table made on the way takes another frame.
`Exclusive` therefore says of the page tables what the property says, and `Spare` of the frames marked and not
yet mapped that no page and no table has them. The loops (`map_contiguous_pages`, `identity_map_pageframes`
and the frame by frame loop of `vmalloc_core`) are recursive functions in Vmm; each is known to exist for every number of
rounds by induction along a set of numbers (`Loop`), and what it keeps is proved round by round the same way.
For `DeviceShows` the invariant of the loop is `Identity`: what has been mapped maps to itself until the loop
ends, since a page once mapped is not mapped again.

The other three need the address space to be laid out as `Layout` says: from below, the identity map, the
heap under the end of memory, the recursive region; devices above the identity map and not at the very end;
and the end of the area that page 0 is taken for above the identity map, or its start below. That is so
where there is memory for the heap beyond the first 8 MiB and none beyond the recursive region at
0xf0c00000. The page 0 part is a hypothesis that nothing in the code sees to: `find_first_alloc` takes
whatever lies at address 0 for the end of an area. `MCVmm` has TLC confirm `Layout` of its instance,
so the hypotheses have a model with every kind of step. `GoodInv` is the invariant. It places the areas
(`ListLayout`: each above the identity map, the head at or above the recursive region), although the list is
neither sorted nor complete; hence no mapping replaces an entry of the identity map, and a table that cannot be cleared
through it was not to be had from low memory (`TablesFromLowMemory`). It says that no page of the recursive
region is ever mapped: the kernel stops first. For `ReturnedIsMapped` the difficulty is the area that grows although
`vmalloc_core` failed, and so counts pages that are not mapped. A heap extended above such a hole would not
be whole. `HeapMapped` therefore says that every page of the heap's area is mapped, or memory is exhausted:
`vmalloc_core` fails only when the search for one frame finds none (`Exhausted`), nothing is freed, and an exhausted memory
refuses every later extension (`ExhaustedStays`, `CoreExhausted`).

`SuccessLeaksNothing` follows call by call from what `vmalloc_core` does (`CoreDoes`: the frames marked by a
call that succeeds back pages of its region or are tables). But one action may hold two calls: an extension
that fails after it mapped some pages, and the new range after it, which succeeds if the stray MMIO flag
maps it to itself. If that range covers the pages just mapped, their frames are lost: they stay marked and
back nothing. The code has nothing against it. `find_first_alloc` hands out what lies right below an area, and
where the start of a device's area is not a whole number of extensions from the end of the heap, that is across the
extension. The property says so: only that case is let off, and the theorem asks nothing of where the devices
lie beyond `Layout` (`AfterExtension` is the case of two calls).

`TerminalProofs` (`LineEditorAssumption`, `TerminalAssumption`). Of LineEditor: types, `RowsTerminated`,
`BrowsedExists`, `EndIsTerminator`, `DraftRestored`, and that every step is a step of `LineBuffer`. `LineInv`
takes the saved row and all rows of the history together, since any of them may be copied to row 0, and the
scan for its end needs a null byte to exist there. `TextInv` adds that nothing but null bytes lies behind a
terminator, in every row that no null character was typed into: a backspace moves that byte into the line, and
the end of the row brought back by an arrow is the first null byte. `DraftInv` says where the line being
written is while another is shown. The refinement needs besides that the rows of the history are the last
lines submitted without a gap (`HistoryInv`), and lemmas on what an insertion or an erasure in a row does to
the text it holds. Of Terminal: `NeverBehind` and `LineShown`. The drawing functions draw a string character
by character, as a fold; what the fold leaves is known cell by cell, again along its rounds (`Drawn`,
`DrawnBy`), and `ScreenInv` and `ShownInv` say which cells show the row and where the cursor is on each path
through a handler, until the cursor is led astray. Wherever it is led after that `MoveInv` holds: each drawing
function moves the cursor and the start so that the one keeps its distance from the other (`Ahead`), a scroll
included, and a handler that puts the cursor back after a scroll puts it ahead of its place. None of these
needs anything of the byte at address 0. `LineShown` needs that the prompt and the longest line fit the screen
together (`Fits`), and not one cell less: a model with one cell less violates it. The real numbers are 10, 256
and some 3000 cells.

`Ps2Proofs` (`Ps2Assumption`): types, `PressesDecoded`, `PrefixesForgotten`, for every set of
keys and every room of the keyboard. What is decoded depends on bytes of the past (the flags) and is
about bytes still to come, so neither is inductive. `Chained` says of each byte held which byte may
follow it in its sequence, torn or whole, or begin the next; `Expected` says the next byte is
the one the flags stand for, unless the sequence before it was torn. A byte taken moves one link along the
chain; a sequence sent hangs on to its end, and an overflow cuts it.

`BootProofs` (`BootAssumption`; for `OwnsPort` and `StartsRight` also that the self test does not turn
the keyboard's interrupt on, which the comment in `controller_self_test` leaves open): types, `PicIsSilent`, `NoEdgeLost`,
`OwnsPort`, `StartsRight`, for every state the firmware may leave and every machine. The boot is straight-line code, so the
invariants say at each place of it what has been set up. `Basics`: how far the local APIC and the
entry of the I/O APIC are, from which the silence of the PIC and the safety of edges follow.
`Probes`: what the control register and the output hold at each access of the start-up; there the
two properties depend on each other, since an interrupt that cannot come cannot take an answer.

`ShellProofs` (`ShellAssumption`): `RunsWhatIsTerminated`, `PrintsTyped`, `StopsInTag` and `HeapIsSpared`, for every
alphabet, every size of line and tag, and whatever the heap holds. Each line is a fresh call, so hardly
any invariant is needed for the first three; the weight is on what the search of `strtok` finds (`StrtokFinds`) in a
copy that ends where the line does (`CopyIs`), and on reading the first word of the line off the same two
places (`FirstWordIs`). For the last one the size that `kfree` reads is compared digit by digit with the size
`kmalloc` wrote: `strtok` replaces at most one byte of it, by zero, so no digit grows, and neither does what
`kfree` gives back.

`BootInfoProofs` (`BootInfoAssumption`): types, `HandsOutRam`, `NoRamLost`, `AcpiFound`, `DevicesMapped`, for
every memory map, every order of the tags, every size of pages and address space and every place of the
devices. The two loops over the memory map (the regions stored, the lengths added up) are unfolded round by
round (`Rounds`): the regions stored are the available entries cut to 32 bits (`StoresAre`), and the sum is
the end of the lengths of all entries, cut to 32 bits once or at every round (`SumIsTotal`). From that follows
which frames `init_pmm` leaves free (`UsableIsRam`, `RamIsUsable`, `AfterIs`) and where the heap goes
(`HeapIs`). `BootInv` says that before `init_memory` no device is set up or the kernel has stopped, and behind
it that what is gone from the free frames the heap or a device has, that every area known is one of the vmm's
own or a device's, and that the low pages outside the heap and the ACPI entry are mapped. `DevicesMapped` is
inductive only together with that: a device set up later is alone if none of the areas known reaches to it
(`DeviceIsNew`), and then its pages are mapped (`PageMapped`), the wrap-around of the rounding included.

The types of all modules but VgaText, which has no state, and Shell and Terminal, where they are part of what is
proved, are theorems; those of Pmm, Kheap, LineEditor, Ps2 and Boot no run repeats.

Only model-checked: the liveness of Boot (`BootEnds`, `ByteTaken`), which is out of the reach of the provers
used, as is ENABLED. Every other property of a passing run is a theorem. Outside `Layout` the three properties
of Vmm that assume them need not hold: once an insertion in mid-list has forgotten an area, a device at the heap's
own address can be mapped over pages in use, and frames are lost; a device inside the identity map is not
counted as mapped; and nothing keeps a range out of the identity map but the areas that happen to lie
above it. `HeapIsSpared` is proved from
the digits of a size and never from the power they stand for: the provers know nothing of exponents.

## Not modelled, and the plan

The plan is carried out. What could follow is to weaken `Layout`: which of its parts are
needed for which property of Vmm, and with which list of areas none would be.

Modelled apart and not composed: BootInfo hands over to Boot at `initialize_lapic`,
and Kheap, Vmm and Pmm are views of one call that meet at the results they choose (does an
extension succeed, does a block fit, which frames are usable). One model of all three would
multiply state spaces without a property that needs them together.

Left out because nothing in use calls it: `vmalloc_free`, `free_mapping`, `direct_map_pageframes`, requests of
an address without the MMIO flag, `ping_keyboard`, `clear_input_buffer`, `config_LVT`,
`initialize_interrupt_source_overrides`, and the other string functions. Left out for good: pixels, colours
and fonts (layout), the serial port and the dump of a fault (port writes, wording), the building of GDT and
IDT entries and the assembly (straight-line, without a choice), the direct map of the kernel, a processor
without a local APIC, spurious interrupts, and the test fragments, which no target builds.
