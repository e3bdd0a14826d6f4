----------------------------- MODULE MCBootInfo -----------------------------
(* BootInfo on 18 pages of two units.  RAM, ACPI tables, reserved ranges   *)
(* and holes in any arrangement over three slots in the middle, one off    *)
(* the page boundary; RAM at the bottom but perhaps for a hole or an empty *)
(* entry; RAM above 4 GiB or none; the tables in any slot that is not RAM, *)
(* or below; an I/O APIC on a page of its own, on the framebuffer's, or    *)
(* ending where the local APIC begins.                                     *)
EXTENDS BootInfo

Entry(type, addr, len) == [type |-> type, addr |-> addr, len |-> len]

Slot(type, addr, len) ==
  IF type = "hole" THEN <<>> ELSE <<Entry(type, addr, len)>>

Types == {"available", "acpi", "reserved", "hole"}

Bottoms == {Slot("available", 2, 2), Slot("hole", 2, 2), Slot("available", 2, 0)}

MCMaps == {Slot("available", 0, 1) \o Slot("reserved", 1, 1) \o b \o Slot("available", 4, 9)
           \o Slot(c, 13, 4) \o Slot(d, 17, 5) \o Slot(e, 22, 3) \o Slot(g, 36, 18) :
           b \in Bottoms, c, e \in Types \ {"reserved"}, d \in Types,
           g \in {"available", "hole"}}

MCOrders == {<<"mmap", "acpi", "framebuffer">>, <<"other", "mmap", "framebuffer", "acpi">>,
           <<"acpi", "mmap", "framebuffer">>, <<"framebuffer", "mmap", "acpi">>,
           <<"mmap">>}

Controller(type, addr) == [type |-> type, addr |-> addr]

MCMadts == {<<Controller("lapic", 0), Controller("ioapic", 30), Controller("iso", 0)>>,
            <<Controller("ioapic", 31), Controller("ioapic", 30)>>,
            <<Controller("ioapic", 29)>>}

MCRecursive   == [addr |-> 26, len |-> 2]
MCFramebuffer == [addr |-> 28, len |-> 1]
MCLapic       == [addr |-> 32, len |-> 2]
=============================================================================
