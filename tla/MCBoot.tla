------------------------------- MODULE MCBoot -------------------------------
(* Boot on every kind of machine, with firmware that leaves the keyboard   *)
(* and a mouse on, with or without their interrupts and translation, and   *)
(* the local APIC off, or on with the PIC's pin open or masked; a self     *)
(* test may leave the control register as after power-on: translation on,  *)
(* both ports on, no interrupt.                                            *)
EXTENDS Boot

MCMachines        == MachineType
MCFirmwareApic    == {a \in ApicType : a.lint0 => a.on}
MCFirmwareControl == {bits \in SUBSET {INT1, INT2, TRANSLATE} : INT2 \in bits => INT1 \in bits}
MCResetControl    == {TRANSLATE}
=============================================================================
