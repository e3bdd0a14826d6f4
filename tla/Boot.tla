------------------------------- MODULE Boot ---------------------------------
(***************************************************************************)
(* The end of kernel_start (boot/finish_booting.c): the local APIC         *)
(* (lapic.c) and the interrupt of the keyboard (apic.c) are set up,        *)
(* interrupts are enabled, the PS/2 controller is started                  *)
(* (initialize_ps2keyboard, ps2.c), the terminal is made and shell_main    *)
(* loops, while keys are pressed and interrupts come.                      *)
(*                                                                         *)
(* A step of the kernel is one access to a device.  The PS/2 controller    *)
(* answers a command at once: the code reads its answers without waiting.  *)
(* An interrupt is taken before the next such step; its handler reads the  *)
(* byte, hands it on and returns.  Bytes are told apart by what they are;  *)
(* the value of a control register is the set of its bits.                 *)
(* A mouse says nothing until it is told to report, which nothing does.    *)
(* Left out: NMIs, spurious interrupts, the serial port, where the APICs   *)
(* lie (see BootInfo), and what keys do (see Terminal).                    *)
(***************************************************************************)
EXTENDS Naturals

CONSTANTS
  Machines,         (* The kinds of machine, see MachineType.              *)
  FirmwareApic,     (* The local APIC as the firmware may leave it.        *)
  FirmwareControl,  (* The control register as the firmware may leave it.  *)
  ResetControl      (* The control register after a self test that resets. *)

INT1      == "INTERRUPT_PORT_1"
TRANSLATE == "TRANSLATE_SCANCODE"
DISABLED  == "KEYBOARD_DISABLED"
INT2      == "INTERRUPT_PORT_2"
DISABLED2 == "MOUSE_DISABLED"
Bits      == {INT1, TRANSLATE, DISABLED, INT2, DISABLED2}

(* Whether a write of the APIC base register with no address leaves the    *)
(* local APIC where it is (QEMU without KVM) or moves it to address 0;     *)
(* whether the processor's APIC ID is 0; whether the controller has a      *)
(* second port.                                                            *)
MachineType == [keepsBase : BOOLEAN, idIsZero : BOOLEAN, twoPorts : BOOLEAN]

(* Whether the local APIC delivers what the I/O APIC sends, and what the   *)
(* PIC sends to its pin LINT0.                                             *)
ApicType == [on : BOOLEAN, lint0 : BOOLEAN]

ASSUME BootAssumption ==
  /\ Machines \subseteq MachineType /\ FirmwareApic \subseteq ApicType
  /\ FirmwareControl \subseteq SUBSET Bits /\ ResetControl \in SUBSET Bits

VARIABLES
  pc,         (* Where kernel_start is.                                    *)
  reg,        (* The control register as last read, on the stack.          *)
  testPass,   (* test_pass: "unset", "true" or "false".                    *)
  present,    (* The ports found and tested: "keyboard", "mouse".          *)
  terminal,   (* Whether the pointer terminal has been set.                *)
  halted,     (* "no", or why: a key was handled through the NULL terminal *)
              (* ("terminal"), or an interrupt is not the keyboard's       *)
              (* ("vector").                                               *)
  machine,    (* The machine.                                              *)
  lapic,      (* The local APIC, and whether its registers are where the   *)
              (* kernel writes them (here).                                *)
  interrupts, (* The interrupt flag, while no handler runs.                *)
  handler,    (* "no", "entered", or the kind of byte the handler has read.*)
  irt,        (* The entry of the I/O APIC: "masked", "stale" with the old *)
              (* destination, or "set".                                    *)
  pending,    (* An interrupt waits in the local APIC (its IRR).           *)
  inService,  (* One has been taken and no EOI written since.              *)
  ctl,        (* The control register of the controller.                   *)
  data, full, (* Its output register and whether that has been read.       *)
  answer,     (* An answer that waits for the output register.             *)
  crossed     (* History: enable_interrupt_ports read another byte.        *)

kernel == <<reg, testPass, present, terminal, halted, crossed, machine>>
apic   == <<interrupts, handler, irt, inService, lapic>>
output == <<data, full, answer>>
vars   == <<pc, kernel, apic, pending, ctl, output>>

Byte(kind)    == [kind |-> kind, bits |-> {}]
Control(bits) == [kind |-> "ctl", bits |-> bits]
None          == Byte("none")

-----------------------------------------------------------------------------
(* The controller.                                                         *)

(* IRQ 1 is edge triggered: an edge is a byte put out while the interrupt  *)
(* is enabled, or the interrupt enabled while one is there.                *)
Edge(placed) == full' /\ INT1 \in ctl' /\ (placed \/ INT1 \notin ctl)

(* The destination written is 0 whatever the ID of the processor: the ID   *)
(* is taken from the low bits of its register and put past the 64 bits     *)
(* written.                                                                *)
Reached == lapic.on /\ machine.idIsZero

Signal(placed) ==
  pending' \in CASE ~Edge(placed)                     -> {pending}
                 [] Edge(placed) /\ irt = "masked"    -> {pending}
                 [] Edge(placed) /\ irt = "stale"     -> {pending, TRUE}
                 [] Edge(placed) /\ irt = "set"       -> {pending \/ Reached}

(* readb_from_keyboard: the output register keeps the byte.                *)
ReadOutput ==
  /\ UNCHANGED ctl
  /\ full' = (answer # None)
  /\ data' = IF answer # None THEN answer ELSE data
  /\ answer' = None
  /\ Signal(answer # None)

(* The answer to a command, behind a byte that has not been read.          *)
Answer(b) ==
  /\ IF full THEN answer' = b /\ UNCHANGED <<data, full>>
             ELSE data' = b /\ full' = TRUE /\ UNCHANGED answer
  /\ Signal(~full)

(* A key, or the keyboard's reply to its reset.                            *)
KeyboardSends ==
  /\ ~full /\ answer = None /\ DISABLED \notin ctl
  /\ \E kind \in {"key"} \cup IF pc \in {"terminal", "prompt", "shell"}
                              THEN {"reply"} ELSE {} :
       data' = Byte(kind)
  /\ full' = TRUE
  /\ UNCHANGED <<pc, kernel, apic, ctl, answer>>
  /\ Signal(TRUE)

-----------------------------------------------------------------------------
(* Interrupts.                                                             *)

Waiting == interrupts /\ pending /\ ~inService

Offered == (IF Waiting THEN {"keyboard"} ELSE {})
             \cup IF interrupts /\ lapic.on /\ lapic.lint0 THEN {"pic"} ELSE {}

(* An interrupt is taken.  On any but the keyboard's, say the timer of the *)
(* PIC, the dispatcher dumps the state and halts.                          *)
TakeInterrupt ==
  /\ halted = "no" /\ handler = "no"
  /\ \E source \in Offered :
       /\ handler'   = IF source = "keyboard" THEN "entered" ELSE "no"
       /\ inService' = IF source = "keyboard" THEN TRUE ELSE inService
       /\ pending'   = IF source = "keyboard" THEN FALSE ELSE pending
       /\ halted'    = IF source = "keyboard" THEN "no" ELSE "vector"
  /\ UNCHANGED <<pc, reg, testPass, present, terminal, crossed, machine, interrupts,
                 irt, lapic, ctl, output>>

HandlerReads ==
  /\ handler = "entered"
  /\ handler' = data.kind
  /\ ReadOutput
  /\ UNCHANGED <<pc, kernel, interrupts, irt, lapic, inService>>

IsScancode(kind) == kind \in {"key", "ctl", "pass", "fail", "error"}

HandleByte ==
  /\ handler \notin {"no", "entered"} /\ halted = "no"
  /\ halted' \in IF IsScancode(handler) /\ ~terminal THEN {"no", "terminal"} ELSE {"no"}
  /\ handler' = "no"
  /\ UNCHANGED <<pc, reg, testPass, present, terminal, crossed, machine, interrupts,
                 irt, lapic, pending, ctl, output>>

HandlerReturns_NoEoi == HandleByte /\ UNCHANGED inService

(* handle_kbd_irq and write_EOI, which is lost on a local APIC that has    *)
(* moved.  Where there is no terminal a scancode is written through NULL;  *)
(* if that faults, the handler of the fault halts.                         *)
HandlerReturns == HandleByte /\ inService' = ~lapic.here

-----------------------------------------------------------------------------
(* kernel_start.                                                           *)

At(here, next) == pc = here /\ pc' = next

(* initialize_lapic: disable_pic masks the pin the PIC is wired to.        *)
MaskPic_Dropped ==
  /\ At("lint0", "msr") /\ UNCHANGED <<kernel, apic, pending, ctl, output>>

LapicStep(here, next) ==
  At(here, next) /\ UNCHANGED <<kernel, interrupts, handler, irt, inService, pending,
                               ctl, output>>

MaskPic == LapicStep("lint0", "msr") /\ lapic' = [lapic EXCEPT !.lint0 = FALSE]

(* enable_lapic: the write to the base register has the enable bit only.   *)
EnableMsr == LapicStep("msr", "svr")
             /\ lapic' = [lapic EXCEPT !.here = machine.keepsBase]
EnableSvr == LapicStep("svr", "irtLow")
             /\ lapic' = [lapic EXCEPT !.on = @ \/ lapic.here]

(* set_irt_entry: the low half unmasks, the high half has the destination. *)
IrtLow  == At("irtLow", "irtHigh") /\ irt' = "stale"
           /\ UNCHANGED <<kernel, interrupts, handler, lapic, inService, pending, ctl, output>>
IrtHigh == At("irtHigh", "sti") /\ irt' = "set"
           /\ UNCHANGED <<kernel, interrupts, handler, lapic, inService, pending, ctl, output>>

Sti == At("sti", "disableMouse") /\ interrupts' = TRUE
       /\ UNCHANGED <<kernel, handler, irt, lapic, inService, pending, ctl, output>>

WriteControl(bits) ==
  /\ ctl' = bits /\ UNCHANGED output /\ Signal(FALSE)

SecondPort(bits) == IF machine.twoPorts THEN bits ELSE {}

(* disable_ps2devices, in two commands.                                    *)
DisableMouse ==
  /\ At("disableMouse", "disable")
  /\ WriteControl(ctl \cup SecondPort({DISABLED2}))
  /\ UNCHANGED <<kernel, apic>>

Disable ==
  /\ At("disable", "flush")
  /\ WriteControl(ctl \cup {DISABLED})
  /\ UNCHANGED <<kernel, apic>>

Flush_Dropped ==
  /\ At("flush", "initAsk")
  /\ UNCHANGED <<kernel, apic, pending, ctl, output>>

Flush ==
  /\ At("flush", "initAsk") /\ ReadOutput /\ UNCHANGED <<kernel, apic>>

(* read_kbd_cntl_control_reg, in two accesses.                             *)
AskControl(here, next) ==
  /\ At(here, next) /\ UNCHANGED <<kernel, apic, ctl>> /\ Answer(Control(ctl))

(* Another byte than the answer may have any of the bits.                  *)
ReadControl(here, next) ==
  /\ At(here, next) /\ ReadOutput
  /\ reg' \in IF data.kind = "ctl" THEN {data.bits} ELSE SUBSET Bits
  /\ crossed' = (crossed \/ (here = "irqRead" /\ data.kind # "ctl"))
  /\ UNCHANGED <<testPass, present, terminal, halted, machine, apic>>

InitWrite_KeepInterrupt ==
  /\ At("initWrite", "testAsk") /\ WriteControl(reg \ {INT2, TRANSLATE})
  /\ UNCHANGED <<kernel, apic>>

InitWrite ==                                  \* initialize_kbd_control_reg
  /\ At("initWrite", "testAsk") /\ WriteControl(reg \ {INT1, INT2, TRANSLATE})
  /\ UNCHANGED <<kernel, apic>>

(* controller_self_test.  The test may reset the control register.         *)
TestStart ==
  /\ At("testStart", "testWrite")
  /\ ctl' \in {ctl, ResetControl}
  /\ \E result \in {"pass", "fail"} : Answer(Byte(result))
  /\ UNCHANGED <<kernel, apic>>

TestWrite_Dropped ==
  /\ At("testWrite", "testResult") /\ UNCHANGED <<kernel, apic, pending, ctl, output>>

TestWrite ==
  /\ At("testWrite", "testResult") /\ WriteControl(reg) /\ UNCHANGED <<kernel, apic>>

TestResult_WhilePassed ==
  /\ pc = "testResult" /\ ReadOutput
  /\ testPass' = IF testPass = "unset" THEN IF data.kind = "pass" THEN "true" ELSE "false"
                 ELSE testPass
  /\ pc' = IF testPass' = "true" THEN "testAsk" ELSE "portsAsk"
  /\ UNCHANGED <<reg, present, terminal, halted, crossed, machine, apic>>

(* Only the first result is kept: after a failure the loop has no end.     *)
TestResult ==
  /\ pc = "testResult" /\ ReadOutput
  /\ testPass' = IF testPass = "unset" THEN IF data.kind = "pass" THEN "true" ELSE "false"
                 ELSE testPass
  /\ pc' = IF testPass' = "true" THEN "portsAsk" ELSE "testAsk"
  /\ UNCHANGED <<reg, present, terminal, halted, crossed, machine, apic>>

(* test_kbd_cont_interfaces: the test of a port.  There is a second one    *)
(* where disabling it has set its bit (ps2_contoller_has_multiple_ports).  *)
InterfaceStart(here, next) ==
  /\ At(here, next)
  /\ UNCHANGED <<kernel, apic, ctl>>
  /\ \E result \in {"zero", "error"} : Answer(Byte(result))

InterfaceResult(here, port) ==
  /\ pc = here /\ ReadOutput
  /\ pc' = IF port = "keyboard" /\ DISABLED2 \in reg THEN "mouseStart" ELSE "enable"
  /\ present' = present \cup IF data.kind = "zero" THEN {port} ELSE {}
  /\ UNCHANGED <<reg, testPass, terminal, halted, crossed, machine, apic>>

(* enable_keyboard_interfaces, in one command for each port.               *)
EnablePort(here, next, port, bit) ==
  /\ At(here, next)
  /\ WriteControl(IF port \in present THEN ctl \ {bit} ELSE ctl)
  /\ UNCHANGED <<kernel, apic>>

IrqWrite ==                                          \* enable_interrupt_ports
  /\ At("irqWrite", "terminal")
  /\ WriteControl(reg \cup (IF "keyboard" \in present THEN {INT1} ELSE {})
                      \cup (IF "mouse" \in present THEN {INT2} ELSE {}))
  /\ UNCHANGED <<kernel, apic>>

MakeTerminal ==                                     \* init_terminal_subsystem
  /\ At("terminal", "prompt") /\ terminal' = TRUE
  /\ UNCHANGED <<reg, testPass, present, halted, crossed, machine, apic, pending, ctl,
                 output>>

StartShell ==
  /\ At("prompt", "shell") /\ UNCHANGED <<kernel, apic, pending, ctl, output>>

(* The kernel between interrupts.                                          *)
Main ==
  /\ halted = "no" /\ handler = "no" /\ ~Waiting
  /\ \/ MaskPic \/ EnableMsr \/ EnableSvr \/ IrtLow \/ IrtHigh \/ Sti
     \/ DisableMouse \/ Disable \/ Flush
     \/ AskControl("initAsk", "initRead") \/ ReadControl("initRead", "initWrite")
     \/ InitWrite
     \/ AskControl("testAsk", "testRead") \/ ReadControl("testRead", "testStart")
     \/ TestStart \/ TestWrite \/ TestResult
     \/ AskControl("portsAsk", "portsRead") \/ ReadControl("portsRead", "interfaceStart")
     \/ InterfaceStart("interfaceStart", "interfaceResult")
     \/ InterfaceResult("interfaceResult", "keyboard")
     \/ InterfaceStart("mouseStart", "mouseResult")
     \/ InterfaceResult("mouseResult", "mouse")
     \/ EnablePort("enable", "enableMouse", "keyboard", DISABLED)
     \/ EnablePort("enableMouse", "irqAsk", "mouse", DISABLED2)
     \/ AskControl("irqAsk", "irqRead") \/ ReadControl("irqRead", "irqWrite")
     \/ IrqWrite \/ MakeTerminal \/ StartShell

Handler == TakeInterrupt \/ HandlerReads \/ HandlerReturns

(* As the firmware leaves it: the keyboard on, perhaps with a byte unread. *)
Init ==
  /\ machine \in Machines
  /\ \E left \in FirmwareApic :
       lapic = [on |-> left.on, lint0 |-> left.lint0, here |-> TRUE]
  /\ pc = "lint0" /\ reg = {} /\ testPass = "unset" /\ present = {}
  /\ terminal = FALSE /\ halted = "no" /\ crossed = FALSE
  /\ interrupts = FALSE /\ handler = "no" /\ irt = "masked"
  /\ pending = FALSE /\ inService = FALSE
  /\ \E bits \in FirmwareControl :
       ctl = bits \ IF machine.twoPorts THEN {} ELSE {INT2, DISABLED2}
  /\ full \in BOOLEAN /\ data = Byte("key") /\ answer = None

Next == Main \/ Handler \/ KeyboardSends

(* The processor runs.  Where interrupts leave the interrupted code a      *)
(* moment again and again, that goes on too.                               *)
Spec == Init /\ [][Next]_vars /\ WF_vars(Handler) /\ SF_vars(Main)

-----------------------------------------------------------------------------
(* Properties.                                                             *)

Probing == {"testAsk", "testRead", "testStart", "testWrite", "testResult",
            "portsAsk", "portsRead", "interfaceStart", "interfaceResult",
            "mouseStart", "mouseResult", "enable"}
Booting == Probing \cup {"lint0", "msr", "svr", "irtLow", "irtHigh", "sti",
                         "disableMouse", "disable", "flush", "enableMouse",
                         "initAsk", "initRead", "initWrite", "irqAsk", "irqRead",
                         "irqWrite"}
Tested  == {"portsAsk", "portsRead", "interfaceStart", "interfaceResult",
            "mouseStart", "mouseResult", "enable", "enableMouse", "irqAsk", "irqRead", "irqWrite", "terminal", "prompt", "shell"}
Started == {"terminal", "prompt", "shell"}
Kinds   == {"key", "reply", "ctl", "pass", "fail", "zero", "error", "none"}

(* Every variable keeps its type; interrupts are enabled with the entry of *)
(* the I/O APIC whole, the start-up passes the self test only once it has  *)
(* succeeded, and an answer waits only behind a byte.                      *)
TypeOK ==
  /\ pc \in Booting \cup Started
  /\ reg \in SUBSET Bits /\ testPass \in {"unset", "true", "false"}
  /\ present \subseteq {"keyboard", "mouse"} /\ halted \in {"no", "terminal", "vector"}
  /\ {terminal, interrupts, pending, inService, full, crossed} \subseteq BOOLEAN
  /\ machine \in Machines /\ [on |-> lapic.on, lint0 |-> lapic.lint0] \in ApicType
  /\ ~lapic.here => ~machine.keepsBase
  /\ handler \in {"no", "entered"} \cup Kinds /\ irt \in {"masked", "stale", "set"}
  /\ ctl \in SUBSET Bits
  /\ data \in [kind : Kinds, bits : SUBSET Bits]
  /\ answer \in [kind : Kinds, bits : SUBSET Bits]
  /\ interrupts => irt = "set"
  /\ pc \in Tested => testPass = "true"
  /\ answer # None => full

(* "make sure nothing can be sent to the kbd cont" (ps2.c:260): up to the  *)
(* enabling of the keyboard, what the start-up is about to read is the     *)
(* answer to its own command, whatever keys and interrupts came before.    *)
AnswersOwn ==
  /\ pc \in {"initRead", "testRead", "portsRead"} => data.kind = "ctl"
  /\ pc = "testResult"      => data.kind \in {"pass", "fail"}
  /\ pc \in {"interfaceResult", "mouseResult"} => data.kind \in {"zero", "error"}

(* While the controller is tested the start-up reads its own answers, and  *)
(* they raise no interrupt: the handler would take them for scancodes.     *)
OwnsPort == AnswersOwn /\ (pc \in Probing => handler = "no" /\ ~Waiting)

(* Once the firmware's byte is flushed, a byte that is there with the      *)
(* interrupt enabled has its interrupt on the way, if interrupts can reach *)
(* the processor.  The edge comes once: a byte without it would block the  *)
(* keyboard for good.                                                      *)
NoEdgeLost ==
  /\ Reached
  /\ pc \notin {"lint0", "msr", "svr", "irtLow", "irtHigh", "sti", "disableMouse",
                "disable", "flush"}
  /\ full /\ INT1 \in ctl
  => pending \/ handler = "entered"

(* A start-up that reads the control register when it means to leaves each *)
(* port that passed its test on and with its interrupt, and the others     *)
(* off, without translation; a reset of the register by the self test      *)
(* changes nothing of that.                                                *)
StartsRight ==
  pc \in Started /\ ~crossed =>
    ctl = (IF "keyboard" \in present THEN {INT1} ELSE {DISABLED})
          \cup SecondPort(IF "mouse" \in present THEN {INT2} ELSE {DISABLED2})

(* "PIC is disabled by the kernel" (README.md): any interrupt but the      *)
(* keyboard's halts the kernel, and none reaches it, in whatever state the *)
(* firmware has left the local APIC and wherever that is.                  *)
PicIsSilent == halted # "vector"

(* If the first self test passes and the keys pressed leave a pause again  *)
(* and again, the kernel comes to its shell, unless a key is fatal.        *)
Idle == handler = "no" /\ ~Waiting

BootEnds == []<>Idle => (testPass = "true" ~> pc = "shell" \/ halted = "terminal")

(* At the shell every byte is read by the handler, on a machine whose      *)
(* processor has the ID 0 and whose local APIC stays where it was.         *)
ByteTaken ==
  pc = "shell" /\ full /\ INT1 \in ctl /\ machine.idIsZero /\ machine.keepsBase ~> ~full

(* "cpu must write here before interrupt handler finishes" (lapic.c:158):  *)
(* when a handler has returned, its interrupt is out of service.  On a     *)
(* machine that obeys the write of the base register the EOI is written to *)
(* where the local APIC was, and no second key ever arrives.               *)
ServiceEnds == handler = "no" => ~inService
=============================================================================
