----------------------------- MODULE BootProofs ------------------------------
(***************************************************************************)
(* Proofs about Boot, for every machine and every state of the firmware.   *)
(*                                                                         *)
(* Basics holds however the self test leaves the control register: it says *)
(* how far the local APIC and the I/O APIC are set up at each place of     *)
(* kernel_start, from which the PIC is silent and no edge is lost.  Probes *)
(* says what the controller holds at each place of its start-up.           *)
(***************************************************************************)
EXTENDS Boot, TLAPS

Early  == {"lint0", "msr", "svr", "irtLow", "irtHigh", "sti"}
Before == Early \cup {"disableMouse", "disable", "flush"}

(* The steps of kernel_start, by what they do.                             *)
ApicSteps == MaskPic \/ EnableMsr \/ EnableSvr \/ IrtLow \/ IrtHigh \/ Sti

Asks == \/ AskControl("initAsk", "initRead") \/ AskControl("testAsk", "testRead")
        \/ AskControl("portsAsk", "portsRead") \/ AskControl("irqAsk", "irqRead")

Reads == \/ ReadControl("initRead", "initWrite") \/ ReadControl("testRead", "testStart")
         \/ ReadControl("portsRead", "interfaceStart")
         \/ ReadControl("irqRead", "irqWrite")

Writes == \/ DisableMouse \/ Disable \/ InitWrite \/ TestWrite
          \/ EnablePort("enable", "enableMouse", "keyboard", DISABLED)
          \/ EnablePort("enableMouse", "irqAsk", "mouse", DISABLED2)
          \/ IrqWrite

Tests == \/ TestStart \/ InterfaceStart("interfaceStart", "interfaceResult")
         \/ InterfaceStart("mouseStart", "mouseResult")

Results == \/ TestResult \/ InterfaceResult("interfaceResult", "keyboard")
           \/ InterfaceResult("mouseResult", "mouse")

MainSteps == ApicSteps \/ Flush \/ Asks \/ Reads \/ Writes \/ Tests \/ Results
             \/ MakeTerminal \/ StartShell

LEMMA MainIsSteps == Main <=> halted = "no" /\ handler = "no" /\ ~Waiting /\ MainSteps
BY DEF Main, MainSteps, ApicSteps, Asks, Reads, Writes, Tests, Results

-----------------------------------------------------------------------------
(* Types.                                                                  *)

LEMMA SignalBoolean ==
  ASSUME pending \in BOOLEAN, NEW placed \in BOOLEAN, Signal(placed),
         irt \in {"masked", "stale", "set"}, machine.idIsZero \in BOOLEAN,
         lapic.on \in BOOLEAN
  PROVE  pending' \in BOOLEAN
<1>1. Reached \in BOOLEAN
  BY DEF Reached
<1>2. Edge(placed) \in BOOLEAN
  BY DEF Edge
<1>3. QED
  BY <1>1, <1>2 DEF Signal

(* The APICs are set up before interrupts are enabled, and an answer only  *)
(* comes once the controller has been flushed.                             *)
SetUp ==
  /\ pc \in Early => ~interrupts
  /\ pc \in {"sti"} \cup ((Booting \cup Started) \ Early) => irt = "set"
  /\ pc # "lint0" => ~lapic.lint0
  /\ pc \in Before => answer = None

Basics == TypeOK /\ SetUp /\ PicIsSilent

LEMMA InitBasics == Init => Basics
<1> SUFFICES ASSUME Init PROVE Basics
  OBVIOUS
<1>1. PICK left \in FirmwareApic : lapic = [on |-> left.on, lint0 |-> left.lint0, here |-> TRUE]
  BY DEF Init
<1>2. [on |-> lapic.on, lint0 |-> lapic.lint0] \in ApicType /\ lapic.here
  BY <1>1, BootAssumption DEF ApicType
<1>3. ctl \in SUBSET Bits
  BY BootAssumption DEF Init
<1>4. QED
  BY <1>2, <1>3 DEF Init, Basics, TypeOK, SetUp, PicIsSilent, Booting, Started, Probing,
                    Tested, Early, Before, Kinds, Byte, None, Bits

(* What the accesses to the controller do to its registers.                *)
LEMMA ReadOutputTypes ==
  ASSUME TypeOK, ReadOutput
  PROVE  /\ ctl' \in SUBSET Bits /\ {full', pending'} \subseteq BOOLEAN
         /\ data' \in [kind : Kinds, bits : SUBSET Bits]
         /\ answer' = None /\ None \in [kind : Kinds, bits : SUBSET Bits]
<1>1. None \in [kind : Kinds, bits : SUBSET Bits]
  BY DEF None, Byte, Kinds
<1>2. Signal(answer # None) /\ full' = (answer # None) /\ ctl' = ctl /\ answer' = None
      /\ data' \in {data, answer}
  BY DEF ReadOutput
<1>3. lapic.on \in BOOLEAN /\ machine.idIsZero \in BOOLEAN
  BY BootAssumption DEF TypeOK, ApicType, MachineType
<1>4. pending' \in BOOLEAN
  BY <1>2, <1>3, SignalBoolean DEF TypeOK
<1>5. QED
  BY <1>1, <1>2, <1>4 DEF TypeOK

LEMMA AnswerTypes ==
  ASSUME TypeOK, NEW b \in [kind : Kinds, bits : SUBSET Bits], Answer(b)
  PROVE  /\ {full', pending'} \subseteq BOOLEAN
         /\ data' \in [kind : Kinds, bits : SUBSET Bits]
         /\ answer' \in [kind : Kinds, bits : SUBSET Bits]
         /\ answer' # None => full'
<1>1. lapic.on \in BOOLEAN /\ machine.idIsZero \in BOOLEAN
  BY BootAssumption DEF TypeOK, ApicType, MachineType
<1>2. pending' \in BOOLEAN
  BY <1>1, SignalBoolean DEF TypeOK, Answer
<1>3. CASE full
  BY <1>2, <1>3 DEF Answer, TypeOK
<1>4. CASE ~full
  BY <1>2, <1>4 DEF Answer, TypeOK
<1>5. QED
  BY <1>3, <1>4

LEMMA WriteControlTypes ==
  ASSUME TypeOK, NEW bits \in SUBSET Bits, WriteControl(bits)
  PROVE  ctl' \in SUBSET Bits /\ pending' \in BOOLEAN /\ UNCHANGED output
<1>1. lapic.on \in BOOLEAN /\ machine.idIsZero \in BOOLEAN
  BY BootAssumption DEF TypeOK, ApicType, MachineType
<1>2. QED
  BY <1>1, SignalBoolean DEF TypeOK, WriteControl

(* The two interrupts that may be taken.                                   *)
TakeKeyboard ==
  /\ halted = "no" /\ handler = "no" /\ Waiting
  /\ handler' = "entered" /\ inService' = TRUE /\ pending' = FALSE
  /\ UNCHANGED <<pc, kernel, interrupts, irt, lapic, ctl, output>>

TakePic ==
  /\ halted = "no" /\ handler = "no" /\ interrupts /\ lapic.on /\ lapic.lint0
  /\ halted' = "vector"
  /\ UNCHANGED <<pc, reg, testPass, present, terminal, crossed, machine, apic,
                 pending, ctl, output>>

LEMMA InterruptTaken == TakeInterrupt => TakeKeyboard \/ TakePic
<1> SUFFICES ASSUME TakeInterrupt PROVE TakeKeyboard \/ TakePic
  OBVIOUS
<1>1. PICK source \in Offered :
        /\ handler'   = IF source = "keyboard" THEN "entered" ELSE "no"
        /\ inService' = IF source = "keyboard" THEN TRUE ELSE inService
        /\ pending'   = IF source = "keyboard" THEN FALSE ELSE pending
        /\ halted'    = IF source = "keyboard" THEN "no" ELSE "vector"
  BY DEF TakeInterrupt
<1>2. CASE source = "keyboard"
  BY <1>1, <1>2 DEF TakeInterrupt, TakeKeyboard, Offered, kernel
<1>3. CASE source # "keyboard"
  BY <1>1, <1>3 DEF TakeInterrupt, TakePic, Offered, apic
<1>4. QED
  BY <1>2, <1>3

LEMMA BasicsKept == Basics /\ [Next]_vars => Basics'
<1> SUFFICES ASSUME Basics, [Next]_vars PROVE Basics'
  OBVIOUS
<1> USE DEF Basics, SetUp, PicIsSilent, Booting, Started, Probing, Tested, Early, Before
<1>1. CASE UNCHANGED vars
  BY <1>1 DEF vars, kernel, apic, output, TypeOK
<1>2. CASE Main
  <2>0. halted = "no" /\ handler = "no" /\ ~Waiting /\ MainSteps
    BY <1>2, MainIsSteps
  <2>1. CASE ApicSteps
    <3>1. CASE MaskPic
      BY <2>0, <3>1 DEF MaskPic, LapicStep, At, kernel, output, TypeOK, ApicType
    <3>2. CASE EnableMsr
      BY <2>0, <3>2 DEF EnableMsr, LapicStep, At, kernel, output, TypeOK, ApicType
    <3>3. CASE EnableSvr
      BY <2>0, <3>3 DEF EnableSvr, LapicStep, At, kernel, output, TypeOK, ApicType
    <3>4. CASE IrtLow
      BY <2>0, <3>4 DEF IrtLow, At, kernel, output, TypeOK
    <3>5. CASE IrtHigh
      BY <2>0, <3>5 DEF IrtHigh, At, kernel, output, TypeOK
    <3>6. CASE Sti
      BY <2>0, <3>6 DEF Sti, At, kernel, output, TypeOK
    <3>7. QED
      BY <2>1, <3>1, <3>2, <3>3, <3>4, <3>5, <3>6 DEF ApicSteps
  <2>2. CASE Flush
    BY <2>0, <2>2, ReadOutputTypes DEF Flush, At, kernel, apic, TypeOK
  <2>3. CASE Asks
    <3>1. Control(ctl) \in [kind : Kinds, bits : SUBSET Bits]
      BY DEF Control, Kinds, TypeOK
    <3>2. Answer(Control(ctl)) /\ UNCHANGED <<kernel, apic, ctl>>
      BY <2>3 DEF Asks, AskControl
    <3>3. QED
      BY <2>0, <2>3, <3>1, <3>2, AnswerTypes DEF Asks, AskControl, At, kernel, apic, TypeOK
  <2>4. CASE Reads
    BY <2>0, <2>4, ReadOutputTypes DEF Reads, ReadControl, At, apic, TypeOK
  <2>5. CASE Writes
    BY <2>0, <2>5, WriteControlTypes
       DEF Writes, DisableMouse, Disable, InitWrite, TestWrite, EnablePort, IrqWrite,
           SecondPort, At, kernel, apic, output, TypeOK, Bits
  <2>6. CASE Tests
    <3>1. \A kind \in Kinds : Byte(kind) \in [kind : Kinds, bits : SUBSET Bits]
      BY DEF Byte
    <3>2. CASE TestStart
      <4>1. PICK kind \in {"pass", "fail"} : Answer(Byte(kind))
        BY <3>2 DEF TestStart
      <4>2. Byte(kind) \in [kind : Kinds, bits : SUBSET Bits] /\ ctl' \in SUBSET Bits
        BY <3>1, <3>2, BootAssumption DEF TestStart, Kinds, TypeOK
      <4>3. QED
        BY <2>0, <3>2, <4>1, <4>2, AnswerTypes DEF TestStart, At, kernel, apic, TypeOK
    <3>3. ASSUME NEW here \in {"interfaceStart", "mouseStart"},
                 NEW next \in {"interfaceResult", "mouseResult"}, InterfaceStart(here, next)
          PROVE  Basics'
      <4>1. PICK kind \in {"zero", "error"} : Answer(Byte(kind))
        BY <3>3 DEF InterfaceStart
      <4>2. Byte(kind) \in [kind : Kinds, bits : SUBSET Bits]
        BY <3>1 DEF Kinds
      <4>3. QED
        BY <2>0, <3>3, <4>1, <4>2, AnswerTypes DEF InterfaceStart, At, kernel, apic, TypeOK
    <3>4. QED
      BY <2>6, <3>2, <3>3 DEF Tests
  <2>7. CASE Results
    BY <2>0, <2>7, ReadOutputTypes DEF Results, TestResult, InterfaceResult, apic, TypeOK
  <2>8. CASE MakeTerminal \/ StartShell
    BY <2>0, <2>8 DEF MakeTerminal, StartShell, At, kernel, apic, output, TypeOK
  <2>9. QED
    BY <2>0, <2>1, <2>2, <2>3, <2>4, <2>5, <2>6, <2>7, <2>8 DEF MainSteps
<1>3. CASE TakeKeyboard
  <2>1. UNCHANGED <<pc, kernel, interrupts, irt, lapic, ctl, output>>
        /\ handler' = "entered" /\ inService' = TRUE /\ pending' = FALSE
    BY <1>3 DEF TakeKeyboard
  <2>2. {terminal', interrupts', pending', inService', full', crossed'} \subseteq BOOLEAN
    BY <2>1 DEF kernel, output, TypeOK
  <2>3. TypeOK'
    BY <2>1, <2>2 DEF kernel, output, TypeOK
  <2>4. SetUp' /\ PicIsSilent'
    BY <2>1 DEF kernel, output
  <2>5. QED
    BY <2>3, <2>4
<1>4. CASE TakePic
  BY <1>4 DEF TakePic, apic, output, TypeOK
<1>5. CASE HandlerReads
  BY <1>5, ReadOutputTypes DEF HandlerReads, kernel, TypeOK
<1>6. CASE HandlerReturns
  BY <1>6 DEF HandlerReturns, HandleByte, output, TypeOK
<1>7. CASE KeyboardSends
  <2>1. PICK kind \in {"key", "reply"} : data' = Byte(kind)
    BY <1>7 DEF KeyboardSends
  <2>2. Byte(kind) \in [kind : Kinds, bits : SUBSET Bits]
    BY DEF Byte, Kinds
  <2>3. lapic.on \in BOOLEAN /\ machine.idIsZero \in BOOLEAN
    BY BootAssumption DEF TypeOK, ApicType, MachineType
  <2>4. pending' \in BOOLEAN
    BY <1>7, <2>3, SignalBoolean DEF KeyboardSends, TypeOK
  <2>5. QED
    BY <1>7, <2>1, <2>2, <2>4 DEF KeyboardSends, kernel, apic, TypeOK
<1>8. QED
  BY <1>1, <1>2, <1>3, <1>4, <1>5, <1>6, <1>7, InterruptTaken DEF Next, Handler

LEMMA BasicsAlways == Spec => []Basics
BY InitBasics, BasicsKept, PTL DEF Spec

(* The types hold in every reachable state; so do the setting up of the    *)
(* APICs before interrupts come and the passing of the self test.          *)
THEOREM TypeCorrect == Spec => []TypeOK
BY BasicsAlways, PTL DEF Basics

(* disable_pic comes before sti on every path: whatever the firmware left, *)
(* no interrupt of the PIC ever reaches the dispatcher, which would halt.  *)
THEOREM PicStaysSilent == Spec => []PicIsSilent
BY BasicsAlways, PTL DEF Basics

-----------------------------------------------------------------------------
(* No edge is lost.                                                        *)

LEMMA InitNoEdgeLost == Init => NoEdgeLost
BY DEF Init, NoEdgeLost

(* One access to the controller, with the I/O APIC's entry set, keeps the  *)
(* byte and its interrupt together.                                        *)
LEMMA SignalKeeps ==
  ASSUME irt = "set", Reached, NEW placed \in BOOLEAN, Signal(placed), full', INT1 \in ctl',
         placed \/ (full /\ (INT1 \in ctl => pending))
  PROVE  pending'
<1>1. CASE Edge(placed)
  BY <1>1 DEF Signal
<1>2. CASE ~Edge(placed)
  BY <1>2 DEF Signal, Edge
<1>3. QED
  BY <1>1, <1>2

LEMMA NoEdgeLostKept == Basics /\ NoEdgeLost /\ [Next]_vars => NoEdgeLost'
<1> SUFFICES ASSUME Basics, NoEdgeLost, [Next]_vars, Reached', pc' \notin Before,
                    full', INT1 \in ctl'
             PROVE  pending' \/ handler' = "entered"
  BY DEF NoEdgeLost, Before, Early
<1> USE DEF Before, Early
<1>1. CASE UNCHANGED vars
  BY <1>1 DEF vars, kernel, apic, output, NoEdgeLost, Reached
<1>2. CASE Main
  <2>0. halted = "no" /\ handler = "no" /\ ~Waiting /\ MainSteps
    BY <1>2, MainIsSteps
  <2>1. CASE ApicSteps
    BY <2>1 DEF ApicSteps, MaskPic, EnableMsr, EnableSvr, IrtLow, IrtHigh, Sti, LapicStep, At
  <2>2. CASE Flush
    BY <2>2 DEF Flush, At, ReadOutput, Basics, SetUp
  <2>3. pc \notin Early \/ ApicSteps
    BY <2>0 DEF MainSteps, Flush, Asks, AskControl, Reads, ReadControl, Writes, DisableMouse,
                Disable, InitWrite, TestWrite, EnablePort, IrqWrite, Tests, TestStart,
                InterfaceStart, Results, TestResult, InterfaceResult, MakeTerminal,
                StartShell, At
  <2>4. ASSUME pc \notin Before
        PROVE  irt = "set" /\ (Reached => (full /\ INT1 \in ctl => pending))
    BY <2>0, <2>4 DEF Basics, TypeOK, SetUp, NoEdgeLost
  <2>5. CASE Asks
    <3>1. /\ Answer(Control(ctl)) /\ UNCHANGED <<kernel, apic, ctl>> /\ pc \notin Before
      BY <2>5 DEF Asks, AskControl, At
    <3>2. Signal(~full) /\ Reached
      BY <3>1 DEF Answer, kernel, apic, Reached
    <3>3. QED
      BY <2>4, <3>1, <3>2, SignalKeeps DEF Basics, TypeOK
  <2>6. CASE Reads
    <3>1. ReadOutput /\ UNCHANGED <<machine, apic>> /\ pc \notin Before
      BY <2>6 DEF Reads, ReadControl, At
    <3>2. Signal(answer # None) /\ Reached /\ answer # None
      BY <3>1 DEF ReadOutput, apic, Reached
    <3>3. QED
      BY <2>4, <3>1, <3>2, SignalKeeps
  <2>7. CASE Writes
    <3>1. PICK bits : WriteControl(bits) /\ UNCHANGED <<kernel, apic>>
      BY <2>7 DEF Writes, DisableMouse, Disable, InitWrite, TestWrite, EnablePort, IrqWrite
    <3>2. pc \notin Before
      BY <2>7 DEF Writes, DisableMouse, Disable, InitWrite, TestWrite, EnablePort, IrqWrite, At
    <3>3. Signal(FALSE) /\ Reached /\ full' = full
      BY <3>1 DEF WriteControl, kernel, apic, output, Reached
    <3>4. QED
      BY <2>4, <3>2, <3>3, SignalKeeps
  <2>8. CASE Tests
    <3>1. PICK b : Answer(b) /\ UNCHANGED <<kernel, apic>> /\ pc \notin Before
      BY <2>8 DEF Tests, TestStart, InterfaceStart, At
    <3>2. Signal(~full) /\ Reached
      BY <3>1 DEF Answer, kernel, apic, Reached
    <3>3. QED
      BY <2>4, <3>1, <3>2, SignalKeeps DEF Basics, TypeOK
  <2>9. CASE Results
    <3>1. ReadOutput /\ UNCHANGED <<machine, apic>> /\ pc \notin Before
      BY <2>9 DEF Results, TestResult, InterfaceResult
    <3>2. Signal(answer # None) /\ Reached /\ answer # None
      BY <3>1 DEF ReadOutput, apic, Reached
    <3>3. QED
      BY <2>4, <3>1, <3>2, SignalKeeps
  <2>10. CASE MakeTerminal \/ StartShell
    BY <2>4, <2>10 DEF MakeTerminal, StartShell, At, kernel, apic, output, Reached
  <2>11. QED
    BY <2>0, <2>1, <2>2, <2>5, <2>6, <2>7, <2>8, <2>9, <2>10 DEF MainSteps
<1>3. CASE TakeKeyboard
  BY <1>3 DEF TakeKeyboard
<1>4. CASE TakePic
  BY <1>4 DEF TakePic, apic, output, NoEdgeLost, Reached
<1>5. CASE HandlerReads
  <2>1. /\ Signal(answer # None) /\ answer # None /\ UNCHANGED <<pc, kernel, irt, lapic>>
    BY <1>5 DEF HandlerReads, ReadOutput
  <2>2. irt = "set" /\ Reached
    BY <2>1 DEF Basics, TypeOK, SetUp, kernel, Reached
  <2>3. QED
    BY <2>1, <2>2, SignalKeeps
<1>6. CASE HandlerReturns
  BY <1>6 DEF HandlerReturns, HandleByte, output, NoEdgeLost, Reached
<1>7. CASE KeyboardSends
  <2>1. Signal(TRUE) /\ UNCHANGED <<pc, kernel, apic>>
    BY <1>7 DEF KeyboardSends
  <2>2. irt = "set" /\ Reached
    BY <2>1 DEF Basics, TypeOK, SetUp, kernel, apic, Reached
  <2>3. QED
    BY <2>1, <2>2, SignalKeeps
<1>8. QED
  BY <1>1, <1>2, <1>3, <1>4, <1>5, <1>6, <1>7, InterruptTaken DEF Next, Handler

(* From the flush on, a byte that is there with the interrupt enabled has  *)
(* its interrupt on the way, on every machine that interrupts can reach.   *)
THEOREM EdgesKept == Spec => []NoEdgeLost
BY InitNoEdgeLost, NoEdgeLostKept, BasicsAlways, PTL DEF Spec

-----------------------------------------------------------------------------
(* The start-up of the controller, if its self test does not turn the      *)
(* keyboard's interrupt on.                                                *)

Masked == Probing \cup {"enableMouse", "irqAsk", "irqRead", "irqWrite"}
Asking == {"initAsk", "initWrite", "testAsk", "testStart", "portsAsk",
           "interfaceStart", "mouseStart", "enable"}
Quiet  == Asking \cup {"initRead", "testRead", "testWrite", "testResult", "portsRead",
                       "interfaceResult", "mouseResult"}

Off == {DISABLED} \cup SecondPort({DISABLED2})

(* The ports as enable_keyboard_interfaces leaves them.                    *)
Enabled == (IF "keyboard" \in present THEN {} ELSE {DISABLED})
           \cup SecondPort(IF "mouse" \in present THEN {} ELSE {DISABLED2})

(* While both ports are off no key comes, and with the interrupt off no    *)
(* handler runs: what is there is the answer to the last command.          *)
PortQuiet ==
  /\ pc \in Quiet \cup {"enableMouse", "irqAsk"} => answer = None
  /\ pc \in Asking => ~full
  /\ pc \in {"testWrite", "irqRead"} => full
  /\ pc \in {"flush", "initAsk", "initRead"} => DISABLED \in ctl
  /\ pc \in {"initRead", "testRead", "portsRead"} => data = Control(ctl)
  /\ pc \in {"testWrite", "testResult"} => data.kind \in {"pass", "fail"}
  /\ pc \in {"interfaceResult", "mouseResult"} => data.kind \in {"zero", "error"}
  /\ pc \in Masked => INT1 \notin ctl /\ handler = "no" /\ ~Waiting

(* What the control register, and the copy of it on the stack, hold.       *)
Ports ==
  /\ pc \in Early \cup {"disableMouse"} => (DISABLED2 \in ctl => machine.twoPorts)
  /\ pc \in {"disable", "flush", "initAsk", "initRead"} =>
       (DISABLED2 \in ctl <=> machine.twoPorts)
  /\ pc = "initWrite" => DISABLED \in reg /\ (DISABLED2 \in reg <=> machine.twoPorts)
                         /\ DISABLED \in ctl
  /\ pc \in Probing \ {"testWrite"} => ctl = Off
  /\ pc \in {"testStart", "testWrite", "interfaceStart", "interfaceResult",
              "mouseStart", "mouseResult", "enable"} => reg = Off

(* The ports found are turned on, and their interrupts.                    *)
Found ==
  /\ pc \in Before \cup {"initAsk", "initRead", "initWrite", "testAsk", "testRead",
                         "testStart", "testWrite", "testResult", "portsAsk",
                         "portsRead", "interfaceStart", "interfaceResult"} => present = {}
  /\ pc \in {"mouseStart", "mouseResult"} => "mouse" \notin present /\ machine.twoPorts
  /\ "mouse" \in present => machine.twoPorts
  /\ pc = "enableMouse" => ctl = Off \ (IF "keyboard" \in present THEN {DISABLED} ELSE {})
  /\ pc \in {"irqAsk", "irqRead", "irqWrite"} => ctl = Enabled
  /\ pc \in {"enableMouse", "irqAsk"} /\ full => data.kind = "key"
  /\ pc = "irqRead" /\ data.kind = "ctl" => data.bits = ctl
  /\ pc = "irqWrite" /\ ~crossed => reg = Enabled
  /\ pc \notin Started \cup {"irqWrite"} => ~crossed
  /\ StartsRight

Probes == PortQuiet /\ Ports /\ Found

LEMMA InitProbes == Init => Probes
<1> SUFFICES ASSUME Init PROVE Probes
  OBVIOUS
<1>1. pc = "lint0" /\ present = {} /\ ~crossed
  BY DEF Init
<1>2. DISABLED2 \in ctl => machine.twoPorts
  BY DEF Init
<1>3. QED
  BY <1>1, <1>2 DEF Probes, PortQuiet, Ports, Found, StartsRight, Quiet, Asking, Masked,
                    Probing, Early, Before, Started

(* With the interrupt off no handler starts.                               *)
LEMMA NoHandlerStarts ==
  ASSUME handler = "no", ~Waiting, UNCHANGED <<interrupts, handler, inService>>,
         INT1 \notin ctl', NEW placed, Signal(placed)
  PROVE  handler' = "no" /\ ~Waiting'
BY DEF Signal, Edge, Waiting

LEMMA AsksKeep ==
  ASSUME Basics, Probes, handler = "no", ~Waiting, Asks
  PROVE  Probes'
<1> USE DEF Quiet, Asking, Masked, Probing, Early, Before, Started
<1>1. /\ Answer(Control(ctl)) /\ UNCHANGED <<kernel, apic, ctl>>
      /\ \/ pc = "initAsk" /\ pc' = "initRead"
         \/ pc = "testAsk" /\ pc' = "testRead"
         \/ pc = "portsAsk" /\ pc' = "portsRead"
         \/ pc = "irqAsk" /\ pc' = "irqRead"
  BY DEF Asks, AskControl, At
<1>2. UNCHANGED <<reg, present, crossed, machine, ctl, interrupts, handler, inService>>
  BY <1>1 DEF kernel, apic
<1>3. pc' # "initRead" => handler' = "no" /\ ~Waiting' /\ INT1 \notin ctl'
  BY <1>1, <1>2, NoHandlerStarts DEF Answer, Probes, PortQuiet
<1>4. PortQuiet'
  BY <1>1, <1>2, <1>3 DEF Answer, Probes, PortQuiet
<1>5. Ports'
  BY <1>1, <1>2 DEF Probes, Ports, Off, SecondPort
<1>6. Found'
  BY <1>1, <1>2 DEF Answer, Control, Probes, PortQuiet, Found, StartsRight, Off, Enabled,
                    SecondPort
<1>7. QED
  BY <1>4, <1>5, <1>6 DEF Probes

LEMMA ReadsKeep ==
  ASSUME Basics, Probes, handler = "no", ~Waiting, Reads
  PROVE  Probes'
<1> USE DEF Quiet, Asking, Masked, Probing, Early, Before, Started
<1>1. /\ ReadOutput /\ UNCHANGED <<present, machine, apic>>
      /\ \/ pc = "initRead" /\ pc' = "initWrite"
         \/ pc = "testRead" /\ pc' = "testStart"
         \/ pc = "portsRead" /\ pc' = "interfaceStart"
         \/ pc = "irqRead" /\ pc' = "irqWrite"
      /\ data.kind = "ctl" => reg' = data.bits
      /\ crossed' = (crossed \/ (pc = "irqRead" /\ data.kind # "ctl"))
  BY DEF Reads, ReadControl, At
<1>2. UNCHANGED <<ctl, interrupts, handler, inService>> /\ Signal(answer # None)
      /\ full' = (answer # None) /\ answer' = None
  BY <1>1 DEF ReadOutput, apic
<1>3. pc' # "initWrite" => handler' = "no" /\ ~Waiting' /\ INT1 \notin ctl'
  BY <1>1, <1>2, NoHandlerStarts DEF Probes, PortQuiet
<1>4. PortQuiet'
  BY <1>1, <1>2, <1>3 DEF Probes, PortQuiet
<1>5. pc # "irqRead" => reg' = ctl
  BY <1>1 DEF Probes, PortQuiet, Control
<1>6. Ports'
  BY <1>1, <1>2, <1>5 DEF Probes, PortQuiet, Ports, Off, SecondPort
<1>7. Found'
  <2>1. pc = "irqRead" /\ ~crossed' => reg' = ctl
    BY <1>1 DEF Probes, Found
  <2>2. QED
    BY <1>1, <1>2, <2>1 DEF Probes, Found, StartsRight, Enabled, SecondPort
<1>8. QED
  BY <1>4, <1>6, <1>7 DEF Probes

LEMMA WritesKeep ==
  ASSUME Basics, Probes, handler = "no", ~Waiting, Writes
  PROVE  Probes'
<1> USE DEF Quiet, Asking, Masked, Probing, Early, Before, Started
<1>1. PICK bits : /\ WriteControl(bits) /\ UNCHANGED <<kernel, apic>>
                  /\ \/ /\ pc = "disableMouse" /\ pc' = "disable"
                        /\ bits = ctl \cup SecondPort({DISABLED2})
                     \/ pc = "disable" /\ pc' = "flush" /\ bits = ctl \cup {DISABLED}
                     \/ /\ pc = "initWrite" /\ pc' = "testAsk"
                        /\ bits = reg \ {INT1, INT2, TRANSLATE}
                     \/ pc = "testWrite" /\ pc' = "testResult" /\ bits = reg
                     \/ /\ pc = "enable" /\ pc' = "enableMouse"
                        /\ bits = IF "keyboard" \in present THEN ctl \ {DISABLED} ELSE ctl
                     \/ /\ pc = "enableMouse" /\ pc' = "irqAsk"
                        /\ bits = IF "mouse" \in present THEN ctl \ {DISABLED2} ELSE ctl
                     \/ /\ pc = "irqWrite" /\ pc' = "terminal"
                        /\ bits = reg \cup (IF "keyboard" \in present THEN {INT1} ELSE {})
                                      \cup (IF "mouse" \in present THEN {INT2} ELSE {})
  BY DEF Writes, DisableMouse, Disable, InitWrite, TestWrite, EnablePort, IrqWrite, At
<1>2. /\ UNCHANGED <<reg, present, crossed, machine, interrupts, handler, inService,
                     data, full, answer>>
      /\ ctl' = bits /\ Signal(FALSE)
  BY <1>1 DEF WriteControl, kernel, apic, output
<1>3. INT1 # DISABLED /\ INT1 # DISABLED2 /\ DISABLED # DISABLED2 /\ INT2 # INT1
      /\ INT2 # DISABLED /\ INT2 # DISABLED2 /\ TRANSLATE # DISABLED
      /\ TRANSLATE # DISABLED2 /\ Bits = {INT1, TRANSLATE, DISABLED, INT2, DISABLED2}
  BY DEF INT1, INT2, DISABLED, DISABLED2, TRANSLATE, Bits
<1> HIDE DEF INT1, INT2, DISABLED, DISABLED2, TRANSLATE, Bits
<1>4. reg \in SUBSET Bits
  BY DEF Basics, TypeOK
<1>5. pc = "initWrite" => bits = Off
  BY <1>1, <1>3, <1>4 DEF Probes, Ports, Off, SecondPort
<1>6. Ports'
  BY <1>1, <1>2, <1>3, <1>5 DEF Probes, Ports, Off, SecondPort
<1>7. pc \in {"initWrite", "testWrite", "enable", "enableMouse"} => INT1 \notin ctl'
  BY <1>1, <1>2, <1>3, <1>5 DEF Probes, PortQuiet, Ports, Off, SecondPort
<1>8. pc \in {"initWrite", "testWrite", "enable", "enableMouse"} =>
        handler' = "no" /\ ~Waiting'
  BY <1>2, <1>7, NoHandlerStarts
<1>9. PortQuiet'
  BY <1>1, <1>2, <1>3, <1>7, <1>8 DEF Probes, PortQuiet, Ports
<1>10. pc = "enable" => ctl' = Off \ (IF "keyboard" \in present THEN {DISABLED} ELSE {})
  BY <1>1, <1>2 DEF Probes, Ports
<1>11. pc = "enableMouse" => ctl' = Enabled
  BY <1>1, <1>2, <1>3 DEF Probes, Found, Off, Enabled, SecondPort
<1>12. pc = "irqWrite" /\ ~crossed =>
         ctl' = (IF "keyboard" \in present THEN {INT1} ELSE {DISABLED})
                \cup SecondPort(IF "mouse" \in present THEN {INT2} ELSE {DISABLED2})
  BY <1>1, <1>2, <1>3 DEF Probes, Found, Enabled, SecondPort
<1>13. pc = "enable" => ~full
  BY DEF Probes, PortQuiet
<1>14. Found'
  BY <1>1, <1>2, <1>10, <1>11, <1>12, <1>13
     DEF Probes, Found, StartsRight, Off, Enabled, SecondPort
<1>15. QED
  BY <1>6, <1>9, <1>14 DEF Probes

(* The tests: the controller's own may reset its register, with the result *)
(* in the way of any key until the register is written again.              *)
LEMMA TestsKeep ==
  ASSUME INT1 \notin ResetControl, Basics, Probes, handler = "no", ~Waiting, Tests
  PROVE  Probes'
<1> USE DEF Quiet, Asking, Masked, Probing, Early, Before, Started
<1>1. PICK b : /\ Answer(b) /\ UNCHANGED <<kernel, apic>>
               /\ \/ /\ pc = "testStart" /\ pc' = "testWrite" /\ ctl' \in {ctl, ResetControl}
                     /\ b.kind \in {"pass", "fail"}
                  \/ /\ pc = "interfaceStart" /\ pc' = "interfaceResult" /\ ctl' = ctl
                     /\ b.kind \in {"zero", "error"}
                  \/ /\ pc = "mouseStart" /\ pc' = "mouseResult" /\ ctl' = ctl
                     /\ b.kind \in {"zero", "error"}
  BY DEF Tests, TestStart, InterfaceStart, At, Byte
<1>2. UNCHANGED <<reg, present, crossed, machine, interrupts, handler, inService>>
  BY <1>1 DEF kernel, apic
<1>3. ~full /\ data' = b /\ full' = TRUE /\ UNCHANGED answer /\ Signal(~full)
  BY <1>1 DEF Answer, Probes, PortQuiet
<1>4. handler' = "no" /\ ~Waiting' /\ INT1 \notin ctl'
  BY <1>1, <1>2, <1>3, NoHandlerStarts DEF Probes, PortQuiet
<1>5. PortQuiet'
  BY <1>1, <1>2, <1>3, <1>4 DEF Probes, PortQuiet
<1>6. Ports'
  BY <1>1, <1>2 DEF Probes, Ports, Off, SecondPort
<1>7. Found'
  BY <1>1, <1>2, <1>3 DEF Probes, Found, StartsRight
<1>8. QED
  BY <1>5, <1>6, <1>7 DEF Probes

LEMMA ResultsKeep ==
  ASSUME Basics, Probes, handler = "no", ~Waiting, Results
  PROVE  Probes'
<1> USE DEF Quiet, Asking, Masked, Probing, Early, Before, Started
<1>1. /\ ReadOutput /\ UNCHANGED <<reg, crossed, machine, apic>>
      /\ \/ pc = "testResult" /\ pc' \in {"portsAsk", "testAsk"} /\ present' = present
         \/ /\ pc = "interfaceResult"
            /\ pc' = IF DISABLED2 \in reg THEN "mouseStart" ELSE "enable"
            /\ present' \in {present, present \cup {"keyboard"}}
         \/ /\ pc = "mouseResult" /\ pc' = "enable"
            /\ present' \in {present, present \cup {"mouse"}}
  BY DEF Results, TestResult, InterfaceResult
<1>2. UNCHANGED <<ctl, interrupts, handler, inService>> /\ Signal(answer # None)
      /\ full' = (answer # None) /\ answer' = None
  BY <1>1 DEF ReadOutput, apic
<1>3. handler' = "no" /\ ~Waiting' /\ INT1 \notin ctl' /\ answer = None
  BY <1>1, <1>2, NoHandlerStarts DEF Probes, PortQuiet
<1>4. PortQuiet'
  BY <1>1, <1>2, <1>3 DEF Probes, PortQuiet
<1>5. Ports'
  BY <1>1, <1>2 DEF Probes, Ports, Off, SecondPort
<1>6. pc = "interfaceResult" /\ DISABLED2 \in reg => machine.twoPorts
  BY DEF Probes, Ports, Off, SecondPort, DISABLED, DISABLED2
<1>7. Found'
  BY <1>1, <1>2, <1>6 DEF Probes, Found, StartsRight
<1>8. QED
  BY <1>4, <1>5, <1>7 DEF Probes

(* Interrupts and keys only reach the controller where it is not masked,   *)
(* or not quiet; before its first command they leave the answer in place.  *)
LEMMA OthersKeep ==
  ASSUME Basics, Probes, Handler \/ KeyboardSends
  PROVE  Probes'
<1> USE DEF Quiet, Asking, Masked, Probing, Early, Before, Started
<1>1. CASE TakeKeyboard
  <2>1. pc \notin Masked /\ UNCHANGED <<pc, reg, present, crossed, machine, ctl, output>>
    BY <1>1 DEF TakeKeyboard, kernel, Probes, PortQuiet
  <2>2. QED
    BY <2>1 DEF Probes, PortQuiet, Ports, Found, StartsRight, Off, Enabled, SecondPort, output
<1>2. CASE TakePic
  BY <1>2 DEF TakePic, apic, output, Probes, PortQuiet, Ports, Found, StartsRight,
              Off, Enabled, SecondPort, Waiting
<1>3. CASE HandlerReads
  <2>1. /\ pc \notin Masked /\ UNCHANGED <<pc, reg, present, crossed, machine, ctl>>
        /\ full' = (answer # None) /\ answer' = None
        /\ answer = None => data' = data
    BY <1>3 DEF HandlerReads, ReadOutput, kernel, Probes, PortQuiet
  <2>2. QED
    BY <2>1 DEF Probes, PortQuiet, Ports, Found, StartsRight, Off, Enabled, SecondPort
<1>4. CASE HandlerReturns
  <2>1. pc \notin Masked /\ UNCHANGED <<pc, reg, present, crossed, machine, ctl, output>>
    BY <1>4 DEF HandlerReturns, HandleByte, Probes, PortQuiet
  <2>2. QED
    BY <2>1 DEF Probes, PortQuiet, Ports, Found, StartsRight, Off, Enabled, SecondPort, output
<1>5. CASE KeyboardSends
  <2>0. PICK kind : data' = Byte(kind) /\ (pc \notin Started => kind = "key")
    BY <1>5 DEF KeyboardSends
  <2>1. /\ ~full /\ answer = None /\ DISABLED \notin ctl /\ Signal(TRUE)
        /\ UNCHANGED <<pc, reg, present, crossed, machine, ctl, answer, interrupts, handler,
                       inService>>
        /\ full' = TRUE
        /\ pc \notin Started => data'.kind = "key"
    BY <1>5, <2>0 DEF KeyboardSends, Byte, kernel, apic
  <2>2. pc \notin Quiet /\ pc # "flush"
    BY <2>1 DEF Probes, PortQuiet, Ports, Off
  <2>3. pc \in Masked => handler' = "no" /\ ~Waiting' /\ INT1 \notin ctl'
    BY <2>1, NoHandlerStarts DEF Probes, PortQuiet
  <2>4. PortQuiet'
    BY <2>1, <2>2, <2>3 DEF Probes, PortQuiet
  <2>5. Ports' /\ Found'
    BY <2>1, <2>2 DEF Probes, PortQuiet, Ports, Found, StartsRight, Off, Enabled, SecondPort
  <2>6. QED
    BY <2>4, <2>5 DEF Probes
<1>6. QED
  BY <1>1, <1>2, <1>3, <1>4, <1>5, InterruptTaken DEF Handler

LEMMA ProbesKept ==
  ASSUME INT1 \notin ResetControl
  PROVE  Basics /\ Probes /\ [Next]_vars => Probes'
<1> SUFFICES ASSUME Basics, Probes, [Next]_vars PROVE Probes'
  OBVIOUS
<1>1. CASE UNCHANGED vars
  BY <1>1 DEF vars, kernel, apic, output, Probes, PortQuiet, Ports, Found, StartsRight, Off,
              Enabled, SecondPort, Waiting
<1>2. CASE Main
  <2>0. halted = "no" /\ handler = "no" /\ ~Waiting /\ MainSteps
    BY <1>2, MainIsSteps
  <2>1. CASE ApicSteps
    <3>1. /\ pc \in Early /\ pc' \in Before
          /\ pc' \in Early \cup {"disableMouse"}
          /\ UNCHANGED <<reg, present, crossed, machine, ctl, output>>
      BY <2>1 DEF ApicSteps, MaskPic, EnableMsr, EnableSvr, IrtLow, IrtHigh, Sti, LapicStep,
                  At, kernel, Early, Before
    <3>2. QED
      BY <3>1 DEF Probes, PortQuiet, Ports, Found, StartsRight, Quiet, Asking, Masked,
                  Probing, Early, Before, Started
  <2>2. CASE Flush
    <3>1. /\ pc = "flush" /\ pc' = "initAsk" /\ answer = None /\ answer' = None /\ full' = FALSE
          /\ UNCHANGED <<reg, present, crossed, machine, ctl>>
      BY <2>2 DEF Flush, At, ReadOutput, kernel, Basics, SetUp, Before
    <3>2. QED
      BY <3>1 DEF Probes, PortQuiet, Ports, Found, StartsRight, Quiet, Asking, Masked,
                  Probing, Early, Before, Started
  <2>3. CASE MakeTerminal \/ StartShell
    <3>1. /\ pc \in Started /\ pc' \in Started
          /\ UNCHANGED <<reg, present, crossed, machine, ctl>>
      BY <2>3 DEF MakeTerminal, StartShell, At, kernel, Started
    <3>2. QED
      BY <3>1 DEF Probes, PortQuiet, Ports, Found, StartsRight, Quiet, Asking, Masked,
                  Probing, Early, Before, Started, SecondPort
  <2>4. QED
    BY <2>0, <2>1, <2>2, <2>3, AsksKeep, ReadsKeep, WritesKeep, TestsKeep, ResultsKeep
       DEF MainSteps
<1>3. QED
  BY <1>1, <1>2, OthersKeep DEF Next

LEMMA ProbesAlways ==
  ASSUME INT1 \notin ResetControl
  PROVE  Spec => []Probes
BY InitProbes, ProbesKept, BasicsAlways, PTL DEF Spec

(* The start-up reads the answers to its own commands, and none of them    *)
(* raises an interrupt, whatever the firmware left, whatever is typed, and *)
(* on every machine, if the self test does not turn the interrupt on.      *)
THEOREM PortOwned ==
  ASSUME INT1 \notin ResetControl
  PROVE  Spec => []OwnsPort
<1>1. Probes => OwnsPort
  BY DEF Probes, PortQuiet, OwnsPort, AnswersOwn, Control, Masked, Probing
<1>2. QED
  BY <1>1, ProbesAlways, PTL

(* The control register ends as meant, unless a key crosses the last read. *)
THEOREM RegisterRight ==
  ASSUME INT1 \notin ResetControl
  PROVE  Spec => []StartsRight
<1>1. Probes => StartsRight
  BY DEF Probes, Found
<1>2. QED
  BY <1>1, ProbesAlways, PTL
=============================================================================
