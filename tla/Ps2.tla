-------------------------------- MODULE Ps2 ---------------------------------
(***************************************************************************)
(* The keyboard interrupt of drivers/keyboard/ps2.c: set 2 scancodes, one  *)
(* byte per interrupt, assembled into keycodes with two prefix flags and   *)
(* handed to handle_keycode of the terminal.                               *)
(*                                                                         *)
(* A key is the code it ends in and the table it is found in ("base" or,   *)
(* after the E0 prefix, "prefixed"): both tables have a key for most of    *)
(* the codes that E0 may precede, an arrow and a keypad key for instance.  *)
(* The keyboard is external: it sends [E0] code for a press and [E0] F0    *)
(* code for a release, has room for WireSize bytes not yet taken, and puts *)
(* 00 in the place of the last when more come.                             *)
(***************************************************************************)
EXTENDS Integers, Sequences

CONSTANTS
  Code,         (* The codes keys end in.                                  *)
  Key,          (* The keys of this keyboard.                              *)
  WireSize      (* How many bytes the keyboard holds.                      *)

Keycode == Code \X {"base", "prefixed"}
Byte    == Code \cup {"E0", "F0", "00"}

ASSUME Ps2Assumption ==
  /\ Key \subseteq Keycode /\ WireSize \in Nat \ {0}
  /\ {"E0", "F0", "00"} \cap Code = {}

VARIABLES
  wire,                     (* The bytes the keyboard holds, oldest first. *)
  bufferedPrefix,           (* E0 was seen.                                *)
  bufferedBreakCodePrefix,  (* F0 was seen.                                *)
  down,                     (* The keys held down.                         *)
  due,                      (* History: what each byte on the wire is.     *)
  torn,                     (* History: the last sequence was incomplete.  *)
  last                      (* History: the event whose last byte was just *)
                            (* taken, and what handle_keycode was given.   *)

driver == <<bufferedPrefix, bufferedBreakCodePrefix, torn, last>>
vars   == <<wire, bufferedPrefix, bufferedBreakCodePrefix, down, due, torn, last>>

-----------------------------------------------------------------------------
(* The keyboard.                                                           *)

Sent(k, event) ==
  CASE k[2] = "base" /\ event = "press"       -> <<k[1]>>
    [] k[2] = "base" /\ event = "release"     -> <<"F0", k[1]>>
    [] k[2] = "prefixed" /\ event = "press"   -> <<"E0", k[1]>>
    [] k[2] = "prefixed" /\ event = "release" -> <<"E0", "F0", k[1]>>

(* What each of the bytes is: one of the press or release of k, with so    *)
(* many to follow, and none lost.                                          *)
Marks(k, event) ==
  [i \in DOMAIN Sent(k, event) |->
     [key |-> k, event |-> event,
      left |-> Len(Sent(k, event)) - i, came |-> "whole"]]

(* As many of the bytes as there is room for; if not all of them, the last *)
(* byte held becomes 00, and the sequence it belonged to is incomplete.    *)
Send(k, event) ==
  LET bytes == wire \o Sent(k, event)
      marks == due \o Marks(k, event)
  IN  IF Len(bytes) <= WireSize
      THEN wire' = bytes /\ due' = marks
      ELSE /\ wire' = [SubSeq(bytes, 1, WireSize) EXCEPT ![WireSize] = "00"]
           /\ due' = [SubSeq(marks, 1, WireSize)
                        EXCEPT ![WireSize].left = 0, ![WireSize].came = "torn"]

(* A key goes down, or repeats while it is held.                           *)
Press(k) ==
  /\ Send(k, "press")
  /\ down' = down \cup {k}
  /\ UNCHANGED driver

Release(k) ==
  /\ k \in down
  /\ Send(k, "release")
  /\ down' = down \ {k}
  /\ UNCHANGED driver

-----------------------------------------------------------------------------
(* The driver: one byte is taken from the wire, and due with it.           *)

Taken ==
  /\ wire' = Tail(wire)
  /\ due' = Tail(due)
  /\ torn' = IF Head(due).left = 0 THEN Head(due).came = "torn" ELSE torn
  /\ UNCHANGED down

None == [event |-> {}, given |-> {}, clean |-> TRUE]

(* What the last interrupt finished, whether the sequence before it was    *)
(* whole, and the keycode and break flag handed to the terminal, if any.   *)
Note(given) ==
  last' = IF Head(due).left = 0
          THEN [event |-> {Head(due)}, given |-> given, clean |-> ~torn]
          ELSE [None EXCEPT !.given = given]

(* set2_scancode_to_keycode.                                               *)
set2_scancode_to_keycode_Base(code) == <<code, "base">>

set2_scancode_to_keycode(code) ==
  <<code, IF bufferedPrefix THEN "prefixed" ELSE "base">>

(* What the last byte of a sequence makes of it: a keycode and whether it  *)
(* was released.                                                           *)
Given(code) ==
  {[key   |-> set2_scancode_to_keycode(code),
    event |-> IF bufferedBreakCodePrefix THEN "release" ELSE "press"]}

(* handle_kbd_irq: a byte meant for the driver is ignored.                 *)
UtilityByte ==
  /\ wire # <<>> /\ Head(wire) = "00"
  /\ Taken
  /\ Note({})
  /\ UNCHANGED <<bufferedPrefix, bufferedBreakCodePrefix>>

(* A prefix of a sequence of several bytes.                                *)
PrefixByte ==
  /\ wire # <<>> /\ Head(wire) \in {"E0", "F0"}
  /\ IF Head(wire) = "F0"
     THEN bufferedBreakCodePrefix' = TRUE /\ bufferedPrefix' = FALSE
     ELSE bufferedPrefix' = TRUE /\ UNCHANGED bufferedBreakCodePrefix
  /\ Taken
  /\ Note({})

(* The byte that completes a keycode: handle_keycode, then both flags are  *)
(* cleared.                                                                *)
KeyByte_KeepFlag ==
  /\ wire # <<>> /\ Head(wire) \in Code
  /\ Taken
  /\ Note(Given(Head(wire)))
  /\ bufferedPrefix' = FALSE
  /\ UNCHANGED bufferedBreakCodePrefix

KeyByte ==
  /\ wire # <<>> /\ Head(wire) \in Code
  /\ Taken
  /\ Note(Given(Head(wire)))
  /\ bufferedPrefix' = FALSE
  /\ bufferedBreakCodePrefix' = FALSE

Init ==
  /\ wire = <<>> /\ down = {} /\ due = <<>> /\ torn = FALSE
  /\ bufferedPrefix = FALSE /\ bufferedBreakCodePrefix = FALSE
  /\ last = None

Next ==
  \/ \E k \in Key : Press(k) \/ Release(k)
  \/ UtilityByte
  \/ PrefixByte
  \/ KeyByte

Spec == Init /\ [][Next]_vars

-----------------------------------------------------------------------------
(* Properties.                                                             *)

(* Every variable keeps its type, and due tells of every byte held.        *)
Mark == [key : Key, event : {"press", "release"},
         left : 0 .. 2, came : {"whole", "torn"}]

TypeOK ==
  /\ wire \in Seq(Byte) /\ Len(wire) <= WireSize
  /\ due \in Seq(Mark) /\ Len(due) = Len(wire)
  /\ bufferedPrefix \in BOOLEAN /\ bufferedBreakCodePrefix \in BOOLEAN
  /\ torn \in BOOLEAN /\ down \in SUBSET Key

(* A press whose bytes all came, after a sequence whose bytes all came, is *)
(* handed over as the press of that very key; a release never as a press.  *)
PressesDecoded ==
  last.clean => \A e \in last.event : e.came = "whole" =>
    /\ last.given # {}
    /\ \A g \in last.given :
         /\ g.event = e.event
         /\ e.event = "press" => g.key = e.key

(* Between sequences no prefix is left pending, so bytes lost to a full    *)
(* keyboard spoil no more than the sequence they belong to and the next.   *)
PrefixesForgotten ==
  (~torn /\ (due = <<>> \/ last.event # {}))
  => ~bufferedPrefix /\ ~bufferedBreakCodePrefix
=============================================================================
