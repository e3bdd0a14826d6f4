----------------------------- MODULE LineBuffer -----------------------------
(***************************************************************************)
(* What an input line promises its user: text edited at a cursor, a        *)
(* history of the lines submitted, newest first, and the line being        *)
(* written kept while the history is browsed.                              *)
(***************************************************************************)
EXTENDS Integers, Sequences

CONSTANTS
  Character,    (* What can be typed.                                      *)
  MaxLength,    (* The longest line.                                       *)
  MaxHistory    (* How many submitted lines are remembered.                *)

VARIABLES
  line,     (* The line as it stands.                                      *)
  pos,      (* How many characters lie before the cursor.                  *)
  history,  (* The lines submitted, newest first.                          *)
  kept      (* The line put aside while browsing.                          *)

vars == <<line, pos, history, kept>>

Before == SubSeq(line, 1, pos)
After  == SubSeq(line, pos + 1, Len(line))

Init == line = <<>> /\ pos = 0 /\ history = <<>> /\ kept = <<>>

Insert(c) ==
  /\ Len(line) < MaxLength
  /\ line' = Before \o <<c>> \o After
  /\ pos' = pos + 1
  /\ UNCHANGED <<history, kept>>

Erase ==
  /\ pos > 0
  /\ line' = SubSeq(line, 1, pos - 1) \o After
  /\ pos' = pos - 1
  /\ UNCHANGED <<history, kept>>

Move ==
  /\ pos' \in {pos - 1, pos + 1} \cap 0 .. Len(line)
  /\ UNCHANGED <<line, history, kept>>

(* Show a line of the history, or the kept one.                            *)
Browse ==
  /\ \/ \E i \in 1 .. Len(history) : line' = history[i]
     \/ line' = kept
  /\ pos' = Len(line')
  /\ kept' \in {kept, line}
  /\ UNCHANGED history

Submit ==
  /\ history' = IF line = <<>> THEN history
                ELSE SubSeq(<<line>> \o history, 1,
                            IF Len(history) < MaxHistory THEN Len(history) + 1
                            ELSE MaxHistory)
  /\ line' = <<>> /\ pos' = 0 /\ kept' = <<>>

Next == (\E c \in Character : Insert(c)) \/ Erase \/ Move \/ Browse \/ Submit

Spec == Init /\ [][Next]_vars
=============================================================================
