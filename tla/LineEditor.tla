----------------------------- MODULE LineEditor -----------------------------
(***************************************************************************)
(* The input line of the terminal, kernel/terminal/terminal_input_parser.c *)
(* and terminal.h: what each keycode does to the command buffers, their    *)
(* cursors and the modifier flags.  Drawing is added in module Terminal.   *)
(*                                                                         *)
(* handle_keycode runs inside the keyboard interrupt with interrupts off,  *)
(* so a key is one step.  A key that changes nothing (a signal key, an     *)
(* arrow at the end of the line, a full buffer) is no step.                *)
(*                                                                         *)
(* A character is the key that types it and the table it is read from.  A  *)
(* key missing from a table has a NULL pointer there, and the code reads   *)
(* the byte at address 0 through it: nothing says which, it may be null.   *)
(* Behind the end of the table of modified characters the code takes what  *)
(* lies there for a pointer: whatever it leads to is typed (a pointer that *)
(* faults stops the kernel, and is left out).                              *)
(***************************************************************************)
EXTENDS Integers, Sequences, FiniteSets

CONSTANTS
  BufSize,      (* SHELL_INPUT_BUFF_SIZE.                                  *)
  MaxCommands,  (* MAX_NUM_COMMANDS_STORED.                                *)
  Key,          (* The keys that are not special, modifier or signal keys. *)
  InBase,       (* Those with an entry in base_printable_keycode_mappings. *)
  InModified,   (* Those with one in modified_printable_keycode_mappings.  *)
  PastModified, (* Those behind its end (F1 to NUM LOCK, the keypad).      *)
  Letters,      (* Those whose base character is a letter.                 *)
  ModifierKeys, (* The modifier keys the keyboard has, of the three below. *)
  NUL,          (* The null character.                                     *)
  BytesAtZero   (* What the byte at address 0 may be when a key is typed.  *)

ASSUME LineEditorAssumption ==
  /\ BufSize \in Nat \ {0} /\ MaxCommands \in Nat \ {0, 1}
  /\ ModifierKeys \subseteq {"CAPS_LOCK", "L_SHIFT", "R_SHIFT"}
  /\ InBase \cup InModified \cup PastModified \subseteq Key
  /\ InModified \cap PastModified = {} /\ Letters \subseteq InBase
  /\ \A k \in Key : <<k, "base">> # NUL /\ <<k, "modified">> # NUL

Char == {<<k, "base">> : k \in InBase} \cup {<<k, "modified">> : k \in InModified}
        \cup BytesAtZero \cup {NUL}

(* Both with the byte zero at address 0: one character, and those that may *)
(* be found behind the end of the table.                                   *)
Base(k, zero)     == IF k \in InBase THEN <<k, "base">> ELSE zero
Modified(k, zero) == IF k \in PastModified THEN Char
                     ELSE IF k \in InModified THEN {<<k, "modified">>}
                     ELSE {zero}

isalpha(c) == \E k \in Letters : c \in {<<k, "base">>, <<k, "modified">>}

Shifts == ModifierKeys \ {"CAPS_LOCK"}

Index   == 0 .. BufSize - 1
Command == 0 .. MaxCommands - 1
ZeroRow == [i \in Index |-> NUL]

Saved == MaxCommands         \* stands for the row temp, in nulled

VARIABLES
  buff,     (* command_buff: row 0 is the current line.                    *)
  temp,     (* temp_curr_command_buff.                                     *)
  endIdx,   (* end_idx.                                                    *)
  cursor,   (* cursor_pos_idx.                                             *)
  curr,     (* curr_command_idx.                                           *)
  shift,    (* shift_active.                                               *)
  caps,     (* caps_active.                                                *)
  draft,    (* History: row 0 when curr was last 0.                        *)
  nulled    (* History: the rows that a null character was typed into.     *)

vars == <<buff, temp, endIdx, cursor, curr, shift, caps, draft, nulled>>

-----------------------------------------------------------------------------
(* Helpers of the code.                                                    *)

cmd_exists(c) == buff[c][0] # NUL

(* Where a scan from position i of the row stops.                          *)
EndFrom(row, i) == CHOOSE n \in Index : /\ i <= n /\ row[n] = NUL
                                        /\ \A j \in i .. n - 1 : row[j] # NUL

Strlen(row) == EndFrom(row, 0)

(* Row 0 becomes row, and init_inputBuffCursor moves to its end.           *)
SetLine(row) ==
  /\ buff' = [buff EXCEPT ![0] = row]
  /\ endIdx' = Strlen(row)
  /\ cursor' = Strlen(row)

(* handle_printable_keycode: the character the modifiers select.           *)
Typed(k, zero) == IF shift \/ (caps /\ isalpha(Base(k, zero)))
                  THEN Modified(k, zero) ELSE {Base(k, zero)}

Full_OffByOne == endIdx = BufSize

Full == endIdx = BufSize - 1

(* place_char_at_cursor_pos: memmove of the end - pos bytes from pos on,   *)
(* then the new character.                                                 *)
Inserted(row, pos, last, c) ==
  [i \in Index |-> IF i = pos THEN c
                   ELSE IF pos < i /\ i <= last THEN row[i - 1] ELSE row[i]]

(* KEY_DELETE_BACKSPACE: everything from pos on, with the null terminator, *)
(* moves left by one.  (At the end of the line only the terminator does.)  *)
Erased_NoTerminator(row, pos, last) ==
  [i \in Index |-> IF pos - 1 <= i /\ i < last - 1 THEN row[i + 1] ELSE row[i]]

Erased(row, pos, last) ==
  [i \in Index |-> IF pos - 1 <= i /\ i < last THEN row[i + 1] ELSE row[i]]

(* log_and_reset_input_buffers: the rows move up by one, the last is lost. *)
Logged_TopDown(rows) ==                      \* copies from row 1 upwards
  [c \in Command |-> IF c = 0 THEN ZeroRow ELSE rows[0]]

Logged(rows) == [c \in Command |-> IF c = 0 THEN ZeroRow ELSE rows[c - 1]]

(* The history variable draft follows row 0 while nothing is browsed.      *)
NoteDraft == draft' = IF curr' = 0 THEN buff'[0] ELSE draft

(* nulled follows the rows copied: row 0 now comes from the first row      *)
(* named, the saved one from the second.                                   *)
NullsFrom(first, second) ==
  nulled' = {r \in 0 .. Saved :
               (IF r = 0 THEN first ELSE IF r = Saved THEN second ELSE r)
                 \in nulled}

-----------------------------------------------------------------------------
(* init_terminal: kmalloc'ed memory that has not been used before, taken   *)
(* to be zero, as the code relies on.                                      *)
Init ==
  /\ buff = [c \in Command |-> ZeroRow] /\ temp = ZeroRow
  /\ endIdx = 0 /\ cursor = 0 /\ curr = 0
  /\ shift = FALSE /\ caps = FALSE
  /\ draft = ZeroRow /\ nulled = {}

(* KEY_RIGHT_ARROW, inc_cursors.                                           *)
Right ==
  /\ cursor < endIdx
  /\ cursor' = cursor + 1
  /\ UNCHANGED <<buff, temp, endIdx, curr, shift, caps, draft, nulled>>

(* KEY_LEFT_ARROW, dec_cursors.                                            *)
Left ==
  /\ cursor > 0
  /\ cursor' = cursor - 1
  /\ UNCHANGED <<buff, temp, endIdx, curr, shift, caps, draft, nulled>>

(* KEY_UP_ARROW: the row after the one shown, if there is one.  The line   *)
(* being written is put aside first.                                       *)
Up_AlwaysKeep ==
  /\ curr < MaxCommands - 1 /\ cmd_exists(curr + 1)
  /\ temp' = buff[0]
  /\ SetLine(buff[curr + 1])
  /\ curr' = curr + 1
  /\ NoteDraft /\ NullsFrom(curr + 1, 0)
  /\ UNCHANGED <<shift, caps>>

Up_NotChecked ==
  /\ curr < MaxCommands - 1
  /\ temp' = IF curr = 0 THEN buff[0] ELSE temp
  /\ SetLine(buff[curr + 1])
  /\ curr' = curr + 1
  /\ NoteDraft /\ NullsFrom(curr + 1, IF curr = 0 THEN 0 ELSE Saved)
  /\ UNCHANGED <<shift, caps>>

Up ==
  /\ curr < MaxCommands - 1 /\ cmd_exists(curr + 1)
  /\ temp' = IF curr = 0 THEN buff[0] ELSE temp
  /\ SetLine(buff[curr + 1])
  /\ curr' = curr + 1
  /\ NoteDraft /\ NullsFrom(curr + 1, IF curr = 0 THEN 0 ELSE Saved)
  /\ UNCHANGED <<shift, caps>>

(* KEY_DOWN_ARROW: the row before, or the line put aside.                  *)
Down ==
  /\ curr > 0
  /\ SetLine(IF curr = 1 THEN temp ELSE buff[curr - 1])
  /\ curr' = curr - 1
  /\ NoteDraft
  /\ NullsFrom(IF curr = 1 THEN Saved ELSE curr - 1, Saved)
  /\ UNCHANGED <<temp, shift, caps>>

(* KEY_DELETE_BACKSPACE, on the make code.                                 *)
Backspace ==
  /\ cursor # 0
  /\ buff' = [buff EXCEPT ![0] =
                IF cursor = endIdx THEN [@ EXCEPT ![cursor - 1] = NUL]
                ELSE Erased(@, cursor, endIdx)]
  /\ endIdx' = endIdx - 1 /\ cursor' = cursor - 1
  /\ UNCHANGED <<temp, curr, shift, caps, nulled>>
  /\ NoteDraft

(* KEY_RETURN_ENTER, on the make code: the shell runs the line, which it   *)
(* only reads; the line is logged, and row 0 cleared, if its first byte is *)
(* not null; the cursors are set from what is then in row 0.               *)
Enter ==
  /\ buff' = IF cmd_exists(0) THEN Logged(buff) ELSE buff
  /\ temp' = ZeroRow
  /\ endIdx' = Strlen(buff'[0]) /\ cursor' = Strlen(buff'[0])
  /\ curr' = 0
  /\ NoteDraft
  /\ nulled' = {r \in Command : (IF cmd_exists(0) THEN r - 1 ELSE r) \in nulled}
  /\ UNCHANGED <<shift, caps>>

(* handle_modifier_keycode.                                                *)
CapsLock ==
  /\ "CAPS_LOCK" \in ModifierKeys
  /\ caps' = ~caps
  /\ UNCHANGED <<buff, temp, endIdx, cursor, curr, shift, draft, nulled>>

(* Both shift keys set the same flag.                                      *)
ShiftKey(isBreakCode) ==
  /\ Shifts # {}
  /\ shift' = ~isBreakCode
  /\ UNCHANGED <<buff, temp, endIdx, cursor, curr, caps, draft, nulled>>

Modifier ==
  \/ CapsLock
  \/ \E isBreakCode \in BOOLEAN : ShiftKey(isBreakCode)

(* handle_printable_keycode and place_char_at_cursor_pos, for a key that   *)
(* isKeycodePrintable accepts, on the make code.                           *)
TypeWith(k, zero, c) ==
  /\ Base(k, zero) # NUL
  /\ ~Full
  /\ c \in Typed(k, zero)
  /\ buff' = [buff EXCEPT ![0] = Inserted(@, cursor, endIdx, c)]
  /\ cursor' = cursor + 1 /\ endIdx' = endIdx + 1
  /\ UNCHANGED <<temp, curr, shift, caps>>
  /\ NoteDraft
  /\ nulled' = IF c = NUL THEN nulled \cup {0} ELSE nulled

Type(k) == \E zero \in BytesAtZero : \E c \in Char : TypeWith(k, zero, c)

(* handle_keycode.                                                         *)
Next ==
  \/ Right
  \/ Left
  \/ Up
  \/ Down
  \/ Backspace
  \/ Enter
  \/ Modifier
  \/ \E k \in Key : Type(k)

Spec == Init /\ [][Next]_vars

-----------------------------------------------------------------------------
(* Properties.                                                             *)

(* Every variable keeps its type.                                          *)
Row == [Index -> Char]

TypeOK ==
  /\ buff \in [Command -> Row] /\ temp \in Row /\ draft \in Row
  /\ endIdx \in Index /\ cursor \in Index /\ curr \in Command
  /\ shift \in BOOLEAN /\ caps \in BOOLEAN
  /\ nulled \subseteq 0 .. Saved

(* The last byte of every row and of the temporary row stays null.  The    *)
(* rows are copied whole and scanned for a null byte with no other limit   *)
(* (init_inputBuffCursor, with an index of one byte), so a full row would  *)
(* make the interrupt handler loop for ever.  Null characters typed into   *)
(* the line change nothing about it.                                       *)
RowsTerminated ==
  /\ \A c \in Command : buff[c][BufSize - 1] = NUL
  /\ temp[BufSize - 1] = NUL

(* "is the index of the null terminator of the input command"              *)
(* (terminal.h:18): end_idx is where the current line ends for strlen, so  *)
(* for the shell, and the cursor never passes it; unless a null character  *)
(* was typed into the line itself or into the row it was brought back      *)
(* from.  (Then it need not be: the line goes on behind its terminator,    *)
(* and ENTER leaves all of it where its first byte is null.)  No other row *)
(* is spoilt by it.                                                        *)
EndIsTerminator ==
  0 \notin nulled =>
  /\ buff[0][endIdx] = NUL
  /\ \A i \in 0 .. endIdx - 1 : buff[0][i] # NUL
  /\ cursor <= endIdx

(* "dont need to check if a command exists because we came from an         *)
(* existing command" (terminal_input_parser.c:268): the row being browsed, *)
(* and every newer one, holds a command.                                   *)
BrowsedExists == \A c \in 1 .. curr : cmd_exists(c)

(* "a user can store the current command they were typing before going     *)
(* back" (terminal_input_parser.c:290): coming down to the line being      *)
(* written shows it as it was, whatever was browsed and edited meanwhile.  *)
DraftRestored == [][Down /\ curr' = 0 => buff'[0] = draft]_vars

(* The input line implements the abstract one: the rows' text and nothing  *)
(* of the bytes behind it, the browsing position left out.  Keys typed     *)
(* into a line with a null character are no part of it; submitting such a  *)
(* line, leaving it and coming back to it are.                             *)
Text(row) == [i \in 1 .. Strlen(row) |-> row[i - 1]]

Stored == {c \in 1 .. MaxCommands - 1 : cmd_exists(c)}

Abstract == INSTANCE LineBuffer
              WITH Character <- Char \ {NUL},
                   MaxLength <- BufSize - 1, MaxHistory <- MaxCommands - 1,
                   line <- Text(buff[0]), pos <- cursor,
                   history <- [c \in 1 .. Cardinality(Stored) |-> Text(buff[c])],
                   kept <- Text(temp)

ImplementsLineBuffer ==
  /\ Abstract!Init
  /\ [][\/ 0 \in nulled'
        \/ IF 0 \in nulled THEN Abstract!Browse \/ Abstract!Submit
           ELSE Abstract!Next]_(Abstract!vars)
=============================================================================
