------------------------------- MODULE Shell --------------------------------
(***************************************************************************)
(* The shell (shell.c) with the functions of libc/string.c it is made of,  *)
(* on the bytes of the heap block it copies each line to.                  *)
(*                                                                         *)
(* Between two lines the heap ends in one free block, which kmalloc splits *)
(* for the copy and kfree puts together again (kheap.c): only the size in  *)
(* its tag and the bytes behind that tag are kept here.  The tag kmalloc   *)
(* writes behind the copy lies within the reach of the tokeniser, as the   *)
(* copy has no terminator: it is modelled byte by byte.                    *)
(*                                                                         *)
(* The line is the first row of the line editor, in which nothing but null *)
(* bytes follows the text.  strchr has no return statement for a match of  *)
(* the first character; as the Makefile builds it, without optimisation,   *)
(* it returns the character, which is true for the blank.                  *)
(***************************************************************************)
EXTENDS Integers, Sequences, FiniteSetsExt

CONSTANTS
  Base,          (* The number of values of a byte.                        *)
  SizeDigits,    (* The bytes of a size_t, lowest first.                   *)
  Pad,           (* The bytes of a tag behind size and used.               *)
  Space,         (* The delimiter, delims[0].                              *)
  Letters,       (* The other characters of a line.                        *)
  LineSize,      (* SHELL_INPUT_BUFF_SIZE.                                 *)
  maybeOS_cmd, echo_cmd,
  Tails,         (* What the free block may measure after boot.            *)
  Fills          (* What its memory may hold, the same byte throughout.    *)

Nul   == 0
Bytes == 0 .. Base - 1
Chars == Letters \cup {Space}
Tag   == SizeDigits + 1 + Pad                 \* sizeof(heap_alloc_t)
Last  == LineSize + Tag - 1                   \* the last byte of interest

Lines == UNION {[1 .. n -> Chars] : n \in 0 .. LineSize - 1}

ASSUME ShellAssumption ==
  /\ Base \in Nat /\ SizeDigits \in Nat \ {0} /\ Pad \in Nat
  /\ LineSize \in Nat /\ LineSize > Len(echo_cmd) + 1
  /\ Chars \subseteq 1 .. Base - 1 /\ Space \notin Letters
  /\ {maybeOS_cmd, echo_cmd} \subseteq Seq(Letters) \ {<<>>}
  /\ maybeOS_cmd # echo_cmd
  /\ Tails \subseteq Nat /\ (\A t \in Tails : t < Base ^ SizeDigits)
  /\ Fills \subseteq Bytes

VARIABLES
  size,       (* The size in the tag of the free block.                    *)
  mem,        (* The bytes behind that tag.                                *)
  ran,        (* What the last line ran: "none" (strtok found no word),    *)
              (* "maybeOS", "echo" or "unknown".                           *)
  out,        (* What echo printed.                                        *)
  halted,     (* The print of an uninitialised pointer has faulted.        *)
  line,       (* History: the last line.                                   *)
  behind,     (* History: the byte of the heap behind its copy.            *)
  ended,      (* History: where in the heap the tokeniser stopped.         *)
  room        (* History: the size of the free block after boot.           *)

vars == <<size, mem, ran, out, halted, line, behind, ended, room>>

-----------------------------------------------------------------------------
(* kmalloc and kfree on the free block.                                    *)

(* What n leaves shifted by k bytes, and the byte that is then the lowest. *)
Shifts(n) ==
  LET left[k \in 0 .. SizeDigits] == IF k = 0 THEN n ELSE left[k - 1] \div Base
  IN  left

Digit(n, k) == Shifts(n)[k] % Base

WithTag_SizeOnly(m, n) ==
  [i \in DOMAIN m |->
     IF i \in n .. n + SizeDigits - 1 THEN Digit(size - (n + Tag), i - n)
     ELSE m[i]]

(* init_heap_alloc_entry: behind a block of n bytes, of which size are     *)
(* available, goes the tag of the rest.  The padding is not written.       *)
WithTag(m, n) ==
  [i \in DOMAIN m |->
     CASE i \in n .. n + SizeDigits - 1 -> Digit(size - (n + Tag), i - n)
       [] i = n + SizeDigits            -> 0                \* used = false
       [] OTHER                         -> m[i]]

SizeAt(m, n) ==
  LET value[k \in 0 .. SizeDigits] ==
        IF k = SizeDigits THEN 0 ELSE m[n + k] + Base * value[k + 1]
  IN  value[0]

(* kfree of a block of n bytes: merged with what follows, if that is free. *)
Freed(m, n) == IF m[n + SizeDigits] = 0 THEN n + Tag + SizeAt(m, n) ELSE n

-----------------------------------------------------------------------------
(* string.h.                                                               *)

(* strncpy(input_cpy, input, strlen(input)): it ends before the null byte. *)
strncpy(m, l) == [i \in DOMAIN m |-> IF i < Len(l) THEN l[i + 1] ELSE m[i]]

(* strtok on a fresh string: the first word (none: the empty sequence) and *)
(* where it ends.  A blank there is overwritten by a null byte.            *)
strtok_KeepsBlanks(m) ==
  LET stop == Min({i \in DOMAIN m : m[i] \in {Nul, Space}} \cup {Last})
  IN  [word |-> [i \in 1 .. stop |-> m[i - 1]],
       end  |-> stop,
       mem  |-> [m EXCEPT ![stop] = Nul]]

strtok(m) ==
  LET start == Min({i \in DOMAIN m : m[i] # Space} \cup {Last})
      stop  == Min({i \in DOMAIN m : i >= start /\ m[i] \in {Nul, Space}}
                     \cup {Last})
  IN  [word |-> [i \in 1 .. stop - start |-> m[start + i - 1]],
       end  |-> stop,
       mem  |-> IF start = stop THEN m ELSE [m EXCEPT ![stop] = Nul]]

-----------------------------------------------------------------------------
(* shell.c.                                                                *)

Command(word) == CASE word = <<>>        -> "none"
                   [] word = maybeOS_cmd -> "maybeOS"
                   [] word = echo_cmd    -> "echo"
                   [] OTHER              -> "unknown"

(* param is taken in the line, at the length of the word and one more, as  *)
(* if no blank stood before the word and one behind it.                    *)
Param_OfCopy(l, tok) ==
  LET stop == Min({i \in DOMAIN tok.mem : i > tok.end /\ tok.mem[i] = Nul}
                    \cup {Last})
  IN  [i \in 1 .. stop - tok.end - 1 |-> tok.mem[tok.end + i]]

Param(l, tok) == SubSeq(l, Len(tok.word) + 2, Len(l))

(* shell_input.  Bound: lines for which the free block is too short to be  *)
(* split are not entered, as kmalloc on a full heap is Kheap's matter.     *)
shell_input(l) ==
  LET n    == Len(l) + 1
      copy == strncpy(WithTag(mem, n), l)
      tok  == strtok(copy)
  IN  /\ ~halted /\ n + Tag < size
      /\ mem' = tok.mem /\ size' = Freed(tok.mem, n)
      /\ ran' = Command(tok.word)
      /\ out' = IF ran' = "echo" THEN Param(l, tok) ELSE <<>>
      /\ halted' \in IF ran' = "none" THEN BOOLEAN ELSE {FALSE}
      /\ line' = l /\ behind' = copy[Len(l)] /\ ended' = tok.end
      /\ UNCHANGED room

Init ==
  /\ size \in Tails /\ room = size
  /\ \E byte \in Fills : mem = [i \in 0 .. Last |-> byte]
  /\ ran = "none" /\ out = <<>> /\ halted = FALSE
  /\ line = <<>> /\ behind = Nul /\ ended = 0

Next == \E l \in Lines : shell_input(l)

Spec == Init /\ [][Next]_vars

-----------------------------------------------------------------------------
(* Properties.                                                             *)

(* Every variable keeps its type.                                          *)
TypeOK ==
  /\ size \in Nat /\ room \in Tails
  /\ mem \in [0 .. Last -> Bytes]
  /\ ran \in {"none", "maybeOS", "echo", "unknown"}
  /\ line \in Lines /\ out \in Lines
  /\ halted \in BOOLEAN /\ behind \in Bytes /\ ended \in 0 .. Last

FirstWord(l) ==
  LET blanks == {i \in 1 .. Len(l) : \A j \in 1 .. i : l[j] = Space}
      start  == Cardinality(blanks) + 1
      ends   == {i \in start .. Len(l) : l[i] = Space} \cup {Len(l) + 1}
  IN  SubSeq(l, start, Min(ends) - 1)

(* "parses a finalized command passed to it from the terminal driver,      *)
(* executes it" (README.md): the command run is the first word of the line *)
(* typed.  The copy of the line has no terminator, so what earlier lines   *)
(* left in the heap is taken for the end of the word.                      *)
RunsWhatIsTyped == ran = Command(FirstWord(line))

(* That is the only way to run anything else: with a null byte behind the  *)
(* copy the shell runs the first word typed, whatever lies further on.     *)
RunsWhatIsTerminated == behind = Nul => RunsWhatIsTyped

(* A line with a word in it is never answered by printing a pointer that   *)
(* was not set, and never halts the kernel.                                *)
WordIsAnswered == FirstWord(line) # <<>> => ran # "none" /\ ~halted

(* What is printed is sound: a word is answered, and what echo prints is   *)
(* the end of the line typed, also when its name was completed by bytes of *)
(* the heap; it never prints bytes of the heap.                            *)
PrintsTyped ==
  /\ WordIsAnswered
  /\ \E i \in 1 .. Len(line) + 1 : out = SubSeq(line, i, Len(line))

(* Whatever the tokeniser makes of it, the heap comes back whole or        *)
(* shorter: it stops within the tag behind the copy, at the latest at its  *)
(* flag, writing to no block further up; and the last block is never taken *)
(* for longer than it is, so no later one can reach past the range.  What  *)
(* lies there remains bytes, and each variable keeps its type.             *)
StopsInTag == ended <= Len(line) + 1 + SizeDigits

HeapIsSpared == TypeOK /\ StopsInTag /\ size <= room
=============================================================================
