----------------------------- MODULE OutputStream -----------------------------
(***************************************************************************)
(* sexp_output_stream_t: its state is a record "os" and every member       *)
(* function an operator from os to os, so that a printing function is the  *)
(* composition, or a fold, of the calls it makes.                          *)
(***************************************************************************)
EXTENDS SexpChars, SequencesExt

CONSTANTS
  WordMod,        \* 2^32 in the code: the range of uint32_t
  MaxDepth,       \* max_depth; 0 is no limit
  DefaultWidth    \* default_line_length, 75

ASSUME OutputAssumption ==
  /\ WordMod \in Nat /\ WordMod > 0 /\ WordMod % 65536 = 0
  /\ MaxDepth \in 0..(WordMod - 2)
  /\ DefaultWidth \in 0..(WordMod - 1)

Modes == {"canonical", "base64", "advanced"}

Word(x) == x % WordMod

(* set_output: "out" is what the stream has received, "failed" says that   *)
(* an error was thrown or an assertion violated.                           *)
SetOutput ==
  [byte_size |-> 8, bits |-> 0, n_bits |-> 0, mode |-> "canonical", column |-> 0,
   max_column |-> DefaultWidth, indent |-> 0, base64_count |-> 0, depth |-> 0,
   failed |-> FALSE, out |-> <<>>]

Fail(os) == [os EXCEPT !.failed = TRUE]

-----------------------------------------------------------------------------
PutChar(os, c) == [os EXCEPT !.out = Append(@, c), !.column = Word(@ + 1)]

(* One blank for each level, for at most a quarter of the line. *)
Indentation(os) == Min({os.indent, (os.max_column + 3) \div 4})

(* Faults: the line is begun, but the column is that of the old one, or a  *)
(* line is begun in canonical mode too.                                    *)
NewLineColumnKept(os, mode) ==
  CASE mode = "canonical" -> os
    [] mode = "base64" -> PutChar(os, NEWLINE)
    [] mode = "advanced" ->
         FoldLeft(PutChar, PutChar(os, NEWLINE), [i \in 1..Indentation(os) |-> SPACE])

NewLineAnyMode(os, mode) ==
  LET fresh == [PutChar(os, NEWLINE) EXCEPT !.column = 0]
  IN IF mode = "advanced" THEN FoldLeft(PutChar, fresh, [i \in 1..Indentation(os) |-> SPACE])
                          ELSE fresh

NewLine(os, mode) ==
  LET fresh == [PutChar(os, NEWLINE) EXCEPT !.column = 0]
  IN CASE mode = "canonical" -> os
       [] mode = "base64" -> fresh
       [] mode = "advanced" -> FoldLeft(PutChar, fresh, [i \in 1..Indentation(os) |-> SPACE])

(* A fault: one character more than the line holds. *)
AtLineEndLate(os) == os.max_column > 0 /\ os.column > os.max_column

AtLineEnd(os) == os.max_column > 0 /\ os.column >= os.max_column

(* What is written for a group of byte_size bits. *)
Glyph(size, v) == CASE size = 4 -> HexDigit(v) [] size = 6 -> Base64Digit(v) [] size = 8 -> v

(* In a region, or at one of four brackets, the line may be broken.        *)
BreakLine(os, c) ==
  IF AtLineEnd(os) /\ (os.byte_size # 8 \/ c \in {LBRACE, RBRACE, HASH, BAR})
    THEN NewLine(os, os.mode) ELSE os

(* The first byte_size of the bits that wait: of a whole octet, the last.  *)
Group(os) ==
  LET rest == IF os.byte_size = 8 THEN 0 ELSE os.n_bits - os.byte_size
  IN (os.bits \div 2^rest) % 2^os.byte_size

PutGroup(os, c) ==
  [PutChar(BreakLine(os, c), Glyph(os.byte_size, Group(os)))
     EXCEPT !.n_bits = @ - os.byte_size, !.base64_count = Word(@ + 1)]

(* A fault: a group is written only once there are more bits than its own. *)
EmitLate(os, c) == IF os.n_bits <= os.byte_size THEN os ELSE PutGroup(os, c)

(* One turn of the loop of var_put_char for the octet c. *)
Emit(os, c) == IF os.n_bits < os.byte_size THEN os ELSE PutGroup(os, c)

(* var_put_char: an octet is at most two groups. *)
VarPutChar(os, c) ==
  Emit(Emit([os EXCEPT !.bits = Word(@ * 256 + c), !.n_bits = @ + 8], c), c)

ChangeOutputByteSize(os, size, mode) ==
  IF size # 8 /\ os.byte_size # 8
    THEN Fail(os)
    ELSE [os EXCEPT !.byte_size = size, !.n_bits = 0, !.bits = 0, !.base64_count = 0,
                    !.mode = mode]

(* flush: the bits that are left, without a line break; then padding. *)
FlushBits(os) ==
  IF os.n_bits = 0 THEN os
  ELSE IF os.byte_size # 6 THEN Fail(os)
  ELSE [PutChar(os, Base64Digit((os.bits * 2^(6 - os.n_bits)) % 64))
          EXCEPT !.n_bits = 0, !.base64_count = Word(@ + 1)]

Pad(os, i) ==
  [PutChar(IF AtLineEnd(os) THEN NewLine(os, os.mode) ELSE os, EQUALS)
     EXCEPT !.base64_count = Word(@ + 1)]

(* A fault: an even number of digits is taken for a whole group. *)
FlushPairs(os) ==
  LET o == FlushBits(os)
  IN IF o.byte_size # 6 THEN o
     ELSE FoldLeft(Pad, o, [i \in 1..((2 - (o.base64_count % 2)) % 2) |-> i])

Flush(os) ==
  LET o == FlushBits(os)
  IN IF o.byte_size # 6 THEN o
     ELSE FoldLeft(Pad, o, [i \in 1..((4 - (o.base64_count % 4)) % 4) |-> i])

(* increase_depth and decrease_depth. *)
IncreaseDepth(os) ==
  IF MaxDepth = 0 THEN os
  ELSE [os EXCEPT !.depth = Word(@ + 1), !.failed = @ \/ Word(os.depth + 1) > MaxDepth]

DecreaseDepth(os) == [os EXCEPT !.depth = Word(@ + WordMod - 1)]

PutAll(os, octets) == FoldLeft(PutChar, os, octets)
VarPutAll(os, octets) == FoldLeft(VarPutChar, os, octets)

(* print_decimal. *)
Decimal[n \in Nat] ==
  IF n < 10 THEN <<48 + n>> ELSE Append(Decimal[n \div 10], 48 + (n % 10))

=============================================================================
