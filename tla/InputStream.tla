----------------------------- MODULE InputStream -----------------------------
(***************************************************************************)
(* sexp_input_stream_t as a channel of octets: get_char and set_byte_size. *)
(*                                                                         *)
(* The stream looks one character ahead (next_char).  In an 8-bit region   *)
(* get_char delivers the raw character; in a 4-bit (hexadecimal) or 6-bit  *)
(* (base64) region it collects digits in the shift register "bits" until   *)
(* an octet is complete.  One raw read is one step (ReadChar): a call of   *)
(* get_char sets "reading" and is over when a step resets it.  The module  *)
(* has no Next of its own; its clients are RegionDecoder and Parser.       *)
(***************************************************************************)
EXTENDS SexpChars, Sequences, FiniteSets

CONSTANTS
  WordMod,        \* 2^32 in the code: the range of uint32_t and of bits
  Alphabet,       \* the octets the input may hold
  MaxInput,       \* bound: the input has at most this many octets
  WarningsThrow   \* sexp_exception_t::verbosity is not "error": warnings throw

ASSUME WordAssumption == WordMod \in Nat /\ WordMod > 0 /\ WordMod % 65536 = 0
ASSUME AlphabetAssumption == Alphabet \subseteq Octets
ASSUME InputAssumption == MaxInput \in Nat /\ WarningsThrow \in BOOLEAN

VARIABLES
  byte_size,   \* 4, 6 or 8: the width of the current region's digits
  next_char,   \* the character being scanned, or EOF
  bits,        \* the shift register
  n_bits,      \* how many of its low bits are not yet delivered
  count,       \* raw characters read, minus one
  reading,     \* a call of get_char is in progress
  status       \* "running", or "threw" once a sexp_exception_t was thrown

streamVars == <<byte_size, next_char, bits, n_bits, count, reading, status>>

StreamTypeOK ==
  /\ byte_size \in {4, 6, 8}
  /\ next_char \in Octets \cup {EOF}
  /\ bits \in 0..(WordMod - 1)
  /\ n_bits \in 0..13
  /\ count \in Int
  /\ reading \in BOOLEAN
  /\ status \in {"running", "threw"}

(* set_input, and the first get_char with which every client begins. *)
StreamInit ==
  /\ byte_size = 8
  /\ next_char = SPACE
  /\ bits = 0
  /\ n_bits = 0
  /\ count = -1
  /\ reading = TRUE
  /\ status = "running"

(* The client may use next_char: no call is in progress, nothing thrown. *)
Ready == status = "running" /\ ~reading

-----------------------------------------------------------------------------
(* What the clients call, all within an action of theirs.                  *)

(* get_char: at the end of input it only falls back to 8 bits. *)
GetChar ==
  /\ byte_size' = IF next_char = EOF THEN 8 ELSE byte_size
  /\ reading' = (next_char # EOF)
  /\ UNCHANGED <<next_char, bits, n_bits, count, status>>

(* set_byte_size(size)->skip_char(next_char), at an opening bracket. *)
EnterRegion(size) ==
  /\ byte_size' = size
  /\ bits' = 0
  /\ n_bits' = 0
  /\ reading' = TRUE
  /\ UNCHANGED <<next_char, count, status>>

(* sexp_error at level "error" always throws. *)
Throw ==
  /\ status' = "threw"
  /\ UNCHANGED <<byte_size, next_char, bits, n_bits, count, reading>>

-----------------------------------------------------------------------------
(* One turn of get_char's loop, with the raw character c.                  *)

Available == IF count + 1 < MaxInput THEN Alphabet \cup {EOF} ELSE {EOF}

(* The characters that end a region of the given width. *)
Terminators(size) ==
  CASE size = 4 -> {HASH} [] size = 6 -> {BAR, RBRACE} [] OTHER -> {}

(* White space and, in base64, padding mean nothing in a region. *)
Ignored(size) ==
  CASE size = 4 -> WhiteSpace [] size = 6 -> WhiteSpace \cup {EQUALS} [] OTHER -> {}

DigitsOf(size) == CASE size = 4 -> HexDigits [] size = 6 -> Base64Digits [] OTHER -> {}
DigitValue(size, c) == IF size = 4 THEN HexValue(c) ELSE Base64Value(c)

(* Conversion to an unsigned word. *)
Word(x) == x % WordMod

UnusedBits == bits % 2^n_bits

ReadEOF(c) ==
  /\ c = EOF
  /\ next_char' = EOF
  /\ reading' = FALSE
  /\ UNCHANGED <<byte_size, bits, n_bits, status>>

ReadRaw(c) ==
  /\ c # EOF /\ byte_size = 8
  /\ next_char' = c
  /\ reading' = FALSE
  /\ UNCHANGED <<byte_size, bits, n_bits, status>>

(* A fault: a lone unused bit is not taken for data. *)
ReadTerminatorTolerant(c) ==
  /\ c \in Terminators(byte_size)
  /\ next_char' = c
  /\ IF WarningsThrow /\ UnusedBits > 1
       THEN status' = "threw" /\ UNCHANGED <<byte_size, bits, n_bits, reading>>
       ELSE /\ byte_size' = 8 /\ bits' = 0 /\ n_bits' = 0 /\ reading' = FALSE
            /\ UNCHANGED status

(* The end of a region drops the unused bits: a warning if they are not 0. *)
ReadTerminator(c) ==
  /\ c \in Terminators(byte_size)
  /\ next_char' = c
  /\ IF WarningsThrow /\ UnusedBits # 0
       THEN status' = "threw" /\ UNCHANGED <<byte_size, bits, n_bits, reading>>
       ELSE /\ byte_size' = 8 /\ bits' = 0 /\ n_bits' = 0 /\ reading' = FALSE
            /\ UNCHANGED status

ReadIgnored(c) ==
  /\ c \in Ignored(byte_size)
  /\ next_char' = c
  /\ UNCHANGED <<byte_size, bits, n_bits, reading, status>>

(* Faults: an octet is delivered a digit late, or its low bits are not     *)
(* cut off by the conversion to an octet.                                  *)
ReadDigitLate(c) ==
  /\ c \in DigitsOf(byte_size)
  /\ bits' = Word(bits * 2^byte_size + DigitValue(byte_size, c))
  /\ IF n_bits + byte_size > 8
       THEN /\ n_bits' = n_bits + byte_size - 8
            /\ next_char' = (bits' \div 2^n_bits') % 256
            /\ reading' = FALSE
       ELSE /\ n_bits' = n_bits + byte_size
            /\ next_char' = c
            /\ UNCHANGED reading
  /\ UNCHANGED <<byte_size, status>>

ReadDigitUnmasked(c) ==
  /\ c \in DigitsOf(byte_size)
  /\ bits' = Word(bits * 2^byte_size + DigitValue(byte_size, c))
  /\ IF n_bits + byte_size >= 8
       THEN /\ n_bits' = n_bits + byte_size - 8
            /\ next_char' = bits' \div 2^n_bits'
            /\ reading' = FALSE
       ELSE /\ n_bits' = n_bits + byte_size
            /\ next_char' = c
            /\ UNCHANGED reading
  /\ UNCHANGED <<byte_size, status>>

ReadDigit(c) ==
  /\ c \in DigitsOf(byte_size)
  /\ bits' = Word(bits * 2^byte_size + DigitValue(byte_size, c))
  /\ IF n_bits + byte_size >= 8
       THEN /\ n_bits' = n_bits + byte_size - 8
            /\ next_char' = (bits' \div 2^n_bits') % 256
            /\ reading' = FALSE
       ELSE /\ n_bits' = n_bits + byte_size
            /\ next_char' = c
            /\ UNCHANGED reading
  /\ UNCHANGED <<byte_size, status>>

(* What is no digit is an error: the register has been shifted already. *)
ReadIllegal(c) ==
  /\ c # EOF /\ byte_size # 8
  /\ c \notin Terminators(byte_size) \cup Ignored(byte_size) \cup DigitsOf(byte_size)
  /\ next_char' = c
  /\ bits' = Word(bits * 2^byte_size)
  /\ n_bits' = n_bits + byte_size
  /\ status' = "threw"
  /\ UNCHANGED <<byte_size, reading>>

ReadChar(c) ==
  /\ status = "running" /\ reading
  /\ count' = count + 1
  /\ \/ ReadEOF(c)
     \/ ReadRaw(c)
     \/ ReadTerminator(c)
     \/ ReadIgnored(c)
     \/ ReadDigit(c)
     \/ ReadIllegal(c)

=============================================================================
