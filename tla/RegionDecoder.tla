---------------------------- MODULE RegionDecoder ----------------------------
(***************************************************************************)
(* A client of the input stream that opens hexadecimal and base64 regions  *)
(* and reads on, as scan_hexadecimal_string, scan_base64_string and        *)
(* scan_object do, with the history needed to say that decoding is exact.  *)
(*                                                                         *)
(* The history takes the digits of the open region as one number in base   *)
(* 2^byte_size and the delivered octets as one number in base 256; with    *)
(* the two counts, the numbers stand for the two sequences.                *)
(***************************************************************************)
EXTENDS InputStream

VARIABLES
  received,   \* the digits read since the region was opened, as a number
  digits,     \* how many they are
  produced,   \* the octets delivered from them, as a number
  octets      \* how many they are

history == <<received, digits, produced, octets>>
vars == <<streamVars, history>>

TypeOK ==
  /\ StreamTypeOK
  /\ received \in Nat /\ digits \in Nat /\ produced \in Nat /\ octets \in Nat

ForgetHistory ==
  received' = 0 /\ digits' = 0 /\ produced' = 0 /\ octets' = 0

Init ==
  /\ StreamInit
  /\ received = 0 /\ digits = 0 /\ produced = 0 /\ octets = 0

-----------------------------------------------------------------------------
(* A digit enters the history, and so does the octet it may complete.      *)
Record(c) ==
  /\ received' = received * 2^byte_size + DigitValue(byte_size, c)
  /\ digits' = digits + 1
  /\ IF reading'
       THEN UNCHANGED <<produced, octets>>
       ELSE produced' = produced * 256 + next_char' /\ octets' = octets + 1

Read ==
  \E c \in Available :
    /\ ReadChar(c)
    /\ IF c \in DigitsOf(byte_size) THEN Record(c) ELSE UNCHANGED history

(* The client asks for the next character. *)
Advance == Ready /\ GetChar /\ UNCHANGED history

(* The client opens a region; inside a 6-bit one the parser does it too. *)
Open(size) == Ready /\ next_char # EOF /\ EnterRegion(size) /\ ForgetHistory

(* After an exception the stream is not used. *)
Stopped == status = "threw" /\ UNCHANGED vars

Next == Read \/ Advance \/ (\E size \in {4, 6} : Open(size)) \/ Stopped

Spec == Init /\ [][Next]_vars

-----------------------------------------------------------------------------
InRegion == byte_size # 8 /\ status = "running"

(* get_char, lines 110-132: while a region is open the octets delivered    *)
(* are, bit for bit, the digits read, and the fewer than 8 bits not yet    *)
(* delivered are the low bits of the shift register, in spite of what      *)
(* older digits left above them and of the 32-bit shift losing the top.    *)
ExactDecoding ==
  InRegion =>
    /\ n_bits < 8
    /\ byte_size * digits = 8 * octets + n_bits
    /\ received = produced * 2^n_bits + UnusedBits

(* get_char, lines 97-107: with warnings thrown, a bracket that ends a     *)
(* region never drops data: all that was read has been delivered, but for  *)
(* zero bits.                                                              *)
NoDataDropped ==
  [][reading /\ InRegion /\ byte_size' = 8 /\ WarningsThrow
       => received = produced * 2^n_bits]_vars

=============================================================================
