------------------------- MODULE RegionDecoderProofs -------------------------
(***************************************************************************)
(* The shift register of get_char decodes exactly, for every input, of any *)
(* length, and every width of the machine word that is a multiple of 16    *)
(* bits.                                                                   *)
(***************************************************************************)
EXTENDS RegionDecoder, TLAPS

(* Dropping the top of the register does not change its low bits.          *)
LEMMA LowBitsKept ==
  ASSUME NEW x \in Nat
  PROVE  /\ Word(x) \in 0..(WordMod - 1)
         /\ Word(x) % 16 = x % 16
         /\ Word(x) % 64 = x % 64
         /\ Word(x) % 256 = x % 256
         /\ Word(x) % 1024 = x % 1024
         /\ Word(x) % 4096 = x % 4096
<1> DEFINE k == WordMod \div 65536
           q == x \div WordMod
           r == Word(x)
<1>1. k \in Nat /\ WordMod = 65536 * k /\ WordMod \in Nat /\ WordMod > 0
  BY WordAssumption
<1>2. q \in Int /\ r \in 0..(WordMod - 1) /\ r \in Nat /\ x = WordMod * q + r
  BY <1>1 DEF Word
<1> HIDE DEF k, q, r
<1>3. x = 65536 * (k * q) + r
  BY <1>1, <1>2
<1> DEFINE z == k * q
<1>4. z \in Int /\ x = 65536 * z + r
  BY <1>1, <1>2, <1>3
<1> HIDE DEF z
<1>5. r % 16 = x % 16
  BY <1>2, <1>4
<1>6. r % 64 = x % 64
  BY <1>2, <1>4
<1>7. r % 256 = x % 256
  BY <1>2, <1>4
<1>8. r % 1024 = x % 1024
  BY <1>2, <1>4
<1>9. r % 4096 = x % 4096
  BY <1>2, <1>4
<1> QED
  BY <1>2, <1>5, <1>6, <1>7, <1>8, <1>9 DEF r

-----------------------------------------------------------------------------
(* The inductive invariant: ExactDecoding, and which numbers of bits can   *)
(* wait between two steps; only multiples of the digits' width less 8 do.  *)
PendingBits ==
  status = "running" /\ byte_size # 8 =>
    n_bits \in (IF byte_size = 4 THEN {0, 4} ELSE {0, 2, 4, 6})

IInv == TypeOK /\ PendingBits /\ ExactDecoding

LEMMA Powers ==
  /\ 2^0 = 1 /\ 2^2 = 4 /\ 2^4 = 16 /\ 2^6 = 64
  /\ 2^8 = 256 /\ 2^10 = 1024 /\ 2^12 = 4096
BY SMT

(* The classes of characters of a region exclude each other.               *)
LEMMA DigitClass ==
  ASSUME NEW s \in {4, 6}, NEW c \in DigitsOf(s)
  PROVE  /\ c \in Octets
         /\ c \notin Terminators(s) /\ c \notin Ignored(s)
         /\ DigitValue(s, c) \in 0..(IF s = 4 THEN 15 ELSE 63)
<1>1. CASE s = 4
  BY <1>1 DEF DigitsOf, HexDigits, DecDigits, Octets, Terminators, Ignored, HASH,
              WhiteSpace, SPACE, DigitValue, HexValue
<1>2. CASE s = 6
  BY <1>2 DEF DigitsOf, Base64Digits, DecDigits, Upper, Lower, Octets, Terminators,
              Ignored, BAR, RBRACE, EQUALS, WhiteSpace, SPACE, DigitValue, Base64Value
<1> QED
  BY <1>1, <1>2

(* What a read may see is an octet or the end of the input.                *)
LEMMA AvailableType == Available \subseteq Octets \cup {EOF}
BY AlphabetAssumption DEF Available

LEMMA InitIInv == Init => IInv
BY WordAssumption DEF Init, StreamInit, IInv, TypeOK, StreamTypeOK, PendingBits,
   ExactDecoding, InRegion, Octets, SPACE

(* The low bits of the register after a digit of s bits found n waiting.   *)
LEMMA ShiftIn ==
  ASSUME NEW s \in {4, 6},
         NEW n \in (IF s = 4 THEN {0, 4} ELSE {0, 2, 4, 6}),
         NEW v \in 0..(IF s = 4 THEN 15 ELSE 63),
         NEW b \in Nat
  PROVE  /\ Word(b * 2^s + v) \in 0..(WordMod - 1)
         /\ Word(b * 2^s + v) % 2^(n + s) = (b % 2^n) * 2^s + v
<1>1. CASE s = 4 /\ n = 0
  <2> DEFINE x == b * 16 + v
  <2>1. v \in 0..15 /\ x \in Nat
    BY <1>1
  <2>2. 2^s = 16 /\ 2^n = 1 /\ 2^(n + s) = 16
    BY <1>1, Powers
  <2>3. x % 16 = (b % 1) * 16 + v
    BY <2>1
  <2> HIDE DEF x
  <2>4. Word(x) \in 0..(WordMod - 1) /\ Word(x) % 16 = x % 16
    BY <2>1, LowBitsKept
  <2> QED
    BY <2>2, <2>3, <2>4 DEF x
<1>2. CASE s = 4 /\ n = 4
  <2> DEFINE x == b * 16 + v
  <2>1. v \in 0..15 /\ x \in Nat
    BY <1>2
  <2>2. 2^s = 16 /\ 2^n = 16 /\ 2^(n + s) = 256
    BY <1>2, Powers
  <2>3. x % 256 = (b % 16) * 16 + v
    BY <2>1
  <2> HIDE DEF x
  <2>4. Word(x) \in 0..(WordMod - 1) /\ Word(x) % 256 = x % 256
    BY <2>1, LowBitsKept
  <2> QED
    BY <2>2, <2>3, <2>4 DEF x
<1>3. CASE s = 6 /\ n = 0
  <2> DEFINE x == b * 64 + v
  <2>1. v \in 0..63 /\ x \in Nat
    BY <1>3
  <2>2. 2^s = 64 /\ 2^n = 1 /\ 2^(n + s) = 64
    BY <1>3, Powers
  <2>3. x % 64 = (b % 1) * 64 + v
    BY <2>1
  <2> HIDE DEF x
  <2>4. Word(x) \in 0..(WordMod - 1) /\ Word(x) % 64 = x % 64
    BY <2>1, LowBitsKept
  <2> QED
    BY <2>2, <2>3, <2>4 DEF x
<1>4. CASE s = 6 /\ n = 2
  <2> DEFINE x == b * 64 + v
  <2>1. v \in 0..63 /\ x \in Nat
    BY <1>4
  <2>2. 2^s = 64 /\ 2^n = 4 /\ 2^(n + s) = 256
    BY <1>4, Powers
  <2>3. x % 256 = (b % 4) * 64 + v
    BY <2>1
  <2> HIDE DEF x
  <2>4. Word(x) \in 0..(WordMod - 1) /\ Word(x) % 256 = x % 256
    BY <2>1, LowBitsKept
  <2> QED
    BY <2>2, <2>3, <2>4 DEF x
<1>5. CASE s = 6 /\ n = 4
  <2> DEFINE x == b * 64 + v
  <2>1. v \in 0..63 /\ x \in Nat
    BY <1>5
  <2>2. 2^s = 64 /\ 2^n = 16 /\ 2^(n + s) = 1024
    BY <1>5, Powers
  <2>3. x % 1024 = (b % 16) * 64 + v
    BY <2>1
  <2> HIDE DEF x
  <2>4. Word(x) \in 0..(WordMod - 1) /\ Word(x) % 1024 = x % 1024
    BY <2>1, LowBitsKept
  <2> QED
    BY <2>2, <2>3, <2>4 DEF x
<1>6. CASE s = 6 /\ n = 6
  <2> DEFINE x == b * 64 + v
  <2>1. v \in 0..63 /\ x \in Nat
    BY <1>6
  <2>2. 2^s = 64 /\ 2^n = 64 /\ 2^(n + s) = 4096
    BY <1>6, Powers
  <2>3. x % 4096 = (b % 64) * 64 + v
    BY <2>1
  <2> HIDE DEF x
  <2>4. Word(x) \in 0..(WordMod - 1) /\ Word(x) % 4096 = x % 4096
    BY <2>1, LowBitsKept
  <2> QED
    BY <2>2, <2>3, <2>4 DEF x
<1> QED
  BY <1>1, <1>2, <1>3, <1>4, <1>5, <1>6

(* An octet above m remaining bits, and those bits.                        *)
LEMMA OctetAndRest ==
  ASSUME NEW w \in Nat
  PROVE  /\ ((w \div 1) % 256) * 1 + (w % 1) = w % 256
         /\ ((w \div 4) % 256) * 4 + (w % 4) = w % 1024
         /\ ((w \div 16) % 256) * 16 + (w % 16) = w % 4096
<1>1. ((w \div 1) % 256) * 1 + (w % 1) = w % 256
  OBVIOUS
<1>2. ((w \div 4) % 256) * 4 + (w % 4) = w % 1024
  OBVIOUS
<1>3. ((w \div 16) % 256) * 16 + (w % 16) = w % 4096
  OBVIOUS
<1> QED
  BY <1>1, <1>2, <1>3

(* What that means for the numbers of the history: pro stands for the      *)
(* octets delivered, u for the bits that waited, v for the new digit; o is *)
(* the octet it completes and r the bits that wait afterwards.             *)
LEMMA Concatenation ==
  ASSUME NEW pro \in Nat, NEW u \in Nat, NEW v \in Nat, NEW o \in Nat, NEW r \in Nat
  PROVE  /\ o * 1 + r = u * 16 + v  => (pro * 16 + u) * 16 + v = (pro * 256 + o) * 1 + r
         /\ o * 1 + r = u * 64 + v  => (pro * 4 + u) * 64 + v = (pro * 256 + o) * 1 + r
         /\ o * 4 + r = u * 64 + v  => (pro * 16 + u) * 64 + v = (pro * 256 + o) * 4 + r
         /\ o * 16 + r = u * 64 + v => (pro * 64 + u) * 64 + v = (pro * 256 + o) * 16 + r
OBVIOUS

-----------------------------------------------------------------------------
(* The powers by which the numbers of waiting bits shift.                  *)
LEMMA PendingPowers ==
  ASSUME NEW m \in {0, 2, 4, 6}, NEW b \in Nat
  PROVE  2^m \in Nat /\ b % 2^m \in Nat
<1>1. CASE m = 0
  BY <1>1, Powers
<1>2. CASE m = 2
  BY <1>2, Powers
<1>3. CASE m = 4
  BY <1>3, Powers
<1>4. CASE m = 6
  BY <1>4, Powers
<1> QED
  BY <1>1, <1>2, <1>3, <1>4

(* A digit that is read in a region keeps the invariant.                   *)
LEMMA DigitStep ==
  ASSUME IInv, NEW c, status = "running", reading,
         c \in DigitsOf(byte_size), ReadDigit(c), Record(c), count' = count + 1
  PROVE  IInv'
<1> DEFINE s == byte_size
           n == n_bits
           v == DigitValue(s, c)
           u == UnusedBits
           Widths == IF s = 4 THEN {0, 4} ELSE {0, 2, 4, 6}
<1>1. s \in {4, 6}
  BY DEF IInv, TypeOK, StreamTypeOK, DigitsOf
<1>2. n \in Widths /\ bits \in Nat
  BY <1>1, WordAssumption DEF IInv, TypeOK, StreamTypeOK, PendingBits
<1>3. n \in {0, 2, 4, 6}
  BY <1>1, <1>2
<1>4. u = bits % 2^n /\ u \in Nat
  BY <1>2, <1>3, PendingPowers DEF UnusedBits
<1>5. /\ received \in Nat /\ digits \in Nat /\ produced \in Nat /\ octets \in Nat
      /\ count \in Int
      /\ s * digits = 8 * octets + n
      /\ received = produced * 2^n + u
  BY <1>1 DEF IInv, TypeOK, StreamTypeOK, ExactDecoding, InRegion
<1>6. c \in Octets /\ v \in 0..(IF s = 4 THEN 15 ELSE 63)
  BY <1>1, DigitClass
<1>7. /\ bits' = Word(bits * 2^s + v)
      /\ received' = received * 2^s + v
      /\ digits' = digits + 1
      /\ byte_size' = s /\ status' = status
  BY DEF ReadDigit, Record
<1>8. /\ n + s >= 8 => /\ n_bits' = n + s - 8
                      /\ next_char' = (bits' \div 2^n_bits') % 256
                      /\ ~reading'
                      /\ produced' = produced * 256 + next_char'
                      /\ octets' = octets + 1
      /\ n + s < 8 => /\ n_bits' = n + s
                     /\ next_char' = c
                     /\ reading'
                     /\ produced' = produced /\ octets' = octets
  <2>1. n + s >= 8 \/ n + s < 8
    BY <1>1, <1>3
  <2>2. CASE n + s >= 8
    <3>1. n_bits' = n + s - 8 /\ next_char' = (bits' \div 2^n_bits') % 256 /\ ~reading'
      BY <2>2 DEF ReadDigit
    <3>2. produced' = produced * 256 + next_char' /\ octets' = octets + 1
      BY <3>1 DEF Record
    <3> QED
      BY <1>1, <1>3, <2>2, <3>1, <3>2
  <2>3. CASE n + s < 8
    <3>1. ~(n + s >= 8)
      BY <1>1, <1>3, <2>3
    <3>2. n_bits' = n + s /\ next_char' = c /\ reading'
      BY <3>1, Zenon DEF ReadDigit
    <3>3. produced' = produced /\ octets' = octets
      BY <3>2 DEF Record
    <3> QED
      BY <3>1, <3>2, <3>3
  <2> QED
    BY <2>1, <2>2, <2>3
<1>9. reading' \in BOOLEAN
  <2>1. reading' = FALSE \/ reading' = reading
    BY DEF ReadDigit
  <2> QED
    BY <2>1 DEF IInv, TypeOK, StreamTypeOK
<1> HIDE DEF s, n, v, u
<1>10. bits' \in 0..(WordMod - 1) /\ bits' % 2^(n + s) = u * 2^s + v
  <2>1. /\ Word(bits * 2^s + v) \in 0..(WordMod - 1)
        /\ Word(bits * 2^s + v) % 2^(n + s) = (bits % 2^n) * 2^s + v
    BY <1>1, <1>2, <1>6, ShiftIn
  <2> QED
    BY <1>4, <1>7, <2>1
<1>11. bits' \in Nat
  BY <1>10, WordAssumption
<1>12. received' = (produced * 2^n + u) * 2^s + v
  BY <1>5, <1>7
<1>13. received' \in Nat /\ digits' \in Nat
  <2>1. 2^s \in Nat
    <3>1. CASE s = 4
      BY <3>1, Powers
    <3>2. CASE s = 6
      BY <3>2, Powers
    <3> QED
      BY <1>1, <3>1, <3>2
  <2>2. v \in Nat
    BY <1>1, <1>6
  <2> QED
    BY <1>5, <1>7, <2>1, <2>2
<1> DEFINE Goal == /\ n_bits' \in Widths
                   /\ next_char' \in Octets
                   /\ produced' \in Nat /\ octets' \in Nat
                   /\ s * digits' = 8 * octets' + n_bits'
                   /\ received' = produced' * 2^n_bits' + (bits' % 2^n_bits')
<1>14. ASSUME n + s < 8 PROVE Goal
  <2>1. n = 0 /\ n + s = s
    BY <1>1, <1>2, <1>14
  <2>2. u = 0
    BY <1>2, <1>4, <2>1, Powers
  <2>3. received' = produced' * 2^n_bits' + (bits' % 2^n_bits')
    <3>1. received' = produced * 2^s + v
      <4>1. CASE s = 4
        BY <1>5, <1>12, <2>1, <2>2, <4>1, Powers
      <4>2. CASE s = 6
        BY <1>5, <1>12, <2>1, <2>2, <4>2, Powers
      <4> QED
        BY <1>1, <4>1, <4>2
    <3>2. bits' % 2^s = v
      <4>1. bits' % 2^s = u * 2^s + v
        BY <1>10, <2>1
      <4>2. CASE s = 4
        BY <1>6, <2>2, <4>1, <4>2, Powers
      <4>3. CASE s = 6
        BY <1>6, <2>2, <4>1, <4>3, Powers
      <4> QED
        BY <1>1, <4>2, <4>3
    <3>3. n_bits' = s /\ produced' = produced
      BY <1>1, <1>8, <1>14, <2>1
    <3> QED
      BY <3>1, <3>2, <3>3
  <2>4. n_bits' \in Widths /\ s * digits' = 8 * octets' + n_bits'
    BY <1>1, <1>2, <1>5, <1>7, <1>8, <1>14
  <2> QED
    BY <1>5, <1>6, <1>8, <1>14, <2>3, <2>4
<1>15. ASSUME n + s >= 8 PROVE Goal
  <2>1. /\ n_bits' = n + s - 8
        /\ next_char' = (bits' \div 2^n_bits') % 256
        /\ produced' = produced * 256 + next_char'
    BY <1>8, <1>15
  <2> DEFINE Result == /\ next_char' \in 0..255
                       /\ received' = produced' * 2^n_bits' + (bits' % 2^n_bits')
  <2>2. ASSUME s = 4 /\ n = 4 PROVE Result
    <3>1. n_bits' = 0 /\ next_char' = (bits' \div 1) % 256
      BY <2>1, <2>2, Powers
    <3>2. bits' % 256 = u * 16 + v
      BY <1>10, <2>2, Powers
    <3>3. next_char' * 1 + (bits' % 1) = u * 16 + v
      BY <1>11, <3>1, <3>2, OctetAndRest
    <3>4. next_char' \in 0..255 /\ next_char' \in Nat /\ bits' % 1 \in Nat
      <4>1. \A w \in Nat : (w \div 1) % 256 \in 0..255 /\ w % 1 \in Nat
        OBVIOUS
      <4>2. (bits' \div 1) % 256 \in 0..255 /\ bits' % 1 \in Nat
        BY <1>11, <4>1, Zenon
      <4> QED
        BY <3>1, <4>2
    <3>5. received' = (produced * 16 + u) * 16 + v /\ v \in Nat
      BY <1>6, <1>12, <2>2, Powers
    <3>6. received' = (produced * 256 + next_char') * 1 + (bits' % 1)
      BY <1>4, <1>5, <3>3, <3>4, <3>5, Concatenation
    <3> QED
      <4>1. 2^n_bits' = 1
        BY <3>1, Powers
      <4> QED
        BY <2>1, <3>4, <3>6, <4>1
  <2>3. ASSUME s = 6 /\ n = 2 PROVE Result
    <3>1. n_bits' = 0 /\ next_char' = (bits' \div 1) % 256
      BY <2>1, <2>3, Powers
    <3>2. bits' % 256 = u * 64 + v
      BY <1>10, <2>3, Powers
    <3>3. next_char' * 1 + (bits' % 1) = u * 64 + v
      BY <1>11, <3>1, <3>2, OctetAndRest
    <3>4. next_char' \in 0..255 /\ next_char' \in Nat /\ bits' % 1 \in Nat
      <4>1. \A w \in Nat : (w \div 1) % 256 \in 0..255 /\ w % 1 \in Nat
        OBVIOUS
      <4>2. (bits' \div 1) % 256 \in 0..255 /\ bits' % 1 \in Nat
        BY <1>11, <4>1, Zenon
      <4> QED
        BY <3>1, <4>2
    <3>5. received' = (produced * 4 + u) * 64 + v /\ v \in Nat
      BY <1>6, <1>12, <2>3, Powers
    <3>6. received' = (produced * 256 + next_char') * 1 + (bits' % 1)
      BY <1>4, <1>5, <3>3, <3>4, <3>5, Concatenation
    <3> QED
      <4>1. 2^n_bits' = 1
        BY <3>1, Powers
      <4> QED
        BY <2>1, <3>4, <3>6, <4>1
  <2>4. ASSUME s = 6 /\ n = 4 PROVE Result
    <3>1. n_bits' = 2 /\ next_char' = (bits' \div 4) % 256
      BY <2>1, <2>4, Powers
    <3>2. bits' % 1024 = u * 64 + v
      BY <1>10, <2>4, Powers
    <3>3. next_char' * 4 + (bits' % 4) = u * 64 + v
      BY <1>11, <3>1, <3>2, OctetAndRest
    <3>4. next_char' \in 0..255 /\ next_char' \in Nat /\ bits' % 4 \in Nat
      <4>1. \A w \in Nat : (w \div 4) % 256 \in 0..255 /\ w % 4 \in Nat
        OBVIOUS
      <4>2. (bits' \div 4) % 256 \in 0..255 /\ bits' % 4 \in Nat
        BY <1>11, <4>1, Zenon
      <4> QED
        BY <3>1, <4>2
    <3>5. received' = (produced * 16 + u) * 64 + v /\ v \in Nat
      BY <1>6, <1>12, <2>4, Powers
    <3>6. received' = (produced * 256 + next_char') * 4 + (bits' % 4)
      BY <1>4, <1>5, <3>3, <3>4, <3>5, Concatenation
    <3> QED
      <4>1. 2^n_bits' = 4
        BY <3>1, Powers
      <4> QED
        BY <2>1, <3>4, <3>6, <4>1
  <2>5. ASSUME s = 6 /\ n = 6 PROVE Result
    <3>1. n_bits' = 4 /\ next_char' = (bits' \div 16) % 256
      BY <2>1, <2>5, Powers
    <3>2. bits' % 4096 = u * 64 + v
      BY <1>10, <2>5, Powers
    <3>3. next_char' * 16 + (bits' % 16) = u * 64 + v
      BY <1>11, <3>1, <3>2, OctetAndRest
    <3>4. next_char' \in 0..255 /\ next_char' \in Nat /\ bits' % 16 \in Nat
      <4>1. \A w \in Nat : (w \div 16) % 256 \in 0..255 /\ w % 16 \in Nat
        OBVIOUS
      <4>2. (bits' \div 16) % 256 \in 0..255 /\ bits' % 16 \in Nat
        BY <1>11, <4>1, Zenon
      <4> QED
        BY <3>1, <4>2
    <3>5. received' = (produced * 64 + u) * 64 + v /\ v \in Nat
      BY <1>6, <1>12, <2>5, Powers
    <3>6. received' = (produced * 256 + next_char') * 16 + (bits' % 16)
      BY <1>4, <1>5, <3>3, <3>4, <3>5, Concatenation
    <3> QED
      <4>1. 2^n_bits' = 16
        BY <3>1, Powers
      <4> QED
        BY <2>1, <3>4, <3>6, <4>1
  <2>6. Result
    BY <1>1, <1>2, <1>15, <2>2, <2>3, <2>4, <2>5
  <2>7. n_bits' \in Widths /\ s * digits' = 8 * octets' + n_bits'
    BY <1>1, <1>2, <1>5, <1>7, <1>8, <1>15
  <2>8. octets' = octets + 1 /\ produced' = produced * 256 + next_char'
    BY <1>8, <1>15
  <2>9. octets' \in Nat /\ next_char' \in Octets
    BY <1>5, <2>6, <2>8 DEF Octets
  <2>10. produced' \in Nat
    <3>1. next_char' \in 0..255
      BY <2>6
    <3>2. \A o \in 0..255 : produced * 256 + o \in Nat
      BY <1>5
    <3> QED
      BY <2>8, <3>1, <3>2, Zenon
  <2> QED
    BY <2>6, <2>7, <2>9, <2>10
<1>16. Goal
  BY <1>1, <1>3, <1>14, <1>15 DEF n, s
<1>17. n_bits' \in 0..13
  BY <1>1, <1>16
<1>18. TypeOK'
  BY <1>1, <1>5, <1>7, <1>9, <1>10, <1>13, <1>16, <1>17 DEF IInv, TypeOK, StreamTypeOK
<1> QED
  <2>1. PendingBits'
    BY <1>7, <1>16 DEF PendingBits
  <2>2. ExactDecoding'
    <3>1. n_bits' < 8
      BY <1>1, <1>16
    <3> QED
      BY <1>7, <1>16, <3>1 DEF ExactDecoding, InRegion, UnusedBits
  <2> QED
    BY <1>18, <2>1, <2>2 DEF IInv

-----------------------------------------------------------------------------
(* Every step keeps the invariant: a read by the class of its character,   *)
(* and the calls of the client.                                            *)
LEMMA ReadStep ==
  ASSUME IInv, Read
  PROVE  IInv'
<1>1. PICK c \in Available : /\ ReadChar(c)
                            /\ IF c \in DigitsOf(byte_size) THEN Record(c) ELSE UNCHANGED history
  BY DEF Read
<1>2. /\ status = "running" /\ reading /\ count' = count + 1 /\ count' \in Int
      /\ c \in Octets \cup {EOF} /\ byte_size \in {4, 6, 8}
  BY <1>1, AvailableType DEF ReadChar, IInv, TypeOK, StreamTypeOK
<1>3. CASE c \in DigitsOf(byte_size)
  <2>1. byte_size \in {4, 6}
    BY <1>2, <1>3 DEF DigitsOf
  <2>2. c # EOF /\ c \notin Terminators(byte_size) /\ c \notin Ignored(byte_size)
    BY <1>3, <2>1, DigitClass DEF Octets, EOF
  <2>3. ReadDigit(c)
    <3>1. ~ReadEOF(c) /\ ~ReadRaw(c)
      BY <2>1, <2>2 DEF ReadEOF, ReadRaw
    <3>2. ~ReadTerminator(c) /\ ~ReadIgnored(c) /\ ~ReadIllegal(c)
      BY <1>3, <2>2, Zenon DEF ReadTerminator, ReadIgnored, ReadIllegal
    <3> QED
      BY <1>1, <3>1, <3>2, Zenon DEF ReadChar
  <2> QED
    BY <1>1, <1>2, <1>3, <2>3, DigitStep
<1>4. CASE c \notin DigitsOf(byte_size)
  <2>1. UNCHANGED history
    BY <1>1, <1>4
  <2>2. CASE ReadEOF(c) \/ ReadRaw(c) \/ ReadIgnored(c)
    <3>1. /\ UNCHANGED <<byte_size, bits, n_bits, status>>
          /\ next_char' \in Octets \cup {EOF}
          /\ reading' = FALSE \/ reading' = reading
      BY <1>2, <2>2 DEF ReadEOF, ReadRaw, ReadIgnored
    <3> QED
      BY <1>2, <2>1, <3>1 DEF IInv, TypeOK, StreamTypeOK, PendingBits, ExactDecoding,
         InRegion, UnusedBits, history
  <2>3. CASE ReadTerminator(c)
    <3>1. next_char' \in Octets \cup {EOF}
      BY <1>2, <2>3 DEF ReadTerminator
    <3>2. \/ status' = "threw" /\ UNCHANGED <<byte_size, bits, n_bits, reading>>
          \/ /\ byte_size' = 8 /\ bits' = 0 /\ n_bits' = 0 /\ reading' = FALSE
             /\ status' = status
      BY <2>3 DEF ReadTerminator
    <3>3. bits' \in 0..(WordMod - 1) /\ n_bits' \in 0..13 /\ reading' \in BOOLEAN
      <4>1. 0 \in 0..(WordMod - 1) /\ 0 \in 0..13 /\ FALSE \in BOOLEAN
        BY WordAssumption
      <4>2. bits \in 0..(WordMod - 1) /\ n_bits \in 0..13 /\ reading \in BOOLEAN
        BY DEF IInv, TypeOK, StreamTypeOK
      <4>3. CASE UNCHANGED <<bits, n_bits, reading>>
        BY <4>2, <4>3
      <4>4. CASE bits' = 0 /\ n_bits' = 0 /\ reading' = FALSE
        BY <4>1, <4>4, Zenon
      <4> QED
        BY <3>2, <4>3, <4>4
    <3>4. byte_size' \in {4, 6, 8} /\ status' \in {"running", "threw"}
      BY <1>2, <3>2
    <3>5. TypeOK'
      BY <1>2, <2>1, <3>1, <3>3, <3>4 DEF IInv, TypeOK, StreamTypeOK, history
    <3>6. ~InRegion'
      BY <1>2, <3>2 DEF InRegion
    <3> QED
      BY <3>5, <3>6 DEF IInv, PendingBits, ExactDecoding, InRegion
  <2>4. CASE ReadIllegal(c)
    <3>1. /\ next_char' \in Octets \cup {EOF} /\ status' = "threw"
          /\ UNCHANGED <<byte_size, reading>>
          /\ bits' = Word(bits * 2^byte_size) /\ n_bits' = n_bits + byte_size
          /\ byte_size \in {4, 6}
      BY <1>2, <2>4 DEF ReadIllegal
    <3>2. bits \in Nat /\ n_bits \in 0..7
      BY <1>2, <3>1, WordAssumption
      DEF IInv, TypeOK, StreamTypeOK, ExactDecoding, InRegion
    <3>3. bits * 2^byte_size \in Nat
      <4>1. CASE byte_size = 4
        BY <3>2, <4>1, Powers
      <4>2. CASE byte_size = 6
        BY <3>2, <4>2, Powers
      <4> QED
        BY <3>1, <4>1, <4>2
    <3>4. bits' \in 0..(WordMod - 1)
      BY <3>1, <3>3, LowBitsKept
    <3>5. n_bits' \in 0..13
      BY <3>1, <3>2
    <3> QED
      BY <1>2, <2>1, <3>1, <3>4, <3>5
      DEF IInv, TypeOK, StreamTypeOK, PendingBits, ExactDecoding, InRegion, history
  <2> QED
    BY <1>1, <1>4, <2>2, <2>3, <2>4 DEF ReadChar, ReadDigit
<1> QED
  BY <1>3, <1>4

LEMMA NextIInv == IInv /\ [Next]_vars => IInv'
<1> SUFFICES ASSUME IInv, [Next]_vars PROVE IInv'
  OBVIOUS
<1>1. CASE Read
  BY <1>1, ReadStep
<1>2. CASE Advance
  <2>1. /\ byte_size' \in {byte_size, 8} /\ reading' \in BOOLEAN
        /\ UNCHANGED <<next_char, bits, n_bits, count, status, history>>
    BY <1>2 DEF Advance, GetChar
  <2> QED
    BY <2>1 DEF IInv, TypeOK, StreamTypeOK, PendingBits, ExactDecoding, InRegion,
       UnusedBits, history
<1>3. ASSUME NEW size \in {4, 6}, Open(size) PROVE IInv'
  <2>1. /\ byte_size' = size /\ bits' = 0 /\ n_bits' = 0 /\ reading' = TRUE
        /\ UNCHANGED <<next_char, count, status>>
        /\ received' = 0 /\ digits' = 0 /\ produced' = 0 /\ octets' = 0
    BY <1>3 DEF Open, EnterRegion, ForgetHistory
  <2>2. received' = produced' * 2^n_bits' + (bits' % 2^n_bits')
    <3>1. 2^n_bits' = 1
      BY <2>1, Powers
    <3> QED
      BY <2>1, <3>1
  <2> QED
    BY <2>1, <2>2, WordAssumption
    DEF IInv, TypeOK, StreamTypeOK, PendingBits, ExactDecoding, InRegion, UnusedBits
<1>4. CASE UNCHANGED vars
  BY <1>4 DEF vars, streamVars, history, IInv, TypeOK, StreamTypeOK, PendingBits,
     ExactDecoding, InRegion, UnusedBits
<1> QED
  BY <1>1, <1>2, <1>3, <1>4 DEF Next, Stopped

-----------------------------------------------------------------------------
(* Type correctness of get_char: the shift register never leaves its word, *)
(* nor next_char the octets and the end of input, and at most 13 bits wait *)
(* to be delivered, those of the digit that was illegal included.          *)
THEOREM DecoderTypesHold == Spec => []TypeOK
<1>1. IInv => TypeOK
  BY DEF IInv
<1> QED
  BY <1>1, InitIInv, NextIInv, PTL DEF Spec

(* Decoding is exact: at every moment the octets that get_char has         *)
(* delivered from a region are the digits it has read, bit for bit.        *)
THEOREM DecodingIsExact == Spec => [](TypeOK /\ ExactDecoding)
<1>1. IInv => TypeOK /\ ExactDecoding
  BY DEF IInv
<1> QED
  BY <1>1, InitIInv, NextIInv, PTL DEF Spec

(* No bracket that ends a region drops data when warnings are thrown: what *)
(* was read has been delivered, but for bits that are zero.                *)
THEOREM RegionsEndClean == Spec => NoDataDropped
<1> DEFINE A == reading /\ InRegion /\ byte_size' = 8 /\ WarningsThrow
                  => received = produced * 2^n_bits
<1>1. IInv /\ [Next]_vars => [A]_vars
  <2> SUFFICES ASSUME IInv, [Next]_vars, reading, InRegion, byte_size' = 8, WarningsThrow
               PROVE  received = produced * 2^n_bits
    OBVIOUS
  <2>1. byte_size # 8 /\ status = "running" /\ byte_size' # byte_size
    BY DEF InRegion
  <2>2. Read
    BY <2>1 DEF Next, Advance, Open, Ready, Stopped, vars, streamVars
  <2>3. PICK c \in Available : ReadChar(c)
    BY <2>2 DEF Read
  <2>4. ReadTerminator(c)
    BY <2>1, <2>3 DEF ReadChar, ReadEOF, ReadRaw, ReadIgnored, ReadDigit, ReadIllegal
  <2>5. UnusedBits = 0
    BY <2>1, <2>4 DEF ReadTerminator
  <2>6. produced * 2^n_bits \in Int
    <3>1. produced \in Nat /\ byte_size \in {4, 6} /\ n_bits \in {0, 2, 4, 6}
      BY <2>1 DEF IInv, TypeOK, StreamTypeOK, PendingBits
    <3> QED
      BY <3>1, PendingPowers
  <2> QED
    BY <2>1, <2>5, <2>6 DEF IInv, ExactDecoding, InRegion
<1>2. IInv /\ [Next]_vars => IInv'
  BY NextIInv
<1> QED
  BY <1>1, <1>2, InitIInv, PTL DEF Spec, NoDataDropped

=============================================================================
