---------------------------- MODULE PrinterProofs ----------------------------
(***************************************************************************)
(* The writer: for every set of objects and every width the stream stays   *)
(* in its range, its only error is a nesting that is too deep, the         *)
(* counters of depth and column say what they are for, and the canonical   *)
(* and base64 forms are exact.                                             *)
(***************************************************************************)
EXTENDS Printer, Lemmas

W == 0..(WordMod - 1)

LEMMA Width == WordMod \in Nat /\ WordMod >= 65536 /\ MaxDepth \in W /\ DefaultWidth \in W
BY OutputAssumption DEF W

(* A number has one quotient and one remainder.                            *)
LEMMA OneRemainder ==
  ASSUME NEW m \in Nat, m > 0, NEW q \in Int, NEW r \in 0..(m - 1), NEW p \in Int, NEW s \in 0..(m - 1),
         m * q + r = m * p + s
  PROVE  r = s
<1> DEFINE d == q - p
<1>1. d \in Int /\ m * d = s - r
  OBVIOUS
<1> HIDE DEF d
<1>2. d >= 1 => m * d >= m
  BY <1>1
<1>3. d <= -1 => m * d <= -m
  BY <1>1
<1>4. d = 0
  BY <1>1, <1>2, <1>3
<1> QED
  BY <1>1, <1>4

LEMMA WordParts ==
  ASSUME NEW x \in Int
  PROVE  /\ Word(x) \in W /\ W \subseteq Nat /\ x \div WordMod \in Int
         /\ x = WordMod * (x \div WordMod) + Word(x)
         /\ x \in W => Word(x) = x
BY Width DEF Word, W

LEMMA WordOf ==
  ASSUME NEW x \in Int
  PROVE  /\ Word(x) \in W /\ Word(x) \in Nat
         /\ x \in W => Word(x) = x
BY Width DEF Word, W

LEMMA WordIsRemainder ==
  ASSUME NEW x \in Int, NEW q \in Int, NEW r \in W, x = WordMod * q + r
  PROVE  Word(x) = r
<1> DEFINE p == x \div WordMod
<1>1. p \in Int /\ Word(x) \in 0..(WordMod - 1) /\ x = WordMod * p + Word(x)
  BY WordParts DEF W
<1>2. WordMod \in Nat /\ WordMod > 0 /\ r \in 0..(WordMod - 1)
  BY Width DEF W
<1> HIDE DEF p
<1> QED
  BY <1>1, <1>2, OneRemainder

LEMMA Distribute ==
  ASSUME NEW m \in Int, NEW a \in Int, NEW b \in Int
  PROVE  m * (a + b) = m * a + m * b /\ m * a \in Int /\ m * b \in Int
OBVIOUS

(* Additions to a machine word can be done before it is cut off.           *)
LEMMA WordSum ==
  ASSUME NEW x \in Int, NEW y \in Int
  PROVE  Word(Word(x) + y) = Word(x + y)
<1> DEFINE z == Word(x) + y
<1>1. /\ Word(x) \in W /\ W \subseteq Nat /\ x \div WordMod \in Int
      /\ x = WordMod * (x \div WordMod) + Word(x)
  BY WordParts
<1>2. PICK q \in Int : x = WordMod * q + Word(x)
  BY <1>1
<1>3. z \in Int /\ z = Word(x) + y /\ Word(x) \in Int
  <2>1. Word(x) \in Nat
    BY WordOf
  <2> QED
    BY <2>1
<1> HIDE DEF z
<1>4. /\ Word(z) \in W /\ W \subseteq Nat /\ z \div WordMod \in Int
      /\ z = WordMod * (z \div WordMod) + Word(z)
  BY <1>3, WordParts
<1>5. PICK p \in Int : z = WordMod * p + Word(z)
  BY <1>4
<1>6. WordMod * (q + p) = WordMod * q + WordMod * p /\ WordMod * q \in Int /\ WordMod * p \in Int
  BY Width, Distribute
<1>7. \A a, b, c \in Int : x = a + Word(x) /\ z = b + Word(z) /\ c = a + b => x + y = c + Word(z)
  <2>1. Word(z) \in Nat
    BY <1>3, WordOf
  <2> QED
    BY <1>3, <2>1
<1>8. x + y = WordMod * (q + p) + Word(z)
  BY <1>2, <1>5, <1>6, <1>7
<1>9. x + y \in Int /\ q + p \in Int
  OBVIOUS
<1>10. Word(x + y) = Word(z)
  BY <1>3, <1>8, <1>9, WordOf, WordIsRemainder
<1> QED
  BY <1>10 DEF z

-----------------------------------------------------------------------------
(* The streams, within a call of var_put_char too.                         *)
Streams ==
  [byte_size : {4, 6, 8}, bits : W, n_bits : 0..15, mode : Modes, column : W, max_column : W,
   indent : W, base64_count : W, depth : W, failed : BOOLEAN, out : Seq(Octets)]

(* Two streams that differ in the registers of var_put_char only, or not   *)
(* in these.                                                               *)
SameText(o, p) ==
  /\ p.out = o.out /\ p.column = o.column /\ p.max_column = o.max_column
  /\ p.indent = o.indent /\ p.depth = o.depth /\ p.failed = o.failed

SameRegisters(o, p) ==
  /\ p.byte_size = o.byte_size /\ p.bits = o.bits /\ p.n_bits = o.n_bits
  /\ p.mode = o.mode /\ p.base64_count = o.base64_count

(* The beginning of a line. *)
Fresh(o) == [PutChar(o, NEWLINE) EXCEPT !.column = 0]

(* A set of streams that writing does not leave, when what is written to   *)
(* it are new lines, and of other octets those in C.                       *)
Keeps(P, C) ==
  /\ P \subseteq Streams
  /\ Octets \ {NEWLINE} \subseteq C /\ C \subseteq Octets
  /\ \A o \in P : Fresh(o) \in P /\ \A c \in C : PutChar(o, c) \in P
  /\ \A o \in P, p \in Streams : SameText(o, p) => p \in P

LEMMA PutCharIs ==
  ASSUME NEW o \in Streams, NEW c \in Octets
  PROVE  /\ PutChar(o, c) \in Streams /\ SameRegisters(o, PutChar(o, c))
         /\ PutChar(o, c).out = Append(o.out, c)
         /\ PutChar(o, c).column = Word(o.column + 1)
         /\ PutChar(o, c).max_column = o.max_column /\ PutChar(o, c).indent = o.indent
         /\ PutChar(o, c).depth = o.depth /\ PutChar(o, c).failed = o.failed
<1>1. Word(o.column + 1) \in W
  BY WordOf, Width DEF Streams, W
<1>2. Append(o.out, c) \in Seq(Octets)
  BY AppendProperties DEF Streams
<1> QED
  BY <1>1, <1>2 DEF Streams, PutChar, SameRegisters

LEMMA FreshIs ==
  ASSUME NEW o \in Streams
  PROVE  /\ Fresh(o) \in Streams /\ SameRegisters(o, Fresh(o))
         /\ Fresh(o).out = Append(o.out, NEWLINE) /\ Fresh(o).column = 0
         /\ Fresh(o).max_column = o.max_column /\ Fresh(o).indent = o.indent
         /\ Fresh(o).depth = o.depth /\ Fresh(o).failed = o.failed
<1> DEFINE p == PutChar(o, NEWLINE)
<1>1. NEWLINE \in Octets /\ 0 \in W
  BY Width DEF NEWLINE, Octets, W
<1>2. /\ p \in Streams /\ SameRegisters(o, p) /\ p.out = Append(o.out, NEWLINE)
      /\ p.max_column = o.max_column /\ p.indent = o.indent
      /\ p.depth = o.depth /\ p.failed = o.failed
  BY <1>1, PutCharIs
<1> HIDE DEF p
<1>3. Fresh(o) = [p EXCEPT !.column = 0]
  BY DEF Fresh, p
<1> QED
  BY <1>1, <1>2, <1>3 DEF Streams, SameRegisters

Puts == INSTANCE Induction WITH Op <- PutChar
VarPuts == INSTANCE Induction WITH Op <- VarPutChar

(* put_char in a loop.                                                     *)
LEMMA PutAllKeeps ==
  ASSUME NEW P, NEW C, Keeps(P, C), NEW o \in P, NEW s \in Seq(C)
  PROVE  PutAll(o, s) \in P /\ SameRegisters(o, PutAll(o, s))
<1> DEFINE Q == {p \in P : SameRegisters(o, p)}
<1>1. \A p \in Q, c \in C : PutChar(p, c) \in Q
  <2> SUFFICES ASSUME NEW p \in Q, NEW c \in C PROVE PutChar(p, c) \in Q
    OBVIOUS
  <2>1. p \in Streams /\ c \in Octets /\ PutChar(p, c) \in P
    BY DEF Keeps
  <2> QED
    BY <2>1, PutCharIs DEF SameRegisters
<1>2. o \in Q
  BY DEF SameRegisters
<1> HIDE DEF Q
<1>3. Puts!Fold(o, s) \in Q
  BY <1>1, <1>2, Puts!FoldInvariant
<1>4. PutAll(o, s) = Puts!Fold(o, s)
  BY DEF PutAll, Puts!Fold, FoldLeft, MapThenFoldSet, Puts!FoldLeft, Puts!MapThenFoldSet, Max, Puts!Max
<1> QED
  BY <1>3, <1>4 DEF Q

LEMMA IndentationType ==
  ASSUME NEW o \in Streams
  PROVE  /\ Indentation(o) \in W /\ Indentation(o) \in Nat
         /\ Indentation(o) <= (o.max_column + 3) \div 4
<1> DEFINE q == (o.max_column + 3) \div 4
<1>1. o.indent \in W /\ W \subseteq Nat /\ q \in Nat
  BY Width DEF Streams, W
<1> HIDE DEF q
<1>2. Min({o.indent, q}) \in {o.indent, q} /\ Min({o.indent, q}) <= o.indent /\ Min({o.indent, q}) <= q
  BY <1>1, MinType
<1> QED
  BY <1>1, <1>2, Width DEF Indentation, q, W

LEMMA NewLineIs ==
  ASSUME NEW o \in Streams
  PROVE  /\ NewLine(o, "canonical") = o /\ NewLine(o, "base64") = Fresh(o)
         /\ NewLine(o, "advanced") = PutAll(Fresh(o), [i \in 1..Indentation(o) |-> SPACE])
BY DEF NewLine, Fresh, PutAll

LEMMA BlanksType ==
  ASSUME NEW o \in Streams, NEW C, Octets \ {NEWLINE} \subseteq C
  PROVE  [i \in 1..Indentation(o) |-> SPACE] \in Seq(C)
<1>1. SPACE \in C
  BY DEF SPACE, Octets, NEWLINE
<1> QED
  BY <1>1, IndentationType, IsASeq

LEMMA NewLineKeeps ==
  ASSUME NEW P, NEW C, Keeps(P, C), NEW o \in P, NEW mode \in Modes
  PROVE  NewLine(o, mode) \in P /\ SameRegisters(o, NewLine(o, mode))
<1>1. o \in Streams /\ Fresh(o) \in P /\ SameRegisters(o, Fresh(o)) /\ Octets \ {NEWLINE} \subseteq C
  BY FreshIs DEF Keeps
<1>2. CASE mode = "canonical"
  BY <1>1, <1>2, NewLineIs DEF SameRegisters
<1>3. CASE mode = "base64"
  BY <1>1, <1>3, NewLineIs
<1>4. CASE mode = "advanced"
  <2> DEFINE blanks == [i \in 1..Indentation(o) |-> SPACE]
  <2>1. blanks \in Seq(C)
    BY <1>1, BlanksType
  <2>2. NewLine(o, mode) = PutAll(Fresh(o), blanks)
    BY <1>1, <1>4, NewLineIs
  <2> HIDE DEF blanks
  <2>3. PutAll(Fresh(o), blanks) \in P /\ SameRegisters(Fresh(o), PutAll(Fresh(o), blanks))
    BY <1>1, <2>1, PutAllKeeps
  <2> QED
    BY <1>1, <2>2, <2>3 DEF SameRegisters
<1> QED
  BY <1>2, <1>3, <1>4 DEF Modes

-----------------------------------------------------------------------------
(* One turn of the loop of var_put_char.                                   *)
Rest(o) == IF o.byte_size = 8 THEN 0 ELSE o.n_bits - o.byte_size

(* How many bits can wait before a turn, and between two octets.           *)
Ready(o) ==
  o.n_bits \in CASE o.byte_size = 4 -> {4, 8} [] o.byte_size = 6 -> {2, 4, 6, 8, 10, 12}
                 [] o.byte_size = 8 -> {0, 8}
Waiting(o) == o.n_bits \in IF o.byte_size = 6 THEN {0, 2, 4} ELSE {0}

(* The lowest bits of a number. *)
Low(size, x) == x % 2^size

LEMMA GlyphType ==
  ASSUME NEW size \in {4, 6, 8}, NEW x \in Nat
  PROVE  /\ size # 8 => Glyph(size, Low(size, x)) \in Octets \ {NEWLINE}
         /\ size = 8 => Glyph(size, Low(size, x)) = x % 256 /\ x % 256 \in Octets
<1>1. Low(4, x) = x % 16 /\ Low(6, x) = x % 64 /\ Low(8, x) = x % 256
  <2>1. 2^4 = 16 /\ 2^6 = 64 /\ 2^8 = 256
    BY SMT
  <2> QED
    BY <2>1 DEF Low
<1>2. CASE size = 4
  <2>1. x % 16 \in 0..15
    OBVIOUS
  <2>2. \A v \in 0..15 : HexDigit(v) \in Octets \ {NEWLINE}
    BY DEF HexDigit, Octets, NEWLINE
  <2> QED
    BY <1>1, <1>2, <2>1, <2>2 DEF Glyph
<1>3. CASE size = 6
  <2>1. x % 64 \in 0..63
    OBVIOUS
  <2>2. \A v \in 0..63 : Base64Digit(v) \in Octets \ {NEWLINE}
    BY DEF Base64Digit, Octets, NEWLINE
  <2> QED
    BY <1>1, <1>3, <2>1, <2>2 DEF Glyph
<1>4. CASE size = 8
  <2>1. x % 256 \in Octets
    BY DEF Octets
  <2> QED
    BY <1>1, <1>4, <2>1 DEF Glyph
<1> QED
  BY <1>2, <1>3, <1>4

LEMMA ShiftType ==
  ASSUME NEW b \in Nat, NEW r \in {0, 2, 4, 6}
  PROVE  b \div 2^r \in Nat /\ (r = 0 => b \div 2^r = b)
<1>1. 2^0 = 1 /\ 2^2 = 4 /\ 2^4 = 16 /\ 2^6 = 64
  BY SMT
<1>2. CASE r = 0
  BY <1>1, <1>2
<1>3. CASE r = 2
  BY <1>1, <1>3
<1>4. CASE r = 4
  BY <1>1, <1>4
<1>5. CASE r = 6
  BY <1>1, <1>5
<1> QED
  BY <1>2, <1>3, <1>4, <1>5

LEMMA GroupGlyph ==
  ASSUME NEW o \in Streams, Ready(o), o.n_bits >= o.byte_size
  PROVE  /\ o.byte_size # 8 => Glyph(o.byte_size, Group(o)) \in Octets \ {NEWLINE}
         /\ o.byte_size = 8 => Glyph(o.byte_size, Group(o)) = o.bits % 256 /\ o.bits % 256 \in Octets
<1> DEFINE x == o.bits \div 2^Rest(o)
<1>1. Rest(o) \in {0, 2, 4, 6} /\ (o.byte_size = 8 => Rest(o) = 0)
  BY DEF Rest, Ready, Streams
<1>3. o.bits \in Nat /\ o.byte_size \in {4, 6, 8}
  BY Width DEF Streams, W
<1>4. x \in Nat /\ (o.byte_size = 8 => x = o.bits)
  BY <1>1, <1>3, ShiftType
<1> HIDE DEF x
<1>5. Group(o) = Low(o.byte_size, x)
  BY DEF Group, Rest, Low, x
<1>6. /\ o.byte_size # 8 => Glyph(o.byte_size, Low(o.byte_size, x)) \in Octets \ {NEWLINE}
      /\ o.byte_size = 8 => /\ Glyph(o.byte_size, Low(o.byte_size, x)) = x % 256
                            /\ x % 256 \in Octets
  BY <1>3, <1>4, GlyphType
<1> QED
  BY <1>4, <1>5, <1>6

LEMMA BreakLineKeeps ==
  ASSUME NEW P, NEW C, Keeps(P, C), NEW o \in P, NEW c
  PROVE  BreakLine(o, c) \in P /\ SameRegisters(o, BreakLine(o, c))
<1>1. o.mode \in Modes
  BY DEF Keeps, Streams
<1> QED
  BY <1>1, NewLineKeeps DEF BreakLine, SameRegisters

LEMMA EmitIs ==
  ASSUME NEW o \in Streams, NEW c, Ready(o), o.n_bits >= o.byte_size,
         NEW p \in Streams, p = BreakLine(o, c), SameRegisters(o, p)
  PROVE  LET q == PutChar(p, Glyph(o.byte_size, Group(o)))
         IN /\ Emit(o, c) \in Streams /\ SameText(q, Emit(o, c))
            /\ Emit(o, c).byte_size = o.byte_size /\ Emit(o, c).bits = o.bits
            /\ Emit(o, c).mode = o.mode /\ Emit(o, c).n_bits = o.n_bits - o.byte_size
            /\ Emit(o, c).base64_count = Word(o.base64_count + 1)
<1> DEFINE q == PutChar(p, Glyph(o.byte_size, Group(o)))
<1>1. Glyph(o.byte_size, Group(o)) \in Octets
  BY GroupGlyph DEF Streams
<1>2. q \in Streams /\ SameRegisters(p, q)
  BY <1>1, PutCharIs
<1>3. o.n_bits \in 0..15 /\ o.byte_size \in {4, 6, 8} /\ o.base64_count \in Int
  BY Width DEF Streams, W
<1>4. Emit(o, c) = [q EXCEPT !.n_bits = q.n_bits - o.byte_size, !.base64_count = Word(q.base64_count + 1)]
  <2>1. ~(o.n_bits < o.byte_size)
    BY <1>3
  <2> QED
    BY <2>1 DEF Emit, PutGroup
<1>5. q.n_bits = o.n_bits /\ q.base64_count = o.base64_count /\ q.byte_size = o.byte_size
      /\ q.bits = o.bits /\ q.mode = o.mode
  BY <1>2 DEF SameRegisters
<1>6. o.n_bits - o.byte_size \in 0..15 /\ Word(o.base64_count + 1) \in W
  BY <1>3, WordOf
<1> HIDE DEF q
<1>7. /\ Emit(o, c) \in Streams /\ SameText(q, Emit(o, c))
      /\ Emit(o, c).byte_size = o.byte_size /\ Emit(o, c).bits = o.bits
      /\ Emit(o, c).mode = o.mode /\ Emit(o, c).n_bits = o.n_bits - o.byte_size
      /\ Emit(o, c).base64_count = Word(o.base64_count + 1)
  <2> DEFINE n == o.n_bits - o.byte_size
             b == Word(o.base64_count + 1)
             e == Emit(o, c)
  <2>1. e = [q EXCEPT !.n_bits = n, !.base64_count = b] /\ n \in 0..15 /\ b \in W /\ q \in Streams
    BY <1>2, <1>4, <1>5, <1>6
  <2> HIDE DEF n, b, e
  <2>2. e \in Streams
    BY <2>1 DEF Streams
  <2>3. /\ SameText(q, e) /\ e.byte_size = q.byte_size /\ e.bits = q.bits /\ e.mode = q.mode
        /\ e.n_bits = n /\ e.base64_count = b
    BY <2>1 DEF Streams, SameText
  <2> QED
    BY <1>5, <2>2, <2>3 DEF n, b, e
<1> QED
  BY <1>7 DEF q

LEMMA EmitKeeps ==
  ASSUME NEW P, NEW C, Keeps(P, C), NEW o \in P, NEW c, Ready(o),
         o.byte_size = 8 /\ o.n_bits = 8 => o.bits % 256 \in C
  PROVE  /\ Emit(o, c) \in P
         /\ Emit(o, c).byte_size = o.byte_size /\ Emit(o, c).bits = o.bits
         /\ Emit(o, c).mode = o.mode
         /\ Emit(o, c).n_bits = o.n_bits - (IF o.n_bits < o.byte_size THEN 0 ELSE o.byte_size)
<1>1. o \in Streams /\ o.byte_size \in {4, 6, 8} /\ o.n_bits \in 0..15
  BY DEF Keeps, Streams
<1>2. CASE o.n_bits < o.byte_size
  BY <1>1, <1>2 DEF Emit
<1>3. CASE o.n_bits >= o.byte_size
  <2> DEFINE p == BreakLine(o, c)
             g == Glyph(o.byte_size, Group(o))
  <2>1. p \in P /\ p \in Streams /\ SameRegisters(o, p)
    BY BreakLineKeeps DEF Keeps
  <2>2. g \in C
    <3>1. o.byte_size = 8 => o.n_bits = 8
      BY <1>1, <1>3 DEF Ready
    <3> QED
      BY <1>1, <1>3, <3>1, GroupGlyph DEF Keeps
  <2>3. PutChar(p, g) \in P
    BY <2>1, <2>2 DEF Keeps
  <2>4. /\ Emit(o, c) \in Streams /\ SameText(PutChar(p, g), Emit(o, c))
        /\ Emit(o, c).byte_size = o.byte_size /\ Emit(o, c).bits = o.bits
        /\ Emit(o, c).mode = o.mode /\ Emit(o, c).n_bits = o.n_bits - o.byte_size
    BY <1>1, <1>3, <2>1, EmitIs
  <2> HIDE DEF p, g
  <2>5. Emit(o, c) \in P
    BY <2>3, <2>4 DEF Keeps
  <2> QED
    BY <1>1, <1>3, <2>4, <2>5
<1> QED
  BY <1>1, <1>2, <1>3

-----------------------------------------------------------------------------
(* var_put_char and its loops.                                             *)
Shifted(o, c) == [o EXCEPT !.bits = Word(o.bits * 256 + c), !.n_bits = o.n_bits + 8]

LEMMA LowOctet ==
  ASSUME NEW x \in Nat
  PROVE  Word(x) % 256 = x % 256
<1> DEFINE k == WordMod \div 65536
           q == x \div WordMod
           r == Word(x)
<1>1. k \in Nat /\ WordMod = 65536 * k
  BY OutputAssumption
<1>2. q \in Int /\ r \in Nat /\ x = WordMod * q + r
  BY Width DEF Word
<1> HIDE DEF k, q, r
<1>3. x = 65536 * (k * q) + r
  BY <1>1, <1>2
<1> DEFINE z == k * q
<1>4. z \in Int /\ x = 65536 * z + r
  BY <1>1, <1>2, <1>3
<1> HIDE DEF z
<1>5. r % 256 = x % 256
  BY <1>2, <1>4
<1> QED
  BY <1>5 DEF r

LEMMA ShiftedIs ==
  ASSUME NEW o \in Streams, Waiting(o), NEW c \in Octets
  PROVE  /\ Shifted(o, c) \in Streams /\ SameText(o, Shifted(o, c)) /\ Ready(Shifted(o, c))
         /\ Shifted(o, c).byte_size = o.byte_size /\ Shifted(o, c).mode = o.mode
         /\ Shifted(o, c).n_bits = o.n_bits + 8 /\ Shifted(o, c).bits % 256 = c
         /\ Shifted(o, c).base64_count = o.base64_count
<1>1. o.bits \in Nat /\ o.n_bits \in {0, 2, 4} /\ o.byte_size \in {4, 6, 8}
  BY Width DEF Streams, W, Waiting
<1> DEFINE x == o.bits * 256 + c
<1>2. x \in Nat /\ x % 256 = c
  BY <1>1 DEF Octets
<1> HIDE DEF x
<1>3. Word(x) \in W /\ Word(x) % 256 = c
  BY <1>2, WordOf, LowOctet
<1>4. Shifted(o, c) = [o EXCEPT !.bits = Word(x), !.n_bits = o.n_bits + 8]
  BY DEF Shifted, x
<1>5. /\ Shifted(o, c) \in Streams /\ SameText(o, Shifted(o, c))
      /\ Shifted(o, c).byte_size = o.byte_size /\ Shifted(o, c).mode = o.mode
      /\ Shifted(o, c).n_bits = o.n_bits + 8 /\ Shifted(o, c).bits = Word(x)
      /\ Shifted(o, c).base64_count = o.base64_count
  <2> DEFINE b == Word(x)
             n == o.n_bits + 8
             p == Shifted(o, c)
  <2>1. n \in 0..15 /\ b \in W /\ p = [o EXCEPT !.bits = b, !.n_bits = n]
    BY <1>1, <1>3, <1>4
  <2> HIDE DEF b, n, p
  <2>2. /\ p \in Streams /\ SameText(o, p) /\ p.bits = b /\ p.n_bits = n
        /\ p.byte_size = o.byte_size /\ p.mode = o.mode /\ p.base64_count = o.base64_count
    BY <2>1 DEF Streams, SameText
  <2> QED
    BY <2>2 DEF b, n, p
<1>6. Ready(Shifted(o, c))
  BY <1>1, <1>5 DEF Ready, Waiting
<1> QED
  BY <1>3, <1>5, <1>6

LEMMA VarPutCharKeeps ==
  ASSUME NEW P, NEW C, Keeps(P, C), NEW o \in P, Waiting(o), NEW c \in Octets,
         o.byte_size = 8 => c \in C
  PROVE  /\ VarPutChar(o, c) \in P /\ Waiting(VarPutChar(o, c))
         /\ VarPutChar(o, c).byte_size = o.byte_size /\ VarPutChar(o, c).mode = o.mode
<1> DEFINE p == Shifted(o, c)
           q == Emit(p, c)
<1>1. o \in Streams /\ o.byte_size \in {4, 6, 8} /\ o.n_bits \in 0..15
  BY DEF Keeps, Streams
<1>2. /\ p \in Streams /\ SameText(o, p) /\ Ready(p)
      /\ p.byte_size = o.byte_size /\ p.mode = o.mode
      /\ p.n_bits = o.n_bits + 8 /\ p.bits % 256 = c
  BY <1>1, ShiftedIs
<1>3. VarPutChar(o, c) = Emit(q, c)
  BY DEF VarPutChar, Shifted
<1> HIDE DEF p
<1>4. p \in P
  BY <1>2 DEF Keeps
<1>5. /\ q \in P /\ q.byte_size = o.byte_size /\ q.bits = p.bits /\ q.mode = o.mode
      /\ q.n_bits = o.n_bits + 8 - (IF o.n_bits + 8 < o.byte_size THEN 0 ELSE o.byte_size)
  <2>1. p.byte_size = 8 => p.bits % 256 \in C
    BY <1>2
  <2>2. /\ Emit(p, c) \in P /\ Emit(p, c).byte_size = p.byte_size /\ Emit(p, c).bits = p.bits
        /\ Emit(p, c).mode = p.mode
        /\ Emit(p, c).n_bits = p.n_bits - (IF p.n_bits < p.byte_size THEN 0 ELSE p.byte_size)
    BY <1>2, <1>4, <2>1, EmitKeeps
  <2> QED
    BY <1>1, <1>2, <2>2
<1> HIDE DEF q
<1>6. o.n_bits \in IF o.byte_size = 6 THEN {0, 2, 4} ELSE {0}
  BY DEF Waiting
<1>7. Ready(q)
  BY <1>1, <1>5, <1>6 DEF Ready
<1>8. /\ Emit(q, c) \in P /\ Emit(q, c).byte_size = o.byte_size /\ Emit(q, c).mode = o.mode
      /\ Emit(q, c).n_bits = q.n_bits - (IF q.n_bits < o.byte_size THEN 0 ELSE o.byte_size)
  BY <1>2, <1>5, <1>7, EmitKeeps
<1> QED
  BY <1>1, <1>3, <1>5, <1>6, <1>8 DEF Waiting

LEMMA VarPutAllIs == \A o, s : VarPutAll(o, s) = VarPuts!Fold(o, s)
BY DEF VarPutAll, VarPuts!Fold, FoldLeft, MapThenFoldSet, VarPuts!FoldLeft,
       VarPuts!MapThenFoldSet, Max, VarPuts!Max

LEMMA VarPutAllKeeps ==
  ASSUME NEW P, NEW C, Keeps(P, C), NEW o \in P, Waiting(o), NEW s \in Seq(Octets),
         o.byte_size = 8 => s \in Seq(C)
  PROVE  /\ VarPutAll(o, s) \in P /\ Waiting(VarPutAll(o, s))
         /\ VarPutAll(o, s).byte_size = o.byte_size /\ VarPutAll(o, s).mode = o.mode
<1> DEFINE Q == {p \in P : Waiting(p) /\ p.byte_size = o.byte_size /\ p.mode = o.mode}
           S == IF o.byte_size = 8 THEN C ELSE Octets
<1>1. \A p \in Q, c \in S : VarPutChar(p, c) \in Q
  <2> SUFFICES ASSUME NEW p \in Q, NEW c \in S PROVE VarPutChar(p, c) \in Q
    OBVIOUS
  <2>1. p \in P /\ Waiting(p) /\ c \in Octets /\ (p.byte_size = 8 => c \in C)
    BY DEF Keeps
  <2> QED
    BY <2>1, VarPutCharKeeps
<1>2. o \in Q /\ s \in Seq(S)
  OBVIOUS
<1> HIDE DEF Q, S
<1>3. VarPuts!Fold(o, s) \in Q
  BY <1>1, <1>2, VarPuts!FoldInvariant
<1> QED
  BY <1>3, VarPutAllIs DEF Q

-----------------------------------------------------------------------------
(* change_output_byte_size and flush.                                      *)
LEMMA ChangeKeeps ==
  ASSUME NEW P, NEW C, Keeps(P, C), NEW o \in P, NEW size \in {4, 6, 8}, NEW mode \in Modes,
         size = 8 \/ o.byte_size = 8
  PROVE  LET p == ChangeOutputByteSize(o, size, mode)
         IN /\ p \in P /\ p.byte_size = size /\ p.n_bits = 0 /\ p.mode = mode
            /\ p.base64_count = 0 /\ SameText(o, p)
<1> DEFINE p == ChangeOutputByteSize(o, size, mode)
<1>1. p = [o EXCEPT !.byte_size = size, !.n_bits = 0, !.bits = 0, !.base64_count = 0, !.mode = mode]
  BY DEF ChangeOutputByteSize
<1> DEFINE zero == 0
<1>2. o \in Streams /\ zero \in W /\ zero \in 0..15
  BY Width DEF Keeps, W
<1>3. p = [o EXCEPT !.byte_size = size, !.n_bits = zero, !.bits = zero, !.base64_count = zero, !.mode = mode]
  BY <1>1
<1> HIDE DEF p, zero
<1>4. /\ p \in Streams /\ p.byte_size = size /\ p.n_bits = zero /\ p.mode = mode
      /\ p.base64_count = zero /\ SameText(o, p)
  BY <1>2, <1>3 DEF Streams, SameText
<1>5. p \in P
  BY <1>4 DEF Keeps
<1> QED
  BY <1>4, <1>5 DEF p, zero

LEMMA LastDigit ==
  ASSUME NEW b \in Nat, NEW n \in {2, 4}
  PROVE  Base64Digit((b * 2^(6 - n)) % 64) \in Octets \ {NEWLINE}
<1>1. 2^4 = 16 /\ 2^2 = 4
  BY SMT
<1>2. \A v \in 0..63 : Base64Digit(v) \in Octets \ {NEWLINE}
  BY DEF Base64Digit, Octets, NEWLINE
<1>3. CASE n = 2
  <2>1. (b * 2^(6 - n)) % 64 = (b * 16) % 64 /\ (b * 16) % 64 \in 0..63
    BY <1>1, <1>3
  <2> QED
    BY <1>2, <2>1
<1>4. CASE n = 4
  <2>1. (b * 2^(6 - n)) % 64 = (b * 4) % 64 /\ (b * 4) % 64 \in 0..63
    BY <1>1, <1>4
  <2> QED
    BY <1>2, <2>1
<1> QED
  BY <1>3, <1>4

LEMMA FlushBitsKeeps ==
  ASSUME NEW P, NEW C, Keeps(P, C), NEW o \in P, Waiting(o)
  PROVE  LET p == FlushBits(o)
         IN /\ p \in P /\ p.byte_size = o.byte_size /\ p.n_bits = 0 /\ p.mode = o.mode
            /\ p.base64_count = IF o.n_bits = 0 THEN o.base64_count ELSE Word(o.base64_count + 1)
            /\ o.n_bits = 0 => p = o
            /\ o.n_bits # 0 => \E g \in Octets \ {NEWLINE} : SameText(PutChar(o, g), p)
<1>1. /\ o \in Streams /\ o.bits \in Nat /\ o.byte_size \in {4, 6, 8}
      /\ o.base64_count \in Int /\ Octets \ {NEWLINE} \subseteq C
  BY Width DEF Keeps, Streams, W
<1>2. CASE o.n_bits = 0
  BY <1>1, <1>2 DEF FlushBits
<1>3. CASE o.n_bits # 0
  <2> DEFINE p == FlushBits(o)
             g == Base64Digit((o.bits * 2^(6 - o.n_bits)) % 64)
             q == PutChar(o, g)
             count == Word(o.base64_count + 1)
  <2>1. o.byte_size = 6 /\ o.n_bits \in {2, 4}
    BY <1>3 DEF Waiting
  <2>2. g \in Octets \ {NEWLINE} /\ g \in C
    BY <1>1, <2>1, LastDigit
  <2> HIDE DEF g
  <2>3. q \in P /\ q \in Streams /\ SameRegisters(o, q)
    BY <1>1, <2>2, PutCharIs DEF Keeps
  <2> DEFINE zero == 0
  <2>4. p = [q EXCEPT !.n_bits = zero, !.base64_count = count]
    BY <1>3, <2>1, <2>3 DEF FlushBits, g, SameRegisters
  <2>7. count \in W /\ zero \in 0..15
    BY <1>1, WordOf
  <2> HIDE DEF p, q, count, zero
  <2>5. /\ p \in Streams /\ SameText(q, p) /\ p.byte_size = o.byte_size /\ p.n_bits = zero
        /\ p.mode = o.mode /\ p.base64_count = count
    BY <2>3, <2>4, <2>7 DEF Streams, SameText, SameRegisters
  <2>6. p \in P
    BY <2>3, <2>5 DEF Keeps
  <2> QED
    BY <1>3, <2>2, <2>5, <2>6 DEF p, q, count, zero
<1> QED
  BY <1>2, <1>3

Pads == INSTANCE Induction WITH Op <- Pad

LEMMA PadKeeps ==
  ASSUME NEW P, NEW C, Keeps(P, C), NEW o \in P, NEW i
  PROVE  LET q == IF AtLineEnd(o) THEN NewLine(o, o.mode) ELSE o
         IN /\ q \in P /\ SameRegisters(o, q) /\ SameText(PutChar(q, EQUALS), Pad(o, i))
            /\ Pad(o, i) \in P /\ Pad(o, i).byte_size = o.byte_size
            /\ Pad(o, i).n_bits = o.n_bits /\ Pad(o, i).mode = o.mode
            /\ Pad(o, i).base64_count = Word(o.base64_count + 1)
<1> DEFINE q == IF AtLineEnd(o) THEN NewLine(o, o.mode) ELSE o
           r == PutChar(q, EQUALS)
           p == Pad(o, i)
           count == Word(r.base64_count + 1)
<1>1. o \in Streams /\ o.mode \in Modes /\ EQUALS \in C /\ EQUALS \in Octets
  BY DEF Keeps, Streams, EQUALS, NEWLINE, Octets
<1>2. q \in P /\ SameRegisters(o, q)
  BY <1>1, NewLineKeeps DEF SameRegisters
<1>3. p = [r EXCEPT !.base64_count = count]
  BY DEF Pad
<1> HIDE DEF q
<1>4. r \in P /\ r \in Streams /\ SameRegisters(q, r)
  BY <1>1, <1>2, PutCharIs DEF Keeps
<1> HIDE DEF r
<1>5. count \in W
  <2>1. r.base64_count \in Int
    BY <1>4, Width DEF Streams, W
  <2> QED
    BY <2>1, WordOf
<1>6. count = Word(o.base64_count + 1)
  BY <1>2, <1>4 DEF SameRegisters
<1> HIDE DEF p, count
<1>7. /\ p \in Streams /\ SameText(r, p) /\ p.byte_size = o.byte_size
      /\ p.n_bits = o.n_bits /\ p.mode = o.mode /\ p.base64_count = count
  BY <1>2, <1>3, <1>4, <1>5 DEF Streams, SameText, SameRegisters
<1>8. p \in P
  BY <1>4, <1>7 DEF Keeps
<1> QED
  BY <1>2, <1>6, <1>7, <1>8 DEF q, r, p

Padding(o) == [i \in 1..((4 - (o.base64_count % 4)) % 4) |-> i]

LEMMA FlushIs ==
  ASSUME NEW o, NEW p, p = FlushBits(o)
  PROVE  /\ p.byte_size # 6 => Flush(o) = p
         /\ p.byte_size = 6 => Flush(o) = Pads!Fold(p, Padding(p))
BY DEF Flush, Padding, Pads!Fold, FoldLeft, MapThenFoldSet, Pads!FoldLeft,
       Pads!MapThenFoldSet, Max, Pads!Max

LEMMA PaddingType ==
  ASSUME NEW o \in Streams
  PROVE  Padding(o) \in Seq(Nat)
<1>1. (4 - (o.base64_count % 4)) % 4 \in Nat
  BY Width DEF Streams, W
<1> QED
  BY <1>1, IsASeq DEF Padding

LEMMA FlushKeeps ==
  ASSUME NEW P, NEW C, Keeps(P, C), NEW o \in P, Waiting(o)
  PROVE  Flush(o) \in P /\ Flush(o).byte_size = o.byte_size /\ Flush(o).n_bits = 0
<1> DEFINE p == FlushBits(o)
           Q == {q \in P : q.byte_size = o.byte_size /\ q.n_bits = 0}
<1>1. p \in Q /\ p \in P /\ p \in Streams
  BY FlushBitsKeeps DEF Keeps
<1>2. CASE p.byte_size # 6
  BY <1>1, <1>2, FlushIs
<1>3. CASE p.byte_size = 6
  <2>1. \A q \in Q, i \in Nat : Pad(q, i) \in Q
    BY PadKeeps
  <2>2. Flush(o) = Pads!Fold(p, Padding(p)) /\ Padding(p) \in Seq(Nat)
    BY <1>1, <1>3, FlushIs, PaddingType
  <2>3. \A q \in Q : q \in P /\ q.byte_size = o.byte_size /\ q.n_bits = 0
    OBVIOUS
  <2> HIDE DEF Q, p
  <2>4. Pads!Fold(p, Padding(p)) \in Q
    BY <1>1, <2>1, <2>2, Pads!FoldInvariant
  <2> QED
    BY <2>2, <2>3, <2>4
<1> QED
  BY <1>2, <1>3

-----------------------------------------------------------------------------
(* print_decimal.                                                          *)
DecimalStep(f, n) == IF n < 10 THEN <<48 + n>> ELSE Append(f[n \div 10], 48 + (n % 10))

Digits == INSTANCE Induction WITH Op <- DecimalStep

LEMMA DecimalIs == \A n \in Nat : Decimal[n] = DecimalStep(Decimal, n)
<1>1. Digits!Local
  <2> SUFFICES ASSUME NEW n \in Nat, NEW f, NEW g, \A i \in 0..(n - 1) : f[i] = g[i]
               PROVE  DecimalStep(f, n) = DecimalStep(g, n)
    BY DEF Digits!Local
  <2>1. n >= 10 => n \div 10 \in 0..(n - 1)
    OBVIOUS
  <2> QED
    BY <2>1 DEF DecimalStep
<1>2. Digits!Recursion = [n \in Nat |-> DecimalStep(Digits!Recursion, n)]
  BY <1>1, Digits!RecursionEquation
<1>3. Decimal = Digits!Recursion
  BY DEF Decimal, Digits!Recursion, DecimalStep
<1> QED
  BY <1>2, <1>3

LEMMA DecimalType == \A n \in Nat : Decimal[n] \in Seq(DecDigits)
<1> DEFINE S == {n \in Nat : \A i \in 0..n : Decimal[i] \in Seq(DecDigits)}
<1>1. ASSUME NEW n \in Nat, \A i \in 0..(n - 1) : Decimal[i] \in Seq(DecDigits)
      PROVE  Decimal[n] \in Seq(DecDigits)
  <2>0. Decimal[n] = DecimalStep(Decimal, n)
    BY DecimalIs
  <2>1. CASE n < 10
    <3>1. Decimal[n] = <<48 + n>>
      BY <2>0, <2>1 DEF DecimalStep
    <3>2. 48 + n \in DecDigits
      BY <2>1 DEF DecDigits
    <3> QED
      BY <3>1, <3>2
  <2>2. CASE n >= 10
    <3>1. n \div 10 \in 0..(n - 1) /\ 48 + (n % 10) \in DecDigits
      BY <2>2 DEF DecDigits
    <3>2. Decimal[n] = Append(Decimal[n \div 10], 48 + (n % 10))
      <4>1. ~(n < 10)
        BY <2>2
      <4> QED
        BY <2>0, <4>1 DEF DecimalStep
    <3> QED
      BY <1>1, <3>1, <3>2, AppendProperties
  <2> QED
    BY <2>1, <2>2
<1>2. 0 \in S
  BY <1>1
<1>3. ASSUME NEW n \in S PROVE n + 1 \in S
  <2>1. Decimal[n + 1] \in Seq(DecDigits)
    BY <1>1
  <2> QED
    BY <2>1
<1>4. S \subseteq Nat /\ \A n \in Nat : n \in S => Decimal[n] \in Seq(DecDigits)
  OBVIOUS
<1> HIDE DEF S
<1> QED
  BY <1>2, <1>3, <1>4, NatInd

(* The octets of the verbatim form.                                        *)
LEMMA VerbatimType ==
  ASSUME NEW C, Octets \ {NEWLINE} \subseteq C, C \subseteq Octets,
         NEW D, DecDigits \cup {COLON} \subseteq D, NEW s \in Seq(D)
  PROVE  Verbatim(s) \in Seq(D)
<1>1. Decimal[Len(s)] \in Seq(D)
  BY DecimalType, LenProperties, SeqMonotonic
<1>2. <<COLON>> \in Seq(D)
  OBVIOUS
<1> QED
  BY <1>1, <1>2, ConcatProperties DEF Verbatim

-----------------------------------------------------------------------------
(* Strings.  Between two strings no bits wait outside regions.             *)
Calm(o) == o.byte_size = 8 /\ o.n_bits = 0

(* The octets that the strings of an event hold, and its type.             *)
EventIn(e, D) == e.data \in Seq(D) /\ e.hint \in Seq(Seq(D))

LEMMA Brackets ==
  ASSUME NEW C, Octets \ {NEWLINE} \subseteq C
  PROVE  /\ {LPAREN, RPAREN, LBRACKET, RBRACKET, LBRACE, RBRACE, HASH, BAR, DQUOTE, BACKSLASH,
             SPACE, COLON} \subseteq C \cap Octets
         /\ DecDigits \cup {COLON} \subseteq C \cap Octets
         /\ TokenChars \cup {SPACE} \subseteq C
BY DEF LPAREN, RPAREN, LBRACKET, RBRACKET, LBRACE, RBRACE, HASH, BAR, DQUOTE, BACKSLASH,
       SPACE, COLON, NEWLINE, Octets, DecDigits, TokenChars, Upper, Lower, EQUALS

LEMMA VerbatimKeeps ==
  ASSUME NEW P, NEW C, Keeps(P, C), NEW o \in P, Waiting(o), NEW s \in Seq(Octets),
         o.byte_size = 8 => s \in Seq(C)
  PROVE  LET p == PrintCanonicalVerbatim(o, s)
         IN p \in P /\ Waiting(p) /\ p.byte_size = o.byte_size /\ p.mode = o.mode
<1>1. Octets \ {NEWLINE} \subseteq C /\ C \subseteq Octets
  BY DEF Keeps
<1>2. DecDigits \cup {COLON} \subseteq C /\ DecDigits \cup {COLON} \subseteq Octets
  BY <1>1, Brackets
<1>3. Verbatim(s) \in Seq(Octets) /\ (o.byte_size = 8 => Verbatim(s) \in Seq(C))
  BY <1>1, <1>2, VerbatimType
<1>4. PrintCanonicalVerbatim(o, s) = VarPutAll(o, Verbatim(s))
  BY DEF PrintCanonicalVerbatim, Verbatim
<1> QED
  BY <1>3, <1>4, VarPutAllKeeps

LEMMA CanonicalStringKeeps ==
  ASSUME NEW P, NEW C, Keeps(P, C), NEW o \in P, Waiting(o), NEW e, EventIn(e, Octets),
         o.byte_size = 8 => EventIn(e, C)
  PROVE  LET p == CanonicalString(o, e)
         IN p \in P /\ Waiting(p) /\ p.byte_size = o.byte_size /\ p.mode = o.mode
<1>1. {LBRACKET, RBRACKET} \subseteq C \cap Octets
  BY Brackets DEF Keeps
<1>2. e.data \in Seq(Octets) /\ (o.byte_size = 8 => e.data \in Seq(C))
  BY DEF EventIn
<1>3. CASE e.hint = <<>>
  BY <1>2, <1>3, VerbatimKeeps DEF CanonicalString
<1>4. CASE e.hint # <<>>
  <2>1. e.hint[1] \in Seq(Octets) /\ (o.byte_size = 8 => e.hint[1] \in Seq(C))
    BY <1>4, EmptySeq, ElementOfSeq, LenProperties DEF EventIn
  <2> DEFINE p1 == VarPutChar(o, LBRACKET)
             p2 == PrintCanonicalVerbatim(p1, e.hint[1])
             p3 == VarPutChar(p2, RBRACKET)
  <2>2. CanonicalString(o, e) = PrintCanonicalVerbatim(p3, e.data)
    BY <1>4 DEF CanonicalString
  <2>3. p1 \in P /\ Waiting(p1) /\ p1.byte_size = o.byte_size /\ p1.mode = o.mode
    BY <1>1, VarPutCharKeeps
  <2> HIDE DEF p1
  <2>4. p2 \in P /\ Waiting(p2) /\ p2.byte_size = o.byte_size /\ p2.mode = o.mode
    BY <2>1, <2>3, VerbatimKeeps
  <2> HIDE DEF p2
  <2>5. p3 \in P /\ Waiting(p3) /\ p3.byte_size = o.byte_size /\ p3.mode = o.mode
    BY <1>1, <2>4, VarPutCharKeeps
  <2> HIDE DEF p3
  <2> QED
    BY <1>2, <2>2, <2>5, VerbatimKeeps
<1> QED
  BY <1>3, <1>4

-----------------------------------------------------------------------------
(* The four advanced representations.                                      *)
Quotes == INSTANCE Induction WITH Op <- QuotedOctet

LEMMA PutCharKeeps ==
  ASSUME NEW P, NEW C, Keeps(P, C), NEW o \in P, NEW c \in C
  PROVE  PutChar(o, c) \in P /\ SameRegisters(o, PutChar(o, c))
BY PutCharIs DEF Keeps

LEMMA SeqOverSet ==
  ASSUME NEW S, NEW s \in Seq(S), NEW D, ToSet(s) \subseteq D
  PROVE  s \in Seq(D)
<1>1. Len(s) \in Nat /\ DOMAIN s = 1..Len(s) /\ s = [i \in 1..Len(s) |-> s[i]]
  BY LenProperties, SeqDef
<1>2. \A i \in 1..Len(s) : s[i] \in D
  BY <1>1 DEF ToSet
<1>3. [i \in 1..Len(s) |-> s[i]] \in Seq(D)
  BY <1>1, <1>2, IsASeq
<1> QED
  BY <1>1, <1>3

LEMMA TokenKeeps ==
  ASSUME NEW P, NEW C, Keeps(P, C), NEW o \in P, NEW s \in Seq(C)
  PROVE  PrintToken(o, s) \in P /\ SameRegisters(o, PrintToken(o, s))
<1> DEFINE q == NewLine(o, "advanced")
           near == o.max_column >= Len(s) /\ o.column > o.max_column - Len(s)
           p == IF o.max_column > 0 /\ near THEN q ELSE o
<1>1. "advanced" \in Modes
  BY DEF Modes
<1>2. q \in P /\ SameRegisters(o, q)
  BY <1>1, NewLineKeeps
<1>3. p \in P /\ SameRegisters(o, p)
  BY <1>2 DEF SameRegisters
<1>4. PrintToken(o, s) = PutAll(p, s)
  BY DEF PrintToken
<1> HIDE DEF p
<1>5. PutAll(p, s) \in P /\ SameRegisters(p, PutAll(p, s))
  BY <1>3, PutAllKeeps
<1> QED
  BY <1>3, <1>4, <1>5 DEF SameRegisters

(* The line break within a quoted string.                                  *)
LEMMA QuotedBreak ==
  ASSUME NEW o
  PROVE  [PutAll(o, <<BACKSLASH, NEWLINE>>) EXCEPT !.column = 0] = Fresh(PutChar(o, BACKSLASH))
<1> DEFINE S == {BACKSLASH, NEWLINE}
           one == Append(<<>>, BACKSLASH)
<1>1. <<>> \in Seq(S) /\ one \in Seq(S) /\ BACKSLASH \in S /\ NEWLINE \in S
  BY EmptySeq, AppendProperties
<1>2. <<BACKSLASH, NEWLINE>> = Append(one, NEWLINE)
  OBVIOUS
<1> HIDE DEF one, S
<1>3. Puts!Fold(o, Append(one, NEWLINE)) = PutChar(Puts!Fold(o, one), NEWLINE)
  BY <1>1, Puts!FoldAppend
<1>4. Puts!Fold(o, Append(<<>>, BACKSLASH)) = PutChar(Puts!Fold(o, <<>>), BACKSLASH)
  BY <1>1, Puts!FoldAppend
<1>5. Puts!Fold(o, <<>>) = o
  BY Puts!FoldEmpty
<1>6. PutAll(o, <<BACKSLASH, NEWLINE>>) = Puts!Fold(o, <<BACKSLASH, NEWLINE>>)
  BY DEF PutAll, Puts!Fold, FoldLeft, MapThenFoldSet, Puts!FoldLeft, Puts!MapThenFoldSet, Max, Puts!Max
<1>7. PutAll(o, <<BACKSLASH, NEWLINE>>) = PutChar(PutChar(o, BACKSLASH), NEWLINE)
  BY <1>2, <1>3, <1>4, <1>5, <1>6 DEF one
<1> QED
  BY <1>7 DEF Fresh

LEMMA QuotedOctetKeeps ==
  ASSUME NEW P, NEW C, Keeps(P, C), NEW o \in P, NEW c \in C
  PROVE  QuotedOctet(o, c) \in P /\ SameRegisters(o, QuotedOctet(o, c))
<1> DEFINE b == PutChar(o, BACKSLASH)
           p == IF o.max_column > 0 /\ o.column >= Word(o.max_column - 2) THEN Fresh(b) ELSE o
<1>1. QuotedOctet(o, c) = PutChar(p, c)
  BY QuotedBreak DEF QuotedOctet
<1>2. BACKSLASH \in C
  BY Brackets DEF Keeps
<1>3. b \in P /\ SameRegisters(o, b)
  BY <1>2, PutCharKeeps
<1> HIDE DEF b
<1>4. Fresh(b) \in P /\ SameRegisters(b, Fresh(b))
  BY <1>3, FreshIs DEF Keeps
<1>5. p \in P /\ SameRegisters(o, p)
  BY <1>3, <1>4 DEF SameRegisters
<1> HIDE DEF p
<1>6. PutChar(p, c) \in P /\ SameRegisters(p, PutChar(p, c))
  BY <1>5, PutCharKeeps
<1> QED
  BY <1>1, <1>5, <1>6 DEF SameRegisters

LEMMA QuotedKeeps ==
  ASSUME NEW P, NEW C, Keeps(P, C), NEW o \in P, NEW s \in Seq(C)
  PROVE  PrintQuoted(o, s) \in P /\ SameRegisters(o, PrintQuoted(o, s))
<1> DEFINE b == PutChar(o, DQUOTE)
           Q == {p \in P : SameRegisters(o, p)}
           t == FoldLeft(QuotedOctet, b, s)
<1>1. DQUOTE \in C
  BY Brackets DEF Keeps
<1>2. b \in Q
  BY <1>1, PutCharKeeps
<1>3. \A p \in Q, c \in C : QuotedOctet(p, c) \in Q
  BY QuotedOctetKeeps DEF SameRegisters
<1>4. \A p \in Q : p \in P /\ SameRegisters(o, p)
  OBVIOUS
<1>5. t = Quotes!Fold(b, s)
  BY DEF Quotes!Fold, FoldLeft, MapThenFoldSet, Quotes!FoldLeft, Quotes!MapThenFoldSet, Max, Quotes!Max
<1>6. PrintQuoted(o, s) = PutChar(t, DQUOTE)
  BY DEF PrintQuoted
<1> HIDE DEF b, Q, t
<1>7. t \in Q
  BY <1>2, <1>3, <1>5, Quotes!FoldInvariant
<1>8. PutChar(t, DQUOTE) \in P /\ SameRegisters(t, PutChar(t, DQUOTE))
  BY <1>1, <1>4, <1>7, PutCharKeeps
<1> QED
  BY <1>4, <1>6, <1>7, <1>8 DEF SameRegisters

LEMMA HexadecimalKeeps ==
  ASSUME NEW P, NEW C, Keeps(P, C), NEW o \in P, Calm(o), NEW s \in Seq(Octets)
  PROVE  PrintHexadecimal(o, s) \in P /\ Calm(PrintHexadecimal(o, s))
<1> DEFINE p1 == PutChar(o, HASH)
           p2 == ChangeOutputByteSize(p1, 4, "advanced")
           p3 == VarPutAll(p2, s)
           p4 == Flush(p3)
           p5 == ChangeOutputByteSize(p4, 8, "advanced")
<1>1. PrintHexadecimal(o, s) = PutChar(p5, HASH)
  BY DEF PrintHexadecimal
<1>2. HASH \in C /\ "advanced" \in Modes /\ 4 \in {4, 6, 8} /\ 8 \in {4, 6, 8}
  BY Brackets DEF Keeps, Modes
<1>3. p1 \in P /\ p1.byte_size = 8
  BY <1>2, PutCharKeeps DEF Calm, SameRegisters
<1> HIDE DEF p1
<1>4. p2 \in P /\ p2.byte_size = 4 /\ Waiting(p2)
  BY <1>2, <1>3, ChangeKeeps DEF Waiting
<1> HIDE DEF p2
<1>5. p3 \in P /\ Waiting(p3)
  BY <1>4, VarPutAllKeeps
<1> HIDE DEF p3
<1>6. p4 \in P
  BY <1>5, FlushKeeps
<1> HIDE DEF p4
<1>7. p5 \in P /\ p5.byte_size = 8 /\ p5.n_bits = 0
  BY <1>2, <1>6, ChangeKeeps
<1> HIDE DEF p5
<1> QED
  BY <1>1, <1>2, <1>7, PutCharKeeps DEF Calm, SameRegisters

LEMMA Base64Keeps ==
  ASSUME NEW P, NEW C, Keeps(P, C), NEW o \in P, Calm(o), NEW s \in Seq(Octets)
  PROVE  PrintBase64(o, s) \in P /\ Calm(PrintBase64(o, s))
<1> DEFINE p1 == VarPutChar(o, BAR)
           p2 == ChangeOutputByteSize(p1, 6, "advanced")
           p3 == VarPutAll(p2, s)
           p4 == Flush(p3)
           p5 == ChangeOutputByteSize(p4, 8, "advanced")
<1>1. PrintBase64(o, s) = VarPutChar(p5, BAR)
  BY DEF PrintBase64
<1>2. BAR \in C /\ BAR \in Octets /\ "advanced" \in Modes /\ 6 \in {4, 6, 8} /\ 8 \in {4, 6, 8}
  BY Brackets DEF Keeps, Modes
<1>3. p1 \in P /\ p1.byte_size = 8
  BY <1>2, VarPutCharKeeps DEF Calm, Waiting
<1> HIDE DEF p1
<1>4. p2 \in P /\ p2.byte_size = 6 /\ Waiting(p2)
  BY <1>2, <1>3, ChangeKeeps DEF Waiting
<1> HIDE DEF p2
<1>5. p3 \in P /\ Waiting(p3)
  BY <1>4, VarPutAllKeeps
<1> HIDE DEF p3
<1>6. p4 \in P
  BY <1>5, FlushKeeps
<1> HIDE DEF p4
<1>7. p5 \in P /\ p5.byte_size = 8 /\ p5.n_bits = 0
  BY <1>2, <1>6, ChangeKeeps
<1> HIDE DEF p5
<1> QED
  BY <1>1, <1>2, <1>7, VarPutCharKeeps DEF Calm, Waiting

LEMMA PrintAdvancedKeeps ==
  ASSUME NEW P, NEW C, Keeps(P, C), NEW o \in P, Calm(o), NEW s \in Seq(Octets)
  PROVE  PrintAdvanced(o, s) \in P /\ Calm(PrintAdvanced(o, s))
<1>1. CanPrintAsToken(o, s) => CanPrintAsQuotedString(s)
  BY DEF CanPrintAsToken, CanPrintAsQuotedString
<1>2. CanPrintAsQuotedString(s) => s \in Seq(C)
  <2>1. TokenChars \cup {SPACE} \subseteq C
    BY Brackets DEF Keeps
  <2> QED
    BY <2>1, SeqOverSet DEF CanPrintAsQuotedString
<1>3. CASE CanPrintAsToken(o, s)
  <2>1. PrintAdvanced(o, s) = PrintToken(o, s)
    BY <1>1, <1>3 DEF PrintAdvanced
  <2> QED
    BY <1>1, <1>2, <1>3, <2>1, TokenKeeps DEF Calm, SameRegisters
<1>4. CASE ~CanPrintAsToken(o, s) /\ CanPrintAsQuotedString(s)
  <2>1. PrintAdvanced(o, s) = PrintQuoted(o, s)
    BY <1>4 DEF PrintAdvanced
  <2> QED
    BY <1>2, <1>4, <2>1, QuotedKeeps DEF Calm, SameRegisters
<1>5. CASE ~CanPrintAsQuotedString(s)
  <2>1. PrintAdvanced(o, s) = IF Len(s) <= 4 THEN PrintHexadecimal(o, s) ELSE PrintBase64(o, s)
    BY <1>1, <1>5 DEF PrintAdvanced, Calm
  <2> QED
    BY <2>1, HexadecimalKeeps, Base64Keeps
<1> QED
  BY <1>1, <1>3, <1>4, <1>5

LEMMA AdvancedStringKeeps ==
  ASSUME NEW P, NEW C, Keeps(P, C), NEW o \in P, Calm(o), NEW e, EventIn(e, Octets)
  PROVE  AdvancedString(o, e) \in P /\ Calm(AdvancedString(o, e))
<1>1. e.data \in Seq(Octets) /\ LBRACKET \in C /\ RBRACKET \in C
  BY Brackets DEF EventIn, Keeps
<1>2. CASE e.hint = <<>>
  BY <1>1, <1>2, PrintAdvancedKeeps DEF AdvancedString
<1>3. CASE e.hint # <<>>
  <2>1. e.hint[1] \in Seq(Octets)
    BY <1>3, EmptySeq, ElementOfSeq, LenProperties DEF EventIn
  <2> DEFINE p1 == PutChar(o, LBRACKET)
             p2 == PrintAdvanced(p1, e.hint[1])
             p3 == PutChar(p2, RBRACKET)
  <2>2. AdvancedString(o, e) = PrintAdvanced(p3, e.data)
    BY <1>3 DEF AdvancedString
  <2>3. p1 \in P /\ Calm(p1)
    BY <1>1, PutCharKeeps DEF Calm, SameRegisters
  <2> HIDE DEF p1
  <2>4. p2 \in P /\ Calm(p2)
    BY <2>1, <2>3, PrintAdvancedKeeps
  <2> HIDE DEF p2
  <2>5. p3 \in P /\ Calm(p3)
    BY <1>1, <2>4, PutCharKeeps DEF Calm, SameRegisters
  <2> HIDE DEF p3
  <2> QED
    BY <1>1, <2>2, <2>5, PrintAdvancedKeeps
<1> QED
  BY <1>2, <1>3

-----------------------------------------------------------------------------
(* Where the lines of an output begin, and that a stream's column is the   *)
(* distance to such a place.                                               *)
Lines(out) == {0} \cup {i \in DOMAIN out : out[i] = NEWLINE}

Tracks(o) ==
  \E start \in Lines(o.out) :
    /\ o.column = Word(Len(o.out) - start)
    /\ NoLineFeeds => \A other \in Lines(o.out) : other <= start

Plain == IF NoLineFeeds THEN Octets \ {NEWLINE} ELSE Octets

LEMMA LinesOfAppend ==
  ASSUME NEW out \in Seq(Octets), NEW c \in Octets
  PROVE  /\ Lines(out) \subseteq 0..Len(out) /\ Len(out) \in Nat
         /\ Len(Append(out, c)) = Len(out) + 1
         /\ Lines(Append(out, c)) = Lines(out) \cup (IF c = NEWLINE THEN {Len(out) + 1} ELSE {})
<1> DEFINE t == Append(out, c)
           n == Len(out)
<1>1. /\ n \in Nat /\ DOMAIN out = 1..n /\ Len(t) = n + 1 /\ DOMAIN t = 1..(n + 1)
      /\ t[n + 1] = c /\ \A i \in 1..n : t[i] = out[i]
  BY LenProperties, AppendProperties
<1> HIDE DEF t, n
<1>2. Lines(out) = {0} \cup {i \in 1..n : out[i] = NEWLINE}
  BY <1>1 DEF Lines
<1>3. Lines(t) = {0} \cup {i \in 1..(n + 1) : t[i] = NEWLINE}
  BY <1>1 DEF Lines
<1>4. {i \in 1..(n + 1) : t[i] = NEWLINE}
        = {i \in 1..n : out[i] = NEWLINE} \cup (IF c = NEWLINE THEN {n + 1} ELSE {})
  BY <1>1
<1>5. Lines(t) = Lines(out) \cup (IF c = NEWLINE THEN {n + 1} ELSE {})
  BY <1>2, <1>3, <1>4
<1> QED
  BY <1>1, <1>2, <1>5 DEF t, n

LEMMA PutCharTracks ==
  ASSUME NEW o \in Streams, Tracks(o), NEW c \in Plain
  PROVE  Tracks(PutChar(o, c))
<1> DEFINE p == PutChar(o, c)
           n == Len(o.out)
<1>1. c \in Octets /\ (NoLineFeeds => c # NEWLINE) /\ o.out \in Seq(Octets)
  BY DEF Plain, Streams
<1>2. p.out = Append(o.out, c) /\ p.column = Word(o.column + 1)
  BY <1>1, PutCharIs
<1>3. /\ Lines(o.out) \subseteq 0..n /\ n \in Nat /\ Len(p.out) = n + 1
      /\ Lines(o.out) \subseteq Lines(p.out)
      /\ NoLineFeeds => Lines(p.out) = Lines(o.out)
  BY <1>1, <1>2, LinesOfAppend
<1>4. PICK start \in Lines(o.out) :
        /\ o.column = Word(n - start)
        /\ NoLineFeeds => \A other \in Lines(o.out) : other <= start
  BY DEF Tracks
<1> HIDE DEF p, n
<1>5. start \in Int /\ n - start \in Int /\ (n - start) + 1 = (n + 1) - start
  BY <1>3
<1>6. p.column = Word((n + 1) - start)
  BY <1>2, <1>4, <1>5, WordSum
<1>7. Tracks(p)
  BY <1>3, <1>4, <1>6 DEF Tracks
<1> QED
  BY <1>7 DEF p

LEMMA FreshTracks ==
  ASSUME NEW o \in Streams
  PROVE  Tracks(Fresh(o))
<1> DEFINE p == Fresh(o)
           n == Len(o.out)
<1>1. NEWLINE \in Octets /\ o.out \in Seq(Octets)
  BY DEF NEWLINE, Octets, Streams
<1>2. p.out = Append(o.out, NEWLINE) /\ p.column = 0
  BY FreshIs
<1>3. /\ Lines(o.out) \subseteq 0..n /\ n \in Nat /\ Len(p.out) = n + 1
      /\ Lines(p.out) = Lines(o.out) \cup {n + 1}
  BY <1>1, <1>2, LinesOfAppend
<1> HIDE DEF p, n
<1>4. p.column = Word((n + 1) - (n + 1))
  <2>1. Word(0) = 0
    BY WordOf, Width DEF W
  <2> QED
    BY <1>2, <1>3, <2>1
<1>5. n + 1 \in Lines(p.out) /\ \A other \in Lines(p.out) : other <= n + 1
  BY <1>3
<1>6. Tracks(p)
  BY <1>3, <1>4, <1>5 DEF Tracks
<1> QED
  BY <1>6 DEF p

(* The streams that can be reached from o by writing. *)
From(o) ==
  {p \in Streams : /\ Tracks(p) /\ p.max_column = o.max_column /\ p.indent = o.indent
                   /\ p.depth = o.depth /\ p.failed = o.failed}

LEMMA FromKeeps ==
  ASSUME NEW o
  PROVE  Keeps(From(o), Plain)
<1>1. From(o) \subseteq Streams
  BY DEF From
<1>2. Octets \ {NEWLINE} \subseteq Plain /\ Plain \subseteq Octets
  BY DEF Plain
<1>3. ASSUME NEW p \in From(o)
      PROVE  Fresh(p) \in From(o) /\ \A c \in Plain : PutChar(p, c) \in From(o)
  <2>1. p \in Streams /\ Tracks(p)
    BY DEF From
  <2>2. Fresh(p) \in From(o)
    BY <2>1, FreshIs, FreshTracks DEF From
  <2>3. ASSUME NEW c \in Plain PROVE PutChar(p, c) \in From(o)
    BY <1>2, <2>1, PutCharIs, PutCharTracks DEF From
  <2> QED
    BY <2>2, <2>3
<1>4. ASSUME NEW p \in From(o), NEW q \in Streams, SameText(p, q) PROVE q \in From(o)
  BY <1>4 DEF From, SameText, Tracks
<1> QED
  BY <1>1, <1>2, <1>3, <1>4 DEF Keeps

-----------------------------------------------------------------------------
(* What is still to print is the end of the object.                        *)
Suffix(t, s) == Len(t) <= Len(s) /\ \A i \in 1..Len(t) : t[i] = s[Len(s) - Len(t) + i]

LEMMA SuffixStep ==
  ASSUME NEW S, NEW s \in Seq(S), NEW t \in Seq(S), Suffix(t, s), t # <<>>
  PROVE  LET k == Len(s) - Len(t)
         IN /\ Head(t) \in S /\ Tail(t) \in Seq(S) /\ Suffix(Tail(t), s) /\ k \in Nat
            /\ k + 1 \in 1..Len(s) /\ Head(t) = s[k + 1] /\ Len(s) - Len(Tail(t)) = k + 1
            /\ SubSeq(s, 1, k) \in Seq(S)
            /\ SubSeq(s, 1, k + 1) = Append(SubSeq(s, 1, k), Head(t))
<1> DEFINE k == Len(s) - Len(t)
           u == Tail(t)
<1>1. Len(s) \in Nat /\ Len(t) \in Nat /\ Len(t) > 0
  BY LenProperties, EmptySeq
<1>2. /\ Head(t) = t[1] /\ Head(t) \in S /\ u \in Seq(S) /\ Len(u) = Len(t) - 1
      /\ \A i \in 1..Len(u) : u[i] = t[i + 1]
  BY HeadTailProperties
<1> HIDE DEF u
<1>3. k \in Nat /\ k + 1 \in 1..Len(s) /\ Head(t) = s[k + 1] /\ Len(s) - Len(u) = k + 1
  BY <1>1, <1>2 DEF Suffix
<1>4. Suffix(u, s)
  <2> SUFFICES ASSUME NEW i \in 1..Len(u) PROVE u[i] = s[Len(s) - Len(u) + i]
    BY <1>1, <1>2 DEF Suffix
  <2>1. i + 1 \in 1..Len(t) /\ u[i] = t[i + 1]
    BY <1>1, <1>2
  <2>2. t[i + 1] = s[Len(s) - Len(t) + (i + 1)]
    BY <2>1 DEF Suffix
  <2> QED
    BY <1>1, <1>2, <2>1, <2>2
<1>5. SubSeq(s, 1, k + 1) = Append(SubSeq(s, 1, k), s[k + 1]) /\ SubSeq(s, 1, k) \in Seq(S)
  <2>1. \A i \in 1..Len(s) : s[i] \in S
    BY ElementOfSeq
  <2> DEFINE a == SubSeq(s, 1, k)
             b == SubSeq(s, 1, k + 1)
  <2> HIDE DEF k
  <2>2. /\ a \in Seq(S) /\ Len(a) = k /\ \A i \in 1..k : a[i] = s[i]
        /\ b \in Seq(S) /\ Len(b) = k + 1 /\ \A i \in 1..(k + 1) : b[i] = s[i]
    BY <1>1, <1>3, <2>1, SubSeqProperties
  <2>3. /\ Append(a, s[k + 1]) \in Seq(S) /\ Len(Append(a, s[k + 1])) = k + 1
        /\ \A i \in 1..k : Append(a, s[k + 1])[i] = a[i]
        /\ Append(a, s[k + 1])[k + 1] = s[k + 1]
    BY <1>3, <2>1, <2>2, AppendProperties
  <2>4. b = Append(a, s[k + 1])
    BY <1>3, <2>2, <2>3, SeqEqual
  <2> QED
    BY <2>2, <2>4
<1> QED
  BY <1>2, <1>3, <1>4, <1>5 DEF u

-----------------------------------------------------------------------------
(* The inductive invariant.  Outside its region the stream writes whole    *)
(* octets, so no change of byte size fails and no flush finds bits; every  *)
(* object is printed from a depth within the limit.                        *)
StreamInv ==
  /\ os \in Streams /\ Tracks(os) /\ Waiting(os)
  /\ os.byte_size = IF job = "base64" THEN 6 ELSE 8
  /\ OnlyDepthFails

TraversalInv ==
  /\ job \in Kinds \cup {"idle"} /\ object \in Trees \cup {<<>>}
  /\ todo \in Seq(Events) /\ Suffix(todo, object)
  /\ job = "idle" => todo = <<>>
  /\ job # "idle" => began.kind = job
  /\ frames \in Seq([vertical : BOOLEAN, first : BOOLEAN])

DepthInv ==
  /\ began.depth \in W
  /\ MaxDepth # 0 /\ ~os.failed => os.depth <= MaxDepth
  /\ CanonicalDepthIsNesting

SInv == StreamInv /\ TraversalInv /\ DepthInv

LEMMA ObjectType ==
  ASSUME TraversalInv
  PROVE  /\ object \in Seq(Events)
         /\ object # <<>> => object \in Trees /\ IsObject(object)
BY PrinterAssumption, EmptySeq DEF TraversalInv

LEMMA KindsType == Kinds \subseteq Modes /\ "idle" \notin Kinds
BY PrinterAssumption DEF Modes

LEMMA EventKinds ==
  ASSUME NEW e \in Events
  PROVE  /\ e.kind = "open" => e = Opened
         /\ e.kind = "close" => e = Closed
         /\ e.kind = "string" => e \notin {Opened, Closed} /\ EventIn(e, Octets)
         /\ e.kind \in {"open", "close", "string"}
<1>1. CASE e = Opened
  BY <1>1 DEF Opened
<1>2. CASE e = Closed
  BY <1>2 DEF Closed
<1>3. CASE e \in [kind : {"string"}, hint : Seq(Seq(Octets)), data : Seq(Octets)]
  BY <1>3 DEF Opened, Closed, EventIn
<1> QED
  BY <1>1, <1>2, <1>3 DEF Events

LEMMA SeqElements ==
  ASSUME NEW S, NEW s \in Seq(S)
  PROVE  ToSet(s) \subseteq S
BY ElementOfSeq, LenProperties DEF ToSet

LEMMA PlainEvent ==
  ASSUME TraversalInv, "canonical" \in Kinds, object \in Trees, NEW e \in ToSet(object), e \in Events,
         e.kind = "string"
  PROVE  EventIn(e, Plain)
<1>1. EventIn(e, Octets) /\ e \notin {Opened, Closed}
  BY EventKinds
<1>2. CASE ~NoLineFeeds
  BY <1>1, <1>2 DEF Plain
<1>3. CASE NoLineFeeds
  <2>1. \A text \in {e.data} \cup ToSet(e.hint) : NEWLINE \notin ToSet(text)
    BY <1>1, <1>3 DEF NoLineFeeds
  <2>2. ASSUME NEW text \in Seq(Octets), NEWLINE \notin ToSet(text) PROVE text \in Seq(Plain)
    <3>1. ToSet(text) \subseteq Plain
      BY <1>3, <2>2, SeqElements DEF Plain
    <3> QED
      BY <3>1, SeqOverSet
  <2>3. e.data \in Seq(Plain)
    BY <1>1, <2>1, <2>2 DEF EventIn
  <2>4. ToSet(e.hint) \subseteq Seq(Plain)
    <3>1. ToSet(e.hint) \subseteq Seq(Octets)
      BY <1>1, SeqElements DEF EventIn
    <3> QED
      BY <2>1, <2>2, <3>1
  <2>5. e.hint \in Seq(Seq(Plain))
    BY <1>1, <2>4, SeqOverSet DEF EventIn
  <2> QED
    BY <2>3, <2>5 DEF EventIn
<1> QED
  BY <1>2, <1>3

(* The event that a step prints.                                           *)
LEMMA PrintingStep ==
  ASSUME TraversalInv, NEW kinds, NEW event, Printing(kinds, event)
  PROVE  LET k == Len(object) - Len(todo)
         IN /\ Head(todo) \in Events /\ Head(todo).kind = event
            /\ object \in Trees /\ IsObject(object) /\ Head(todo) \in ToSet(object)
            /\ todo' \in Seq(Events) /\ Suffix(todo', object')
            /\ k \in Nat /\ k + 1 \in 1..Len(object) /\ Len(object') - Len(todo') = k + 1
            /\ SubSeq(object, 1, k) \in Seq(Events)
            /\ SubSeq(object, 1, k + 1) = Append(SubSeq(object, 1, k), Head(todo))
            /\ job \in kinds /\ job \in Kinds /\ ~os.failed /\ todo # <<>>
            /\ job' = job /\ object' = object /\ began' = began /\ began.kind = job
<1>1. /\ object \in Seq(Events) /\ todo \in Seq(Events) /\ Suffix(todo, object) /\ todo # <<>>
      /\ todo' = Tail(todo) /\ object' = object /\ job' = job /\ began' = began
      /\ Head(todo).kind = event /\ job \in kinds /\ ~os.failed
  BY ObjectType DEF TraversalInv, Printing
<1> DEFINE k == Len(object) - Len(todo)
<1>2. /\ Head(todo) \in Events /\ Tail(todo) \in Seq(Events) /\ Suffix(Tail(todo), object)
      /\ k \in Nat /\ k + 1 \in 1..Len(object) /\ Head(todo) = object[k + 1]
      /\ Len(object) - Len(Tail(todo)) = k + 1
      /\ SubSeq(object, 1, k) \in Seq(Events)
      /\ SubSeq(object, 1, k + 1) = Append(SubSeq(object, 1, k), Head(todo))
  BY <1>1, SuffixStep
<1> HIDE DEF k
<1>3. object # <<>> /\ Head(todo) \in ToSet(object)
  BY <1>1, <1>2, LenProperties DEF ToSet
<1>4. object \in Trees /\ IsObject(object)
  BY <1>3, ObjectType
<1>5. job \in Kinds /\ began.kind = job
  BY <1>1 DEF TraversalInv
<1> QED
  BY <1>1, <1>2, <1>3, <1>4, <1>5 DEF k

(* The lists that are open after an event.                                 *)
LEMMA OpenListsStep ==
  ASSUME TraversalInv, NEW kinds, NEW event, Printing(kinds, event)
  PROVE  /\ OpenLists \in Int /\ OpenLists' \in Nat
         /\ event = "open" => OpenLists' = OpenLists + 1
         /\ event = "close" => OpenLists' = OpenLists - 1
         /\ event = "string" => OpenLists' = OpenLists
<1> DEFINE k == Len(object) - Len(todo)
           e == Head(todo)
           s == SubSeq(object, 1, k)
           t == SubSeq(object, 1, k + 1)
<1>1. /\ e \in Events /\ e.kind = event /\ IsObject(object) /\ k \in Nat /\ k + 1 \in 1..Len(object)
      /\ Len(object') - Len(todo') = k + 1 /\ object' = object
      /\ s \in Seq(Events) /\ t = Append(s, e)
  BY PrintingStep
<1>2. OpenLists = Unclosed(s) /\ OpenLists' = Unclosed(t)
  BY <1>1 DEF OpenLists
<1>3. object \in Seq(Events) /\ Len(object) \in Nat
  BY ObjectType, LenProperties
<1>4. Unclosed(t) >= 0 /\ Unclosed(t) \in Int
  <2>1. Unclosed(t) \in Int
    BY <1>1, UnclosedAppend, AppendProperties
  <2>2. CASE k + 1 \in 1..(Len(object) - 1)
    <3>1. Unclosed(t) > 0
      BY <1>1, <2>2 DEF IsObject
    <3> QED
      BY <2>1, <3>1
  <2>3. CASE k + 1 = Len(object)
    <3>1. t = object
      BY <1>3, <2>3, SubSeqFull
    <3>2. Unclosed(object) = 0
      BY <1>1 DEF IsObject
    <3> HIDE DEF t
    <3> QED
      BY <3>1, <3>2
  <2> QED
    BY <1>1, <1>3, <2>1, <2>2, <2>3
<1> HIDE DEF s, t, e
<1>5. /\ Unclosed(s) \in Int
      /\ e = Opened => Unclosed(t) = Unclosed(s) + 1
      /\ e = Closed => Unclosed(t) = Unclosed(s) - 1
      /\ e \notin {Opened, Closed} => Unclosed(t) = Unclosed(s)
  BY <1>1, UnclosedAppend
<1> QED
  BY <1>1, <1>2, <1>4, <1>5, EventKinds

-----------------------------------------------------------------------------
(* The steps of the writer keep the invariant.                             *)
Frame == [vertical : BOOLEAN, first : BOOLEAN]

LEMMA NoFormIdle == \A kind \in Modes : kind # "idle"
BY DEF Modes

LEMMA SelfFrom ==
  ASSUME StreamInv
  PROVE  os \in From(os) /\ Keeps(From(os), Plain)
BY FromKeeps DEF StreamInv, From

LEMMA IncreaseIs ==
  ASSUME NEW o \in Streams, ~o.failed
  PROVE  LET p == IncreaseDepth(o)
         IN /\ p \in Streams /\ SameRegisters(o, p) /\ p.out = o.out /\ p.column = o.column
            /\ p.max_column = o.max_column /\ p.indent = o.indent
            /\ MaxDepth = 0 => p = o
            /\ MaxDepth # 0 => /\ p.depth = Word(o.depth + 1)
                               /\ p.failed <=> Word(o.depth + 1) > MaxDepth
<1> DEFINE d == Word(o.depth + 1)
           f == (o.failed \/ d > MaxDepth)
           p == IncreaseDepth(o)
<1>1. d \in W /\ f \in BOOLEAN /\ (f <=> d > MaxDepth)
  <2>1. o.depth + 1 \in Int
    BY Width DEF Streams, W
  <2> QED
    BY <2>1, WordOf
<1>2. CASE MaxDepth = 0
  BY <1>2 DEF IncreaseDepth, SameRegisters
<1>3. CASE MaxDepth # 0
  <2>1. p = [o EXCEPT !.depth = d, !.failed = f]
    BY <1>3 DEF IncreaseDepth
  <2> HIDE DEF p, d, f
  <2>2. /\ p \in Streams /\ SameRegisters(o, p) /\ p.out = o.out /\ p.column = o.column
        /\ p.max_column = o.max_column /\ p.indent = o.indent /\ p.depth = d /\ p.failed = f
    BY <1>1, <2>1 DEF Streams, SameRegisters
  <2>3. p.failed <=> d > MaxDepth
    BY <1>1, <2>2
  <2> QED
    BY <1>3, <2>2, <2>3 DEF p, d
<1> QED
  BY <1>2, <1>3

LEMMA DecreaseIs ==
  ASSUME NEW o \in Streams
  PROVE  LET p == DecreaseDepth(o)
         IN /\ p \in Streams /\ SameRegisters(o, p) /\ p.out = o.out /\ p.column = o.column
            /\ p.max_column = o.max_column /\ p.indent = o.indent /\ p.failed = o.failed
            /\ o.depth \in 1..(WordMod - 1) => p.depth = o.depth - 1
<1> DEFINE d == Word(o.depth + WordMod - 1)
           p == DecreaseDepth(o)
<1>1. d \in W /\ (o.depth \in 1..(WordMod - 1) => d = o.depth - 1)
  <2>1. o.depth + WordMod - 1 \in Int
    BY Width DEF Streams, W
  <2>2. ASSUME o.depth \in 1..(WordMod - 1) PROVE d = o.depth - 1
    <3>1. o.depth - 1 \in W /\ o.depth + WordMod - 1 = WordMod * 1 + (o.depth - 1)
      BY <2>2, Width DEF W
    <3> QED
      BY <2>1, <3>1, WordIsRemainder
  <2> QED
    BY <2>1, <2>2, WordOf
<1>2. p = [o EXCEPT !.depth = d]
  BY DEF DecreaseDepth
<1> HIDE DEF p, d
<1>3. /\ p \in Streams /\ SameRegisters(o, p) /\ p.out = o.out /\ p.column = o.column
      /\ p.max_column = o.max_column /\ p.indent = o.indent /\ p.failed = o.failed /\ p.depth = d
  BY <1>1, <1>2 DEF Streams, SameRegisters
<1> QED
  BY <1>1, <1>3 DEF p

LEMMA CanonicalOpenStep ==
  ASSUME SInv, CanonicalOpen
  PROVE  SInv'
<1> DEFINE kinds == {"canonical", "base64"}
           p == VarPutChar(os, LPAREN)
<1>1. Printing(kinds, "open") /\ os' = IncreaseDepth(p) /\ frames' = frames
  BY DEF CanonicalOpen
<1>2. TraversalInv'
  BY <1>1, PrintingStep, KindsType, NoFormIdle DEF SInv, TraversalInv
<1>3. /\ job \in kinds /\ job' = job /\ began' = began /\ ~os.failed
      /\ OpenLists \in Int /\ OpenLists' \in Nat /\ OpenLists' = OpenLists + 1
      /\ began.kind = job
  BY <1>1, PrintingStep, OpenListsStep DEF SInv
<1>4. LPAREN \in Octets /\ LPAREN \in Plain
  BY SelfFrom, Brackets DEF Keeps, SInv
<1>5. p \in From(os) /\ Waiting(p) /\ p.byte_size = os.byte_size
  BY <1>4, SelfFrom, VarPutCharKeeps DEF SInv, StreamInv
<1>6. p \in Streams /\ Tracks(p) /\ p.depth = os.depth /\ p.failed = os.failed
  BY <1>5 DEF From
<1> HIDE DEF p
<1>7. /\ os' \in Streams /\ SameRegisters(p, os') /\ os'.out = p.out /\ os'.column = p.column
      /\ MaxDepth = 0 => os' = p
      /\ MaxDepth # 0 => /\ os'.depth = Word(os.depth + 1)
                         /\ os'.failed <=> Word(os.depth + 1) > MaxDepth
  BY <1>1, <1>3, <1>6, IncreaseIs
<1>8. Tracks(os') /\ Waiting(os') /\ os'.byte_size = os.byte_size
  BY <1>5, <1>6, <1>7 DEF Tracks, Waiting, SameRegisters
<1>9. MaxDepth # 0 => /\ os.depth = began.depth + OpenLists /\ os.depth <= MaxDepth
                      /\ os.depth \in Nat /\ Word(os.depth + 1) = os.depth + 1
  <2> SUFFICES ASSUME MaxDepth # 0
               PROVE  /\ os.depth = began.depth + OpenLists /\ os.depth <= MaxDepth
                      /\ os.depth \in Nat /\ Word(os.depth + 1) = os.depth + 1
    OBVIOUS
  <2>1. os.depth = began.depth + OpenLists /\ os.depth <= MaxDepth
    BY <1>3 DEF SInv, DepthInv, CanonicalDepthIsNesting
  <2>2. os.depth \in W
    BY DEF SInv, StreamInv, Streams
  <2>3. os.depth \in Nat /\ os.depth + 1 \in W
    BY <2>1, <2>2, OutputAssumption DEF W
  <2> QED
    BY <2>1, <2>3, WordOf
<1>10. OnlyDepthFails'
  BY <1>3, <1>6, <1>7 DEF OnlyDepthFails
<1>11. DepthInv'
  <2>1. began'.depth \in W
    BY <1>3 DEF SInv, DepthInv
  <2>2. MaxDepth # 0 /\ ~os'.failed => os'.depth = began'.depth + OpenLists' /\ os'.depth <= MaxDepth
    <3> SUFFICES ASSUME MaxDepth # 0, ~os'.failed
                 PROVE  os'.depth = began'.depth + OpenLists' /\ os'.depth <= MaxDepth
      OBVIOUS
    <3>1. os'.depth = os.depth + 1 /\ ~(os.depth + 1 > MaxDepth)
      BY <1>7, <1>9
    <3>2. began.depth \in Nat
      BY Width DEF SInv, DepthInv, W
    <3> QED
      BY <1>3, <1>9, <3>1, <3>2, Width DEF W
  <2> QED
    BY <2>1, <2>2 DEF DepthInv, CanonicalDepthIsNesting
<1> QED
  BY <1>2, <1>3, <1>7, <1>8, <1>10, <1>11 DEF SInv, StreamInv

LEMMA CanonicalStringStep ==
  ASSUME SInv, PrintCanonicalString
  PROVE  SInv'
<1> DEFINE kinds == {"canonical", "base64"}
           e == Head(todo)
<1>1. Printing(kinds, "string") /\ os' = CanonicalString(os, e) /\ frames' = frames
  BY DEF PrintCanonicalString
<1>2. TraversalInv'
  BY <1>1, PrintingStep, KindsType, NoFormIdle DEF SInv, TraversalInv
<1>3. /\ job \in kinds /\ job' = job /\ began' = began /\ ~os.failed /\ began.kind = job
      /\ OpenLists' = OpenLists /\ job \in Kinds
      /\ e \in Events /\ e.kind = "string" /\ object \in Trees /\ e \in ToSet(object)
  BY <1>1, PrintingStep, OpenListsStep DEF SInv
<1> HIDE DEF e
<1>4. EventIn(e, Octets)
  BY <1>3, EventKinds
<1>5. os.byte_size = 8 => EventIn(e, Plain)
  BY <1>3, PlainEvent DEF SInv, StreamInv
<1>6. os' \in From(os) /\ Waiting(os') /\ os'.byte_size = os.byte_size
  BY <1>1, <1>4, <1>5, SelfFrom, CanonicalStringKeeps DEF SInv, StreamInv
<1>7. os' \in Streams /\ Tracks(os') /\ os'.depth = os.depth /\ os'.failed = os.failed
  BY <1>6 DEF From
<1>8. StreamInv'
  BY <1>3, <1>6, <1>7 DEF SInv, StreamInv, OnlyDepthFails
<1>9. DepthInv'
  BY <1>3, <1>7 DEF SInv, DepthInv, CanonicalDepthIsNesting
<1> QED
  BY <1>2, <1>8, <1>9 DEF SInv

LEMMA CanonicalCloseStep ==
  ASSUME SInv, CanonicalClose
  PROVE  SInv'
<1> DEFINE kinds == {"canonical", "base64"}
           p == VarPutChar(os, RPAREN)
<1>1. Printing(kinds, "close") /\ os' = DecreaseDepth(p) /\ frames' = frames
  BY DEF CanonicalClose
<1>2. TraversalInv'
  BY <1>1, PrintingStep, KindsType, NoFormIdle DEF SInv, TraversalInv
<1>3. /\ job \in kinds /\ job' = job /\ began' = began /\ ~os.failed
      /\ OpenLists \in Int /\ OpenLists' \in Nat /\ OpenLists' = OpenLists - 1
      /\ began.kind = job
  BY <1>1, PrintingStep, OpenListsStep DEF SInv
<1>4. RPAREN \in Octets /\ RPAREN \in Plain
  BY SelfFrom, Brackets DEF Keeps, SInv
<1>5. p \in From(os) /\ Waiting(p) /\ p.byte_size = os.byte_size
  BY <1>4, SelfFrom, VarPutCharKeeps DEF SInv, StreamInv
<1>6. p \in Streams /\ Tracks(p) /\ p.depth = os.depth /\ p.failed = os.failed
  BY <1>5 DEF From
<1> HIDE DEF p
<1>7. /\ os' \in Streams /\ SameRegisters(p, os') /\ os'.out = p.out /\ os'.column = p.column
      /\ os'.failed = os.failed
      /\ os.depth \in 1..(WordMod - 1) => os'.depth = os.depth - 1
  BY <1>1, <1>6, DecreaseIs
<1>8. Tracks(os') /\ Waiting(os') /\ os'.byte_size = os.byte_size
  BY <1>5, <1>6, <1>7 DEF Tracks, Waiting, SameRegisters
<1>9. began.depth \in Nat /\ os.depth \in W
  BY Width DEF SInv, StreamInv, Streams, DepthInv, W
<1>10. MaxDepth # 0 => os'.depth = began.depth + OpenLists' /\ os'.depth <= MaxDepth
  <2> SUFFICES ASSUME MaxDepth # 0
               PROVE  os'.depth = began.depth + OpenLists' /\ os'.depth <= MaxDepth
    OBVIOUS
  <2>1. os.depth = began.depth + OpenLists /\ os.depth <= MaxDepth
    BY <1>3 DEF SInv, DepthInv, CanonicalDepthIsNesting
  <2>2. os.depth \in 1..(WordMod - 1)
    BY <1>3, <1>9, <2>1 DEF W
  <2> QED
    BY <1>3, <1>7, <1>9, <2>1, <2>2, Width DEF W
<1>11. DepthInv'
  BY <1>3, <1>9, <1>10 DEF DepthInv, CanonicalDepthIsNesting, SInv
<1>12. OnlyDepthFails'
  BY <1>3, <1>7 DEF OnlyDepthFails
<1> QED
  BY <1>2, <1>3, <1>7, <1>8, <1>11, <1>12 DEF SInv, StreamInv

LEMMA NotFirstType ==
  ASSUME frames \in Seq(Frame)
  PROVE  NotFirst \in Seq(Frame) /\ Len(NotFirst) = Len(frames)
<1>1. CASE frames = <<>>
  BY <1>1 DEF NotFirst
<1>2. CASE frames # <<>>
  <2> DEFINE n == Len(frames)
             f == [frames[n] EXCEPT !.first = FALSE]
  <2>1. n \in 1..Len(frames)
    BY <1>2, LenProperties, EmptySeq
  <2>2. frames[n] \in Frame
    BY <2>1, ElementOfSeq
  <2>3. f \in Frame
    BY <2>2 DEF Frame
  <2>4. NotFirst = [frames EXCEPT ![n] = f]
    BY <1>2 DEF NotFirst
  <2> HIDE DEF f, n
  <2> QED
    BY <2>1, <2>3, <2>4, ExceptSeq
<1> QED
  BY <1>1, <1>2

LEMMA FrontType ==
  ASSUME NEW S, NEW s \in Seq(S)
  PROVE  Front(s) \in Seq(S) /\ Len(Front(s)) <= Len(s)
<1>1. CASE s = <<>>
  <2>1. Front(s) = <<>>
    <3>1. Len(s) = 0
      BY <1>1
    <3> QED
      BY <3>1, SubSeqEmpty DEF Front
  <2>2. Front(s) = s /\ Len(s) \in Nat
    BY <1>1, <2>1, LenProperties
  <2> QED
    BY <2>2
<1>2. CASE s # <<>>
  <2>1. Front(s) \in Seq(S) /\ Last(s) \in S /\ s = Append(Front(s), Last(s))
    BY <1>2, FrontAndLast
  <2>2. Len(s) = Len(Front(s)) + 1 /\ Len(Front(s)) \in Nat
    BY <2>1, AppendProperties, LenProperties
  <2> QED
    BY <2>1, <2>2
<1> QED
  BY <1>1, <1>2

LEMMA SeparateKeeps ==
  ASSUME StreamInv, job = "advanced"
  PROVE  Separate \in From(os) /\ SameRegisters(os, Separate)
<1> DEFINE o == IF frames = <<>> \/ Last(frames).first THEN os
                ELSE IF Last(frames).vertical THEN NewLine(os, "advanced") ELSE PutChar(os, SPACE)
<1>1. "advanced" \in Modes /\ SPACE \in Plain
  BY SelfFrom, Brackets DEF Modes, Keeps
<1>2. NewLine(os, "advanced") \in From(os) /\ SameRegisters(os, NewLine(os, "advanced"))
  BY <1>1, SelfFrom, NewLineKeeps
<1>3. PutChar(os, SPACE) \in From(os) /\ SameRegisters(os, PutChar(os, SPACE))
  BY <1>1, SelfFrom, PutCharKeeps
<1>4. o \in From(os) /\ SameRegisters(os, o)
  BY <1>2, <1>3, SelfFrom DEF SameRegisters
<1>5. Separate = IF o.max_column > 0 /\ o.column > Word(o.max_column - 4)
                   THEN NewLine(o, "advanced") ELSE o
  BY DEF Separate
<1> HIDE DEF o
<1>6. NewLine(o, "advanced") \in From(os) /\ SameRegisters(o, NewLine(o, "advanced"))
  BY <1>1, <1>4, SelfFrom, NewLineKeeps
<1> QED
  BY <1>4, <1>5, <1>6 DEF SameRegisters

LEMMA AdvancedOpenStep ==
  ASSUME SInv, AdvancedOpen
  PROVE  SInv'
<1> DEFINE p == PutChar(Separate, LPAREN)
           o == IncreaseDepth(p)
           deep == [o EXCEPT !.indent = Word(o.indent + 1)]
           frame == [vertical |-> ListLength(os', todo) > Word(os'.max_column - os'.column),
                     first |-> TRUE]
<1>1. /\ Printing({"advanced"}, "open")
      /\ \/ o.failed /\ os' = o /\ frames' = frames
         \/ ~o.failed /\ os' = deep /\ frames' = Append(NotFirst, frame)
  BY DEF AdvancedOpen
<1>2. /\ job = "advanced" /\ job' = job /\ began' = began /\ ~os.failed /\ began.kind = job
      /\ todo' \in Seq(Events) /\ Suffix(todo', object') /\ object' = object
  BY <1>1, PrintingStep DEF SInv
<1>3. frames' \in Seq(Frame)
  <2>1. frames \in Seq(Frame)
    BY DEF SInv, TraversalInv, Frame
  <2>2. frame \in Frame
    BY DEF Frame
  <2> HIDE DEF frame
  <2>3. Append(NotFirst, frame) \in Seq(Frame)
    BY <2>1, <2>2, NotFirstType, AppendProperties
  <2> QED
    BY <1>1, <2>1, <2>3
<1>4. TraversalInv'
  BY <1>2, <1>3 DEF SInv, TraversalInv, Frame
<1>5. LPAREN \in Plain
  BY SelfFrom, Brackets DEF Keeps, SInv
<1>6. Separate \in From(os) /\ SameRegisters(os, Separate)
  BY <1>2, SeparateKeeps DEF SInv
<1>7. p \in From(os) /\ SameRegisters(os, p)
  BY <1>5, <1>6, SelfFrom, PutCharKeeps DEF SInv, SameRegisters
<1> HIDE DEF p
<1>8. p \in Streams /\ Tracks(p) /\ p.depth = os.depth /\ p.failed = os.failed
  BY <1>7 DEF From
<1>9. /\ o \in Streams /\ SameRegisters(p, o) /\ o.out = p.out /\ o.column = p.column
      /\ MaxDepth = 0 => o = p
      /\ MaxDepth # 0 => /\ o.depth = Word(os.depth + 1)
                         /\ o.failed <=> Word(os.depth + 1) > MaxDepth
  BY <1>2, <1>8, IncreaseIs
<1> HIDE DEF o
<1>10. /\ deep \in Streams /\ SameRegisters(o, deep) /\ deep.out = o.out
       /\ deep.column = o.column /\ deep.depth = o.depth /\ deep.failed = o.failed
  <2> DEFINE i == Word(o.indent + 1)
  <2>1. i \in W
    <3>1. o.indent + 1 \in Int
      BY <1>9, Width DEF Streams, W
    <3> QED
      BY <3>1, WordOf
  <2>2. deep = [o EXCEPT !.indent = i]
    OBVIOUS
  <2> HIDE DEF deep, i
  <2> QED
    BY <1>9, <2>1, <2>2 DEF Streams, SameRegisters
<1> HIDE DEF deep
<1>11. /\ os' \in Streams /\ SameRegisters(o, os') /\ os'.out = o.out /\ os'.column = o.column
       /\ os'.depth = o.depth /\ os'.failed = o.failed
  BY <1>1, <1>9, <1>10 DEF SameRegisters
<1>12. Tracks(os') /\ Waiting(os') /\ os'.byte_size = os.byte_size
  BY <1>7, <1>8, <1>9, <1>11 DEF Tracks, Waiting, SameRegisters, SInv, StreamInv
<1>13. OnlyDepthFails'
  BY <1>2, <1>8, <1>9, <1>11 DEF OnlyDepthFails
<1>14. MaxDepth # 0 /\ ~os'.failed => os'.depth <= MaxDepth
  <2>1. os.depth + 1 \in Int
    BY Width DEF SInv, StreamInv, Streams, W
  <2>2. Word(os.depth + 1) \in Nat
    BY <2>1, WordOf
  <2> QED
    BY <1>9, <1>11, <2>2, Width DEF W
<1>15. DepthInv'
  BY <1>2, <1>14 DEF SInv, DepthInv, CanonicalDepthIsNesting
<1> QED
  BY <1>2, <1>4, <1>11, <1>12, <1>13, <1>15 DEF SInv, StreamInv

LEMMA AdvancedStringStep ==
  ASSUME SInv, PrintAdvancedString
  PROVE  SInv'
<1> DEFINE e == Head(todo)
<1>1. Printing({"advanced"}, "string") /\ os' = AdvancedString(Separate, e) /\ frames' = NotFirst
  BY DEF PrintAdvancedString
<1>2. /\ job = "advanced" /\ job' = job /\ began' = began /\ ~os.failed /\ began.kind = job
      /\ todo' \in Seq(Events) /\ Suffix(todo', object') /\ object' = object
      /\ e \in Events /\ e.kind = "string"
  BY <1>1, PrintingStep DEF SInv
<1>3. frames' \in Seq(Frame)
  BY <1>1, NotFirstType DEF SInv, TraversalInv, Frame
<1>4. TraversalInv'
  BY <1>2, <1>3 DEF SInv, TraversalInv, Frame
<1> HIDE DEF e
<1>5. EventIn(e, Octets)
  BY <1>2, EventKinds
<1>6. Separate \in From(os) /\ SameRegisters(os, Separate)
  BY <1>2, SeparateKeeps DEF SInv
<1>7. Calm(Separate)
  BY <1>2, <1>6 DEF Calm, SameRegisters, SInv, StreamInv, Waiting
<1>8. os' \in From(os) /\ Calm(os')
  BY <1>1, <1>5, <1>6, <1>7, SelfFrom, AdvancedStringKeeps DEF SInv
<1>9. os' \in Streams /\ Tracks(os') /\ os'.depth = os.depth /\ os'.failed = os.failed
  BY <1>8 DEF From
<1>10. StreamInv'
  BY <1>2, <1>8, <1>9 DEF StreamInv, OnlyDepthFails, Calm, Waiting
<1>11. DepthInv'
  BY <1>2, <1>9 DEF SInv, DepthInv, CanonicalDepthIsNesting
<1> QED
  BY <1>4, <1>10, <1>11 DEF SInv

LEMMA AdvancedCloseStep ==
  ASSUME SInv, AdvancedClose
  PROVE  SInv'
<1> DEFINE o == IF os.max_column > 0 /\ os.column > Word(os.max_column - 2)
                  THEN NewLine(os, "advanced") ELSE os
           i == Word(o.indent + WordMod - 1)
           p == [o EXCEPT !.indent = i]
<1>1. Printing({"advanced"}, "close") /\ os' = PutChar(p, RPAREN) /\ frames' = Front(frames)
  BY DEF AdvancedClose
<1>2. /\ job = "advanced" /\ job' = job /\ began' = began /\ ~os.failed /\ began.kind = job
      /\ todo' \in Seq(Events) /\ Suffix(todo', object') /\ object' = object
  BY <1>1, PrintingStep DEF SInv
<1>3. frames' \in Seq(Frame)
  BY <1>1, FrontType DEF SInv, TraversalInv, Frame
<1>4. TraversalInv'
  BY <1>2, <1>3 DEF SInv, TraversalInv, Frame
<1>5. "advanced" \in Modes /\ RPAREN \in Plain
  BY SelfFrom, Brackets DEF Modes, Keeps, SInv
<1>6. NewLine(os, "advanced") \in From(os) /\ SameRegisters(os, NewLine(os, "advanced"))
  BY <1>5, SelfFrom, NewLineKeeps DEF SInv
<1>7. o \in From(os) /\ SameRegisters(os, o)
  BY <1>6, SelfFrom DEF SameRegisters, SInv
<1> HIDE DEF o
<1>8. o \in Streams /\ Tracks(o) /\ o.depth = os.depth /\ o.failed = os.failed
  BY <1>7 DEF From
<1>9. i \in W
  <2>1. o.indent + WordMod - 1 \in Int
    BY <1>8, Width DEF Streams, W
  <2> QED
    BY <2>1, WordOf
<1> HIDE DEF i
<1>10. /\ p \in Streams /\ SameRegisters(o, p) /\ p.out = o.out /\ p.column = o.column
       /\ p.depth = o.depth /\ p.failed = o.failed
  BY <1>8, <1>9 DEF Streams, SameRegisters
<1> HIDE DEF p
<1>11. Tracks(p)
  BY <1>8, <1>10 DEF Tracks
<1>12. p \in From(p) /\ Keeps(From(p), Plain)
  BY <1>10, <1>11, FromKeeps DEF From
<1>13. os' \in From(p) /\ SameRegisters(p, os')
  BY <1>1, <1>5, <1>12, PutCharKeeps
<1>14. os' \in Streams /\ Tracks(os') /\ os'.depth = os.depth /\ os'.failed = os.failed
  BY <1>8, <1>10, <1>13 DEF From
<1>15. StreamInv'
  BY <1>2, <1>7, <1>10, <1>13, <1>14 DEF SInv, StreamInv, OnlyDepthFails, SameRegisters, Waiting
<1>16. DepthInv'
  BY <1>2, <1>14 DEF SInv, DepthInv, CanonicalDepthIsNesting
<1> QED
  BY <1>4, <1>15, <1>16 DEF SInv

(* The beginning and the end of a region, in canonical mode or not.        *)
LEMMA FinishStep ==
  ASSUME SInv, Finish
  PROVE  SInv'
<1> DEFINE o == Flush(os)
           p == ChangeOutputByteSize(o, 8, "base64")
           q == VarPutChar(p, RBRACE)
<1>1. /\ job # "idle" /\ ~os.failed /\ todo = <<>> /\ job' = "idle"
      /\ os' = IF job = "base64" THEN q ELSE os
      /\ object' = object /\ todo' = todo /\ frames' = frames /\ began' = began
  BY DEF Finish
<1>2. TraversalInv'
  BY <1>1, KindsType DEF SInv, TraversalInv
<1>3. "base64" \in Modes /\ RBRACE \in Octets /\ RBRACE \in Plain
  BY SelfFrom, Brackets DEF Modes, Keeps, SInv
<1>4. o \in From(os) /\ o.byte_size = os.byte_size
  BY SelfFrom, FlushKeeps DEF SInv, StreamInv
<1> HIDE DEF o
<1>5. p \in From(os) /\ p.byte_size = 8 /\ p.n_bits = 0
  BY <1>3, <1>4, SelfFrom, ChangeKeeps DEF SInv
<1> HIDE DEF p
<1>6. Waiting(p)
  BY <1>5 DEF Waiting
<1>7. q \in From(os) /\ Waiting(q) /\ q.byte_size = 8
  BY <1>3, <1>5, <1>6, SelfFrom, VarPutCharKeeps DEF SInv
<1> HIDE DEF q
<1>8. os' \in From(os) /\ Waiting(os') /\ os'.byte_size = 8
  BY <1>1, <1>7, SelfFrom DEF SInv, StreamInv
<1>9. os' \in Streams /\ Tracks(os') /\ os'.depth = os.depth /\ os'.failed = os.failed
  BY <1>8 DEF From
<1>10. StreamInv'
  BY <1>1, <1>8, <1>9 DEF SInv, StreamInv, OnlyDepthFails
<1>11. DepthInv'
  BY <1>1, <1>9 DEF SInv, DepthInv, CanonicalDepthIsNesting, OpenLists
<1> QED
  BY <1>2, <1>10, <1>11 DEF SInv

LEMMA NothingOpen ==
  ASSUME NEW s \in Seq(Events)
  PROVE  Unclosed(SubSeq(s, 1, Len(s) - Len(s))) = 0
<1>1. Len(s) \in Nat /\ Len(s) - Len(s) = 0
  BY LenProperties
<1>2. SubSeq(s, 1, 0) = <<>>
  BY SubSeqEmpty
<1>3. Unclosed(<<>>) = 0
  BY CountEmpty DEF Unclosed
<1> QED
  BY <1>1, <1>2, <1>3

(* A stream to begin with: between two outputs.                            *)
Idle(o) ==
  /\ o \in Streams /\ Tracks(o) /\ Waiting(o) /\ o.byte_size = 8
  /\ MaxDepth # 0 /\ ~o.failed => o.depth <= MaxDepth

LEMMA BeginKeeps ==
  ASSUME NEW kind \in Kinds, NEW tree \in Trees, NEW s, Idle(s), ~s.failed,
         BeginPrinting(kind, tree, s)
  PROVE  SInv'
<1> DEFINE o == ChangeOutputByteSize(s, 8, kind)
           p == VarPutChar(o, LBRACE)
           q == ChangeOutputByteSize(p, 6, kind)
<1>1. Keeps(From(s), Plain) /\ s \in From(s) /\ s.byte_size = 8
  BY FromKeeps DEF Idle, From
<1>2. /\ job' = kind /\ object' = tree /\ todo' = tree
      /\ began'.kind = kind /\ began'.depth = s.depth /\ frames' = <<>>
      /\ os' = IF kind = "base64" THEN q ELSE s
  BY DEF BeginPrinting
<1>3. tree \in Seq(Events) /\ kind \in Modes /\ kind # "idle"
  BY PrinterAssumption, KindsType
<1>4. TraversalInv'
  <2>1. Suffix(tree, tree)
    BY <1>3, LenProperties DEF Suffix
  <2> QED
    BY <1>2, <1>3, <2>1 DEF TraversalInv
<1>5. LBRACE \in Octets /\ LBRACE \in Plain
  BY <1>1, Brackets DEF Keeps
<1>7. o \in From(s) /\ o.byte_size = 8 /\ o.n_bits = 0
  BY <1>1, <1>3, ChangeKeeps
<1> HIDE DEF o
<1>8. Waiting(o)
  BY <1>7 DEF Waiting
<1>9. p \in From(s) /\ p.byte_size = 8
  BY <1>1, <1>5, <1>7, <1>8, VarPutCharKeeps
<1> HIDE DEF p
<1>10. q \in From(s) /\ q.byte_size = 6 /\ q.n_bits = 0
  BY <1>1, <1>3, <1>9, ChangeKeeps
<1> HIDE DEF q
<1>11. /\ os' \in From(s) /\ os'.byte_size = (IF kind = "base64" THEN 6 ELSE 8)
       /\ Waiting(os')
  BY <1>1, <1>2, <1>10 DEF Idle, Waiting
<1>12. os' \in Streams /\ Tracks(os') /\ os'.depth = s.depth /\ ~os'.failed
  BY <1>11 DEF From
<1>13. StreamInv'
  BY <1>2, <1>11, <1>12 DEF StreamInv, OnlyDepthFails
<1>14. OpenLists' = 0
  BY <1>2, <1>3, NothingOpen DEF OpenLists
<1>15. DepthInv'
  <2>1. s.depth \in W /\ s.depth \in Nat
    BY Width DEF Idle, Streams, W
  <2>2. MaxDepth # 0 => s.depth <= MaxDepth
    BY DEF Idle
  <2> QED
    BY <1>2, <1>12, <1>14, <2>1, <2>2 DEF DepthInv, CanonicalDepthIsNesting
<1> QED
  BY <1>4, <1>13, <1>15 DEF SInv

LEMMA IdleStream ==
  ASSUME SInv, job = "idle"
  PROVE  Idle(os)
BY DEF SInv, StreamInv, DepthInv, Idle

LEMMA BeginStep ==
  ASSUME SInv, Begin
  PROVE  SInv'
<1>1. PICK kind \in Kinds, tree \in Trees : BeginPrinting(kind, tree, os)
  BY DEF Begin
<1>2. Idle(os) /\ ~os.failed
  BY <1>1, IdleStream DEF BeginPrinting
<1> QED
  BY <1>1, <1>2, BeginKeeps

(* A stream that has received nothing.                                     *)
LEMMA NewStream ==
  ASSUME NEW o, o = SetOutput
  PROVE  /\ o \in Streams /\ Tracks(o) /\ Waiting(o) /\ o.byte_size = 8 /\ ~o.failed
         /\ o.depth = 0 /\ o.out = <<>>
<1> DEFINE zero == 0
<1>1. zero \in W /\ zero \in 0..15 /\ Word(0) = 0 /\ DefaultWidth \in W
  BY Width, WordOf DEF W
<1>2. "canonical" \in Modes /\ <<>> \in Seq(Octets)
  BY EmptySeq DEF Modes
<1>3. /\ o = [byte_size |-> 8, bits |-> zero, n_bits |-> zero, mode |-> "canonical", column |-> zero,
              max_column |-> DefaultWidth, indent |-> zero, base64_count |-> zero, depth |-> zero,
              failed |-> FALSE, out |-> <<>>]
  BY DEF SetOutput
<1> HIDE DEF zero
<1>4. /\ o \in Streams /\ o.byte_size = 8 /\ ~o.failed /\ o.n_bits = zero /\ o.column = zero
      /\ o.depth = zero /\ o.out = <<>>
  BY <1>1, <1>2, <1>3 DEF Streams
<1>5. Waiting(o)
  BY <1>4 DEF Waiting, zero
<1>6. Tracks(o)
  <2>1. Lines(o.out) = {0} /\ Len(o.out) = 0
    BY <1>4 DEF Lines
  <2>2. /\ 0 \in Lines(o.out) /\ o.column = Word(Len(o.out) - 0)
        /\ \A other \in Lines(o.out) : other <= 0
    BY <1>1, <1>4, <2>1 DEF zero
  <2> QED
    BY <2>2 DEF Tracks
<1> QED
  BY <1>4, <1>5, <1>6 DEF zero

LEMMA NewOutputStep ==
  ASSUME SInv, NewOutput
  PROVE  SInv'
<1>1. /\ job = "idle" /\ job' = job /\ os' = SetOutput /\ object' = <<>> /\ began' = NoOutput
      /\ todo' = todo /\ frames' = frames
  BY DEF NewOutput
<1>2. TraversalInv'
  BY <1>1 DEF SInv, TraversalInv, Suffix
<1>3. StreamInv'
  BY <1>1, NewStream DEF StreamInv, OnlyDepthFails
<1>4. DepthInv'
  <2>1. began'.depth = 0 /\ began'.kind = "none" /\ 0 \in W
    BY <1>1, Width DEF NoOutput, W
  <2>2. os'.depth = 0
    BY <1>1, NewStream
  <2>3. MaxDepth # 0 => os'.depth <= MaxDepth
    BY <2>2, Width DEF W
  <2> QED
    BY <2>1, <2>3 DEF DepthInv, CanonicalDepthIsNesting
<1> QED
  BY <1>2, <1>3, <1>4 DEF SInv

LEMMA SetMaxColumnStep ==
  ASSUME SInv, SetMaxColumn
  PROVE  SInv'
<1>1. PICK w \in Widths : os' = [os EXCEPT !.max_column = w]
  BY DEF SetMaxColumn
<1>2. job' = job /\ object' = object /\ todo' = todo /\ frames' = frames /\ began' = began
  BY DEF SetMaxColumn
<1>3. w \in W
  BY PrinterAssumption DEF W
<1>4. /\ os' \in Streams /\ os'.out = os.out /\ os'.column = os.column /\ os'.depth = os.depth
      /\ os'.failed = os.failed /\ SameRegisters(os, os')
  BY <1>1, <1>3 DEF SInv, StreamInv, Streams, SameRegisters
<1>5. TraversalInv'
  BY <1>2 DEF SInv, TraversalInv
<1>6. StreamInv'
  BY <1>2, <1>4 DEF SInv, StreamInv, OnlyDepthFails, Tracks, Waiting, SameRegisters
<1>7. DepthInv'
  BY <1>2, <1>4 DEF SInv, DepthInv, CanonicalDepthIsNesting, OpenLists
<1> QED
  BY <1>5, <1>6, <1>7 DEF SInv

LEMMA StutterStep ==
  ASSUME SInv, UNCHANGED vars
  PROVE  SInv'
BY DEF vars, SInv, StreamInv, TraversalInv, DepthInv, OnlyDepthFails, Tracks, Waiting,
       CanonicalDepthIsNesting, OpenLists

LEMMA InitS == Init => SInv
<1> SUFFICES ASSUME Init PROVE SInv
  OBVIOUS
<1>1. /\ os = SetOutput /\ job = "idle" /\ object = <<>> /\ todo = <<>> /\ frames = <<>>
      /\ began = NoOutput
  BY DEF Init
<1>2. StreamInv
  BY <1>1, NewStream DEF StreamInv, OnlyDepthFails
<1>3. TraversalInv
  BY <1>1, EmptySeq DEF TraversalInv, Suffix
<1>4. DepthInv
  <2>1. began.depth = 0 /\ began.kind = "none" /\ 0 \in W
    BY <1>1, Width DEF NoOutput, W
  <2>2. os.depth = 0
    BY <1>1, NewStream
  <2>3. MaxDepth # 0 => os.depth <= MaxDepth
    BY <2>2, Width DEF W
  <2> QED
    BY <2>1, <2>3 DEF DepthInv, CanonicalDepthIsNesting
<1> QED
  BY <1>2, <1>3, <1>4 DEF SInv

LEMMA NextS == SInv /\ [Next]_vars => SInv'
<1> SUFFICES ASSUME SInv, [Next]_vars PROVE SInv'
  OBVIOUS
<1>1. CASE NewOutput
  BY <1>1, NewOutputStep
<1>2. CASE SetMaxColumn
  BY <1>2, SetMaxColumnStep
<1>3. CASE Begin
  BY <1>3, BeginStep
<1>4. CASE Continue
  BY <1>4, CanonicalOpenStep, CanonicalStringStep, CanonicalCloseStep, AdvancedOpenStep,
     AdvancedStringStep, AdvancedCloseStep, FinishStep DEF Continue
<1>5. CASE Stopped \/ UNCHANGED vars
  BY <1>5, StutterStep DEF Stopped
<1> QED
  BY <1>1, <1>2, <1>3, <1>4, <1>5 DEF Next

-----------------------------------------------------------------------------
LEMMA SInvHolds == Spec => []SInv
BY InitS, NextS, PTL DEF Spec

(* Whatever is printed, in whatever form and at whatever width, the        *)
(* registers of the stream hold values of their types between two calls.   *)
THEOREM WriterTypesHold == Spec => []TypeOK
<1>1. SInv => TypeOK
  <2> SUFFICES ASSUME SInv PROVE TypeOK
    OBVIOUS
  <2>1. os.n_bits \in 0..7
    BY DEF SInv, StreamInv, Waiting
  <2>2. /\ os.byte_size \in {4, 6, 8} /\ os.bits \in 0..(WordMod - 1)
        /\ os.mode \in Modes /\ os.failed \in BOOLEAN /\ os.out \in Seq(Octets)
        /\ {os.column, os.max_column, os.indent, os.base64_count, os.depth} \subseteq 0..(WordMod - 1)
    BY DEF SInv, StreamInv, Streams, W
  <2> QED
    BY <2>1, <2>2 DEF TypeOK, SInv, TraversalInv
<1> QED
  BY <1>1, SInvHolds, PTL

(* The errors of change_output_byte_size and print_advanced and the        *)
(* assertion of flush are out of reach: the only error is a nesting that   *)
(* is too deep.                                                            *)
THEOREM OnlyDepthFailsHolds == Spec => []OnlyDepthFails
<1>1. SInv => OnlyDepthFails
  BY DEF SInv, StreamInv
<1> QED
  BY <1>1, SInvHolds, PTL

(* The stream's column is the distance to the beginning of a line, and,    *)
(* unless line feeds are printed as they are, to that of the last one.     *)
THEOREM ColumnIsTracked == Spec => []ColumnTracksOutput
<1>1. SInv => ColumnTracksOutput
  BY DEF SInv, StreamInv, Tracks, Lines, ColumnTracksOutput, LineStarts
<1> QED
  BY <1>1, SInvHolds, PTL

(* open_list and close_list, called from three recursive functions, count  *)
(* the lists that are open, on top of what earlier objects left behind.    *)
THEOREM WriterDepthIsCounted == Spec => []CanonicalDepthIsNesting
<1>1. SInv => CanonicalDepthIsNesting
  BY DEF SInv, DepthInv
<1> QED
  BY <1>1, SInvHolds, PTL

-----------------------------------------------------------------------------
(* A new line begins at most a quarter of it to the right.                 *)
LEMMA NewLineColumn ==
  ASSUME NEW o \in Streams
  PROVE  /\ NewLine(o, "advanced").column <= (o.max_column + 3) \div 4
         /\ NewLine(o, "advanced").column \in Nat
<1> DEFINE f == Fresh(o)
           n == Indentation(o)
           blanks == [i \in 1..n |-> SPACE]
           R == {x \in Streams \X Seq(Octets) : x[1].column <= Len(x[2])}
<1>1. f \in Streams /\ f.column = 0 /\ NewLine(o, "advanced") = PutAll(f, blanks)
  BY FreshIs, NewLineIs
<1>2. n \in Nat /\ n <= (o.max_column + 3) \div 4 /\ blanks \in Seq(Octets)
  <2>1. Octets \ {NEWLINE} \subseteq Octets
    OBVIOUS
  <2> QED
    BY <2>1, IndentationType, BlanksType
<1> HIDE DEF f, n
<1>3. Len(blanks) = n
  <2> DEFINE u == blanks
  <2>1. DOMAIN u = 1..n /\ DOMAIN u = 1..Len(u) /\ Len(u) \in Nat
    BY <1>2, LenProperties
  <2> HIDE DEF u
  <2>2. Len(u) = n
    BY <1>2, <2>1
  <2> QED
    BY <2>2 DEF u
<1> HIDE DEF blanks
<1>4. <<f, <<>>>> \in R
  <2>1. f.column <= Len(<<>>) /\ <<>> \in Seq(Octets)
    BY <1>1, EmptySeq
  <2> QED
    BY <1>1, <2>1
<1>5. ASSUME NEW p, NEW s \in Seq(Octets), NEW c \in Octets, <<p, s>> \in R
      PROVE  <<PutChar(p, c), Append(s, c)>> \in R
  <2>1. p \in Streams /\ p.column <= Len(s) /\ Len(s) \in Nat /\ p.column \in Nat
    <3>1. p \in Streams /\ p.column <= Len(s)
      BY <1>5
    <3> QED
      BY <3>1, LenProperties, Width DEF Streams, W
  <2>2. PutChar(p, c) \in Streams /\ PutChar(p, c).column = Word(p.column + 1)
    BY <2>1, PutCharIs
  <2>3. Len(Append(s, c)) = Len(s) + 1 /\ Append(s, c) \in Seq(Octets)
    BY AppendProperties
  <2>4. \A x \in Nat : Word(x) <= x
    BY Width DEF Word
  <2>5. PutChar(p, c).column <= Len(Append(s, c))
    <3>1. p.column + 1 \in Nat
      BY <2>1
    <3>2. Word(p.column + 1) <= p.column + 1 /\ Word(p.column + 1) \in Nat
      BY <2>4, <3>1, WordOf
    <3> QED
      BY <2>1, <2>2, <2>3, <3>2
  <2> QED
    BY <2>2, <2>3, <2>5
<1>6. \A p, s : <<p, s>> \in R => p.column <= Len(s) /\ p \in Streams
  OBVIOUS
<1> HIDE DEF R
<1>7. <<Puts!Fold(f, blanks), blanks>> \in R
  BY <1>2, <1>4, <1>5, Puts!FoldRelation
<1>8. PutAll(f, blanks) = Puts!Fold(f, blanks)
  BY DEF PutAll, Puts!Fold, FoldLeft, MapThenFoldSet, Puts!FoldLeft, Puts!MapThenFoldSet, Max, Puts!Max
<1> DEFINE q == NewLine(o, "advanced")
<1>9. q.column <= n /\ q \in Streams
  BY <1>1, <1>3, <1>6, <1>7, <1>8
<1> HIDE DEF q
<1>10. q.column \in Nat
  BY <1>9, Width DEF Streams, W
<1> DEFINE k == (o.max_column + 3) \div 4
<1>11. k \in Int /\ n <= k
  <2>1. o.max_column \in Nat
    BY Width DEF Streams, W
  <2> QED
    BY <1>2, <2>1
<1> HIDE DEF k
<1>12. q.column <= k
  BY <1>2, <1>9, <1>10, <1>11
<1> QED
  BY <1>10, <1>12 DEF q, k

(* A list begins where there is room for four characters.                  *)
LEMMA RoomToOpen ==
  ASSUME SInv, AdvancedOpen, Len(frames') > Len(frames), os.max_column >= 4
  PROVE  os'.column <= os'.max_column
<1> DEFINE o == IF frames = <<>> \/ Last(frames).first THEN os
                ELSE IF Last(frames).vertical THEN NewLine(os, "advanced") ELSE PutChar(os, SPACE)
           s == Separate
           p == PutChar(s, LPAREN)
           q == IncreaseDepth(p)
           m == os.max_column
<1>1. Printing({"advanced"}, "open") /\ os' = [q EXCEPT !.indent = Word(@ + 1)]
  <2>1. q.failed => frames' = frames
    BY DEF AdvancedOpen
  <2>2. ~q.failed
    BY <2>1, LenProperties DEF SInv, TraversalInv
  <2> QED
    BY <2>2 DEF AdvancedOpen
<1>2. job = "advanced" /\ ~os.failed
  BY <1>1, PrintingStep DEF SInv
<1>3. "advanced" \in Modes /\ SPACE \in Plain /\ LPAREN \in Plain
  BY SelfFrom, Brackets DEF Modes, Keeps, SInv
<1>4. o \in Streams /\ o.max_column = m
  <2>1. NewLine(os, "advanced") \in From(os) /\ PutChar(os, SPACE) \in From(os)
    BY <1>3, SelfFrom, NewLineKeeps, PutCharKeeps DEF SInv
  <2>2. o \in From(os)
    BY <2>1, SelfFrom DEF SInv
  <2> HIDE DEF o
  <2> QED
    BY <2>2 DEF From
<1>5. s = IF m > 0 /\ o.column > Word(m - 4) THEN NewLine(o, "advanced") ELSE o
  BY <1>4 DEF Separate
<1>6. s \in From(os) /\ s \in Streams
  BY <1>2, SeparateKeeps DEF SInv, From
<1>7. p \in Streams /\ p.column = Word(s.column + 1) /\ p.max_column = m /\ ~p.failed
  <2>1. LPAREN \in Octets
    BY Brackets
  <2> QED
    BY <1>2, <1>6, <2>1, PutCharIs DEF From
<1> HIDE DEF o, s, p
<1>8. m \in W /\ m - 4 \in Nat /\ Word(m - 4) = m - 4
  <2>1. m \in W
    BY <1>4 DEF Streams
  <2>2. m - 4 \in W /\ m - 4 \in Nat
    BY <2>1, Width DEF W
  <2> QED
    BY <2>1, <2>2, WordOf
<1> HIDE DEF m
<1>9. s.column + 1 <= m /\ s.column \in Nat
  <2>1. o.column \in Nat /\ m \in Nat
    BY <1>4, <1>8, Width DEF Streams, W
  <2>2. CASE o.column > m - 4
    <3> DEFINE k == (m + 3) \div 4
    <3>1. k \in Int /\ k + 1 <= m
      BY <1>8, <2>1
    <3>2. s.column <= k /\ s.column \in Nat
      BY <1>4, <1>5, <1>8, <2>1, <2>2, NewLineColumn
    <3> HIDE DEF k
    <3> QED
      BY <2>1, <3>1, <3>2
  <2>3. CASE ~(o.column > m - 4)
    BY <1>5, <1>8, <2>1, <2>3
  <2> QED
    BY <2>2, <2>3
<1>10. p.column <= m
  <2>1. s.column + 1 \in W
    BY <1>8, <1>9, Width DEF W
  <2>2. Word(s.column + 1) = s.column + 1
    BY <2>1, <1>9, WordOf
  <2> QED
    BY <1>7, <1>9, <2>2
<1>11. q.column = p.column /\ q.max_column = p.max_column /\ q \in Streams
  BY <1>7, IncreaseIs
<1> HIDE DEF q
<1>12. os'.column = q.column /\ os'.max_column = q.max_column
  BY <1>1, <1>11 DEF Streams
<1> QED
  BY <1>7, <1>10, <1>11, <1>12

(* Only AdvancedOpen begins the elements of a list.                        *)
LEMMA OtherFrames ==
  ASSUME SInv, [Next]_vars, ~AdvancedOpen
  PROVE  ~(Len(frames') > Len(frames))
<1>1. frames \in Seq(Frame) /\ Len(frames) \in Nat
  BY LenProperties DEF SInv, TraversalInv, Frame
<1>2. CASE frames' = frames
  BY <1>1, <1>2
<1>3. CASE frames' = <<>>
  BY <1>1, <1>3
<1>4. CASE frames' = NotFirst
  BY <1>1, <1>4, NotFirstType
<1>5. CASE frames' = Front(frames)
  <2>1. Len(Front(frames)) <= Len(frames) /\ Len(Front(frames)) \in Nat
    BY <1>1, FrontType, LenProperties
  <2> QED
    BY <1>1, <1>5, <2>1
<1>6. frames' = frames \/ frames' = <<>> \/ frames' = NotFirst \/ frames' = Front(frames)
  BY DEF Next, Continue, NewOutput, SetMaxColumn, Begin, BeginPrinting, CanonicalOpen,
         PrintCanonicalString, CanonicalClose, PrintAdvancedString, AdvancedClose, Finish, Stopped, vars
<1> QED
  BY <1>2, <1>3, <1>4, <1>5, <1>6

(* sexp_list_t::print_advanced subtracts the column from the width when it *)
(* is not the greater of the two.                                          *)
THEOREM RoomIsLeft == Spec => RoomIsNotNegative
<1>1. SInv /\ [Next]_vars
        => [Len(frames') > Len(frames) /\ os.max_column >= 4 => os'.column <= os'.max_column]_vars
  BY RoomToOpen, OtherFrames
<1> QED
  BY <1>1, SInvHolds, PTL DEF Spec, RoomIsNotNegative

=============================================================================
