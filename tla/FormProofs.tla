----------------------------- MODULE FormProofs -----------------------------
(***************************************************************************)
(* What the canonical and the base64 form of an object look like, octet by *)
(* octet: the first is the canonical encoding, the second its digits, with *)
(* their padding, on lines of limited length.                              *)
(***************************************************************************)
EXTENDS PrinterProofs

-----------------------------------------------------------------------------
(* What a stream has received after its first "at" octets.                 *)
Since(at, out) == SubSeq(out, at + 1, Len(out))

(* All but the line breaks.                                                *)
Chars(text) == Len(text) - Count(text, NEWLINE)

(* No line of the text is longer than b.                                   *)
Fits(text, b) ==
  \A i \in 0..Len(text) : \E start \in Lines(text) : start <= i /\ i <= start + b

LEMMA SinceAppend ==
  ASSUME NEW out \in Seq(Octets), NEW at \in 0..Len(out), NEW c \in Octets
  PROVE  /\ Since(at, out) \in Seq(Octets) /\ at \in 0..Len(Append(out, c))
         /\ Since(at, Append(out, c)) = Append(Since(at, out), c)
<1> DEFINE n == Len(out)
           t == Append(out, c)
           a == Since(at, out)
           b == Since(at, t)
<1>1. n \in Nat /\ \A i \in 1..n : out[i] \in Octets
  BY LenProperties, ElementOfSeq
<1>2. Len(t) = n + 1 /\ t[n + 1] = c /\ \A i \in 1..n : t[i] = out[i]
  BY AppendProperties
<1> DEFINE k == n - at
<1>3. k \in Nat /\ at \in Nat /\ n = at + k
  BY <1>1
<1>4. a = SubSeq(out, at + 1, n) /\ b = SubSeq(t, at + 1, n + 1)
  BY <1>2 DEF Since
<1> HIDE DEF n, t, a, b, k
<1>5. /\ a \in Seq(Octets) /\ Len(a) = k /\ \A i \in 1..k : a[i] = out[at + i]
  <2>1. \A i \in (at + 1)..n : out[i] \in Octets
    BY <1>1, <1>3
  <2>2. /\ a \in Seq(Octets) /\ Len(a) = (IF at + 1 <= n THEN n - (at + 1) + 1 ELSE 0)
        /\ \A i \in 1..(n - (at + 1) + 1) : a[i] = out[(at + 1) + i - 1]
    BY <1>1, <1>3, <1>4, <2>1, SubSeqProperties
  <2> QED
    BY <1>3, <2>2
<1>6. /\ b \in Seq(Octets) /\ Len(b) = k + 1 /\ \A i \in 1..(k + 1) : b[i] = t[at + i]
  <2>1. \A i \in (at + 1)..(n + 1) : t[i] \in Octets
    BY <1>1, <1>2, <1>3
  <2>2. /\ b \in Seq(Octets) /\ Len(b) = (IF at + 1 <= n + 1 THEN (n + 1) - (at + 1) + 1 ELSE 0)
        /\ \A i \in 1..((n + 1) - (at + 1) + 1) : b[i] = t[(at + 1) + i - 1]
    BY <1>1, <1>3, <1>4, <2>1, SubSeqProperties
  <2> QED
    BY <1>3, <2>2
<1>7. /\ Append(a, c) \in Seq(Octets) /\ Len(Append(a, c)) = k + 1 /\ Append(a, c)[k + 1] = c
      /\ \A i \in 1..k : Append(a, c)[i] = a[i]
  BY <1>5, AppendProperties
<1>8. b = Append(a, c)
  <2> SUFFICES ASSUME NEW i \in 1..(k + 1) PROVE b[i] = Append(a, c)[i]
    BY <1>3, <1>6, <1>7, SeqEqual
  <2>1. CASE i \in 1..k
    <3>1. b[i] = t[at + i] /\ at + i \in 1..n /\ Append(a, c)[i] = out[at + i]
      BY <1>3, <1>5, <1>6, <1>7, <2>1
    <3> QED
      BY <1>2, <3>1
  <2>2. CASE i = k + 1
    <3>1. at + i = n + 1
      BY <1>3, <2>2
    <3> QED
      BY <1>2, <1>6, <1>7, <2>2, <3>1
  <2>3. i \in 1..k \/ i = k + 1
    BY <1>3
  <2> QED
    BY <2>1, <2>2, <2>3
<1>9. a \in Seq(Octets) /\ at \in 0..Len(t) /\ b = Append(a, c)
  BY <1>2, <1>3, <1>5, <1>8
<1> QED
  BY <1>9 DEF a, b, t

LEMMA CharsAppend ==
  ASSUME NEW text \in Seq(Octets), NEW c \in Octets
  PROVE  /\ Chars(text) \in Int
         /\ Chars(Append(text, c)) = Chars(text) + (IF c = NEWLINE THEN 0 ELSE 1)
<1>1. Len(text) \in Nat /\ Count(text, NEWLINE) \in Nat
  BY LenProperties, CountType
<1>2. /\ Len(Append(text, c)) = Len(text) + 1
      /\ Count(Append(text, c), NEWLINE) = Count(text, NEWLINE) + (IF c = NEWLINE THEN 1 ELSE 0)
  BY AppendProperties, CountAppend
<1> QED
  BY <1>1, <1>2 DEF Chars

-----------------------------------------------------------------------------
(* Lines of limited length.                                                *)
LEMMA FitsAppend ==
  ASSUME NEW text \in Seq(Octets), NEW c \in Octets, NEW b \in Nat, Fits(text, b),
         c = NEWLINE \/ \E start \in Lines(text) : Len(text) + 1 <= start + b
  PROVE  Fits(Append(text, c), b)
<1> DEFINE t == Append(text, c)
           n == Len(text)
<1>1. /\ n \in Nat /\ Lines(text) \subseteq 0..n /\ Len(t) = n + 1
      /\ Lines(t) = Lines(text) \cup (IF c = NEWLINE THEN {n + 1} ELSE {})
  BY LinesOfAppend
<1>2. c = NEWLINE \/ \E start \in Lines(text) : n + 1 <= start + b
  OBVIOUS
<1>3. \A i \in 0..n : \E start \in Lines(text) : start <= i /\ i <= start + b
  BY DEF Fits
<1> HIDE DEF t, n
<1>4. ASSUME NEW i \in 0..n PROVE \E start \in Lines(t) : start <= i /\ i <= start + b
  BY <1>1, <1>3
<1>5. \E start \in Lines(t) : start <= n + 1 /\ n + 1 <= start + b
  <2>1. CASE c = NEWLINE
    <3>1. n + 1 \in Lines(t) /\ n + 1 <= (n + 1) + b /\ n + 1 <= n + 1
      BY <1>1, <2>1
    <3> QED
      BY <3>1
  <2>2. CASE c # NEWLINE
    <3>1. PICK start \in Lines(text) : n + 1 <= start + b
      BY <1>2, <2>2
    <3>2. start \in Lines(t) /\ start <= n + 1
      BY <1>1, <3>1
    <3> QED
      BY <3>1, <3>2
  <2> QED
    BY <2>1, <2>2
<1>6. \A i \in 0..(n + 1) : i \in 0..n \/ i = n + 1
  BY <1>1
<1>7. Fits(t, b)
  BY <1>1, <1>4, <1>5, <1>6 DEF Fits
<1> QED
  BY <1>7 DEF t

LEMMA NewLineOctet == NEWLINE \in Octets
BY DEF NEWLINE, Octets

(* Since "at" the lines fit w + 1 columns, and the column is right and at  *)
(* most "limit".  No width, nothing to hold.                               *)
OnLine(at, w, limit, o) ==
  w # 0 => /\ o.max_column = w /\ o.column <= limit
           /\ Fits(Since(at, o.out), w + 1)
           /\ \E start \in Lines(Since(at, o.out)) : Len(Since(at, o.out)) = start + o.column

LEMMA PutOnLine ==
  ASSUME NEW o \in Streams, NEW at \in 0..Len(o.out), NEW w \in 0..(WordMod - 2), NEW limit \in 0..w,
         OnLine(at, w, limit, o), NEW c \in Octets \ {NEWLINE}
  PROVE  OnLine(at, w, limit + 1, PutChar(o, c))
<1> SUFFICES ASSUME w # 0 PROVE OnLine(at, w, limit + 1, PutChar(o, c))
  BY DEF OnLine
<1> DEFINE p == PutChar(o, c)
           s == Since(at, o.out)
           t == Since(at, p.out)
<1>1. /\ p.out = Append(o.out, c) /\ p.column = Word(o.column + 1)
      /\ p.max_column = o.max_column /\ o.out \in Seq(Octets)
  BY PutCharIs DEF Streams
<1>2. s \in Seq(Octets) /\ t = Append(s, c)
  BY <1>1, SinceAppend
<1>3. o.max_column = w /\ o.column <= limit /\ Fits(s, w + 1)
  BY DEF OnLine
<1>4. PICK start \in Lines(s) : Len(s) = start + o.column
  BY DEF OnLine
<1>5. Len(s) \in Nat /\ Lines(s) \subseteq 0..Len(s) /\ Len(t) = Len(s) + 1 /\ Lines(t) = Lines(s)
  BY <1>2, LinesOfAppend
<1>6. o.column \in Nat /\ w + 1 \in Nat /\ p.column = o.column + 1
  <2>1. o.column \in Nat /\ w + 1 \in Nat /\ o.column + 1 \in W
    BY <1>3, Width DEF Streams, W
  <2> QED
    BY <1>1, <2>1, WordOf
<1> HIDE DEF p, s, t
<1>7. start \in Int /\ limit \in Int /\ w \in Int /\ limit <= w
  BY <1>4, <1>5, Width DEF W
<1>8. p.column <= limit + 1 /\ Len(t) = start + p.column
  <2>1. Len(t) = (start + o.column) + 1 /\ o.column \in Int /\ o.column <= limit
    BY <1>3, <1>4, <1>5, <1>6
  <2>2. p.column <= limit + 1
    BY <1>6, <1>7, <2>1
  <2>3. Len(t) = start + p.column
    BY <1>6, <1>7, <2>1
  <2> QED
    BY <2>2, <2>3
<1>9. Fits(t, w + 1)
  <2>1. Len(s) + 1 <= start + (w + 1)
    <3>1. Len(s) = start + o.column /\ o.column \in Int /\ o.column <= limit
      BY <1>3, <1>4, <1>6
    <3> QED
      BY <1>7, <3>1
  <2>2. c \in Octets
    OBVIOUS
  <2> QED
    BY <1>2, <1>3, <1>4, <1>6, <2>1, <2>2, FitsAppend
<1>10. OnLine(at, w, limit + 1, p)
  <2>1. Since(at, p.out) = t
    BY DEF t
  <2> QED
    BY <1>1, <1>3, <1>4, <1>5, <1>9, <1>8, <2>1 DEF OnLine
<1> QED
  BY <1>10 DEF p

LEMMA FreshOnLine ==
  ASSUME NEW o \in Streams, NEW at \in 0..Len(o.out), NEW w \in 0..(WordMod - 2), NEW limit \in Nat,
         OnLine(at, w, limit, o)
  PROVE  OnLine(at, w, 0, Fresh(o))
<1> SUFFICES ASSUME w # 0 PROVE OnLine(at, w, 0, Fresh(o))
  BY DEF OnLine
<1> DEFINE p == Fresh(o)
           s == Since(at, o.out)
           t == Since(at, p.out)
<1>1. /\ p.out = Append(o.out, NEWLINE) /\ p.column = 0
      /\ p.max_column = o.max_column /\ o.out \in Seq(Octets) /\ NEWLINE \in Octets
  BY FreshIs, NewLineOctet DEF Streams
<1>2. s \in Seq(Octets) /\ t = Append(s, NEWLINE)
  BY <1>1, SinceAppend
<1>3. o.max_column = w /\ Fits(s, w + 1)
  BY DEF OnLine
<1>4. Len(s) \in Nat /\ Len(t) = Len(s) + 1 /\ Lines(t) = Lines(s) \cup {Len(s) + 1}
  BY <1>1, <1>2, LinesOfAppend
<1>5. w + 1 \in Nat
  OBVIOUS
<1> HIDE DEF p, s, t
<1>6. Fits(t, w + 1)
  BY <1>1, <1>2, <1>3, <1>5, FitsAppend
<1>7. Len(t) \in Lines(t) /\ Len(t) = Len(t) + p.column /\ p.column <= 0
  BY <1>1, <1>4
<1>8. OnLine(at, w, 0, p)
  <2>1. Since(at, p.out) = t
    BY DEF t
  <2> QED
    BY <1>1, <1>3, <1>6, <1>7, <2>1 DEF OnLine
<1> QED
  BY <1>8 DEF p

(* A character before which a full line is broken.                         *)
Broken(o) == IF AtLineEnd(o) THEN Fresh(o) ELSE o

LEMMA BrokenOnLine ==
  ASSUME NEW o \in Streams, NEW at \in 0..Len(o.out), NEW w \in 0..(WordMod - 2),
         OnLine(at, w, w + 1, o), NEW c \in Octets \ {NEWLINE}
  PROVE  OnLine(at, w, w, PutChar(Broken(o), c))
<1>1. CASE w = 0
  BY <1>1 DEF OnLine
<1>2. CASE w # 0 /\ AtLineEnd(o)
  <2>1. OnLine(at, w, 0, Fresh(o)) /\ Fresh(o) \in Streams
    <3>1. w + 1 \in Nat
      OBVIOUS
    <3> QED
      BY <3>1, FreshOnLine, FreshIs
  <2>2. at \in 0..Len(Fresh(o).out)
    <3>1. o.out \in Seq(Octets) /\ Fresh(o).out = Append(o.out, NEWLINE)
      BY FreshIs DEF Streams
    <3> QED
      BY <3>1, NewLineOctet, SinceAppend
  <2>3. 0 \in 0..w /\ 0 + 1 = 1 /\ 1 <= w
    BY <1>2
  <2>4. OnLine(at, w, 1, PutChar(Fresh(o), c))
    <3>1. OnLine(at, w, 0 + 1, PutChar(Fresh(o), c))
      BY <2>1, <2>2, <2>3, PutOnLine
    <3> QED
      BY <2>3, <3>1
  <2>5. PutChar(Fresh(o), c).column \in Nat
    <3>1. PutChar(Fresh(o), c) \in Streams
      BY <2>1, PutCharIs
    <3>2. PutChar(Fresh(o), c).column \in W
      BY <3>1 DEF Streams
    <3> QED
      BY <3>2, Width DEF W
  <2>6. OnLine(at, w, w, PutChar(Fresh(o), c))
    BY <2>3, <2>4, <2>5 DEF OnLine
  <2> QED
    BY <1>2, <2>6 DEF Broken
<1>3. CASE w # 0 /\ ~AtLineEnd(o)
  <2>1. o.max_column = w /\ o.column \in Nat
    BY <1>3, Width DEF OnLine, Streams, W
  <2>2. o.column <= w - 1
    BY <1>3, <2>1 DEF AtLineEnd
  <2>3. w - 1 \in 0..w /\ (w - 1) + 1 = w
    BY <1>3
  <2>4. OnLine(at, w, w - 1, o)
    BY <1>3, <2>2 DEF OnLine
  <2>5. OnLine(at, w, w, PutChar(o, c))
    BY <2>3, <2>4, PutOnLine
  <2> QED
    BY <1>3, <2>5 DEF Broken
<1> QED
  BY <1>1, <1>2, <1>3

-----------------------------------------------------------------------------
(* The digits of a region.                                                 *)
LEMMA NextDigit ==
  ASSUME NEW o \in Streams, NEW at \in 0..Len(o.out), NEW w \in 0..(WordMod - 2),
         OnLine(at, w, w + 1, o), NEW c \in Octets \ {NEWLINE}
  PROVE  LET p == PutChar(Broken(o), c)
         IN /\ p \in Streams /\ at \in 0..Len(p.out) /\ OnLine(at, w, w, p)
            /\ SameRegisters(o, p)
            /\ Chars(Since(at, p.out)) = Chars(Since(at, o.out)) + 1
            /\ Chars(Since(at, o.out)) \in Int
<1> DEFINE b == Broken(o)
           p == PutChar(b, c)
<1>1. OnLine(at, w, w, p)
  BY BrokenOnLine
<1>2. b \in Streams /\ b.out \in Seq(Octets) /\ SameRegisters(o, b) /\ o.out \in Seq(Octets)
  BY FreshIs DEF Broken, Streams, SameRegisters
<1>3. /\ at \in 0..Len(b.out)
      /\ Chars(Since(at, b.out)) = Chars(Since(at, o.out)) /\ Chars(Since(at, o.out)) \in Int
      /\ Since(at, b.out) \in Seq(Octets)
  <2>1. Since(at, o.out) \in Seq(Octets)
    BY <1>2, NewLineOctet, SinceAppend
  <2>2. Chars(Since(at, o.out)) \in Int
    BY <2>1, NewLineOctet, CharsAppend
  <2>3. CASE AtLineEnd(o)
    <3>1. b.out = Append(o.out, NEWLINE)
      BY <2>3, FreshIs DEF Broken
    <3>2. /\ at \in 0..Len(b.out) /\ Since(at, b.out) = Append(Since(at, o.out), NEWLINE)
      BY <1>2, <3>1, NewLineOctet, SinceAppend
    <3>3. Chars(Since(at, b.out)) = Chars(Since(at, o.out)) + 0
      BY <2>1, <3>2, NewLineOctet, CharsAppend
    <3>4. Since(at, b.out) \in Seq(Octets)
      BY <2>1, <3>2, NewLineOctet, AppendProperties
    <3> QED
      BY <2>2, <3>2, <3>3, <3>4
  <2>4. CASE ~AtLineEnd(o)
    BY <2>1, <2>2, <2>4 DEF Broken
  <2> QED
    BY <2>3, <2>4
<1>4. p \in Streams /\ SameRegisters(b, p) /\ p.out = Append(b.out, c)
  BY <1>2, PutCharIs
<1> HIDE DEF b, p
<1>5. at \in 0..Len(p.out) /\ Since(at, p.out) = Append(Since(at, b.out), c)
  BY <1>2, <1>3, <1>4, SinceAppend
<1>6. Chars(Since(at, p.out)) = Chars(Since(at, b.out)) + 1
  BY <1>3, <1>5, CharsAppend
<1>7. /\ p \in Streams /\ at \in 0..Len(p.out) /\ OnLine(at, w, w, p)
      /\ SameRegisters(o, p)
      /\ Chars(Since(at, p.out)) = Chars(Since(at, o.out)) + 1
      /\ Chars(Since(at, o.out)) \in Int
  BY <1>1, <1>2, <1>3, <1>4, <1>5, <1>6 DEF SameRegisters, p, b
<1> QED
  BY <1>7 DEF p, b

(* After the brace that begins a region there are d digits.                *)
RegionAt(at, w, d, o) ==
  /\ o \in Streams /\ at \in 0..Len(o.out) /\ o.byte_size = 6 /\ o.mode = "base64"
  /\ OnLine(at, w, w, o)
  /\ Chars(Since(at, o.out)) = d + 1
  /\ o.base64_count = Word(d)

LEMMA Slack ==
  ASSUME NEW o \in Streams, NEW at, NEW w \in 0..(WordMod - 2), OnLine(at, w, w, o)
  PROVE  OnLine(at, w, w + 1, o)
<1>1. o.column \in Nat
  BY Width DEF Streams, W
<1> QED
  BY <1>1 DEF OnLine

(* A stream of the same text is on the same line.                          *)
LEMMA SameLine ==
  ASSUME NEW o, NEW p, SameText(o, p), NEW at, NEW w, NEW limit, OnLine(at, w, limit, o)
  PROVE  OnLine(at, w, limit, p)
BY DEF SameText, OnLine

LEMMA EmitInRegion ==
  ASSUME NEW at, NEW w \in 0..(WordMod - 2), NEW d \in Int, NEW o, RegionAt(at, w, d, o),
         Ready(o), o.n_bits >= 6, NEW c
  PROVE  /\ RegionAt(at, w, d + 1, Emit(o, c)) /\ Emit(o, c).n_bits = o.n_bits - 6
<1> DEFINE b == BreakLine(o, c)
           g == Glyph(o.byte_size, Group(o))
           q == PutChar(b, g)
           p == Emit(o, c)
<1>1. /\ o \in Streams /\ at \in 0..Len(o.out) /\ o.byte_size = 6 /\ o.mode = "base64"
      /\ OnLine(at, w, w + 1, o)
      /\ Chars(Since(at, o.out)) = d + 1 /\ o.base64_count = Word(d)
  BY Slack DEF RegionAt
<1>2. b = Broken(o)
  <2>1. NewLine(o, o.mode) = Fresh(o)
    BY <1>1, NewLineIs
  <2>2. o.byte_size # 8
    BY <1>1
  <2> QED
    BY <2>1, <2>2 DEF BreakLine, Broken
<1>3. g \in Octets \ {NEWLINE}
  BY <1>1, GroupGlyph
<1>4. b \in Streams /\ SameRegisters(o, b)
  <2>1. Keeps(Streams, Octets)
    BY PutCharIs, FreshIs DEF Keeps
  <2> QED
    BY <1>1, <2>1, BreakLineKeeps
<1>5. /\ p \in Streams /\ SameText(q, p) /\ p.byte_size = o.byte_size /\ p.mode = o.mode
      /\ p.n_bits = o.n_bits - o.byte_size /\ p.base64_count = Word(o.base64_count + 1)
  BY <1>1, <1>4, EmitIs
<1> HIDE DEF g
<1>6. /\ q \in Streams /\ at \in 0..Len(q.out) /\ OnLine(at, w, w, q)
      /\ Chars(Since(at, q.out)) = Chars(Since(at, o.out)) + 1
  <2> HIDE DEF b
  <2>1. /\ PutChar(Broken(o), g) \in Streams /\ at \in 0..Len(PutChar(Broken(o), g).out)
        /\ OnLine(at, w, w, PutChar(Broken(o), g))
        /\ Chars(Since(at, PutChar(Broken(o), g).out)) = Chars(Since(at, o.out)) + 1
    BY <1>1, <1>3, NextDigit
  <2> QED
    BY <1>2, <2>1
<1> HIDE DEF b, q, p
<1>7. OnLine(at, w, w, p) /\ p.out = q.out
  BY <1>5, <1>6, SameLine DEF SameText
<1>8. Word(o.base64_count + 1) = Word(d + 1)
  BY <1>1, WordSum
<1>9. RegionAt(at, w, d + 1, p)
  BY <1>1, <1>5, <1>6, <1>7, <1>8 DEF RegionAt
<1> QED
  BY <1>1, <1>5, <1>9 DEF p

(* The text t has been received: in canonical mode as it is, ...           *)
Exact(at, t, o) ==
  /\ o \in Streams /\ at \in 0..Len(o.out) /\ Calm(o) /\ o.mode = "canonical"
  /\ t \in Seq(Octets) /\ Since(at, o.out) = t

(* ... and in a region as digits and bits that wait.                       *)
Coded(at, w, t, o) ==
  /\ Waiting(o) /\ t \in Seq(Octets)
  /\ \E d \in Int : RegionAt(at, w, d, o) /\ 6 * d + o.n_bits = 8 * Len(t)

LEMMA VarPutCharCoded ==
  ASSUME NEW at, NEW w \in 0..(WordMod - 2), NEW t, NEW o, Coded(at, w, t, o), NEW c \in Octets
  PROVE  Coded(at, w, Append(t, c), VarPutChar(o, c))
<1> DEFINE p == Shifted(o, c)
           q == Emit(p, c)
           r == Emit(q, c)
<1>1. PICK d \in Int : RegionAt(at, w, d, o) /\ 6 * d + o.n_bits = 8 * Len(t)
  BY DEF Coded
<1>2. o \in Streams /\ o.byte_size = 6 /\ Waiting(o) /\ o.n_bits \in {0, 2, 4}
  BY <1>1 DEF RegionAt, Coded, Waiting
<1>3. /\ p \in Streams /\ SameText(o, p) /\ Ready(p) /\ p.byte_size = 6 /\ p.mode = o.mode
      /\ p.n_bits = o.n_bits + 8 /\ p.base64_count = o.base64_count
  BY <1>2, ShiftedIs
<1>4. VarPutChar(o, c) = r
  BY DEF VarPutChar, Shifted
<1>5. t \in Seq(Octets) /\ Len(t) \in Nat /\ Append(t, c) \in Seq(Octets)
      /\ Len(Append(t, c)) = Len(t) + 1
  BY AppendProperties, LenProperties DEF Coded
<1> HIDE DEF p, q, r
<1>6. RegionAt(at, w, d, p)
  <2>1. OnLine(at, w, w, p)
    BY <1>1, <1>3, SameLine DEF RegionAt
  <2> QED
    BY <1>1, <1>3, <2>1 DEF RegionAt, SameText
<1>7. RegionAt(at, w, d + 1, q) /\ q.n_bits = o.n_bits + 2
  <2>1. p.n_bits >= 6
    BY <1>2, <1>3
  <2>2. RegionAt(at, w, d + 1, q) /\ q.n_bits = p.n_bits - 6
    BY <1>3, <1>6, <2>1, EmitInRegion DEF q
  <2> QED
    BY <1>2, <1>3, <2>2
<1>8. q.byte_size = 6 /\ Ready(q)
  BY <1>2, <1>7 DEF RegionAt, Ready
<1>9. CASE o.n_bits = 4
  <2>1. q.n_bits >= 6
    BY <1>7, <1>9
  <2>2. d + 1 \in Int
    OBVIOUS
  <2>3. RegionAt(at, w, (d + 1) + 1, r) /\ r.n_bits = q.n_bits - 6
    BY <1>7, <1>8, <2>1, <2>2, EmitInRegion DEF r
  <2>4. r.n_bits = 0 /\ r.byte_size = 6
    BY <1>7, <1>9, <2>3 DEF RegionAt
  <2>5. (d + 1) + 1 \in Int /\ 6 * ((d + 1) + 1) + r.n_bits = 8 * Len(Append(t, c))
    BY <1>1, <1>5, <1>9, <2>4
  <2>6. Waiting(r)
    BY <2>4 DEF Waiting
  <2> QED
    BY <1>4, <1>5, <2>3, <2>5, <2>6 DEF Coded
<1>10. CASE o.n_bits # 4
  <2>1. q.n_bits \in {2, 4} /\ o.n_bits \in {0, 2}
    BY <1>2, <1>7, <1>10
  <2>2. r = q
    BY <1>8, <2>1 DEF r, Emit
  <2>3. d + 1 \in Int /\ 6 * (d + 1) + r.n_bits = 8 * Len(Append(t, c))
    BY <1>1, <1>5, <1>7, <2>1, <2>2
  <2>4. Waiting(r)
    BY <1>8, <2>1, <2>2 DEF Waiting
  <2> QED
    BY <1>4, <1>5, <1>7, <2>2, <2>3, <2>4 DEF Coded
<1> QED
  BY <1>9, <1>10

LEMMA VarPutCharExact ==
  ASSUME NEW at, NEW t, NEW o, Exact(at, t, o), NEW c \in Octets
  PROVE  Exact(at, Append(t, c), VarPutChar(o, c))
<1> DEFINE p == Shifted(o, c)
           q == Emit(p, c)
           r == Emit(q, c)
<1>1. /\ o \in Streams /\ at \in 0..Len(o.out) /\ o.byte_size = 8 /\ o.n_bits = 0
      /\ o.mode = "canonical" /\ t \in Seq(Octets) /\ Since(at, o.out) = t /\ Waiting(o)
  BY DEF Exact, Calm, Waiting
<1>2. /\ p \in Streams /\ SameText(o, p) /\ Ready(p) /\ p.byte_size = 8 /\ p.mode = "canonical"
      /\ p.n_bits = 8 /\ p.bits % 256 = c
  BY <1>1, ShiftedIs
<1>3. VarPutChar(o, c) = r
  BY DEF VarPutChar, Shifted
<1> HIDE DEF p
<1>4. BreakLine(p, c) = p
  <2>1. NewLine(p, p.mode) = p
    BY <1>2, NewLineIs
  <2> QED
    BY <2>1 DEF BreakLine
<1> DEFINE g == Glyph(p.byte_size, Group(p))
<1>5. g = c
  BY <1>2, GroupGlyph
<1>6. /\ q \in Streams /\ SameText(PutChar(p, c), q) /\ q.byte_size = 8 /\ q.mode = "canonical"
      /\ q.n_bits = 0
  <2>1. SameRegisters(p, p) /\ p.n_bits >= p.byte_size
    BY <1>2 DEF SameRegisters
  <2>2. /\ Emit(p, c) \in Streams /\ SameText(PutChar(p, g), Emit(p, c))
        /\ Emit(p, c).byte_size = p.byte_size /\ Emit(p, c).mode = p.mode
        /\ Emit(p, c).n_bits = p.n_bits - p.byte_size
    BY <1>2, <1>4, <2>1, EmitIs
  <2> QED
    BY <1>2, <1>5, <2>2
<1> HIDE DEF g, q
<1>7. r = q
  BY <1>6 DEF Emit
<1>8. q.out = Append(o.out, c)
  BY <1>2, <1>6, PutCharIs DEF SameText
<1>9. o.out \in Seq(Octets)
  BY <1>1 DEF Streams
<1>10. at \in 0..Len(q.out) /\ Since(at, q.out) = Append(t, c) /\ Append(t, c) \in Seq(Octets)
  BY <1>1, <1>8, <1>9, SinceAppend, AppendProperties
<1> QED
  BY <1>3, <1>6, <1>7, <1>10 DEF Exact, Calm

-----------------------------------------------------------------------------
(* print_canonical: the octets that a stream receives from it.             *)
Received(region, at, w, t, o) == IF region THEN Coded(at, w, t, o) ELSE Exact(at, t, o)

LEMMA ReceivedType ==
  ASSUME NEW region, NEW at, NEW w, NEW t, NEW o, Received(region, at, w, t, o)
  PROVE  o \in Streams /\ t \in Seq(Octets) /\ Waiting(o) /\ at \in 0..Len(o.out)
BY DEF Received, Coded, Exact, RegionAt, Calm, Waiting

LEMMA OctetReceived ==
  ASSUME NEW region, NEW at, NEW w \in 0..(WordMod - 2), NEW t, NEW o,
         Received(region, at, w, t, o), NEW c \in Octets
  PROVE  Received(region, at, w, Append(t, c), VarPutChar(o, c))
BY VarPutCharCoded, VarPutCharExact DEF Received

LEMMA OctetsReceived ==
  ASSUME NEW region, NEW at, NEW w \in 0..(WordMod - 2), NEW t, NEW o,
         Received(region, at, w, t, o), NEW s \in Seq(Octets)
  PROVE  Received(region, at, w, t \o s, VarPutAll(o, s))
<1> DEFINE R == {x \in Streams \X Seq(Octets) : Received(region, at, w, t \o x[2], x[1])}
<1>1. t \in Seq(Octets) /\ o \in Streams
  BY ReceivedType
<1>2. <<o, <<>>>> \in R
  <2>1. t \o <<>> = t /\ <<>> \in Seq(Octets)
    BY <1>1, ConcatEmptySeq, EmptySeq
  <2> QED
    BY <1>1, <2>1
<1>3. ASSUME NEW p, NEW u \in Seq(Octets), NEW c \in Octets, <<p, u>> \in R
      PROVE  <<VarPutChar(p, c), Append(u, c)>> \in R
  <2>1. Received(region, at, w, t \o u, p)
    BY <1>3
  <2>2. Received(region, at, w, Append(t \o u, c), VarPutChar(p, c))
    BY <2>1, OctetReceived
  <2>3. Append(t \o u, c) = t \o Append(u, c) /\ Append(u, c) \in Seq(Octets)
    <3>1. <<c>> \in Seq(Octets) /\ t \o u \in Seq(Octets)
      BY <1>1, ConcatProperties
    <3>2. Append(t \o u, c) = (t \o u) \o <<c>> /\ Append(u, c) = u \o <<c>>
      BY <3>1, AppendIsConcat
    <3>3. (t \o u) \o <<c>> = t \o (u \o <<c>>)
      BY <1>1, <3>1
    <3>4. Append(t \o u, c) = t \o Append(u, c)
      BY <3>2, <3>3, Zenon
    <3> QED
      BY <3>4, AppendProperties
  <2>4. VarPutChar(p, c) \in Streams
    BY <2>2, ReceivedType
  <2> QED
    BY <2>2, <2>3, <2>4
<1>4. \A p, u : <<p, u>> \in R => Received(region, at, w, t \o u, p)
  OBVIOUS
<1> HIDE DEF R
<1>5. <<VarPuts!Fold(o, s), s>> \in R
  BY <1>2, <1>3, VarPuts!FoldRelation
<1> QED
  BY <1>4, <1>5, VarPutAllIs

LEMMA VerbatimReceived ==
  ASSUME NEW region, NEW at, NEW w \in 0..(WordMod - 2), NEW t, NEW o,
         Received(region, at, w, t, o), NEW s \in Seq(Octets)
  PROVE  /\ Received(region, at, w, t \o Verbatim(s), PrintCanonicalVerbatim(o, s))
         /\ Verbatim(s) \in Seq(Octets)
<1>1. Verbatim(s) \in Seq(Octets)
  <2>1. Octets \ {NEWLINE} \subseteq Octets
    OBVIOUS
  <2> QED
    BY <2>1, Brackets, VerbatimType
<1>2. PrintCanonicalVerbatim(o, s) = VarPutAll(o, Verbatim(s))
  BY DEF PrintCanonicalVerbatim, Verbatim
<1>3. \A x \in Seq(Octets) : Received(region, at, w, t \o x, VarPutAll(o, x))
  BY OctetsReceived
<1> QED
  BY <1>1, <1>2, <1>3

LEMMA BracketOctets == {LPAREN, RPAREN, LBRACKET, RBRACKET, LBRACE, RBRACE} \subseteq Octets \ {NEWLINE}
BY DEF LPAREN, RPAREN, LBRACKET, RBRACKET, LBRACE, RBRACE, Octets, NEWLINE

LEMMA Bracketed ==
  ASSUME NEW S, NEW t \in Seq(S), NEW x \in Seq(S), NEW l \in S, NEW r \in S
  PROVE  /\ Append(Append(t, l) \o x, r) = t \o (<<l>> \o x \o <<r>>)
         /\ <<l>> \o x \o <<r>> \in Seq(S)
<1> DEFINE a == <<l>>
           b == <<r>>
<1>1. a \in Seq(S) /\ b \in Seq(S)
  OBVIOUS
<1>2. Append(t, l) = t \o a
  BY AppendIsConcat
<1>3. t \o a \in Seq(S) /\ (t \o a) \o x \in Seq(S) /\ a \o x \in Seq(S)
      /\ (a \o x) \o b \in Seq(S)
  <2> HIDE DEF a, b
  <2>1. t \o a \in Seq(S) /\ a \o x \in Seq(S)
    BY <1>1, ConcatProperties
  <2> QED
    BY <1>1, <2>1, ConcatProperties
<1>4. Append((t \o a) \o x, r) = ((t \o a) \o x) \o b
  BY <1>3, AppendIsConcat
<1> HIDE DEF a, b
<1>5. (t \o a) \o x = t \o (a \o x)
  BY <1>1
<1>6. (t \o (a \o x)) \o b = t \o ((a \o x) \o b)
  BY <1>1, <1>3
<1>7. Append(Append(t, l) \o x, r) = t \o ((a \o x) \o b)
  BY <1>2, <1>4, <1>5, <1>6, Zenon
<1> QED
  BY <1>3, <1>7 DEF a, b

LEMMA StringReceived ==
  ASSUME NEW region, NEW at, NEW w \in 0..(WordMod - 2), NEW t, NEW o,
         Received(region, at, w, t, o), NEW e \in Events, e.kind = "string"
  PROVE  /\ Received(region, at, w, t \o Image(e), CanonicalString(o, e))
         /\ Image(e) \in Seq(Octets)
<1>1. e \notin {Opened, Closed} /\ e.data \in Seq(Octets) /\ e.hint \in Seq(Seq(Octets))
  BY EventKinds DEF EventIn
<1> DEFINE h == e.hint[1]
           v == Verbatim(e.data)
           hinted == <<LBRACKET>> \o Verbatim(h) \o <<RBRACKET>>
           prefix == IF e.hint = <<>> THEN <<>> ELSE hinted
           p == IF e.hint = <<>> THEN o
                ELSE VarPutChar(PrintCanonicalVerbatim(VarPutChar(o, LBRACKET), h), RBRACKET)
<1>2. Image(e) = prefix \o v /\ CanonicalString(o, e) = PrintCanonicalVerbatim(p, e.data)
  BY <1>1 DEF Image, CanonicalString
<1>3. t \in Seq(Octets) /\ v \in Seq(Octets)
  BY <1>1, ReceivedType, VerbatimReceived
<1>4. Received(region, at, w, t \o prefix, p) /\ prefix \in Seq(Octets)
  <2>1. CASE e.hint = <<>>
    <3>1. t \o <<>> = t /\ <<>> \in Seq(Octets)
      BY <1>3, ConcatEmptySeq, EmptySeq
    <3> QED
      BY <2>1, <3>1
  <2>2. CASE e.hint # <<>>
    <3>1. h \in Seq(Octets)
      BY <1>1, <2>2, EmptySeq, ElementOfSeq, LenProperties
    <3> DEFINE p1 == VarPutChar(o, LBRACKET)
               p2 == PrintCanonicalVerbatim(p1, h)
               t1 == Append(t, LBRACKET)
               x == Verbatim(h)
    <3>2. LBRACKET \in Octets /\ RBRACKET \in Octets
      BY BracketOctets
    <3>3. Received(region, at, w, t1, p1) /\ t1 \in Seq(Octets)
      BY <3>2, OctetReceived, ReceivedType
    <3> HIDE DEF p1, h
    <3>4. Received(region, at, w, t1 \o x, p2) /\ x \in Seq(Octets)
      BY <3>1, <3>3, VerbatimReceived
    <3> HIDE DEF p2
    <3>5. Received(region, at, w, Append(t1 \o x, RBRACKET), VarPutChar(p2, RBRACKET))
      BY <3>2, <3>4, OctetReceived
    <3>6. Append(t1 \o x, RBRACKET) = t \o hinted /\ hinted \in Seq(Octets)
      BY <1>3, <3>2, <3>4, Bracketed
    <3> QED
      BY <2>2, <3>5, <3>6 DEF p2, p1
  <2> QED
    BY <2>1, <2>2
<1> HIDE DEF p, prefix
<1>5. Received(region, at, w, (t \o prefix) \o v, PrintCanonicalVerbatim(p, e.data))
  BY <1>1, <1>4, VerbatimReceived
<1> HIDE DEF v
<1>6. (t \o prefix) \o v = t \o (prefix \o v) /\ prefix \o v \in Seq(Octets)
  BY <1>3, <1>4, ConcatAssociative, ConcatProperties
<1> QED
  BY <1>2, <1>5, <1>6

-----------------------------------------------------------------------------
(* The end of a region.                                                    *)

(* After the last group, with its d digits; it may have passed the line.   *)
FlushedAt(at, w, d, o) ==
  /\ o \in Streams /\ at \in 0..Len(o.out) /\ o.byte_size = 6 /\ o.n_bits = 0
  /\ o.mode = "base64" /\ OnLine(at, w, w + 1, o)
  /\ Chars(Since(at, o.out)) = d + 1
  /\ o.base64_count = Word(d)

LEMMA AllStreamsKeep == Keeps(Streams, Octets)
BY PutCharIs, FreshIs DEF Keeps

LEMMA PadInRegion ==
  ASSUME NEW at, NEW w \in 0..(WordMod - 2), NEW d \in Int, NEW o, FlushedAt(at, w, d, o), NEW i
  PROVE  FlushedAt(at, w, d + 1, Pad(o, i))
<1> DEFINE q == IF AtLineEnd(o) THEN NewLine(o, o.mode) ELSE o
           r == PutChar(q, EQUALS)
           p == Pad(o, i)
<1>1. /\ o \in Streams /\ at \in 0..Len(o.out) /\ o.byte_size = 6 /\ o.n_bits = 0
      /\ o.mode = "base64" /\ OnLine(at, w, w + 1, o)
      /\ Chars(Since(at, o.out)) = d + 1 /\ o.base64_count = Word(d)
  BY DEF FlushedAt
<1>2. q = Broken(o)
  BY <1>1, NewLineIs DEF Broken
<1>3. /\ p \in Streams /\ SameText(r, p) /\ p.byte_size = o.byte_size /\ p.n_bits = o.n_bits
      /\ p.mode = o.mode /\ p.base64_count = Word(o.base64_count + 1)
  BY <1>1, AllStreamsKeep, PadKeeps
<1> HIDE DEF q, p
<1>4. EQUALS \in Octets \ {NEWLINE}
  BY DEF EQUALS, Octets, NEWLINE
<1>5. /\ r \in Streams /\ at \in 0..Len(r.out) /\ OnLine(at, w, w, r)
      /\ Chars(Since(at, r.out)) = Chars(Since(at, o.out)) + 1
  <2>1. /\ PutChar(Broken(o), EQUALS) \in Streams /\ at \in 0..Len(PutChar(Broken(o), EQUALS).out)
        /\ OnLine(at, w, w, PutChar(Broken(o), EQUALS))
        /\ Chars(Since(at, PutChar(Broken(o), EQUALS).out)) = Chars(Since(at, o.out)) + 1
    BY <1>1, <1>4, NextDigit
  <2> QED
    BY <1>2, <2>1
<1> HIDE DEF r
<1>6. OnLine(at, w, w + 1, p) /\ p.out = r.out
  BY <1>3, <1>5, SameLine, Slack DEF SameText
<1>7. Word(o.base64_count + 1) = Word(d + 1)
  BY <1>1, WordSum
<1>8. FlushedAt(at, w, d + 1, p)
  BY <1>1, <1>3, <1>5, <1>6, <1>7 DEF FlushedAt
<1> QED
  BY <1>8 DEF p

LEMMA FlushBitsInRegion ==
  ASSUME NEW at, NEW w \in 0..(WordMod - 2), NEW d \in Int, NEW o, RegionAt(at, w, d, o), Waiting(o)
  PROVE  FlushedAt(at, w, d + (IF o.n_bits = 0 THEN 0 ELSE 1), FlushBits(o))
<1> DEFINE p == FlushBits(o)
<1>1. /\ o \in Streams /\ at \in 0..Len(o.out) /\ o.byte_size = 6 /\ o.mode = "base64"
      /\ OnLine(at, w, w, o) /\ OnLine(at, w, w + 1, o)
      /\ Chars(Since(at, o.out)) = d + 1 /\ o.base64_count = Word(d)
  BY Slack DEF RegionAt
<1>2. /\ p \in Streams /\ p.byte_size = o.byte_size /\ p.n_bits = 0 /\ p.mode = o.mode
      /\ p.base64_count = IF o.n_bits = 0 THEN o.base64_count ELSE Word(o.base64_count + 1)
      /\ o.n_bits = 0 => p = o
      /\ o.n_bits # 0 => \E g \in Octets \ {NEWLINE} : SameText(PutChar(o, g), p)
  BY <1>1, AllStreamsKeep, FlushBitsKeeps
<1> HIDE DEF p
<1>3. CASE o.n_bits = 0
  BY <1>1, <1>2, <1>3 DEF FlushedAt, p
<1>4. CASE o.n_bits # 0
  <2>1. PICK g \in Octets \ {NEWLINE} : SameText(PutChar(o, g), p)
    BY <1>2, <1>4
  <2> DEFINE q == PutChar(o, g)
  <2>2. q.out = Append(o.out, g) /\ o.out \in Seq(Octets)
    BY <1>1, PutCharIs DEF Streams
  <2>3. OnLine(at, w, w + 1, q)
    <3>1. w \in 0..w
      OBVIOUS
    <3> QED
      BY <1>1, <3>1, PutOnLine
  <2> HIDE DEF q
  <2>4. OnLine(at, w, w + 1, p) /\ p.out = q.out
    BY <2>1, <2>3, SameLine DEF SameText, q
  <2>5. /\ at \in 0..Len(q.out) /\ Since(at, q.out) = Append(Since(at, o.out), g)
        /\ Since(at, o.out) \in Seq(Octets)
    BY <1>1, <2>2, SinceAppend
  <2>6. Chars(Since(at, q.out)) = (d + 1) + 1
    BY <1>1, <2>5, CharsAppend
  <2>7. Word(o.base64_count + 1) = Word(d + 1)
    BY <1>1, WordSum
  <2>8. FlushedAt(at, w, d + 1, p)
    BY <1>1, <1>2, <1>4, <2>4, <2>5, <2>6, <2>7 DEF FlushedAt
  <2> QED
    BY <1>4, <2>8 DEF p
<1> QED
  BY <1>3, <1>4

LEMMA LowDigit ==
  ASSUME NEW x \in Nat
  PROVE  Word(x) % 4 = x % 4
<1> DEFINE y == Word(x)
<1>1. y % 256 = x % 256 /\ y \in Nat
  BY LowOctet, WordOf
<1> HIDE DEF y
<1>2. y % 4 = x % 4
  BY <1>1
<1> QED
  BY <1>2 DEF y

LEMMA FlushInRegion ==
  ASSUME NEW at, NEW w \in 0..(WordMod - 2), NEW t, NEW o, Coded(at, w, t, o)
  PROVE  FlushedAt(at, w, 4 * ((Len(t) + 2) \div 3), Flush(o))
<1> DEFINE p == FlushBits(o)
           n == Len(t)
<1>1. PICK b \in Int : RegionAt(at, w, b, o) /\ 6 * b + o.n_bits = 8 * n
  BY DEF Coded
<1>2. n \in Nat /\ Waiting(o) /\ o.n_bits \in {0, 2, 4}
  BY <1>1, LenProperties DEF Coded, RegionAt, Waiting
<1> DEFINE d == b + (IF o.n_bits = 0 THEN 0 ELSE 1)
           k == (4 - (d % 4)) % 4
<1>3. FlushedAt(at, w, d, p)
  BY <1>1, <1>2, FlushBitsInRegion
<1> HIDE DEF n, p
<1>4. d \in Nat /\ k \in Nat /\ d + k = 4 * ((n + 2) \div 3)
  BY <1>1, <1>2
<1> HIDE DEF d
<1>5. p.byte_size = 6 /\ p.base64_count % 4 = d % 4
  BY <1>3, <1>4, LowDigit DEF FlushedAt
<1>6. Flush(o) = Pads!Fold(p, Padding(p))
  BY <1>5, FlushIs DEF p
<1>7. Padding(p) = [i \in 1..k |-> i]
  BY <1>5 DEF Padding
<1> HIDE DEF k
<1>8. Padding(p) \in Seq(Nat) /\ Len(Padding(p)) = k
  <2>1. [i \in 1..k |-> i] \in Seq(Nat)
    BY <1>4, IsASeq
  <2>2. Len([i \in 1..k |-> i]) = k
    <3> DEFINE u == [i \in 1..k |-> i]
    <3>1. DOMAIN u = 1..k /\ DOMAIN u = 1..Len(u) /\ Len(u) \in Nat
      BY <2>1, LenProperties
    <3> HIDE DEF u
    <3>2. Len(u) = k
      BY <1>4, <3>1
    <3> QED
      BY <3>2 DEF u
  <2> QED
    BY <1>7, <2>1, <2>2
<1> DEFINE R == {x \in Streams \X Seq(Nat) : FlushedAt(at, w, d + Len(x[2]), x[1])}
<1>9. <<p, <<>>>> \in R
  <2>1. d + Len(<<>>) = d /\ <<>> \in Seq(Nat)
    BY <1>4, EmptySeq
  <2>2. p \in Streams
    BY <1>3 DEF FlushedAt
  <2> QED
    BY <1>3, <2>1, <2>2
<1>10. ASSUME NEW q, NEW u \in Seq(Nat), NEW i \in Nat, <<q, u>> \in R
       PROVE  <<Pad(q, i), Append(u, i)>> \in R
  <2>1. FlushedAt(at, w, d + Len(u), q)
    BY <1>10
  <2>2. Len(u) \in Nat /\ Append(u, i) \in Seq(Nat) /\ Len(Append(u, i)) = Len(u) + 1
    BY AppendProperties, LenProperties
  <2> DEFINE z == d + Len(u)
  <2>3. FlushedAt(at, w, z + 1, Pad(q, i))
    <3>1. z \in Int /\ FlushedAt(at, w, z, q)
      BY <1>4, <2>1, <2>2
    <3> HIDE DEF z
    <3> QED
      BY <3>1, PadInRegion
  <2>4. (d + Len(u)) + 1 = d + Len(Append(u, i))
    BY <1>4, <2>2
  <2>5. Pad(q, i) \in Streams
    BY <2>3 DEF FlushedAt
  <2> QED
    BY <2>2, <2>3, <2>4, <2>5
<1>11. \A q, u : <<q, u>> \in R => FlushedAt(at, w, d + Len(u), q)
  OBVIOUS
<1> HIDE DEF R
<1>12. <<Pads!Fold(p, Padding(p)), Padding(p)>> \in R
  BY <1>8, <1>9, <1>10, Pads!FoldRelation
<1>13. FlushedAt(at, w, d + k, Flush(o))
  BY <1>6, <1>8, <1>11, <1>12
<1> QED
  BY <1>4, <1>13 DEF n

(* The brace that ends a region, or begins one.                            *)
LEMMA BraceInRegion ==
  ASSUME NEW at, NEW w \in 0..(WordMod - 2), NEW o \in Streams, at \in 0..Len(o.out), Calm(o),
         o.mode = "base64", OnLine(at, w, w + 1, o), NEW c \in {LBRACE, RBRACE}
  PROVE  LET p == VarPutChar(o, c)
         IN /\ p \in Streams /\ at \in 0..Len(p.out) /\ p.mode = "base64" /\ Calm(p)
            /\ OnLine(at, w, w, p) /\ Chars(Since(at, p.out)) = Chars(Since(at, o.out)) + 1
<1> DEFINE s == Shifted(o, c)
           b == BreakLine(s, c)
           g == Glyph(s.byte_size, Group(s))
           q == Emit(s, c)
           p == VarPutChar(o, c)
<1>1. Waiting(o) /\ c \in Octets \ {NEWLINE} /\ o.byte_size = 8 /\ o.n_bits = 0
  BY BracketOctets DEF Calm, Waiting
<1>2. /\ s \in Streams /\ SameText(o, s) /\ Ready(s) /\ s.byte_size = 8 /\ s.mode = "base64"
      /\ s.n_bits = 8 /\ s.bits % 256 = c
  BY <1>1, ShiftedIs
<1>3. p = Emit(q, c)
  BY DEF VarPutChar, Shifted
<1> HIDE DEF s, p
<1>4. b = Broken(s)
  <2>1. NewLine(s, s.mode) = Fresh(s)
    BY <1>2, NewLineIs
  <2> QED
    BY <2>1 DEF BreakLine, Broken
<1>5. g = c
  BY <1>2, GroupGlyph
<1>6. b \in Streams /\ SameRegisters(s, b)
  BY <1>2, AllStreamsKeep, BreakLineKeeps
<1>7. /\ q \in Streams /\ SameText(PutChar(b, g), q) /\ q.byte_size = 8 /\ q.mode = "base64"
      /\ q.n_bits = 0
  <2>1. s.n_bits >= s.byte_size
    BY <1>2
  <2>2. /\ Emit(s, c) \in Streams /\ SameText(PutChar(b, g), Emit(s, c))
        /\ Emit(s, c).byte_size = s.byte_size /\ Emit(s, c).mode = s.mode
        /\ Emit(s, c).n_bits = s.n_bits - s.byte_size
    BY <1>2, <1>6, <2>1, EmitIs
  <2> QED
    BY <1>2, <2>2
<1> HIDE DEF b, g, q
<1>8. p = q
  BY <1>3, <1>7 DEF Emit
<1>9. OnLine(at, w, w + 1, s) /\ s.out = o.out /\ at \in 0..Len(s.out)
  BY <1>2, SameLine DEF SameText
<1> DEFINE r == PutChar(Broken(s), c)
<1>10. /\ r \in Streams /\ at \in 0..Len(r.out) /\ OnLine(at, w, w, r)
       /\ Chars(Since(at, r.out)) = Chars(Since(at, s.out)) + 1
  BY <1>1, <1>2, <1>9, NextDigit
<1>11. SameText(r, q)
  BY <1>4, <1>5, <1>7
<1> HIDE DEF r
<1>12. OnLine(at, w, w, q) /\ q.out = r.out
  BY <1>10, <1>11, SameLine DEF SameText
<1>13. /\ p \in Streams /\ at \in 0..Len(p.out) /\ p.mode = "base64" /\ Calm(p)
       /\ OnLine(at, w, w, p) /\ Chars(Since(at, p.out)) = Chars(Since(at, o.out)) + 1
  BY <1>7, <1>8, <1>9, <1>10, <1>12 DEF Calm
<1> QED
  BY <1>13 DEF p

-----------------------------------------------------------------------------
(* The canonical form of a traversal grows with every event.               *)
Join(text, e) == text \o Image(e)

Joins == INSTANCE Induction WITH Op <- Join

LEMMA CanonicalIs == \A s : Canonical(s) = Joins!Fold(<<>>, s)
BY DEF Canonical, Join, Joins!Fold, FoldLeft, MapThenFoldSet, Joins!FoldLeft,
       Joins!MapThenFoldSet, Max, Joins!Max

LEMMA CanonicalAppend ==
  /\ Canonical(<<>>) = <<>>
  /\ \A s \in Seq(Events), e \in Events : Canonical(Append(s, e)) = Canonical(s) \o Image(e)
<1>1. Canonical(<<>>) = <<>>
  BY CanonicalIs, Joins!FoldEmpty
<1>2. ASSUME NEW s \in Seq(Events), NEW e \in Events
      PROVE  Canonical(Append(s, e)) = Canonical(s) \o Image(e)
  <2>1. Joins!Fold(<<>>, Append(s, e)) = Join(Joins!Fold(<<>>, s), e)
    BY Joins!FoldAppend
  <2> QED
    BY <2>1, CanonicalIs DEF Join
<1> QED
  BY <1>1, <1>2

-----------------------------------------------------------------------------
(* The invariant of the two forms.                                         *)

(* The events that were printed.                                           *)
Done == SubSeq(object, 1, Len(object) - Len(todo))

(* The width that an output in base64 form keeps to.                       *)
LineWidth == IF began.column = 0 /\ began.width <= WordMod - 2 THEN began.width ELSE 0

Forms(region) ==
  IF region THEN job = "base64" ELSE began.kind = "canonical" /\ began.mode = "canonical"

FormInv ==
  /\ began.width \in W /\ began.at \in Nat
  /\ \A region \in BOOLEAN :
       Forms(region) => Received(region, began.at, LineWidth, Canonical(Done), os)
  /\ Printed("base64") =>
       /\ Chars(Output) = 2 + 4 * ((Len(Canonical(object)) + 2) \div 3)
       /\ LineWidth # 0 => Fits(Output, LineWidth + 1)
       /\ Output \in Seq(Octets)

LEMMA LineWidthType ==
  ASSUME FormInv
  PROVE  LineWidth \in 0..(WordMod - 2)
BY Width DEF FormInv, LineWidth, W

(* A stream with the same text and the same registers.                     *)
LEMMA ReceivedSame ==
  ASSUME NEW region, NEW at, NEW w, NEW t, NEW o, Received(region, at, w, t, o),
         NEW p \in Streams, SameRegisters(o, p), p.out = o.out,
         region => p.column = o.column /\ p.max_column = o.max_column
  PROVE  Received(region, at, w, t, p)
<1>1. CASE region
  <2>1. Waiting(p) /\ t \in Seq(Octets)
    BY <1>1 DEF Received, Coded, SameRegisters, Waiting
  <2>2. PICK d \in Int : RegionAt(at, w, d, o) /\ 6 * d + o.n_bits = 8 * Len(t)
    BY <1>1 DEF Received, Coded
  <2>3. RegionAt(at, w, d, p)
    BY <1>1, <2>2 DEF RegionAt, SameRegisters, OnLine
  <2>4. p.n_bits = o.n_bits
    BY DEF SameRegisters
  <2> QED
    BY <1>1, <2>1, <2>2, <2>3, <2>4 DEF Received, Coded
<1>2. CASE ~region
  BY <1>2 DEF Received, Exact, SameRegisters, Calm
<1> QED
  BY <1>1, <1>2

(* A step that prints an event whose octets the stream receives.           *)
LEMMA EventStep ==
  ASSUME SInv, FormInv, NEW kinds, NEW event, Printing(kinds, event), "idle" \notin kinds,
         \A region \in BOOLEAN, t \in Seq(Octets) :
           Received(region, began.at, LineWidth, t, os)
             => Received(region, began.at, LineWidth, t \o Image(Head(todo)), os')
  PROVE  FormInv'
<1>1. /\ Head(todo) \in Events /\ Done \in Seq(Events) /\ Done' = Append(Done, Head(todo))
      /\ job \in kinds /\ job' = job /\ began' = began
  BY PrintingStep DEF SInv, Done
<1>2. LineWidth' = LineWidth /\ \A region : Forms(region)' = Forms(region)
  BY <1>1 DEF LineWidth, Forms
<1>3. ASSUME NEW region \in BOOLEAN, Forms(region)
      PROVE  Received(region, began.at, LineWidth, Canonical(Done)', os')
  <2>1. Received(region, began.at, LineWidth, Canonical(Done), os)
    BY <1>3 DEF FormInv
  <2>2. Canonical(Done) \in Seq(Octets)
    BY <2>1, ReceivedType
  <2>3. Received(region, began.at, LineWidth, Canonical(Done) \o Image(Head(todo)), os')
    BY <2>1, <2>2
  <2>4. Canonical(Done)' = Canonical(Done) \o Image(Head(todo))
    BY <1>1, CanonicalAppend
  <2> QED
    BY <2>3, <2>4
<1>4. ~Printed("base64")'
  BY <1>1 DEF Printed
<1> QED
  BY <1>1, <1>2, <1>3, <1>4 DEF FormInv

LEMMA BracketStep ==
  ASSUME SInv, FormInv, NEW c \in {LPAREN, RPAREN}
  PROVE  LET p == VarPutChar(os, c)
         IN /\ p \in Streams /\ p.failed = os.failed
            /\ \A region \in BOOLEAN, t \in Seq(Octets) :
                 Received(region, began.at, LineWidth, t, os)
                   => Received(region, began.at, LineWidth, t \o <<c>>, p)
<1> DEFINE p == VarPutChar(os, c)
<1>1. c \in Octets /\ c \in Plain
  BY BracketOctets, FromKeeps DEF Keeps
<1>2. p \in From(os)
  BY <1>1, SelfFrom, VarPutCharKeeps DEF SInv, StreamInv
<1>3. ASSUME NEW region \in BOOLEAN, NEW t \in Seq(Octets), Received(region, began.at, LineWidth, t, os)
      PROVE  Received(region, began.at, LineWidth, t \o <<c>>, p)
  <2>1. Received(region, began.at, LineWidth, Append(t, c), p)
    BY <1>1, <1>3, LineWidthType, OctetReceived
  <2>2. Append(t, c) = t \o <<c>>
    BY <1>1, AppendIsConcat
  <2> QED
    BY <2>1, <2>2
<1> HIDE DEF p
<1>4. /\ p \in Streams /\ p.failed = os.failed
      /\ \A region \in BOOLEAN, t \in Seq(Octets) :
           Received(region, began.at, LineWidth, t, os)
             => Received(region, began.at, LineWidth, t \o <<c>>, p)
  BY <1>2, <1>3 DEF From
<1> QED
  BY <1>4 DEF p

LEMMA CanonicalOpenForm ==
  ASSUME SInv, FormInv, CanonicalOpen
  PROVE  FormInv'
<1> DEFINE kinds == {"canonical", "base64"}
           p == VarPutChar(os, LPAREN)
<1>1. Printing(kinds, "open") /\ os' = IncreaseDepth(p) /\ "idle" \notin kinds /\ ~os.failed
  BY DEF CanonicalOpen, Printing
<1>2. Image(Head(todo)) = <<LPAREN>>
  <2>1. Head(todo) = Opened
    BY <1>1, PrintingStep, EventKinds DEF SInv
  <2>2. Opened # Closed
    BY DEF Opened, Closed
  <2> QED
    BY <2>1, <2>2 DEF Image
<1>3. /\ p \in Streams /\ p.failed = os.failed
      /\ \A region \in BOOLEAN, t \in Seq(Octets) :
           Received(region, began.at, LineWidth, t, os)
             => Received(region, began.at, LineWidth, t \o <<LPAREN>>, p)
  BY BracketStep
<1> HIDE DEF p
<1>4. /\ os' \in Streams /\ SameRegisters(p, os') /\ os'.out = p.out /\ os'.column = p.column
      /\ os'.max_column = p.max_column
  BY <1>1, <1>3, IncreaseIs
<1>5. \A region \in BOOLEAN, t \in Seq(Octets) :
        Received(region, began.at, LineWidth, t, os)
          => Received(region, began.at, LineWidth, t \o Image(Head(todo)), os')
  BY <1>2, <1>3, <1>4, ReceivedSame
<1> HIDE DEF kinds
<1> QED
  BY <1>1, <1>5, EventStep

LEMMA CanonicalCloseForm ==
  ASSUME SInv, FormInv, CanonicalClose
  PROVE  FormInv'
<1> DEFINE kinds == {"canonical", "base64"}
           p == VarPutChar(os, RPAREN)
<1>1. Printing(kinds, "close") /\ os' = DecreaseDepth(p) /\ "idle" \notin kinds
  BY DEF CanonicalClose
<1>2. Image(Head(todo)) = <<RPAREN>>
  <2>1. Head(todo) = Closed /\ Closed # Opened
    <3>1. Head(todo) = Closed
      BY <1>1, PrintingStep, EventKinds DEF SInv
    <3>2. Closed # Opened
      BY DEF Closed, Opened
    <3> QED
      BY <3>1, <3>2
  <2> QED
    BY <2>1 DEF Image
<1>3. /\ p \in Streams
      /\ \A region \in BOOLEAN, t \in Seq(Octets) :
           Received(region, began.at, LineWidth, t, os)
             => Received(region, began.at, LineWidth, t \o <<RPAREN>>, p)
  BY BracketStep
<1> HIDE DEF p
<1>4. /\ os' \in Streams /\ SameRegisters(p, os') /\ os'.out = p.out /\ os'.column = p.column
      /\ os'.max_column = p.max_column
  BY <1>1, <1>3, DecreaseIs
<1>5. \A region \in BOOLEAN, t \in Seq(Octets) :
        Received(region, began.at, LineWidth, t, os)
          => Received(region, began.at, LineWidth, t \o Image(Head(todo)), os')
  BY <1>2, <1>3, <1>4, ReceivedSame
<1> HIDE DEF kinds
<1> QED
  BY <1>1, <1>5, EventStep

LEMMA CanonicalStringForm ==
  ASSUME SInv, FormInv, PrintCanonicalString
  PROVE  FormInv'
<1> DEFINE kinds == {"canonical", "base64"}
<1>1. /\ Printing(kinds, "string") /\ os' = CanonicalString(os, Head(todo)) /\ "idle" \notin kinds
  BY DEF PrintCanonicalString
<1>2. Head(todo) \in Events /\ Head(todo).kind = "string"
  BY <1>1, PrintingStep DEF SInv
<1>3. \A region \in BOOLEAN, t \in Seq(Octets) :
        Received(region, began.at, LineWidth, t, os)
          => Received(region, began.at, LineWidth, t \o Image(Head(todo)), os')
  BY <1>1, <1>2, LineWidthType, StringReceived
<1> HIDE DEF kinds
<1> QED
  BY <1>1, <1>3, EventStep

(* What print_advanced writes is no such form.                             *)
LEMMA AdvancedForm ==
  ASSUME SInv, FormInv, AdvancedOpen \/ PrintAdvancedString \/ AdvancedClose
  PROVE  FormInv'
<1>1. PICK event : Printing({"advanced"}, event)
  BY DEF AdvancedOpen, PrintAdvancedString, AdvancedClose
<1>2. job = "advanced" /\ job' = job /\ began' = began /\ began.kind = job
  BY <1>1, PrintingStep DEF SInv
<1>3. ~Printed("base64")' /\ \A region \in BOOLEAN : ~Forms(region)'
  BY <1>2 DEF Printed, Forms
<1> QED
  BY <1>2, <1>3 DEF FormInv

LEMMA NewOutputForm ==
  ASSUME SInv, FormInv, NewOutput
  PROVE  FormInv'
<1>1. began' = NoOutput /\ job' = "idle"
  BY DEF NewOutput
<1>2. ~Printed("base64")' /\ \A region \in BOOLEAN : ~Forms(region)'
  BY <1>1 DEF Printed, Forms, NoOutput
<1>3. began'.width \in W /\ began'.at \in Nat
  BY <1>1, Width DEF NoOutput, W
<1> QED
  BY <1>2, <1>3 DEF FormInv

LEMMA SetMaxColumnForm ==
  ASSUME SInv, FormInv, SetMaxColumn
  PROVE  FormInv'
<1>1. PICK w \in Widths : os' = [os EXCEPT !.max_column = w]
  BY DEF SetMaxColumn
<1>2. /\ job = "idle" /\ job' = job /\ object' = object /\ todo' = todo /\ began' = began
  BY DEF SetMaxColumn
<1>3. w \in W
  BY PrinterAssumption DEF W
<1>4. os' \in Streams /\ os'.out = os.out /\ SameRegisters(os, os')
  BY <1>1, <1>3 DEF SInv, StreamInv, Streams, SameRegisters
<1>5. /\ LineWidth' = LineWidth /\ Done' = Done /\ Canonical(Done)' = Canonical(Done)
      /\ Printed("base64")' = Printed("base64") /\ Output' = Output
      /\ Canonical(object)' = Canonical(object)
  BY <1>2, <1>4 DEF LineWidth, Done, Printed, Output
<1>6. ASSUME NEW region \in BOOLEAN, Forms(region)'
      PROVE  Received(region, began.at, LineWidth, Canonical(Done), os')
  <2>1. ~region /\ Forms(region)
    BY <1>2, <1>6 DEF Forms
  <2>2. Received(region, began.at, LineWidth, Canonical(Done), os)
    BY <2>1 DEF FormInv
  <2> QED
    BY <1>4, <2>1, <2>2, ReceivedSame
<1> QED
  BY <1>2, <1>5, <1>6 DEF FormInv

LEMMA StutterForm ==
  ASSUME SInv, FormInv, UNCHANGED vars
  PROVE  FormInv'
<1>1. /\ os' = os /\ job' = job /\ object' = object /\ todo' = todo /\ began' = began
  BY DEF vars
<1>2. /\ LineWidth' = LineWidth /\ Done' = Done /\ Canonical(Done)' = Canonical(Done)
      /\ Printed("base64")' = Printed("base64") /\ Output' = Output
      /\ Canonical(object)' = Canonical(object) /\ \A region : Forms(region)' = Forms(region)
  BY <1>1 DEF LineWidth, Done, Printed, Output, Forms
<1> QED
  BY <1>1, <1>2 DEF FormInv

LEMMA SinceType ==
  ASSUME NEW out \in Seq(Octets), NEW at \in 0..Len(out)
  PROVE  Since(at, out) \in Seq(Octets) /\ Since(Len(out), out) = <<>>
<1>1. Since(at, out) \in Seq(Octets)
  BY NewLineOctet, SinceAppend
<1>2. Len(out) \in Nat
  BY LenProperties
<1>3. Since(Len(out), out) = <<>>
  BY <1>2, SubSeqEmpty DEF Since
<1> QED
  BY <1>1, <1>3

LEMMA FinishForm ==
  ASSUME SInv, FormInv, Finish
  PROVE  FormInv'
<1>1. /\ job # "idle" /\ todo = <<>> /\ job' = "idle" /\ began.kind = job
      /\ object' = object /\ todo' = todo /\ began' = began
  BY DEF Finish, SInv, TraversalInv
<1>2. LineWidth' = LineWidth /\ Done' = Done
  BY <1>1 DEF LineWidth, Done
<1>3. ~Forms(TRUE)'
  BY <1>1 DEF Forms
<1>4. CASE job # "base64"
  <2>1. os' = os
    BY <1>4 DEF Finish
  <2>2. ~Printed("base64")' /\ (Forms(FALSE)' => Forms(FALSE))
    BY <1>1, <1>4 DEF Printed, Forms
  <2>3. ASSUME Forms(FALSE)' PROVE Received(FALSE, began.at, LineWidth, Canonical(Done), os)
    BY <2>2, <2>3 DEF FormInv
  <2>4. Canonical(Done)' = Canonical(Done)
    BY <1>2
  <2> QED
    BY <1>1, <1>2, <1>3, <2>1, <2>2, <2>3, <2>4 DEF FormInv
<1>5. CASE job = "base64"
  <2> DEFINE at == began.at
             w == LineWidth
             d == 4 * ((Len(Canonical(object)) + 2) \div 3)
             o == Flush(os)
             p == ChangeOutputByteSize(o, 8, "base64")
             q == VarPutChar(p, RBRACE)
  <2>1. os' = q
    BY <1>5 DEF Finish
  <2>2. w \in 0..(WordMod - 2)
    BY LineWidthType
  <2>3. Done = object
    <3>1. object \in Seq(Events) /\ Len(object) \in Nat /\ Len(todo) = 0
      BY <1>1, ObjectType, LenProperties DEF SInv
    <3>2. SubSeq(object, 1, Len(object)) = object
      BY <3>1, SubSeqFull
    <3> QED
      BY <3>1, <3>2 DEF Done
  <2>4. Coded(at, w, Canonical(object), os)
    <3>1. Forms(TRUE)
      BY <1>5 DEF Forms
    <3>2. Received(TRUE, at, w, Canonical(Done), os)
      BY <3>1 DEF FormInv
    <3> QED
      BY <2>3, <3>2 DEF Received
  <2>5. FlushedAt(at, w, d, o)
    BY <2>2, <2>4, FlushInRegion
  <2>6. Len(Canonical(object)) \in Nat
    BY <2>4, LenProperties DEF Coded
  <2>7. d \in Nat
    BY <2>6
  <2> HIDE DEF at, w, d, o
  <2>8. /\ o \in Streams /\ at \in 0..Len(o.out) /\ OnLine(at, w, w + 1, o)
        /\ Chars(Since(at, o.out)) = d + 1
    BY <2>5 DEF FlushedAt
  <2>9. p \in Streams /\ p.byte_size = 8 /\ p.n_bits = 0 /\ p.mode = "base64" /\ SameText(o, p)
    <3>1. "base64" \in Modes
      BY DEF Modes
    <3> QED
      BY <2>8, <3>1, AllStreamsKeep, ChangeKeeps
  <2> HIDE DEF p
  <2>10. /\ Calm(p) /\ OnLine(at, w, w + 1, p) /\ p.out = o.out /\ at \in 0..Len(p.out)
    BY <2>8, <2>9, SameLine DEF Calm, SameText
  <2>11. /\ q \in Streams /\ at \in 0..Len(q.out) /\ OnLine(at, w, w, q)
         /\ Chars(Since(at, q.out)) = Chars(Since(at, p.out)) + 1
    BY <2>2, <2>9, <2>10, BraceInRegion
  <2> HIDE DEF q
  <2>12. Output' = Since(at, q.out)
    BY <1>1, <2>1 DEF Output, Since, at
  <2>13. Since(at, q.out) \in Seq(Octets)
    <3>1. q.out \in Seq(Octets)
      BY <2>11 DEF Streams
    <3> QED
      BY <2>11, <3>1, SinceType
  <2>14. Chars(Since(at, q.out)) = 2 + d
    BY <2>7, <2>8, <2>10, <2>11
  <2>15. w # 0 => Fits(Since(at, q.out), w + 1)
    BY <2>11 DEF OnLine
  <2>16. /\ Chars(Output') = 2 + 4 * ((Len(Canonical(object')) + 2) \div 3)
         /\ LineWidth' # 0 => Fits(Output', LineWidth' + 1)
         /\ Output' \in Seq(Octets)
    BY <1>1, <1>2, <2>12, <2>13, <2>14, <2>15 DEF d, w
  <2>17. ~Forms(FALSE)'
    BY <1>1, <1>5 DEF Forms
  <2>18. began'.width \in W /\ began'.at \in Nat
    BY <1>1 DEF FormInv
  <2> QED
    BY <1>3, <2>16, <2>17, <2>18 DEF FormInv
<1> QED
  BY <1>4, <1>5

LEMMA BeginKeepsForm ==
  ASSUME NEW kind \in Kinds, NEW tree \in Trees, NEW s, Idle(s), BeginPrinting(kind, tree, s)
  PROVE  FormInv'
<1> DEFINE o == ChangeOutputByteSize(s, 8, kind)
           p == VarPutChar(o, LBRACE)
           q == ChangeOutputByteSize(p, 6, kind)
           at == Len(s.out)
<1>2. /\ job = "idle" /\ job' = kind /\ object' = tree /\ todo' = tree
      /\ began' = [kind |-> kind, at |-> at, mode |-> s.mode, column |-> s.column,
                   width |-> s.max_column, depth |-> s.depth]
      /\ os' = IF kind = "base64" THEN q ELSE s
  BY DEF BeginPrinting
<1>3. tree \in Seq(Events) /\ kind \in Modes /\ kind # "idle"
  BY PrinterAssumption, KindsType
<1>4. Canonical(Done)' = <<>>
  <2>1. Len(tree) \in Nat /\ Len(tree) - Len(tree) = 0
    BY <1>3, LenProperties
  <2>2. Done' = <<>>
    BY <1>2, <2>1, SubSeqEmpty DEF Done
  <2> QED
    BY <2>2, CanonicalAppend
<1>5. /\ s \in Streams /\ Waiting(s) /\ s.byte_size = 8 /\ s.n_bits = 0
      /\ s.out \in Seq(Octets) /\ at \in Nat
  BY LenProperties DEF Idle, Streams, Waiting
<1>6. at \in 0..Len(s.out) /\ Since(at, s.out) = <<>>
  BY <1>5, SinceType
<1>7. began'.width \in W /\ began'.at = at /\ began'.at \in Nat
  BY <1>2, <1>5 DEF Streams
<1>8. ~Printed("base64")'
  BY <1>2, <1>3 DEF Printed
<1>9. CASE kind # "base64"
  <2>1. ~Forms(TRUE)'
    BY <1>2, <1>9 DEF Forms
  <2>2. ASSUME Forms(FALSE)' PROVE Received(FALSE, at, LineWidth', <<>>, os')
    <3>1. os' = s /\ s.mode = "canonical"
      BY <1>2, <1>9, <2>2 DEF Forms
    <3> HIDE DEF at
    <3> QED
      BY <1>5, <1>6, <3>1, EmptySeq DEF Received, Exact, Calm
  <2> QED
    BY <1>4, <1>7, <1>8, <2>1, <2>2 DEF FormInv
<1>10. CASE kind = "base64"
  <2> DEFINE w == LineWidth'
  <2>1. w \in 0..(WordMod - 2) /\ (w # 0 => s.column = 0 /\ s.max_column = w)
    <3>1. began'.column = s.column /\ began'.width = s.max_column
      BY <1>2
    <3> QED
      BY <1>7, <3>1, Width DEF LineWidth, W
  <2> HIDE DEF w
  <2>2. OnLine(at, w, w + 1, s)
    <3>1. Len(<<>>) = 0 /\ Lines(<<>>) = {0}
      BY DEF Lines
    <3>2. \A i \in 0..0 : \E start \in {0} : start <= i /\ i <= start + (w + 1)
      BY <2>1
    <3>3. Fits(<<>>, w + 1)
      BY <3>1, <3>2 DEF Fits
    <3>4. w # 0 => s.max_column = w /\ s.column <= w + 1 /\ 0 = 0 + s.column
      BY <2>1
    <3> HIDE DEF at
    <3> QED
      BY <1>6, <3>1, <3>3, <3>4 DEF OnLine
  <2>3. os' = q /\ kind = "base64"
    BY <1>2, <1>10
  <2>4. o \in Streams /\ o.byte_size = 8 /\ o.n_bits = 0 /\ o.mode = "base64" /\ SameText(s, o)
    BY <1>3, <1>5, <1>10, AllStreamsKeep, ChangeKeeps
  <2> HIDE DEF o, at
  <2>5. Calm(o) /\ OnLine(at, w, w + 1, o) /\ o.out = s.out /\ at \in 0..Len(o.out)
    BY <1>6, <2>2, <2>4, SameLine DEF Calm, SameText
  <2>6. /\ p \in Streams /\ at \in 0..Len(p.out) /\ Calm(p) /\ OnLine(at, w, w, p)
        /\ Chars(Since(at, p.out)) = Chars(Since(at, o.out)) + 1
    BY <2>1, <2>4, <2>5, BraceInRegion
  <2>7. Chars(<<>>) = 0
    BY CountEmpty DEF Chars
  <2> HIDE DEF p
  <2>8. /\ q \in Streams /\ q.byte_size = 6 /\ q.n_bits = 0 /\ q.mode = "base64"
        /\ q.base64_count = 0 /\ SameText(p, q)
    <3>1. p.byte_size = 8
      BY <2>6 DEF Calm
    <3> QED
      BY <1>3, <1>10, <2>6, <3>1, AllStreamsKeep, ChangeKeeps
  <2> HIDE DEF q
  <2>9. RegionAt(at, w, 0, q)
    <3>1. OnLine(at, w, w, q) /\ q.out = p.out
      BY <2>6, <2>8, SameLine DEF SameText
    <3>2. Chars(Since(at, q.out)) = 0 + 1
      BY <1>6, <2>5, <2>6, <2>7, <3>1
    <3>3. Word(0) = 0
      BY Width, WordOf DEF W
    <3> QED
      BY <2>6, <2>8, <3>1, <3>2, <3>3 DEF RegionAt
  <2>10. Coded(at, w, <<>>, q)
    <3>1. 6 * 0 + q.n_bits = 8 * Len(<<>>) /\ Waiting(q)
      BY <2>8 DEF Waiting
    <3> QED
      BY <2>9, <3>1, EmptySeq DEF Coded
  <2>11. Received(TRUE, at, LineWidth', <<>>, os')
    BY <2>3, <2>10 DEF Received, w
  <2>12. ~Forms(FALSE)'
    BY <1>2, <1>10 DEF Forms
  <2> QED
    BY <1>4, <1>7, <1>8, <2>11, <2>12 DEF FormInv
<1> QED
  BY <1>9, <1>10

LEMMA BeginForm ==
  ASSUME SInv, Begin
  PROVE  FormInv'
<1>1. PICK kind \in Kinds, tree \in Trees : BeginPrinting(kind, tree, os)
  BY DEF Begin
<1>2. Idle(os)
  BY <1>1, IdleStream DEF BeginPrinting
<1> QED
  BY <1>1, <1>2, BeginKeepsForm

-----------------------------------------------------------------------------
LEMMA NextForm == SInv /\ FormInv /\ [Next]_vars => FormInv'
<1> SUFFICES ASSUME SInv, FormInv, [Next]_vars PROVE FormInv'
  OBVIOUS
<1>1. CASE NewOutput
  BY <1>1, NewOutputForm
<1>2. CASE SetMaxColumn
  BY <1>2, SetMaxColumnForm
<1>3. CASE Begin
  BY <1>3, BeginForm
<1>4. CASE Continue
  BY <1>4, CanonicalOpenForm, CanonicalStringForm, CanonicalCloseForm, AdvancedForm, FinishForm
     DEF Continue
<1>5. CASE Stopped \/ UNCHANGED vars
  BY <1>5, StutterForm DEF Stopped
<1> QED
  BY <1>1, <1>2, <1>3, <1>4, <1>5 DEF Next

LEMMA InitForm == Init => FormInv
<1> SUFFICES ASSUME Init PROVE FormInv
  OBVIOUS
<1>1. began = NoOutput /\ job = "idle"
  BY DEF Init
<1>2. ~Printed("base64") /\ \A region \in BOOLEAN : ~Forms(region)
  BY <1>1 DEF Printed, Forms, NoOutput
<1>3. began.width \in W /\ began.at \in Nat
  BY <1>1, Width DEF NoOutput, W
<1> QED
  BY <1>2, <1>3 DEF FormInv

LEMMA FormInvHolds == Spec => [](SInv /\ FormInv)
BY InitS, InitForm, NextS, NextForm, PTL DEF Spec

LEMMA NothingLeft ==
  ASSUME SInv, todo = <<>>
  PROVE  Done = object
<1>1. object \in Seq(Events) /\ Len(object) \in Nat /\ Len(todo) = 0
  BY ObjectType, LenProperties DEF SInv
<1>2. SubSeq(object, 1, Len(object)) = object
  BY <1>1, SubSeqFull
<1> QED
  BY <1>1, <1>2 DEF Done

LEMMA CanonicalForm ==
  ASSUME SInv, FormInv, todo = <<>>, began.kind = "canonical", began.mode = "canonical"
  PROVE  Output = Canonical(object)
<1>1. Forms(FALSE) /\ Done = object
  BY NothingLeft DEF Forms
<1>2. Received(FALSE, began.at, LineWidth, Canonical(Done), os)
  BY <1>1 DEF FormInv
<1> QED
  BY <1>1, <1>2 DEF Received, Exact, Since, Output

(* print_canonical, on a stream in canonical mode, writes the canonical    *)
(* form and nothing else, whatever the width, the octets of the strings    *)
(* and the objects that were printed before.                               *)
THEOREM CanonicalFormIsExact == Spec => []CanonicalIsExact
<1>1. SInv /\ FormInv => CanonicalIsExact
  BY CanonicalForm DEF SInv, TraversalInv, CanonicalIsExact, Printed
<1> QED
  BY <1>1, FormInvHolds, PTL

(* print_base64: the digits and the padding between the braces are the     *)
(* whole groups of four that the octets of the canonical form need.        *)
THEOREM RegionIsWhole == Spec => []RegionIsPadded
<1>1. SInv /\ FormInv => RegionIsPadded
  BY DEF FormInv, RegionIsPadded, Chars
<1> QED
  BY <1>1, FormInvHolds, PTL

LEMMA LongestLineFits ==
  ASSUME NEW text \in Seq(Octets), NEW b \in Nat, Fits(text, b)
  PROVE  LongestLine(text) <= b
<1> DEFINE n == Len(text)
           ends == {0} \cup {i \in DOMAIN text : text[i] = NEWLINE}
           Column(i) == IF i \in ends THEN 0 ELSE i - Max({e \in ends : e < i})
           columns == {Column(i) : i \in 0..n}
<1>1. n \in Nat /\ DOMAIN text = 1..n /\ ends = Lines(text) /\ ends \subseteq 0..n /\ 0 \in ends
  BY LenProperties DEF Lines
<1>2. LongestLine(text) = Max(columns)
  BY DEF LongestLine
<1>3. \A i \in 0..n : \E start \in ends : start <= i /\ i <= start + b
  BY <1>1 DEF Fits
<1> HIDE DEF n, ends
<1>4. ASSUME NEW i \in 0..n PROVE Column(i) \in 0..b
  <2>1. CASE i \in ends
    BY <2>1
  <2>2. CASE i \notin ends
    <3> DEFINE S == {e \in ends : e < i}
    <3>1. PICK start \in ends : start <= i /\ i <= start + b
      BY <1>3
    <3>2. start \in Nat /\ i \in Nat /\ start # i
      BY <1>1, <2>2
    <3>3. start \in S /\ S \subseteq 0..n /\ \A e \in S : e < i
      <4>1. start < i
        BY <3>1, <3>2
      <4> QED
        BY <1>1, <4>1
    <3> HIDE DEF S
    <3> DEFINE m == Max(S)
    <3>4. m \in S /\ start <= m
      BY <1>1, <3>3, MaxType
    <3> HIDE DEF m
    <3>5. m \in 0..n /\ m < i
      BY <3>3, <3>4
    <3>6. i - m \in 0..b
      BY <1>1, <3>1, <3>2, <3>4, <3>5
    <3> QED
      BY <2>2, <3>6 DEF S, m
  <2> QED
    BY <2>1, <2>2
<1>5. columns \subseteq 0..b /\ columns # {}
  <2>1. Column(0) \in columns
    BY <1>1
  <2> QED
    BY <1>4, <2>1
<1> HIDE DEF columns
<1>6. Max(columns) \in 0..b
  BY <1>5, MaxType
<1> QED
  BY <1>2, <1>6

(* print_base64 on a new line: its lines fit in one column more than the   *)
(* width, wherever the remainder, the padding and the braces fall.         *)
THEOREM RegionFitsLine == Spec => []Base64FitsLine
<1>1. SInv /\ FormInv => Base64FitsLine
  <2> SUFFICES ASSUME SInv, FormInv, Printed("base64"), began.column = 0,
                      began.width \in 1..(WordMod - 2)
               PROVE  LongestLine(Output) <= began.width + 1
    BY DEF Base64FitsLine
  <2>1. LineWidth = began.width /\ LineWidth # 0 /\ began.width + 1 \in Nat
    BY Width DEF LineWidth
  <2>2. Output \in Seq(Octets) /\ Fits(Output, began.width + 1)
    BY <2>1 DEF FormInv
  <2> QED
    BY <2>1, <2>2, LongestLineFits
<1> QED
  BY <1>1, FormInvHolds, PTL

=============================================================================
