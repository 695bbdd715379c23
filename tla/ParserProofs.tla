----------------------------- MODULE ParserProofs -----------------------------
(***************************************************************************)
(* The reader, for every alphabet, input length, depth limit and word      *)
(* width: its types (in particular every octet it stores is an octet), the *)
(* regions and lengths of its strings, and its recursion.                  *)
(***************************************************************************)
EXTENDS Parser, Lemmas

(* Two facts that typing the next state needs: the register has room for   *)
(* one more digit, and an escape has read no more than its digits.         *)
RegisterHasRoom == status = "running" => n_bits <= 7

EscapeSoFar ==
  /\ pc \notin {"decimal", "hex_escape", "octal_escape"} => ndigits = 0 /\ value = 0
  /\ pc = "hex_escape" => \/ ndigits = 0 /\ value = 0
                          \/ ndigits = 1 /\ value \in 0..15
  /\ pc = "octal_escape" => \/ ndigits = 0 /\ value = 0
                            \/ ndigits = 1 /\ value \in 0..7
                            \/ ndigits = 2 /\ value \in 0..63

TInv == TypeOK /\ RegisterHasRoom /\ EscapeSoFar

-----------------------------------------------------------------------------
(* The words.                                                              *)

LEMMA WordWidth == WordMod \in Nat /\ WordMod >= 65536 /\ UMAX \in 0..(WordMod - 1)
BY WordAssumption DEF UMAX

LEMMA WordType ==
  ASSUME NEW x \in Int
  PROVE  Word(x) \in 0..(WordMod - 1)
BY WordAssumption DEF Word

(* The shift register after a digit, and the octet taken from it.          *)
LEMMA RegisterType ==
  ASSUME NEW b \in Nat, NEW s \in {4, 6}, NEW v \in Nat
  PROVE  Word(b * 2^s + v) \in 0..(WordMod - 1) /\ Word(b * 2^s) \in 0..(WordMod - 1)
<1>1. b * 16 + v \in Int /\ b * 64 + v \in Int /\ b * 16 \in Int /\ b * 64 \in Int
  OBVIOUS
<1>2. CASE s = 4
  <2>1. b * 2^s + v = b * 16 + v /\ b * 2^s = b * 16
    BY <1>2
  <2> QED
    BY <1>1, <2>1, WordType
<1>3. CASE s = 6
  <2>1. b * 2^s + v = b * 64 + v /\ b * 2^s = b * 64
    BY <1>3
  <2> QED
    BY <1>1, <2>1, WordType
<1> QED
  BY <1>2, <1>3

LEMMA OctetType ==
  ASSUME NEW w \in Nat, NEW n \in 0..7
  PROVE  (w \div (2^n)) % 256 \in Octets
<1> DEFINE p == 2^n
<1>1. CASE n = 0
  <2>1. p = 1
    BY <1>1
  <2> QED
    BY <2>1 DEF Octets
<1>2. CASE n = 1
  <2>1. p = 2
    BY <1>2
  <2> QED
    BY <2>1 DEF Octets
<1>3. CASE n = 2
  <2>1. p = 4
    BY <1>3
  <2> QED
    BY <2>1 DEF Octets
<1>4. CASE n = 3
  <2>1. p = 8
    BY <1>4
  <2> QED
    BY <2>1 DEF Octets
<1>5. CASE n = 4
  <2>1. p = 16
    BY <1>5
  <2> QED
    BY <2>1 DEF Octets
<1>6. CASE n = 5
  <2>1. p = 32
    BY <1>6
  <2> QED
    BY <2>1 DEF Octets
<1>7. CASE n = 6
  <2>1. p = 64
    BY <1>7
  <2> QED
    BY <2>1 DEF Octets
<1>8. CASE n = 7
  <2>1. p = 128
    BY <1>8
  <2> QED
    BY <2>1 DEF Octets
<1> QED
  BY <1>1, <1>2, <1>3, <1>4, <1>5, <1>6, <1>7, <1>8

-----------------------------------------------------------------------------
(* What the clients call keeps the stream's types.                         *)
LEMMA StreamCalls ==
  ASSUME StreamTypeOK, RegisterHasRoom,
         GetChar \/ EnterRegion(4) \/ EnterRegion(6) \/ Throw \/ UNCHANGED streamVars
  PROVE  StreamTypeOK' /\ RegisterHasRoom'
<1>1. CASE GetChar
  <2>1. (next_char # EOF) \in BOOLEAN
    OBVIOUS
  <2> QED
    BY <1>1, <2>1 DEF GetChar, StreamTypeOK, RegisterHasRoom
<1>2. ASSUME NEW s \in {4, 6}, EnterRegion(s)
      PROVE  StreamTypeOK' /\ RegisterHasRoom'
  <2>1. 0 \in 0..(WordMod - 1) /\ 0 \in 0..13
    BY WordWidth
  <2> QED
    BY <1>2, <2>1 DEF EnterRegion, StreamTypeOK, RegisterHasRoom
<1>3. CASE Throw
  BY <1>3 DEF Throw, StreamTypeOK, RegisterHasRoom
<1>4. CASE UNCHANGED streamVars
  BY <1>4 DEF streamVars, StreamTypeOK, RegisterHasRoom
<1> QED
  BY <1>1, <1>2, <1>3, <1>4

(* The digits of a region are octets with values.                          *)
LEMMA DigitTypes ==
  ASSUME NEW s \in {4, 6, 8}, NEW c \in DigitsOf(s)
  PROVE  s \in {4, 6} /\ c \in Octets /\ DigitValue(s, c) \in Nat
<1>1. CASE s = 4
  BY <1>1 DEF DigitsOf, HexDigits, DecDigits, Octets, DigitValue, HexValue
<1>2. CASE s = 6
  BY <1>2 DEF DigitsOf, Base64Digits, DecDigits, Upper, Lower, Octets,
              DigitValue, Base64Value
<1>3. CASE s = 8
  BY <1>3 DEF DigitsOf
<1> QED
  BY <1>1, <1>2, <1>3

(* One raw read keeps them.                                                *)
LEMMA ReadTypes ==
  ASSUME StreamTypeOK, RegisterHasRoom, NEW c \in Octets \cup {EOF}, ReadChar(c)
  PROVE  StreamTypeOK' /\ RegisterHasRoom'
<1>1. c \in Octets \cup {EOF} /\ count' \in Int /\ n_bits \in 0..7 /\ bits \in Nat
  BY WordWidth DEF ReadChar, StreamTypeOK, RegisterHasRoom
<1>2. 0 \in 0..(WordMod - 1) /\ 0 \in 0..13
  BY WordWidth
<1> USE DEF StreamTypeOK, RegisterHasRoom
<1>3. CASE ReadEOF(c) \/ ReadRaw(c)
  BY <1>1, <1>3 DEF ReadEOF, ReadRaw
<1>4. CASE ReadTerminator(c)
  <2>1. next_char' = c
    BY <1>4 DEF ReadTerminator
  <2>2. \/ /\ status' = "threw"
           /\ byte_size' = byte_size /\ bits' = bits
           /\ n_bits' = n_bits /\ reading' = reading
        \/ /\ status' = status
           /\ byte_size' = 8 /\ bits' = 0 /\ n_bits' = 0 /\ reading' = FALSE
    BY <1>4, Zenon DEF ReadTerminator
  <2>3. RegisterHasRoom'
    BY <1>1, <2>2
  <2>4. bits' \in 0..(WordMod - 1) /\ n_bits' \in 0..13 /\ byte_size' \in {4, 6, 8}
    BY <1>1, <1>2, <2>2
  <2>5. status' \in {"running", "threw"}
    BY <2>2
  <2>6. reading' \in BOOLEAN
    BY <2>2, Zenon
  <2> QED
    BY <1>1, <2>1, <2>3, <2>4, <2>5, <2>6
<1>5. CASE ReadIgnored(c)
  BY <1>1, <1>5 DEF ReadIgnored
<1>6. CASE ReadDigit(c)
  <2>1. byte_size \in {4, 6} /\ c \in Octets /\ DigitValue(byte_size, c) \in Nat
    BY <1>6, DigitTypes DEF ReadDigit
  <2>2. bits' \in 0..(WordMod - 1)
    BY <1>1, <1>6, <2>1, RegisterType DEF ReadDigit
  <2>3. byte_size' = byte_size /\ status' = status /\ bits' \in Nat
    BY <1>6, <2>2, WordWidth DEF ReadDigit
  <2>4. CASE n_bits + byte_size >= 8
    <3>1. /\ n_bits' = n_bits + byte_size - 8
          /\ next_char' = (bits' \div (2^n_bits')) % 256
          /\ reading' = FALSE
      BY <1>6, <2>4 DEF ReadDigit
    <3>2. n_bits' \in 0..7
      BY <1>1, <2>1, <2>4, <3>1
    <3>3. next_char' \in Octets
      BY <2>3, <3>1, <3>2, OctetType
    <3>4. n_bits' \in 0..13 /\ n_bits' <= 7
      BY <3>2
    <3>5. reading' \in BOOLEAN
      BY <3>1, Zenon
    <3>6. byte_size' \in {4, 6, 8}
      BY <2>1, <2>3
    <3> QED
      BY <1>1, <2>2, <2>3, <3>3, <3>4, <3>5, <3>6
  <2>5. CASE ~(n_bits + byte_size >= 8)
    <3>1. n_bits' = n_bits + byte_size /\ next_char' = c /\ reading' = reading
      BY <1>6, <2>5, Zenon DEF ReadDigit
    <3>2. n_bits' \in 0..7
      BY <1>1, <2>1, <2>5, <3>1
    <3>3. n_bits' \in 0..13 /\ n_bits' <= 7
      BY <3>2
    <3>4. reading' \in BOOLEAN
      BY <3>1, Zenon
    <3>5. next_char' \in Octets \cup {EOF} /\ byte_size' \in {4, 6, 8}
      BY <2>1, <2>3, <3>1
    <3>6. RegisterHasRoom'
      BY <3>3 DEF RegisterHasRoom
    <3>7. status' \in {"running", "threw"}
      BY <2>3
    <3> QED
      BY <1>1, <2>2, <3>3, <3>4, <3>5, <3>6, <3>7
  <2> QED
    BY <2>4, <2>5
<1>7. CASE ReadIllegal(c)
  <2>1. byte_size \in {4, 6}
    BY <1>7 DEF ReadIllegal
  <2>2. bits' \in 0..(WordMod - 1)
    BY <1>1, <1>7, <2>1, RegisterType DEF ReadIllegal
  <2>3. n_bits' \in 0..13 /\ status' = "threw"
    BY <1>1, <1>7, <2>1 DEF ReadIllegal
  <2> QED
    BY <1>1, <1>7, <2>1, <2>2, <2>3 DEF ReadIllegal
<1> QED
  BY <1>3, <1>4, <1>5, <1>6, <1>7 DEF ReadChar

-----------------------------------------------------------------------------
(* The reader's own variables.                                             *)
ReaderTypeOK ==
  /\ pc \in Labels
  /\ calls \in Seq({"list", "brace"})
  /\ depth \in 0..(WordMod - 1)
  /\ ss \in Seq(Octets)
  /\ length \in 0..UMAX
  /\ value \in 0..(WordMod - 1)
  /\ ndigits \in Nat
  /\ form \in Forms
  /\ target \in {"hint", "data"}
  /\ hint \in Seq(Seq(Octets)) /\ Len(hint) <= 1
  /\ built \in Seq(Events)

RInv == ReaderTypeOK /\ EscapeSoFar

LEMMA TInvParts == TInv <=> StreamTypeOK /\ RegisterHasRoom /\ RInv
BY DEF TInv, TypeOK, RInv, ReaderTypeOK

(* An error, and a step that moves only within the stream.                 *)
LEMMA FailKeeps ==
  ASSUME RInv, Fail
  PROVE  RInv' /\ Throw
BY DEF Fail, RInv, ReaderTypeOK, EscapeSoFar, stringVars, nestVars

LEMMA StringKept ==
  ASSUME RInv, NEW label \in Labels, Goto(label), UNCHANGED <<stringVars, nestVars>>,
         pc \notin {"decimal", "hex_escape", "octal_escape"}
  PROVE  RInv'
BY DEF Goto, RInv, ReaderTypeOK, EscapeSoFar, stringVars, nestVars

LEMMA StoreType ==
  ASSUME ss \in Seq(Octets), NEW c \in Octets, Store(c)
  PROVE  ss' \in Seq(Octets)
<1>1. c % 256 \in Octets
  BY DEF Octets
<1> QED
  BY <1>1, AppendProperties DEF Store

LEMMA ContinuationType ==
  ASSUME NEW frames
  PROVE  Continuation(frames) \in {"done", "list", "brace_end"}
BY DEF Continuation

(* Pushing and popping frames, and recording events.                       *)
LEMMA FrameTypes ==
  ASSUME calls \in Seq({"list", "brace"})
  PROVE  /\ \A f \in {"list", "brace"} : Append(calls, f) \in Seq({"list", "brace"})
         /\ Front(calls) \in Seq({"list", "brace"})
<1>1. \A f \in {"list", "brace"} : Append(calls, f) \in Seq({"list", "brace"})
  BY AppendProperties
<1>2. Front(calls) \in Seq({"list", "brace"})
  <2>1. Len(calls) - 1 \in Int /\ \A i \in 1..(Len(calls) - 1) : calls[i] \in {"list", "brace"}
    BY ElementOfSeq, LenProperties
  <2> QED
    BY <2>1, SubSeqProperties DEF Front
<1> QED
  BY <1>1, <1>2

LEMMA EventTypes ==
  ASSUME built \in Seq(Events), NEW h \in Seq(Seq(Octets)), NEW d \in Seq(Octets)
  PROVE  /\ Append(built, Opened) \in Seq(Events)
         /\ Append(built, Closed) \in Seq(Events)
         /\ Append(built, String(h, d)) \in Seq(Events)
<1>1. /\ Opened \in Events /\ Closed \in Events
      /\ String(h, d) \in Events
  BY DEF Events, String
<1> QED
  BY <1>1, AppendProperties

-----------------------------------------------------------------------------
(* A step of the reader moves the stream in one of five ways.              *)
StreamMove ==
  GetChar \/ EnterRegion(4) \/ EnterRegion(6) \/ Throw \/ UNCHANGED streamVars

LEMMA MoveTypes ==
  ASSUME TInv, StreamMove, RInv'
  PROVE  TInv'
BY TInvParts, StreamCalls DEF StreamMove, TInv, TypeOK, RInv, ReaderTypeOK

LEMMA FailTypes ==
  ASSUME TInv, Fail
  PROVE  RInv' /\ StreamMove
BY FailKeeps, TInvParts DEF StreamMove

LEMMA StructureTypes ==
  ASSUME TInv, SkipWhiteSpace \/ Structure
  PROVE  RInv' /\ StreamMove
<1> USE TInvParts DEF At, AtNonSpace, StreamMove
<1>1. CASE SkipWhiteSpace
  BY <1>1 DEF SkipWhiteSpace, RInv, ReaderTypeOK, EscapeSoFar, stringVars, nestVars
<1>2. CASE OpenBrace
  BY <1>2, FrameTypes DEF OpenBrace, RInv, ReaderTypeOK, EscapeSoFar, stringVars
<1>3. CASE CloseBrace
  <2>1. CASE next_char = RBRACE
    BY <1>3, <2>1, FrameTypes, ContinuationType
    DEF CloseBrace, Goto, RInv, ReaderTypeOK, EscapeSoFar, stringVars, Labels
  <2>2. CASE next_char # RBRACE
    BY <1>3, <2>2, FailTypes DEF CloseBrace
  <2> QED
    BY <2>1, <2>2
<1>4. CASE OpenList
  BY <1>4, StringKept DEF OpenList, Labels
<1>5. CASE EnterList
  <2>1. depth' \in 0..(WordMod - 1)
    <3>1. depth \in Int /\ depth + 1 \in Int
      BY DEF RInv, ReaderTypeOK
    <3> QED
      BY <1>5, <3>1, WordType DEF EnterList, RInv, ReaderTypeOK
  <2>2. /\ Append(calls, "list") \in Seq({"list", "brace"})
        /\ Append(built, Opened) \in Seq(Events)
    BY FrameTypes, EventTypes, EmptySeq DEF RInv, ReaderTypeOK
  <2>3. \/ Throw /\ UNCHANGED <<pc, calls, built>>
        \/ /\ Goto("list") /\ calls' = Append(calls, "list")
           /\ built' = Append(built, Opened) /\ UNCHANGED streamVars
    BY <1>5 DEF EnterList
  <2>4. pc = "open" /\ UNCHANGED stringVars
    BY <1>5 DEF EnterList
  <2> QED
    BY <2>1, <2>2, <2>3, <2>4
    DEF Goto, RInv, ReaderTypeOK, EscapeSoFar, stringVars, Labels
<1>6. CASE NextElement
  BY <1>6, StringKept DEF NextElement, Labels
<1>7. CASE LeaveList
  <2>1. depth' \in 0..(WordMod - 1)
    <3>1. depth + WordMod - 1 \in Int
      BY WordWidth DEF RInv, ReaderTypeOK
    <3> QED
      BY <1>7, <3>1, WordType DEF LeaveList
  <2>2. /\ Front(calls) \in Seq({"list", "brace"})
        /\ Append(built, Closed) \in Seq(Events)
    BY FrameTypes, EventTypes, EmptySeq DEF RInv, ReaderTypeOK
  <2> QED
    BY <1>7, <2>1, <2>2, ContinuationType
    DEF LeaveList, Goto, RInv, ReaderTypeOK, EscapeSoFar, stringVars, Labels
<1> QED
  BY <1>1, <1>2, <1>3, <1>4, <1>5, <1>6, <1>7 DEF Structure

LEMMA CharClasses ==
  /\ TokenChars \subseteq Octets /\ DecDigits \subseteq TokenChars
  /\ EOF \notin Octets
  /\ \A c \in DecDigits : DecValue(c) \in 0..9
  /\ \A c \in OctalDigits : DecValue(c) \in 0..7
  /\ \A c \in HexDigits : HexValue(c) \in 0..15
  /\ \A c \in SimpleEscapes : EscapedOctet(c) \in Octets
<1>1. TokenChars \subseteq Octets /\ DecDigits \subseteq TokenChars /\ EOF \notin Octets
  BY DEF TokenChars, DecDigits, Upper, Lower, EQUALS, COLON, Octets, EOF
<1>2. /\ \A c \in DecDigits : DecValue(c) \in 0..9
      /\ \A c \in OctalDigits : DecValue(c) \in 0..7
  BY DEF DecDigits, OctalDigits, DecValue
<1>3. \A c \in HexDigits : HexValue(c) \in 0..15
  BY DEF HexDigits, DecDigits, HexValue
<1>4. \A c \in SimpleEscapes : EscapedOctet(c) \in Octets
  BY DEF SimpleEscapes, EscapedOctet, Octets, DQUOTE, QUOTE, BACKSLASH, NEWLINE, RETURN
<1> QED
  BY <1>1, <1>2, <1>3, <1>4

(* The two facts about the next character every step relies on.            *)
LEMMA NextCharType ==
  ASSUME TInv, next_char # EOF
  PROVE  next_char \in Octets
BY DEF TInv, TypeOK, StreamTypeOK

(* A step that changes of the string only what is named here.              *)
LEMMA StringChanged ==
  ASSUME RInv,
         pc' \in Labels, ss' \in Seq(Octets), length' \in 0..UMAX, form' \in Forms,
         target' \in {"hint", "data"}, UNCHANGED <<value, ndigits, hint, nestVars>>,
         \/ pc' = pc
         \/ {pc, pc'} \cap {"decimal", "hex_escape", "octal_escape"} = {}
         \/ ndigits = 0 /\ value = 0
  PROVE  RInv'
BY DEF RInv, ReaderTypeOK, EscapeSoFar, nestVars

LEMMA SimpleTypes ==
  ASSUME TInv, Simple
  PROVE  RInv' /\ StreamMove
<1> USE TInvParts DEF At, AtNonSpace, Goto, StreamMove
<1> USE DEF RInv, ReaderTypeOK
<1>0. UMAX \in 0..UMAX
  BY WordWidth DEF UMAX
<1>1. CASE BeginString
  BY <1>1, StringChanged DEF BeginString, Labels
<1>2. CASE BeginSimple
  <2>1. pc = "simple" /\ ndigits = 0 /\ value = 0
    BY <1>2 DEF BeginSimple, EscapeSoFar
  <2>2. pc' \in Labels /\ form' \in Forms
    BY <1>2 DEF BeginSimple, Labels, Forms
  <2> QED
    BY <1>0, <1>2, <2>1, <2>2, StringChanged DEF BeginSimple
<1>3. CASE TokenChar
  <2>1. CASE next_char \in TokenChars
    <3>1. ss' \in Seq(Octets)
      BY <1>3, <2>1, CharClasses, StoreType DEF TokenChar
    <3> QED
      BY <1>3, <2>1, <3>1, StringChanged DEF TokenChar
  <2>2. CASE next_char \notin TokenChars
    BY <1>3, <2>2, StringChanged DEF TokenChar, Labels
  <2> QED
    BY <2>1, <2>2
<1>4. CASE DecimalDigit
  <2>1. value' \in 0..(WordMod - 1)
    <3>1. value * 10 + DecValue(next_char) \in Int
      <4>1. DecValue(next_char) \in 0..9
        BY <1>4, CharClasses DEF DecimalDigit
      <4>2. value \in Int
        BY WordWidth
      <4>3. \A d \in 0..9 : value * 10 + d \in Int
        BY <4>2
      <4> QED
        BY <4>1, <4>3, Zenon
    <3> QED
      BY <1>4, <3>1, WordType DEF DecimalDigit
  <2> QED
    BY <1>4, <2>1 DEF DecimalDigit, EscapeSoFar, nestVars
<1>5. CASE DecimalTooLong
  BY <1>5, FailTypes DEF DecimalTooLong
<1>6. CASE DecimalEnd
  <2>1. value \in 0..UMAX /\ 0 \in 0..(WordMod - 1)
    BY WordWidth DEF UMAX
  <2> QED
    BY <1>6, <2>1 DEF DecimalEnd, EscapeSoFar, nestVars, Labels
<1>7. CASE BeginQuoted
  BY <1>7, StringChanged DEF BeginQuoted, Labels, Forms
<1>8. CASE BeginVerbatim
  BY <1>8, StringChanged DEF BeginVerbatim, Labels, Forms
<1>9. CASE BeginCoded
  BY <1>9, StringChanged DEF BeginCoded, Labels, Forms
<1>10. CASE IllegalCharacter
  BY <1>10, FailTypes DEF IllegalCharacter
<1>11. CASE Verbatim
  <2>1. CASE Len(ss) < length /\ next_char # EOF /\ ~(length > MaxVerbatim)
    <3>1. ss' \in Seq(Octets)
      BY <1>11, <2>1, NextCharType, StoreType DEF Verbatim
    <3> QED
      BY <1>11, <2>1, <3>1, StringChanged DEF Verbatim
  <2>2. CASE ~(Len(ss) < length) /\ ~(length > MaxVerbatim)
    BY <1>11, <2>2, StringChanged DEF Verbatim, Labels
  <2>3. CASE length > MaxVerbatim \/ (Len(ss) < length /\ next_char = EOF)
    BY <1>11, <2>3, FailTypes DEF Verbatim
  <2> QED
    BY <2>1, <2>2, <2>3
<1>12. CASE Coded
  <2>1. CASE next_char # EOF /\ (next_char # Delimiter \/ byte_size = Width)
    <3>1. ss' \in Seq(Octets)
      BY <1>12, <2>1, NextCharType, StoreType DEF Coded
    <3> QED
      BY <1>12, <2>1, <3>1, StringChanged DEF Coded
  <2>2. CASE ~(next_char # EOF /\ (next_char # Delimiter \/ byte_size = Width))
    <3>1. Expect(Delimiter, "coded_end") /\ pc = "coded"
      BY <1>12, <2>2 DEF Coded
    <3>2. CASE next_char = Delimiter
      BY <3>1, <3>2, StringKept DEF Expect, Labels
    <3>3. CASE next_char # Delimiter
      BY <3>1, <3>3, FailTypes DEF Expect
    <3> QED
      BY <3>2, <3>3
  <2> QED
    BY <2>1, <2>2
<1>13. CASE CodedEnd
  <2>1. CASE WarningsThrow /\ Len(ss) # length /\ length # UMAX
    BY <1>13, <2>1, FailTypes DEF CodedEnd
  <2>2. CASE ~(WarningsThrow /\ Len(ss) # length /\ length # UMAX)
    BY <1>13, <2>2, StringKept DEF CodedEnd, Labels
  <2> QED
    BY <2>1, <2>2
<1>14. CASE StringEnd
  <2>1. CASE ss = <<>> /\ WarningsThrow
    BY <1>14, <2>1, FailTypes DEF StringEnd
  <2>2. CASE ~(ss = <<>> /\ WarningsThrow)
    <3>1. /\ pc = "string_end" /\ ndigits = 0 /\ value = 0
          /\ ss' = <<>> /\ length' = UMAX /\ form' = "none"
          /\ UNCHANGED <<streamVars, value, ndigits, target, calls, depth>>
      BY <1>14, <2>2 DEF StringEnd, EscapeSoFar, nestVars
    <3>2. /\ hint' \in Seq(Seq(Octets)) /\ Len(hint') <= 1
          /\ pc' \in {"hint_end", "done", "list", "brace_end"}
          /\ built' \in Seq(Events)
      <4>1. CASE target = "hint"
        <5>1. hint' = <<ss>> /\ pc' = "hint_end" /\ built' = built
          BY <1>14, <2>2, <4>1 DEF StringEnd, nestVars
        <5>2. <<ss>> \in Seq(Seq(Octets)) /\ Len(<<ss>>) = 1
          OBVIOUS
        <5> QED
          BY <5>1, <5>2
      <4>2. CASE target # "hint"
        <5> DEFINE e == String(hint, ss)
        <5>1. /\ hint' = <<>> /\ pc' = Continuation(calls)
              /\ built' = Append(built, e)
          BY <1>14, <2>2, <4>2 DEF StringEnd
        <5>2. Append(built, e) \in Seq(Events)
          BY EventTypes
        <5> HIDE DEF e
        <5>3. <<>> \in Seq(Seq(Octets)) /\ Len(<<>>) = 0
          OBVIOUS
        <5> QED
          BY <5>1, <5>2, <5>3, ContinuationType
      <4> QED
        BY <4>1, <4>2
    <3> QED
      BY <1>0, <3>1, <3>2 DEF EscapeSoFar, Labels, Forms
  <2> QED
    BY <2>1, <2>2
<1>15. CASE HintEnd
  <2>1. CASE next_char = RBRACKET
    BY <1>15, <2>1, StringChanged DEF HintEnd, Labels
  <2>2. CASE next_char # RBRACKET
    BY <1>15, <2>2, FailTypes DEF HintEnd
  <2> QED
    BY <2>1, <2>2
<1> QED
  BY <1>1, <1>2, <1>3, <1>4, <1>5, <1>6, <1>7, <1>8, <1>9, <1>10, <1>11, <1>12,
     <1>13, <1>14, <1>15
  DEF Simple

-----------------------------------------------------------------------------
(* The value of an octal escape after n digits and one more.               *)
LEMMA OctalValue ==
  ASSUME NEW n \in {0, 1, 2}, NEW x \in Nat, NEW d \in 0..7,
         n = 0 => x = 0, n = 1 => x \in 0..7, n = 2 => x \in 0..63,
         ~(n = 2 /\ 8 * x + d > 255)
  PROVE  /\ 8 * x + d \in 0..255
         /\ n = 0 => 8 * x + d \in 0..7
         /\ n = 1 => 8 * x + d \in 0..63
<1>1. CASE n = 0
  BY <1>1
<1>2. CASE n = 1
  BY <1>2
<1>3. CASE n = 2
  BY <1>3
<1> QED
  BY <1>1, <1>2, <1>3

(* Two hexadecimal digits fit an octet, and three octal ones are checked.  *)
LEMMA EscapeTypes ==
  ASSUME TInv, NEW radix \in {8, 16}, NEW size \in {2, 3}, NEW digit \in 0..(radix - 1),
         EscapeDigit(radix, size, digit),
         \/ pc = "hex_escape" /\ radix = 16 /\ size = 2
         \/ /\ pc = "octal_escape" /\ radix = 8 /\ size = 3
            /\ ~(ndigits = 2 /\ 8 * value + digit > 255)
  PROVE  RInv' /\ StreamMove
<1> USE TInvParts DEF RInv, ReaderTypeOK, StreamMove
<1> DEFINE v == radix * value + digit
<1>1. v \in 0..255 /\ (pc = "hex_escape" /\ ndigits = 0 => v \in 0..15)
      /\ (pc = "octal_escape" /\ ndigits = 0 => v \in 0..7)
      /\ (pc = "octal_escape" /\ ndigits = 1 => v \in 0..63)
  <2>1. CASE radix = 16
    <3>1. v = 16 * value + digit /\ digit \in 0..15 /\ pc = "hex_escape"
      BY <2>1
    <3>2. value \in 0..15 /\ (ndigits = 0 => value = 0)
      BY <3>1 DEF EscapeSoFar
    <3> HIDE DEF v
    <3> QED
      BY <3>1, <3>2
  <2>2. CASE radix = 8
    <3>1. v = 8 * value + digit /\ digit \in 0..7 /\ pc = "octal_escape"
      BY <2>2
    <3>2. /\ ndigits \in {0, 1, 2} /\ value \in Nat
          /\ ndigits = 0 => value = 0
          /\ ndigits = 1 => value \in 0..7
          /\ ndigits = 2 => value \in 0..63
      BY <3>1 DEF EscapeSoFar
    <3>3. ~(ndigits = 2 /\ 8 * value + digit > 255)
      BY <2>2
    <3> QED
      BY <3>1, <3>2, <3>3, OctalValue
  <2> QED
    BY <2>1, <2>2
<1>2. \A x \in 0..255 : x \in 0..(WordMod - 1) /\ x \in Octets
  BY WordWidth DEF Octets
<1>3. /\ GetChar
      /\ ndigits + 1 < size =>
           /\ value' = v /\ ndigits' = ndigits + 1 /\ pc' = pc /\ ss' = ss
      /\ ~(ndigits + 1 < size) =>
           Store(v) /\ value' = 0 /\ ndigits' = 0 /\ pc' = "quoted"
      /\ UNCHANGED <<length, form, target, hint, calls, depth, built>>
  BY DEF EscapeDigit, nestVars, Goto
<1> HIDE DEF v
<1>4. CASE ndigits + 1 < size
  <2>1. /\ value' = v /\ ndigits' = ndigits + 1 /\ pc' = pc /\ ss' = ss
        /\ v \in 0..(WordMod - 1)
    <3>1. v \in 0..(WordMod - 1)
      BY <1>1, <1>2, Zenon
    <3> QED
      BY <1>3, <1>4, <3>1, Zenon
  <2>2. ReaderTypeOK' /\ StreamMove
    BY <1>3, <2>1
  <2>3. EscapeSoFar'
    <3>1. CASE pc = "hex_escape" /\ size = 2
      BY <1>1, <1>4, <2>1, <3>1 DEF EscapeSoFar
    <3>2. CASE pc = "octal_escape" /\ size = 3
      BY <1>1, <1>4, <2>1, <3>2 DEF EscapeSoFar
    <3> QED
      BY <3>1, <3>2
  <2> QED
    BY <2>2, <2>3
<1>5. CASE ~(ndigits + 1 < size)
  <2>1. ss' \in Seq(Octets)
    BY <1>1, <1>2, <1>3, <1>5, StoreType
  <2> QED
    BY <1>2, <1>3, <1>5, <2>1 DEF EscapeSoFar, Labels
<1> QED
  BY <1>4, <1>5

LEMMA QuotedTypes ==
  ASSUME TInv, Quoted
  PROVE  RInv' /\ StreamMove
<1> USE TInvParts DEF At, Goto, StreamMove
<1> USE DEF RInv, ReaderTypeOK
<1>1. CASE QuotedEnd
  <2>1. CASE Len(ss) > length
    BY <1>1, <2>1, StringKept DEF QuotedEnd, Labels
  <2>2. CASE ~(Len(ss) > length) /\ (length = UMAX \/ Len(ss) = length)
    BY <1>1, <2>2, StringKept DEF QuotedEnd, Labels
  <2>3. CASE ~(Len(ss) > length) /\ ~(length = UMAX \/ Len(ss) = length)
    BY <1>1, <2>3, FailTypes DEF QuotedEnd
  <2> QED
    BY <2>1, <2>2, <2>3
<1>2. CASE QuotedChar
  <2>1. CASE next_char = EOF
    <3>1. next_char # BACKSLASH
      BY <2>1 DEF BACKSLASH, EOF
    <3>2. Fail
      BY <1>2, <2>1, <3>1, Zenon DEF QuotedChar
    <3> QED
      BY <3>2, FailTypes
  <2>2. CASE next_char = BACKSLASH
    <3>1. next_char # EOF
      BY <2>2 DEF BACKSLASH, EOF
    <3> QED
      BY <1>2, <2>2, <3>1, StringKept DEF QuotedChar, Labels
  <2>3. CASE next_char # EOF /\ next_char # BACKSLASH
    <3>1. ss' \in Seq(Octets)
      BY <1>2, <2>3, NextCharType, StoreType DEF QuotedChar
    <3> QED
      BY <1>2, <2>3, <3>1, StringChanged DEF QuotedChar
  <2> QED
    BY <2>1, <2>2, <2>3
<1>3. CASE SimpleEscape
  <2>1. ss' \in Seq(Octets)
    BY <1>3, CharClasses, StoreType DEF SimpleEscape
  <2> QED
    BY <1>3, <2>1, StringChanged DEF SimpleEscape, Labels
<1>4. CASE BeginEscape
  BY <1>4 DEF BeginEscape, EscapeSoFar, stringVars, nestVars, Labels
<1>5. CASE UnknownEscape
  BY <1>5, FailTypes DEF UnknownEscape
<1>6. CASE EscapedLineEnd
  BY <1>6, StringKept DEF EscapedLineEnd, Labels
<1>7. CASE HexEscape
  <2>1. CASE next_char \in HexDigits
    <3>1. /\ EscapeDigit(16, 2, HexValue(next_char)) /\ pc = "hex_escape"
          /\ HexValue(next_char) \in 0..(16 - 1)
      BY <1>7, <2>1, CharClasses DEF HexEscape
    <3> QED
      BY <3>1, EscapeTypes
  <2>2. CASE next_char \notin HexDigits
    BY <1>7, <2>2, FailTypes DEF HexEscape
  <2> QED
    BY <2>1, <2>2
<1>8. CASE OctalEscape
  <2> DEFINE fits == ~(ndigits = 2 /\ 8 * value + DecValue(next_char) > 255)
  <2>1. CASE next_char \in OctalDigits /\ fits
    <3>1. /\ EscapeDigit(8, 3, DecValue(next_char)) /\ pc = "octal_escape"
          /\ DecValue(next_char) \in 0..(8 - 1)
      BY <1>8, <2>1, CharClasses DEF OctalEscape
    <3> QED
      BY <2>1, <3>1, EscapeTypes
  <2>2. CASE ~(next_char \in OctalDigits /\ fits)
    BY <1>8, <2>2, FailTypes DEF OctalEscape
  <2> QED
    BY <2>1, <2>2
<1> QED
  BY <1>1, <1>2, <1>3, <1>4, <1>5, <1>6, <1>7, <1>8 DEF Quoted

-----------------------------------------------------------------------------
LEMMA InitTypes == Init => TInv
<1> SUFFICES ASSUME Init PROVE TInv
  OBVIOUS
<1>1. 0 \in 0..(WordMod - 1) /\ UMAX \in 0..UMAX
  BY WordWidth DEF UMAX
<1>2. StreamTypeOK /\ RegisterHasRoom
  BY <1>1 DEF Init, StreamInit, StreamTypeOK, RegisterHasRoom, Octets, SPACE
<1>3. RInv
  BY <1>1 DEF Init, RInv, ReaderTypeOK, EscapeSoFar, Labels, Forms
<1> QED
  BY <1>2, <1>3, TInvParts

LEMMA NextTypes == TInv /\ [Next]_vars => TInv'
<1> SUFFICES ASSUME TInv, [Next]_vars PROVE TInv'
  OBVIOUS
<1>1. CASE Read
  <2>1. PICK c \in Available : ReadChar(c) /\ UNCHANGED <<pc, stringVars, nestVars>>
    BY <1>1 DEF Read
  <2>2. StreamTypeOK' /\ RegisterHasRoom'
    <3>1. c \in Octets \cup {EOF}
      BY AlphabetAssumption DEF Available
    <3> QED
      BY <2>1, <3>1, ReadTypes, TInvParts
  <2>3. RInv'
    BY <2>1, TInvParts DEF RInv, ReaderTypeOK, EscapeSoFar, stringVars, nestVars
  <2> QED
    BY <2>2, <2>3 DEF TInv, TypeOK, RInv, ReaderTypeOK
<1>2. CASE SkipWhiteSpace \/ Structure
  BY <1>2, StructureTypes, MoveTypes
<1>3. CASE Simple
  BY <1>3, SimpleTypes, MoveTypes
<1>4. CASE Quoted
  BY <1>4, QuotedTypes, MoveTypes
<1>5. CASE Stopped \/ UNCHANGED vars
  <2>1. UNCHANGED <<streamVars, pc, stringVars, nestVars>>
    BY <1>5 DEF Stopped, vars
  <2> QED
    BY <2>1 DEF TInv, TypeOK, StreamTypeOK, RegisterHasRoom, EscapeSoFar,
                streamVars, stringVars, nestVars
<1> QED
  BY <1>1, <1>2, <1>3, <1>4, <1>5 DEF Next

(* Type correctness of scan_object and everything it calls: the character  *)
(* being scanned is an octet or EOF, and no register or number overflows.  *)
THEOREM TypesHold == Spec => []TypeOK
<1>1. Init => TInv
  BY InitTypes
<1>2. TInv /\ [Next]_vars => TInv'
  BY NextTypes
<1>3. TInv => TypeOK
  BY DEF TInv
<1> QED
  BY <1>1, <1>2, <1>3, PTL DEF Spec

-----------------------------------------------------------------------------
(* While a coded string is read the stream is in its region or past the    *)
(* end of it: what makes HexOnlyInHexString inductive.                     *)
CodedRegion ==
  status = "running" /\ pc = "coded" => form \in {"hex", "base64"} /\ byte_size \in {Width, 8}

HInv == CodedRegion /\ HexOnlyInHexString

(* A step outside coded strings, in which a region is only left.           *)
LEMMA OutsideCoded ==
  ASSUME TInv, HInv, pc \notin {"coded", "coded_end"}, status = "running",
         GetChar \/ EnterRegion(6) \/ Throw \/ UNCHANGED streamVars,
         pc' \notin {"coded", "coded_end"}
  PROVE  HInv'
<1>1. byte_size # 4
  BY DEF HInv, HexOnlyInHexString
<1>2. byte_size' # 4 \/ status' # "running"
  <2>1. CASE GetChar
    BY <1>1, <2>1 DEF GetChar
  <2>2. CASE EnterRegion(6)
    BY <2>2 DEF EnterRegion
  <2>3. CASE Throw
    BY <2>3 DEF Throw
  <2>4. CASE UNCHANGED streamVars
    BY <1>1, <2>4 DEF streamVars
  <2> QED
    BY <2>1, <2>2, <2>3, <2>4
<1> QED
  BY <1>2 DEF HInv, CodedRegion, HexOnlyInHexString

(* An error ends the call.                                                 *)
LEMMA FailRegions ==
  ASSUME Throw
  PROVE  HInv'
BY DEF Throw, HInv, CodedRegion, HexOnlyInHexString

LEMMA ReadRegions ==
  ASSUME TInv, HInv, Read
  PROVE  HInv'
<1>1. PICK c \in Available : ReadChar(c) /\ UNCHANGED <<pc, stringVars, nestVars>>
  BY DEF Read
<1>2. pc' = pc /\ form' = form /\ status = "running"
  BY <1>1 DEF ReadChar, stringVars
<1>3. byte_size' \in {byte_size, 8}
  BY <1>1 DEF ReadChar, ReadEOF, ReadRaw, ReadTerminator, ReadIgnored, ReadDigit, ReadIllegal
<1> QED
  BY <1>2, <1>3 DEF HInv, CodedRegion, HexOnlyInHexString, Width

LEMMA NextRegions == TInv /\ HInv /\ [Next]_vars => HInv'
<1> SUFFICES ASSUME TInv, HInv, [Next]_vars PROVE HInv'
  OBVIOUS
<1> USE DEF At, AtNonSpace, Ready, Goto, Fail
<1>1. CASE Read
  BY <1>1, ReadRegions
<1>2. CASE SkipWhiteSpace
  BY <1>2, OutsideCoded DEF SkipWhiteSpace
<1>3. CASE Structure
  <2>1. /\ pc \in {"object", "brace_end", "open", "list", "close"} /\ status = "running"
        /\ GetChar \/ EnterRegion(6) \/ Throw \/ UNCHANGED streamVars
        /\ pc' \in {"object", "open", "brace_end", "close", "list", "done"}
    BY <1>3, ContinuationType
    DEF Structure, OpenBrace, CloseBrace, OpenList, EnterList, NextElement, LeaveList
  <2> QED
    BY <2>1, OutsideCoded
<1>4. CASE Coded
  <2>1. pc = "coded" /\ status = "running"
    BY <1>4 DEF Coded
  <2>2. CASE next_char # EOF /\ (next_char # Delimiter \/ byte_size = Width)
    <3>1. GetChar /\ pc' = pc /\ form' = form
      BY <1>4, <2>2 DEF Coded
    <3> QED
      BY <2>1, <2>2, <3>1 DEF GetChar, HInv, CodedRegion, HexOnlyInHexString, Width
  <2>3. CASE ~(next_char # EOF /\ (next_char # Delimiter \/ byte_size = Width))
    <3>1. Expect(Delimiter, "coded_end")
      BY <1>4, <2>3 DEF Coded
    <3>2. CASE next_char = Delimiter
      <4>1. next_char # EOF
        BY <3>2 DEF Delimiter, HASH, BAR, EOF
      <4>2. byte_size = 8
        BY <2>1, <2>3, <3>2, <4>1 DEF HInv, CodedRegion
      <4>3. GetChar /\ pc' = "coded_end"
        BY <3>1, <3>2 DEF Expect
      <4> QED
        BY <4>2, <4>3 DEF GetChar, HInv, CodedRegion, HexOnlyInHexString
    <3>3. CASE next_char # Delimiter
      BY <3>1, <3>3, FailRegions DEF Expect
    <3> QED
      BY <3>2, <3>3
  <2> QED
    BY <2>2, <2>3
<1>5. CASE CodedEnd
  <2>1. pc = "coded_end" /\ status = "running"
    BY <1>5 DEF CodedEnd
  <2>2. Throw \/ (UNCHANGED streamVars /\ pc' = "string_end")
    BY <1>5 DEF CodedEnd
  <2> QED
    BY <2>1, <2>2, FailRegions DEF HInv, CodedRegion, HexOnlyInHexString, streamVars
<1>6. CASE BeginCoded
  <2>1. \/ EnterRegion(4) /\ form' = "hex"
        \/ EnterRegion(6) /\ form' = "base64"
    BY <1>6 DEF BeginCoded
  <2>2. pc' = "coded"
    BY <1>6 DEF BeginCoded
  <2> QED
    BY <2>1, <2>2 DEF EnterRegion, HInv, CodedRegion, HexOnlyInHexString, Width
<1>7. CASE Simple /\ ~Coded /\ ~CodedEnd /\ ~BeginCoded
  <2>1. /\ pc \notin {"coded", "coded_end"} /\ status = "running"
        /\ GetChar \/ EnterRegion(6) \/ Throw \/ UNCHANGED streamVars
        /\ pc' \notin {"coded", "coded_end"}
    BY <1>7, ContinuationType
    DEF Simple, BeginString, BeginSimple, TokenChar, DecimalDigit, DecimalTooLong, DecimalEnd,
        BeginQuoted, BeginVerbatim, IllegalCharacter, Verbatim, StringEnd, HintEnd
  <2> QED
    BY <2>1, OutsideCoded
<1>8. CASE Quoted
  <2>1. /\ pc \notin {"coded", "coded_end"} /\ status = "running"
        /\ GetChar \/ Throw \/ UNCHANGED streamVars
        /\ pc' \notin {"coded", "coded_end"}
    BY <1>8
    DEF Quoted, QuotedEnd, QuotedChar, SimpleEscape, BeginEscape, UnknownEscape,
        EscapedLineEnd, HexEscape, OctalEscape, EscapeDigit
  <2> QED
    BY <2>1, OutsideCoded
<1>9. CASE Stopped \/ UNCHANGED vars
  <2>1. UNCHANGED <<streamVars, pc, form>>
    BY <1>9 DEF Stopped, vars, stringVars
  <2> QED
    BY <2>1 DEF HInv, CodedRegion, HexOnlyInHexString, Width, streamVars
<1> QED
  BY <1>1, <1>2, <1>3, <1>4, <1>5, <1>6, <1>7, <1>8, <1>9 DEF Next

(* Across skip_white_space, scan_object and the string readers: hexadecimal *)
(* decoding never outlasts the string it was begun for, for every input.    *)
THEOREM RegionsMatchStrings == Spec => []HexOnlyInHexString
<1>1. Init => TInv /\ HInv
  BY InitTypes DEF Init, StreamInit, HInv, CodedRegion, HexOnlyInHexString
<1>2. TInv /\ HInv /\ [Next]_vars => TInv' /\ HInv'
  BY NextTypes, NextRegions
<1>3. HInv => HexOnlyInHexString
  BY DEF HInv
<1> QED
  BY <1>1, <1>2, <1>3, PTL DEF Spec

-----------------------------------------------------------------------------
(* What is stored.                                                         *)

(* A step that changes the string ends it, or has a character to store.    *)
LEMMA NextStores ==
  ASSUME [Next]_vars, ss' # ss
  PROVE  ss' = <<>> \/ next_char # EOF
<1> USE DEF At, AtNonSpace, Goto, Fail, Expect, stringVars
<1>1. ss' = <<>> \/ next_char # EOF \/ UNCHANGED ss
  <2>1. CASE Read \/ SkipWhiteSpace \/ Stopped \/ UNCHANGED vars
    BY <2>1 DEF Read, SkipWhiteSpace, Stopped, vars
  <2>2. CASE Structure
    BY <2>2
    DEF Structure, OpenBrace, CloseBrace, OpenList, EnterList, NextElement, LeaveList
  <2>3. CASE TokenChar
    BY <2>3, CharClasses DEF TokenChar
  <2>4. CASE Verbatim \/ Coded
    BY <2>4 DEF Verbatim, Coded
  <2>5. CASE Simple /\ ~TokenChar /\ ~Verbatim /\ ~Coded
    BY <2>5
    DEF Simple, BeginString, BeginSimple, DecimalDigit, DecimalTooLong, DecimalEnd, BeginQuoted,
        BeginVerbatim, BeginCoded, IllegalCharacter, CodedEnd, StringEnd, HintEnd
  <2>6. CASE QuotedChar
    BY <2>6, Zenon DEF QuotedChar
  <2>7. CASE SimpleEscape \/ HexEscape \/ OctalEscape
    <3>1. EOF \notin SimpleEscapes /\ EOF \notin HexDigits /\ EOF \notin OctalDigits
      BY DEF EOF, SimpleEscapes, HexDigits, DecDigits, OctalDigits, DQUOTE, QUOTE, BACKSLASH
    <3> QED
      BY <2>7, <3>1 DEF SimpleEscape, HexEscape, OctalEscape
  <2>8. CASE QuotedEnd \/ BeginEscape \/ UnknownEscape \/ EscapedLineEnd
    BY <2>8 DEF QuotedEnd, BeginEscape, UnknownEscape, EscapedLineEnd
  <2> QED
    BY <2>1, <2>2, <2>3, <2>4, <2>5, <2>6, <2>7, <2>8 DEF Next, Simple, Quoted
<1> QED
  BY <1>1

(* Whatever the input and wherever it stops, the end of input is never     *)
(* appended to a string as an octet.                                       *)
THEOREM EndIsNeverStored == Spec => EndIsNoOctet
<1>1. Init => TInv
  BY InitTypes
<1>2. TInv /\ [Next]_vars => TInv'
  BY NextTypes
<1>3. TInv /\ [Next]_vars => [Len(ss') > Len(ss) => next_char # EOF]_vars
  <2> SUFFICES ASSUME TInv, [Next]_vars, Len(ss') > Len(ss) PROVE next_char # EOF
    OBVIOUS
  <2>1. Len(ss) \in Nat
    BY LenProperties DEF TInv, TypeOK
  <2>2. ss' # ss /\ ss' # <<>>
    BY <2>1
  <2> QED
    BY <2>2, NextStores
<1> QED
  BY <1>1, <1>2, <1>3, PTL DEF Spec, EndIsNoOctet

(* The end of an escape: what is stored is the whole number.               *)
LEMMA EscapeStores ==
  ASSUME TInv, NEW x \in 0..255, Store(x)
  PROVE  Last(ss') = x
<1>1. x % 256 = x
  OBVIOUS
<1>2. ss' = Append(ss, x) /\ ss \in Seq(Octets) /\ x \in Octets
  BY <1>1 DEF Store, TInv, TypeOK, Octets
<1>3. Len(ss') = Len(ss) + 1 /\ ss'[Len(ss) + 1] = x
  BY <1>2, AppendProperties
<1> QED
  BY <1>3 DEF Last

LEMMA NextEscapes ==
  ASSUME TInv, [Next]_vars, pc' = "quoted"
  PROVE  /\ pc = "hex_escape" => Last(ss') = 16 * value + HexValue(next_char)
         /\ pc = "octal_escape" => Last(ss') = 8 * value + DecValue(next_char)
<1> USE DEF Goto, Fail
<1>1. ASSUME pc \in {"hex_escape", "octal_escape"}
      PROVE  HexEscape \/ OctalEscape
  <2>1. ~Read /\ ~SkipWhiteSpace /\ ~Stopped /\ ~UNCHANGED vars
    BY <1>1 DEF Read, SkipWhiteSpace, Stopped, vars
  <2>2. ~Structure
    BY <1>1
    DEF Structure, OpenBrace, CloseBrace, OpenList, EnterList, NextElement, LeaveList, At, AtNonSpace
  <2>3. ~Simple
    BY <1>1
    DEF Simple, BeginString, BeginSimple, TokenChar, DecimalDigit, DecimalTooLong, DecimalEnd,
        BeginQuoted, BeginVerbatim, BeginCoded, IllegalCharacter, Verbatim, Coded, CodedEnd,
        StringEnd, HintEnd, At, AtNonSpace
  <2>4. ~(QuotedEnd \/ QuotedChar \/ SimpleEscape \/ BeginEscape \/ UnknownEscape \/ EscapedLineEnd)
    BY <1>1
    DEF QuotedEnd, QuotedChar, SimpleEscape, BeginEscape, UnknownEscape, EscapedLineEnd, At
  <2> QED
    BY <2>1, <2>2, <2>3, <2>4 DEF Next, Quoted
<1>2. ASSUME pc = "hex_escape"
      PROVE  Last(ss') = 16 * value + HexValue(next_char)
  <2>1. HexEscape /\ next_char \in HexDigits
    BY <1>1, <1>2 DEF HexEscape, OctalEscape, At
  <2>2. EscapeDigit(16, 2, HexValue(next_char)) /\ HexValue(next_char) \in 0..15
    BY <2>1, CharClasses DEF HexEscape
  <2>3. Store(16 * value + HexValue(next_char))
    BY <1>2, <2>2 DEF EscapeDigit
  <2>4. value \in 0..15
    BY <1>2 DEF TInv, EscapeSoFar
  <2>5. 16 * value + HexValue(next_char) \in 0..255
    BY <2>2, <2>4
  <2> QED
    BY <2>3, <2>5, EscapeStores
<1>3. ASSUME pc = "octal_escape"
      PROVE  Last(ss') = 8 * value + DecValue(next_char)
  <2>1. /\ OctalEscape /\ next_char \in OctalDigits
        /\ ~(ndigits = 2 /\ 8 * value + DecValue(next_char) > 255)
    BY <1>1, <1>3 DEF HexEscape, OctalEscape, At
  <2>2. EscapeDigit(8, 3, DecValue(next_char)) /\ DecValue(next_char) \in 0..7
    BY <2>1, CharClasses DEF OctalEscape
  <2>3. Store(8 * value + DecValue(next_char)) /\ ~(ndigits + 1 < 3)
    BY <1>3, <2>2 DEF EscapeDigit
  <2>4. ndigits = 2 /\ value \in 0..63
    BY <1>3, <2>3 DEF TInv, EscapeSoFar
  <2>5. 8 * value + DecValue(next_char) \in 0..255
    BY <2>1, <2>2, <2>4
  <2> QED
    BY <2>3, <2>5, EscapeStores
<1> QED
  BY <1>2, <1>3

(* \x and octal escapes: the octet stored is the number that was written,  *)
(* for every input; append never cuts off its higher bits.                 *)
THEOREM EscapesAreWhole == Spec => EscapesAreExact
<1>1. Init => TInv
  BY InitTypes
<1>2. TInv /\ [Next]_vars => TInv'
  BY NextTypes
<1>3. TInv /\ [Next]_vars =>
        [pc' = "quoted" =>
           /\ pc = "hex_escape" => Last(ss') = 16 * value + HexValue(next_char)
           /\ pc = "octal_escape" => Last(ss') = 8 * value + DecValue(next_char)]_vars
  BY NextEscapes
<1> QED
  BY <1>1, <1>2, <1>3, PTL DEF Spec, EscapesAreExact

-----------------------------------------------------------------------------
(* Declared lengths.                                                       *)

TimesTen(f, n) == IF n = 0 THEN 1 ELSE 10 * f[n - 1]
Tens == INSTANCE Induction WITH Op <- TimesTen

LEMMA PowerOfTenIs ==
  /\ PowerOfTen[0] = 1
  /\ \A n \in Nat : PowerOfTen[n + 1] = 10 * PowerOfTen[n]
<1>1. Tens!Local
  BY DEF Tens!Local, TimesTen
<1>2. PowerOfTen = Tens!Recursion
  BY DEF PowerOfTen, Tens!Recursion, TimesTen
<1>3. PowerOfTen = [n \in Nat |-> TimesTen(PowerOfTen, n)]
  BY <1>1, <1>2, Tens!RecursionEquation
<1>4. \A n \in Nat : PowerOfTen[n] = TimesTen(PowerOfTen, n)
  BY <1>3
<1>5. PowerOfTen[0] = TimesTen(PowerOfTen, 0)
  BY <1>4
<1>6. ASSUME NEW n \in Nat PROVE PowerOfTen[n + 1] = 10 * PowerOfTen[n]
  <2>1. PowerOfTen[n + 1] = TimesTen(PowerOfTen, n + 1) /\ n + 1 # 0 /\ (n + 1) - 1 = n
    BY <1>4
  <2> QED
    BY <2>1 DEF TimesTen
<1> QED
  BY <1>5, <1>6 DEF TimesTen

LEMMA PowerOfTenType == \A n \in Nat : PowerOfTen[n] \in Nat
<1> DEFINE S == {n \in Nat : PowerOfTen[n] \in Nat}
<1>1. 0 \in S /\ S \subseteq Nat /\ \A n \in S : n + 1 \in S
  BY PowerOfTenIs
<1>2. (\A n \in Nat : n \in S) => \A n \in Nat : PowerOfTen[n] \in Nat
  OBVIOUS
<1> HIDE DEF S
<1> QED
  BY <1>1, <1>2, NatInd

LEMMA PowerOfTenGrows ==
  \A m, n \in Nat : m <= n => PowerOfTen[m] <= PowerOfTen[n]
<1> SUFFICES ASSUME NEW m \in Nat
             PROVE  \A n \in Nat : m <= n => PowerOfTen[m] <= PowerOfTen[n]
  OBVIOUS
<1> DEFINE S == {n \in Nat : m <= n => PowerOfTen[m] <= PowerOfTen[n]}
<1>1. 0 \in S
  BY PowerOfTenType
<1>2. ASSUME NEW n \in S PROVE n + 1 \in S
  <2>1. /\ n + 1 \in Nat
        /\ PowerOfTen[n + 1] = 10 * PowerOfTen[n]
        /\ PowerOfTen[m] \in Nat /\ PowerOfTen[n] \in Nat /\ PowerOfTen[n + 1] \in Nat
    BY PowerOfTenIs, PowerOfTenType
  <2>2. CASE m <= n
    BY <2>1, <2>2
  <2>3. CASE m = n + 1
    BY <2>1, <2>3
  <2>4. CASE ~(m <= n + 1)
    BY <2>1, <2>4
  <2> QED
    BY <2>2, <2>3, <2>4
<1>3. S \subseteq Nat
  OBVIOUS
<1>4. (\A n \in Nat : n \in S) => \A n \in Nat : m <= n => PowerOfTen[m] <= PowerOfTen[n]
  OBVIOUS
<1> HIDE DEF S
<1> QED
  BY <1>1, <1>2, <1>3, <1>4, NatInd

(* A number of so many digits is less than that power of ten, as long as   *)
(* the digits are not too many; the number that is kept is a length; and a *)
(* colon is reached with one, because without digits it begins a token.    *)
DecimalBound ==
  pc = "decimal" => /\ ndigits <= DigitLimit + 2
                    /\ ndigits <= DigitLimit + 1 => value < PowerOfTen[ndigits]

LengthDeclared ==
  status = "running" /\ pc = "dispatch" => ~reading /\ (length # UMAX \/ next_char # COLON)

LInv == DecimalBound /\ LengthDeclared /\ SomeLengthForVerbatim

(* Steps that stay away from lengths, and errors.                          *)
LEMMA LengthsKept ==
  ASSUME pc' \notin {"decimal", "dispatch", "verbatim"}
  PROVE  LInv'
BY DEF LInv, DecimalBound, LengthDeclared, SomeLengthForVerbatim

LEMMA FailLengths ==
  ASSUME LInv, Fail
  PROVE  LInv'
BY DEF Fail, Throw, stringVars, LInv, DecimalBound, LengthDeclared, SomeLengthForVerbatim

(* Another digit, unless it is one too many, makes another number.         *)
LEMMA DigitFits ==
  ASSUME TInv, LInv, DecimalDigit, ndigits + 1 <= DigitLimit + 1
  PROVE  /\ value' = 10 * value + DecValue(next_char)
         /\ value' < PowerOfTen[ndigits + 1]
<1>1. /\ pc = "decimal" /\ next_char \in DecDigits
      /\ value' = Word(value * 10 + DecValue(next_char))
  BY DEF DecimalDigit, At
<1>2. ndigits \in Nat /\ DigitLimit \in Nat /\ value \in Nat /\ DecValue(next_char) \in 0..9
  BY <1>1, CharClasses, DigitAssumption, WordWidth DEF TInv, TypeOK
<1>3. value < PowerOfTen[ndigits]
  BY <1>1, <1>2 DEF LInv, DecimalBound
<1>4. PowerOfTen[ndigits] \in Nat /\ PowerOfTen[ndigits + 1] = 10 * PowerOfTen[ndigits]
  BY <1>2, PowerOfTenIs, PowerOfTenType
<1>5. value * 10 + DecValue(next_char) < PowerOfTen[ndigits + 1]
  BY <1>2, <1>3, <1>4
<1>6. PowerOfTen[ndigits + 1] <= PowerOfTen[DigitLimit + 1]
  BY <1>2, PowerOfTenGrows
<1>7. PowerOfTen[DigitLimit + 1] < WordMod /\ PowerOfTen[DigitLimit + 1] \in Nat
  BY <1>2, DigitAssumption, PowerOfTenType
<1>8. value * 10 + DecValue(next_char) \in 0..(WordMod - 1)
  BY <1>2, <1>4, <1>5, <1>6, <1>7, WordWidth
<1>9. Word(value * 10 + DecValue(next_char)) = value * 10 + DecValue(next_char)
  BY <1>8, WordWidth DEF Word
<1> QED
  BY <1>1, <1>2, <1>5, <1>9

LEMMA DigitLengths ==
  ASSUME TInv, LInv, DecimalDigit
  PROVE  LInv'
<1>1. /\ pc = "decimal" /\ pc' = "decimal"
      /\ ~(ndigits - 1 > DigitLimit) /\ ndigits' = ndigits + 1
  BY DEF DecimalDigit, At, TooManyDigits
<1>2. ndigits \in Nat /\ DigitLimit \in Nat
  BY DigitAssumption DEF TInv, TypeOK
<1>3. ndigits + 1 <= DigitLimit + 1 => value' < PowerOfTen[ndigits + 1]
  BY DigitFits
<1> QED
  BY <1>1, <1>2, <1>3 DEF LInv, DecimalBound, LengthDeclared, SomeLengthForVerbatim

LEMMA EndLengths ==
  ASSUME TInv, LInv, DecimalEnd
  PROVE  LInv'
<1>1. /\ pc = "decimal" /\ pc' = "dispatch" /\ ~reading /\ UNCHANGED streamVars
      /\ ~(ndigits - 1 > DigitLimit) /\ length' = value
  BY DEF DecimalEnd, At, Ready, Goto, TooManyDigits
<1>2. ndigits \in Nat /\ DigitLimit \in Nat /\ value \in Nat
  BY DigitAssumption, WordWidth DEF TInv, TypeOK
<1>3. value < PowerOfTen[ndigits] /\ ndigits <= DigitLimit + 1
  BY <1>1, <1>2 DEF LInv, DecimalBound
<1>4. /\ PowerOfTen[ndigits] <= PowerOfTen[DigitLimit + 1] /\ PowerOfTen[DigitLimit + 1] < WordMod
      /\ PowerOfTen[ndigits] \in Nat /\ PowerOfTen[DigitLimit + 1] \in Nat
  BY <1>2, <1>3, DigitAssumption, PowerOfTenGrows, PowerOfTenType
<1>5. length' # UMAX
  BY <1>1, <1>2, <1>3, <1>4, WordWidth DEF UMAX
<1>6. reading' = FALSE
  BY <1>1 DEF streamVars, At, Ready
<1> QED
  BY <1>1, <1>5, <1>6 DEF LInv, DecimalBound, LengthDeclared, SomeLengthForVerbatim

LEMMA NextLengths == TInv /\ LInv /\ [Next]_vars => LInv'
<1> SUFFICES ASSUME TInv, LInv, [Next]_vars PROVE LInv'
  OBVIOUS
<1> USE DEF At, AtNonSpace, Ready, Goto
<1>1. CASE Read
  <2>1. PICK c \in Available : ReadChar(c) /\ UNCHANGED <<pc, stringVars, nestVars>>
    BY <1>1 DEF Read
  <2>2. status = "running" /\ reading
    BY <2>1 DEF ReadChar
  <2> QED
    BY <2>1, <2>2 DEF stringVars, LInv, DecimalBound, LengthDeclared, SomeLengthForVerbatim
<1>2. CASE SkipWhiteSpace
  BY <1>2, LengthsKept DEF SkipWhiteSpace
<1>3. CASE Structure
  <2>1. pc \in {"object", "brace_end", "open", "list", "close"}
    BY <1>3
    DEF Structure, OpenBrace, CloseBrace, OpenList, EnterList, NextElement, LeaveList
  <2>2. pc' \in {pc, "object", "open", "brace_end", "close", "list", "done"}
    BY <1>3, ContinuationType
    DEF Structure, OpenBrace, CloseBrace, OpenList, EnterList, NextElement, LeaveList, Fail
  <2> QED
    BY <2>1, <2>2, LengthsKept
<1>4. CASE BeginSimple
  <2>1. /\ pc = "simple" /\ status = "running" /\ ~reading /\ UNCHANGED streamVars
        /\ UNCHANGED <<value, ndigits>> /\ length' = UMAX
    BY <1>4 DEF BeginSimple
  <2>2. value = 0 /\ ndigits = 0
    BY <2>1 DEF TInv, EscapeSoFar
  <2>3. CASE pc' = "token"
    BY <2>3, LengthsKept
  <2>4. CASE pc' = "decimal"
    <3>1. value' < PowerOfTen[ndigits'] /\ ndigits' <= DigitLimit + 2
      BY <2>1, <2>2, PowerOfTenIs, DigitAssumption
    <3> QED
      BY <2>4, <3>1 DEF LInv, DecimalBound, LengthDeclared, SomeLengthForVerbatim
  <2>5. CASE pc' = "dispatch" /\ next_char \notin TokenChars
    <3>1. next_char' # COLON /\ ~reading'
      BY <2>1, <2>5 DEF streamVars, TokenChars
    <3> QED
      BY <2>5, <3>1 DEF LInv, DecimalBound, LengthDeclared, SomeLengthForVerbatim
  <2> QED
    BY <1>4, <2>3, <2>4, <2>5 DEF BeginSimple
<1>5. CASE DecimalDigit
  BY <1>5, DigitLengths
<1>6. CASE DecimalTooLong
  BY <1>6, FailLengths DEF DecimalTooLong
<1>7. CASE DecimalEnd
  BY <1>7, EndLengths
<1>8. CASE BeginVerbatim
  <2>1. length' = length /\ length # UMAX /\ pc' = "verbatim"
    BY <1>8 DEF BeginVerbatim, LInv, LengthDeclared
  <2> QED
    BY <2>1 DEF LInv, DecimalBound, LengthDeclared, SomeLengthForVerbatim
<1>9. CASE Verbatim
  <2>1. pc = "verbatim" /\ (Fail \/ (length' = length /\ pc' \in {pc, "string_end"}))
    BY <1>9 DEF Verbatim
  <2> QED
    BY <2>1, FailLengths DEF LInv, DecimalBound, LengthDeclared, SomeLengthForVerbatim
<1>10. CASE IllegalCharacter
  BY <1>10, FailLengths DEF IllegalCharacter
<1>11. CASE BeginString \/ TokenChar \/ BeginQuoted \/ BeginCoded \/ Coded \/ CodedEnd
            \/ StringEnd \/ HintEnd
  <2>1. pc' \in {"simple", "token", "quoted", "coded", "coded_end", "string_end", "hint_end",
                 "done", "list", "brace_end"}
    BY <1>11, ContinuationType
    DEF BeginString, TokenChar, BeginQuoted, BeginCoded, Coded, CodedEnd, StringEnd, HintEnd,
        Expect, Fail
  <2> QED
    BY <2>1, LengthsKept
<1>12. CASE Quoted
  <2>1. pc' \notin {"decimal", "dispatch", "verbatim"}
    BY <1>12
    DEF Quoted, QuotedEnd, QuotedChar, SimpleEscape, BeginEscape, UnknownEscape,
        EscapedLineEnd, HexEscape, OctalEscape, EscapeDigit, Fail
  <2> QED
    BY <2>1, LengthsKept
<1>13. CASE Stopped \/ UNCHANGED vars
  <2>1. UNCHANGED <<streamVars, pc, stringVars>>
    BY <1>13 DEF Stopped, vars
  <2> QED
    BY <2>1 DEF streamVars, stringVars, LInv, DecimalBound, LengthDeclared, SomeLengthForVerbatim
<1> QED
  BY <1>1, <1>2, <1>3, <1>4, <1>5, <1>6, <1>7, <1>8, <1>9, <1>10, <1>11, <1>12, <1>13
  DEF Next, Simple

(* The assertion of scan_verbatim_string holds for every input, word width *)
(* and limit on the digits that fits the word: a verbatim string is read   *)
(* with a length, because ":" alone begins a token and because no number   *)
(* that is short enough is the word that stands for none.                  *)
THEOREM VerbatimHasLength == Spec => []SomeLengthForVerbatim
<1>1. Init => TInv /\ LInv
  BY InitTypes DEF Init, LInv, DecimalBound, LengthDeclared, SomeLengthForVerbatim
<1>2. TInv /\ LInv /\ [Next]_vars => TInv' /\ LInv'
  BY NextTypes, NextLengths
<1>3. LInv => SomeLengthForVerbatim
  BY DEF LInv
<1> QED
  BY <1>1, <1>2, <1>3, PTL DEF Spec

(* Only DecimalDigit adds to the digits of a length.                       *)
LEMMA OnlyDecimalDigit ==
  ASSUME TInv, [Next]_vars, pc = "decimal", ndigits' > ndigits
  PROVE  DecimalDigit
<1> USE DEF At, AtNonSpace, Fail, stringVars
<1>1. ndigits' # ndigits /\ ndigits' # 0
  BY DEF TInv, TypeOK
<1>2. ~(Read \/ Stopped \/ UNCHANGED vars)
  BY <1>1 DEF Read, Stopped, vars
<1>3. ~(SkipWhiteSpace \/ Structure)
  BY <1>1 DEF SkipWhiteSpace, Structure, OpenBrace, CloseBrace, OpenList, EnterList, NextElement,
     LeaveList
<1>4. Simple => DecimalDigit
  BY <1>1 DEF Simple, BeginString, BeginSimple, TokenChar, DecimalTooLong, DecimalEnd,
     BeginQuoted, BeginVerbatim, BeginCoded, IllegalCharacter, Verbatim, Coded, CodedEnd,
     StringEnd, HintEnd
<1>5. ~Quoted
  BY <1>1 DEF Quoted, QuotedEnd, QuotedChar, SimpleEscape, BeginEscape, UnknownEscape,
     EscapedLineEnd, HexEscape, OctalEscape
<1> QED
  BY <1>2, <1>3, <1>4, <1>5 DEF Next

(* scan_decimal_string: the length that is used is the number that was     *)
(* written, for every limit on the digits that fits the word.              *)
THEOREM LengthIsWritten == Spec => LengthNeverWraps
<1>1. Init => TInv /\ LInv
  BY InitTypes DEF Init, LInv, DecimalBound, LengthDeclared, SomeLengthForVerbatim
<1>2. TInv /\ LInv /\ [Next]_vars => TInv' /\ LInv'
  BY NextTypes, NextLengths
<1>3. TInv /\ LInv /\ [Next]_vars =>
        [pc = "decimal" /\ ndigits' > ndigits
           => value' = 10 * value + DecValue(next_char) \/ TooManyDigits']_vars
  <2> SUFFICES ASSUME TInv, LInv, [Next]_vars, pc = "decimal", ndigits' > ndigits
               PROVE  value' = 10 * value + DecValue(next_char) \/ TooManyDigits'
    OBVIOUS
  <2>1. DecimalDigit
    BY OnlyDecimalDigit
  <2>2. ndigits \in Nat /\ DigitLimit \in Nat /\ ndigits' = ndigits + 1
    BY <2>1, DigitAssumption DEF TInv, TypeOK, DecimalDigit
  <2>3. CASE ndigits + 1 <= DigitLimit + 1
    BY <2>1, <2>3, DigitFits
  <2>4. CASE ndigits + 1 > DigitLimit + 1
    BY <2>2, <2>4 DEF TooManyDigits
  <2> QED
    BY <2>2, <2>3, <2>4
<1> QED
  BY <1>1, <1>2, <1>3, PTL DEF Spec, LengthNeverWraps

-----------------------------------------------------------------------------
(***************************************************************************)
(* The recursion: the depth counter is the number of open lists, the       *)
(* object that is built mirrors the call stack, and the counter implements *)
(* the nesting discipline.                                                 *)
(***************************************************************************)

(* The lists among the frames.                                             *)
LEMMA ListsOfFrames ==
  ASSUME NEW f \in Seq({"list", "brace"})
  PROVE  /\ Lists(f) \in Nat /\ Lists(<<>>) = 0
         /\ Lists(Append(f, "list")) = Lists(f) + 1
         /\ Lists(Append(f, "brace")) = Lists(f)
         /\ f # <<>> /\ Last(f) = "list" => Lists(f) = Lists(Front(f)) + 1
         /\ f # <<>> /\ Last(f) = "brace" => Lists(f) = Lists(Front(f))
<1>1. Lists(f) \in Nat /\ Lists(<<>>) = 0
  BY CountType, CountEmpty DEF Lists
<1>2. ASSUME NEW g \in Seq({"list", "brace"})
      PROVE  /\ Lists(Append(g, "list")) = Lists(g) + 1
             /\ Lists(Append(g, "brace")) = Lists(g)
  <2>1. Count(Append(g, "list"), "list") = Count(g, "list") + 1
    BY CountAppend
  <2>2. Count(Append(g, "brace"), "list") = Count(g, "list") + 0
    BY CountAppend
  <2> QED
    BY <2>1, <2>2, CountType DEF Lists
<1>3. f # <<>> => /\ Front(f) \in Seq({"list", "brace"})
                  /\ f = Append(Front(f), Last(f))
  BY FrontAndLast
<1> QED
  BY <1>1, <1>2, <1>3

-----------------------------------------------------------------------------
(* The frame on top is the one the reader goes on in.                      *)
FramesMatch ==
  /\ pc \in {"list", "close"} => calls # <<>> /\ Last(calls) = "list"
  /\ pc = "brace_end" => calls # <<>> /\ Last(calls) = "brace"
  /\ pc = "done" => calls = <<>>

NInv == DepthIsNesting /\ (status = "running" => FramesMatch)

LEMMA ContinuationMatches ==
  ASSUME NEW f \in Seq({"list", "brace"})
  PROVE  /\ Continuation(f) = "done" => f = <<>>
         /\ Continuation(f) = "list" => f # <<>> /\ Last(f) = "list"
         /\ Continuation(f) = "brace_end" => f # <<>> /\ Last(f) = "brace"
<1>1. f # <<>> => Last(f) \in {"list", "brace"}
  BY FrontAndLast
<1>2. CASE f = <<>>
  BY <1>2 DEF Continuation
<1>3. CASE f # <<>> /\ Last(f) = "list"
  BY <1>3 DEF Continuation
<1>4. CASE f # <<>> /\ Last(f) # "list"
  BY <1>1, <1>4 DEF Continuation
<1> QED
  BY <1>2, <1>3, <1>4

(* Steps that leave the frames and the counter alone.                      *)
LEMMA FramesKept ==
  ASSUME TInv, NInv, UNCHANGED <<calls, depth>>, status = "running",
         \/ pc' \notin {"list", "close", "brace_end", "done"}
         \/ pc' = Continuation(calls)
         \/ pc' = pc
         \/ pc = "list" /\ pc' = "close"
         \/ status' = "threw"
  PROVE  NInv'
<1>1. calls \in Seq({"list", "brace"})
  BY DEF TInv, TypeOK
<1>2. DepthIsNesting'
  BY DEF NInv, DepthIsNesting, Lists
<1>3. status' = "running" => FramesMatch'
  BY <1>1, ContinuationMatches, ContinuationType DEF NInv, FramesMatch
<1> QED
  BY <1>2, <1>3 DEF NInv

(* The unsigned counter goes one down.                                     *)
LEMMA WordDecrement ==
  ASSUME NEW d \in 1..(WordMod - 1)
  PROVE  Word(d + WordMod - 1) = d - 1
BY WordWidth DEF Word

LEMMA WordIncrement ==
  ASSUME NEW d \in 0..(WordMod - 2)
  PROVE  Word(d + 1) = d + 1
BY WordWidth DEF Word

(* increase_depth and decrease_depth.                                      *)
LEMMA EnterNesting ==
  ASSUME TInv, NInv, EnterList
  PROVE  NInv'
<1>1. /\ status = "running" /\ calls \in Seq({"list", "brace"})
      /\ depth' = IF MaxDepth # 0 THEN Word(depth + 1) ELSE depth
  BY DEF EnterList, At, Ready, TInv, TypeOK
<1>2. CASE MaxDepth # 0 /\ depth' > MaxDepth
  <2>1. status' = "threw"
    BY <1>2 DEF EnterList, Throw
  <2> QED
    BY <2>1 DEF NInv, DepthIsNesting
<1>3. CASE ~(MaxDepth # 0 /\ depth' > MaxDepth)
  <2>1. calls' = Append(calls, "list") /\ pc' = "list"
    BY <1>3 DEF EnterList, Goto
  <2>2. calls' # <<>> /\ Last(calls') = "list" /\ Lists(calls') = Lists(calls) + 1
    BY <1>1, <2>1, ListsOfFrames, AppendProperties DEF Last
  <2>3. MaxDepth # 0 => depth' = Lists(calls') /\ depth' <= MaxDepth
    <3> SUFFICES ASSUME MaxDepth # 0 PROVE depth' = Lists(calls') /\ depth' <= MaxDepth
      OBVIOUS
    <3>1. depth = Lists(calls) /\ depth <= MaxDepth /\ depth \in Nat
      BY <1>1, ListsOfFrames DEF NInv, DepthIsNesting
    <3>2. depth \in 0..(WordMod - 2)
      BY <3>1, DepthAssumption, WordWidth
    <3>3. depth' = depth + 1
      BY <1>1, <3>2, WordIncrement
    <3> QED
      BY <1>3, <2>2, <3>1, <3>3, DepthAssumption, WordWidth
  <2> QED
    BY <2>1, <2>2, <2>3 DEF NInv, DepthIsNesting, FramesMatch
<1> QED
  BY <1>2, <1>3

LEMMA LeaveNesting ==
  ASSUME TInv, NInv, LeaveList
  PROVE  /\ NInv'
         /\ Lists(calls) = Lists(calls') + 1
         /\ MaxDepth # 0 => depth > 0 /\ depth' = depth - 1
<1>1. /\ status = "running" /\ calls \in Seq({"list", "brace"})
      /\ calls # <<>> /\ Last(calls) = "list"
      /\ calls' = Front(calls) /\ pc' = Continuation(calls')
      /\ depth' = Word(depth + WordMod - 1)
  BY DEF LeaveList, At, Ready, Goto, TInv, TypeOK, NInv, FramesMatch
<1>2. calls' \in Seq({"list", "brace"}) /\ Lists(calls) = Lists(calls') + 1
  BY <1>1, ListsOfFrames, FrontAndLast
<1>3. MaxDepth # 0 => /\ depth > 0 /\ depth' = depth - 1
                     /\ depth' = Lists(calls') /\ depth' <= MaxDepth
  <2> SUFFICES ASSUME MaxDepth # 0
               PROVE  /\ depth > 0 /\ depth' = depth - 1
                      /\ depth' = Lists(calls') /\ depth' <= MaxDepth
    OBVIOUS
  <2>1. depth = Lists(calls) /\ depth <= MaxDepth /\ Lists(calls') \in Nat
    BY <1>1, <1>2, ListsOfFrames DEF NInv, DepthIsNesting
  <2>2. depth \in 1..(WordMod - 1)
    BY <1>2, <2>1, DepthAssumption, WordWidth
  <2>3. depth' = depth - 1
    BY <1>1, <2>2, WordDecrement
  <2> QED
    BY <1>2, <2>1, <2>2, <2>3, DepthAssumption, WordWidth
<1>4. FramesMatch'
  BY <1>1, <1>2, ContinuationMatches, ContinuationType DEF FramesMatch
<1> QED
  BY <1>2, <1>3, <1>4 DEF NInv, DepthIsNesting

LEMMA BraceNesting ==
  ASSUME TInv, NInv, OpenBrace \/ CloseBrace
  PROVE  /\ NInv' /\ depth' = depth /\ built' = built
         /\ status' = "running" => Lists(calls') = Lists(calls)
<1>1. status = "running" /\ calls \in Seq({"list", "brace"})
  BY DEF OpenBrace, CloseBrace, At, AtNonSpace, Ready, TInv, TypeOK
<1>2. CASE OpenBrace
  <2>1. /\ depth' = depth /\ built' = built /\ pc' = "object"
        /\ calls' = Append(calls, "brace")
    BY <1>2 DEF OpenBrace, At, AtNonSpace
  <2>2. Lists(calls') = Lists(calls)
    BY <1>1, <2>1, ListsOfFrames
  <2> QED
    BY <1>1, <2>1, <2>2 DEF NInv, DepthIsNesting, FramesMatch
<1>3. CASE CloseBrace
  <2>1. CASE next_char = RBRACE
    <3>1. /\ depth' = depth /\ built' = built /\ pc' = Continuation(calls')
          /\ calls' = Front(calls) /\ calls # <<>> /\ Last(calls) = "brace"
      BY <1>1, <1>3, <2>1 DEF CloseBrace, At, Goto, NInv, FramesMatch
    <3>2. calls' \in Seq({"list", "brace"}) /\ Lists(calls') = Lists(calls)
      BY <1>1, <3>1, ListsOfFrames, FrontAndLast
    <3>3. FramesMatch'
      BY <3>1, <3>2, ContinuationMatches, ContinuationType DEF FramesMatch
    <3> QED
      BY <1>1, <3>1, <3>2, <3>3 DEF NInv, DepthIsNesting
  <2>2. CASE next_char # RBRACE
    <3>1. status' = "threw" /\ depth' = depth /\ built' = built
      BY <1>3, <2>2 DEF CloseBrace, Fail, Throw, nestVars
    <3> QED
      BY <3>1 DEF NInv, DepthIsNesting
  <2> QED
    BY <2>1, <2>2
<1> QED
  BY <1>2, <1>3

(* All other steps touch neither the frames nor the counter.               *)
Flat == Read \/ SkipWhiteSpace \/ OpenList \/ NextElement \/ Simple \/ Quoted

LEMMA FlatSteps ==
  ASSUME Flat
  PROVE  /\ UNCHANGED <<calls, depth>> /\ status = "running"
         /\ \/ pc' \notin {"list", "close", "brace_end", "done"}
            \/ pc' = Continuation(calls)
            \/ pc' = pc
            \/ pc = "list" /\ pc' = "close"
            \/ status' = "threw"
<1> USE DEF At, AtNonSpace, Ready, Goto, nestVars
<1>1. CASE Read
  BY <1>1 DEF Read, ReadChar
<1>2. CASE SkipWhiteSpace \/ OpenList \/ NextElement
  BY <1>2 DEF SkipWhiteSpace, OpenList, NextElement
<1>3. CASE Simple
  BY <1>3 DEF Simple, BeginString, BeginSimple, TokenChar, DecimalDigit, DecimalTooLong,
     DecimalEnd, BeginQuoted, BeginVerbatim, BeginCoded, IllegalCharacter, Verbatim, Coded,
     CodedEnd, StringEnd, HintEnd, Expect, Fail, Throw
<1>4. CASE Quoted
  BY <1>4 DEF Quoted, QuotedEnd, QuotedChar, SimpleEscape, BeginEscape, UnknownEscape,
     EscapedLineEnd, HexEscape, OctalEscape, EscapeDigit, Fail, Throw
<1> QED
  BY <1>1, <1>2, <1>3, <1>4 DEF Flat

LEMMA NextIsOneOf ==
  [Next]_vars <=> Flat \/ OpenBrace \/ CloseBrace \/ EnterList \/ LeaveList
                    \/ Stopped \/ UNCHANGED vars
BY DEF Next, Flat, Structure

LEMMA InitNesting == Init => NInv
<1> SUFFICES ASSUME Init PROVE NInv
  OBVIOUS
<1>1. calls = <<>> /\ depth = 0 /\ pc = "object"
  BY DEF Init
<1>2. Lists(calls) = 0
  BY <1>1, CountEmpty DEF Lists
<1>3. depth <= MaxDepth
  BY <1>1, DepthAssumption, WordWidth
<1> QED
  BY <1>1, <1>2, <1>3 DEF NInv, DepthIsNesting, FramesMatch

LEMMA NextNesting == TInv /\ NInv /\ [Next]_vars => NInv'
<1> SUFFICES ASSUME TInv, NInv, [Next]_vars PROVE NInv'
  OBVIOUS
<1>1. CASE Flat
  BY <1>1, FlatSteps, FramesKept
<1>2. CASE OpenBrace \/ CloseBrace
  BY <1>2, BraceNesting
<1>3. CASE EnterList
  BY <1>3, EnterNesting
<1>4. CASE LeaveList
  BY <1>4, LeaveNesting
<1>5. CASE Stopped \/ UNCHANGED vars
  <2>1. UNCHANGED <<status, pc, calls, depth>>
    BY <1>5 DEF Stopped, vars, streamVars, nestVars
  <2> QED
    BY <2>1 DEF NInv, DepthIsNesting, FramesMatch, Lists
<1> QED
  BY <1>1, <1>2, <1>3, <1>4, <1>5, NextIsOneOf

(* increase_depth and decrease_depth on every path of the recursion: the    *)
(* counter is the number of lists being read, and within the limit, for     *)
(* every input and every limit that fits the word.                          *)
THEOREM DepthIsCounted == Spec => []DepthIsNesting
<1>1. Init => TInv /\ NInv
  BY InitTypes, InitNesting
<1>2. TInv /\ NInv /\ [Next]_vars => TInv' /\ NInv'
  BY NextTypes, NextNesting
<1>3. NInv => DepthIsNesting
  BY DEF NInv
<1> QED
  BY <1>1, <1>2, <1>3, PTL DEF Spec

-----------------------------------------------------------------------------
(* The refinement.  Only LeaveList and the reads after the last character   *)
(* can complete the object.                                                 *)
LEMMA AbstractStep ==
  ASSUME MaxDepth # 0, TInv, NInv, NInv', [Next]_vars
  PROVE  [Abstract!Next]_(Abstract!nesting)
<1> USE DEF Abstract!Next, Abstract!Enter, Abstract!Leave, Abstract!Accept,
            Abstract!Reject, Abstract!nesting
<1>1. depth \in Nat /\ MaxDepth \in Nat /\ status \in {"running", "threw"}
  BY WordWidth, DepthAssumption DEF TInv, TypeOK, StreamTypeOK
<1>2. CASE Stopped \/ UNCHANGED vars
  <2>1. UNCHANGED <<status, pc, reading, depth>>
    BY <1>2 DEF Stopped, vars, streamVars, nestVars
  <2> QED
    BY <2>1 DEF Finished, Ready
<1>3. CASE ~(Stopped \/ UNCHANGED vars)
  <2>1. status = "running" /\ ~Finished
    <3>1. Flat => status = "running" /\ (reading \/ pc # "done")
      BY DEF Flat, Read, ReadChar, SkipWhiteSpace, OpenList, NextElement, Simple, Quoted,
         At, AtNonSpace, BeginString, BeginSimple, TokenChar, DecimalDigit, DecimalTooLong,
         DecimalEnd, BeginQuoted, BeginVerbatim, BeginCoded, IllegalCharacter, Verbatim,
         Coded, CodedEnd, StringEnd, HintEnd, QuotedEnd, QuotedChar, SimpleEscape,
         BeginEscape, UnknownEscape, EscapedLineEnd, HexEscape, OctalEscape, Ready
    <3>2. OpenBrace \/ CloseBrace \/ EnterList \/ LeaveList
            => status = "running" /\ pc # "done"
      BY DEF OpenBrace, CloseBrace, EnterList, LeaveList, At, AtNonSpace, Ready
    <3> QED
      BY <1>3, <3>1, <3>2, NextIsOneOf DEF Finished, Ready
  <2>2. depth = Lists(calls) /\ depth <= MaxDepth
    BY <2>1 DEF NInv, DepthIsNesting
  <2>3. Finished' /\ status' = "running" => calls' = <<>> /\ depth' = 0
    BY ListsOfFrames, EmptySeq DEF NInv, DepthIsNesting, FramesMatch, Finished
  <2>4. CASE Flat \/ OpenBrace \/ CloseBrace
    <3>1. depth' = depth
      BY <2>4, FlatSteps, BraceNesting
    <3> QED
      BY <1>1, <2>1, <2>3, <3>1 DEF Finished, Ready
  <2>5. CASE EnterList
    <3>1. depth' = depth + 1
      <4>1. depth \in 0..(WordMod - 2)
        BY <1>1, <2>2, DepthAssumption, WordWidth
      <4> QED
        BY <2>5, <4>1, WordIncrement DEF EnterList
    <3>2. CASE depth' > MaxDepth
      <4>1. status' = "threw"
        BY <2>5, <3>2 DEF EnterList, Throw
      <4> QED
        BY <2>1, <3>1, <4>1
    <3>3. CASE ~(depth' > MaxDepth)
      <4>1. pc' = "list" /\ status' = status
        BY <2>1, <2>5, <3>3 DEF EnterList, Goto, streamVars
      <4>2. depth < MaxDepth
        BY <1>1, <3>1, <3>3
      <4> QED
        BY <2>1, <3>1, <4>1, <4>2 DEF Finished
    <3> QED
      BY <3>2, <3>3
  <2>6. CASE LeaveList
    <3>1. depth > 0 /\ depth' = depth - 1
      BY <2>6, LeaveNesting
    <3>2. status' = status
      BY <2>6 DEF LeaveList, streamVars
    <3> QED
      BY <2>1, <2>3, <3>1, <3>2
  <2> QED
    BY <1>3, <2>4, <2>5, <2>6, NextIsOneOf
<1> QED
  BY <1>2, <1>3

(* With a limit, the reader with its counter implements the discipline of   *)
(* Nesting: never more than MaxDepth lists at once, and an object is        *)
(* accepted only when all of its lists have been left.                      *)
THEOREM ImplementsNesting == ASSUME MaxDepth # 0 PROVE Spec => NestingSpec
<1>1. Init => TInv /\ NInv
  BY InitTypes, InitNesting
<1>2. TInv /\ NInv /\ [Next]_vars => TInv' /\ NInv'
  BY NextTypes, NextNesting
<1>3. Init => Abstract!Init
  BY DEF Init, StreamInit, Abstract!Init, Finished
<1>4. TInv /\ NInv /\ NInv' /\ [Next]_vars => [Abstract!Next]_(Abstract!nesting)
  BY AbstractStep
<1> QED
  BY <1>1, <1>2, <1>3, <1>4, PTL DEF Spec, NestingSpec, Abstract!Spec

-----------------------------------------------------------------------------
(* The tree.  Until the reader is past an object that is in no list, every *)
(* prefix of the traversal has lists open; then the traversal is an object.*)
Complete == pc \in {"brace_end", "done"} /\ Lists(calls) = 0

AllOpen(events) == \A k \in 1..Len(events) : Unclosed(SubSeq(events, 1, k)) > 0

TreeInv ==
  status = "running" =>
    /\ Unclosed(built) = Lists(calls)
    /\ Complete => IsObject(built)
    /\ ~Complete => AllOpen(built)

(* One more event on a traversal whose prefixes all have lists open.       *)
LEMMA OneMoreEvent ==
  ASSUME NEW s \in Seq(Events), NEW e \in Events, AllOpen(s)
  PROVE  /\ Unclosed(Append(s, e)) > 0 => AllOpen(Append(s, e))
         /\ Unclosed(Append(s, e)) = 0 => IsObject(Append(s, e))
<1> DEFINE t == Append(s, e)
<1>1. /\ Len(t) = Len(s) + 1 /\ Len(s) \in Nat
      /\ \A k \in 1..Len(s) : Unclosed(SubSeq(t, 1, k)) > 0
      /\ SubSeq(t, 1, Len(t)) = t
  BY PrefixOfAppend DEF AllOpen
<1>2. t # <<>>
  BY AppendProperties
<1> HIDE DEF t
<1>3. Unclosed(t) > 0 => AllOpen(t)
  <2> SUFFICES ASSUME Unclosed(t) > 0, NEW k \in 1..Len(t)
               PROVE  Unclosed(SubSeq(t, 1, k)) > 0
    BY DEF AllOpen
  <2>1. CASE k \in 1..Len(s)
    BY <1>1, <2>1
  <2>2. CASE k = Len(t)
    BY <1>1, <2>2
  <2> QED
    BY <1>1, <2>1, <2>2
<1>4. Unclosed(t) = 0 => IsObject(t)
  BY <1>1, <1>2 DEF IsObject
<1> QED
  BY <1>3, <1>4 DEF t

(* Without an open list nothing has been recorded yet.                     *)
LEMMA NothingYet ==
  ASSUME NEW s \in Seq(Events), AllOpen(s), Unclosed(s) = 0
  PROVE  s = <<>>
<1> SUFFICES ASSUME s # <<>> PROVE FALSE
  OBVIOUS
<1> DEFINE t == SubSeq(s, 1, Len(s))
<1>1. Len(s) \in 1..Len(s)
  BY EmptySeq, LenProperties
<1>2. t = s
  BY SubSeqFull
<1>3. Unclosed(t) > 0
  BY <1>1 DEF AllOpen
<1> HIDE DEF t
<1>4. 0 > 0
  BY <1>2, <1>3
<1> QED
  BY <1>4

(* Outside all lists an object is followed by its brace or by nothing.     *)
LEMMA ContinuationOutside ==
  ASSUME NEW f \in Seq({"list", "brace"})
  PROVE  Lists(f) = 0 => Continuation(f) \in {"brace_end", "done"}
<1>1. f # <<>> /\ Last(f) = "list" => Lists(f) = Lists(Front(f)) + 1 /\ Lists(Front(f)) \in Nat
  BY ListsOfFrames, FrontAndLast
<1> QED
  BY <1>1, ContinuationType, ContinuationMatches

(* The steps that record an event.                                         *)
LEMMA StringTree ==
  ASSUME TInv, NInv, TreeInv, StringEnd, built' # built
  PROVE  TreeInv'
<1>1. /\ calls \in Seq({"list", "brace"}) /\ built \in Seq(Events)
      /\ pc = "string_end" /\ status = "running"
  BY DEF StringEnd, At, Ready, TInv, TypeOK
<1> DEFINE e == String(hint, ss)
<1>2. built' = Append(built, e) /\ pc' = Continuation(calls) /\ calls' = calls
  BY DEF StringEnd, Goto, Fail, nestVars
<1>3. e \in Events /\ e \notin {Opened, Closed}
  BY DEF TInv, TypeOK, Events, Opened, Closed, String
<1> HIDE DEF e
<1>4. Unclosed(built) = Lists(calls) /\ AllOpen(built) /\ Lists(calls) \in Nat
  BY <1>1, ListsOfFrames DEF TreeInv, Complete
<1>5. Unclosed(built') = Lists(calls') /\ Lists(calls') = Lists(calls)
  BY <1>1, <1>2, <1>3, <1>4, UnclosedAppend
<1>6. /\ Unclosed(built') > 0 => AllOpen(built')
      /\ Unclosed(built') = 0 => IsObject(built')
  BY <1>1, <1>2, <1>3, <1>4, OneMoreEvent
<1>7. Lists(calls) = 0 => Complete'
  BY <1>1, <1>2, <1>5, ContinuationOutside DEF Complete
<1>8. Complete' => Lists(calls) = 0
  BY <1>5 DEF Complete
<1> QED
  BY <1>4, <1>5, <1>6, <1>7, <1>8 DEF TreeInv

LEMMA EnterTree ==
  ASSUME TInv, NInv, TreeInv, EnterList, status' = "running"
  PROVE  TreeInv'
<1>1. /\ calls \in Seq({"list", "brace"}) /\ built \in Seq(Events)
      /\ pc = "open" /\ status = "running"
  BY DEF EnterList, At, Ready, TInv, TypeOK
<1>2. built' = Append(built, Opened) /\ calls' = Append(calls, "list") /\ pc' = "list"
  BY DEF EnterList, Goto, Throw
<1>3. Unclosed(built) = Lists(calls) /\ AllOpen(built) /\ Lists(calls) \in Nat
  BY <1>1, ListsOfFrames DEF TreeInv, Complete
<1>4. Opened \in Events
  BY DEF Events
<1>5. Unclosed(built') = Lists(calls') /\ Unclosed(built') > 0
  BY <1>1, <1>2, <1>3, <1>4, UnclosedAppend, ListsOfFrames
<1>6. AllOpen(built')
  BY <1>1, <1>2, <1>3, <1>4, <1>5, OneMoreEvent
<1> QED
  BY <1>2, <1>5, <1>6 DEF TreeInv, Complete

LEMMA LeaveTree ==
  ASSUME TInv, NInv, TreeInv, LeaveList
  PROVE  TreeInv'
<1>1. /\ calls \in Seq({"list", "brace"}) /\ calls' = Front(calls) /\ calls # <<>>
      /\ built \in Seq(Events) /\ pc = "close" /\ status = "running"
      /\ built' = Append(built, Closed) /\ pc' = Continuation(calls')
  BY DEF LeaveList, At, Ready, Goto, TInv, TypeOK, NInv, FramesMatch
<1>2. /\ calls' \in Seq({"list", "brace"}) /\ Lists(calls') \in Nat
      /\ Lists(calls) = Lists(calls') + 1
  BY <1>1, FrontAndLast, ListsOfFrames, LeaveNesting
<1>3. Unclosed(built) = Lists(calls) /\ AllOpen(built)
  BY <1>1 DEF TreeInv, Complete
<1>4. Closed \in Events
  BY DEF Events
<1>5. Unclosed(built') = Lists(calls')
  BY <1>1, <1>2, <1>3, <1>4, UnclosedAppend
<1>6. /\ Unclosed(built') > 0 => AllOpen(built')
      /\ Unclosed(built') = 0 => IsObject(built')
  BY <1>1, <1>3, <1>4, OneMoreEvent
<1>7. Lists(calls') = 0 <=> Complete'
  BY <1>1, <1>2, ContinuationOutside DEF Complete
<1> QED
  BY <1>2, <1>5, <1>6, <1>7 DEF TreeInv

(* The steps that record nothing.                                          *)
LEMMA FlatTree ==
  ASSUME TInv, NInv, TreeInv, Flat, built' = built, status' = "running"
  PROVE  TreeInv'
<1>1. calls' = calls /\ calls \in Seq({"list", "brace"}) /\ status = "running"
  BY FlatSteps DEF TInv, TypeOK
<1>2. pc' \in {"brace_end", "done"} <=> pc \in {"brace_end", "done"}
  <2> USE DEF At, AtNonSpace, Ready, Goto
  <2>1. CASE Read \/ SkipWhiteSpace
    BY <2>1 DEF Read, SkipWhiteSpace
  <2>2. CASE OpenList \/ NextElement
    BY <2>2 DEF OpenList, NextElement
  <2>3. CASE StringEnd
    <3>1. CASE pc' = "hint_end"
      BY <2>3, <3>1 DEF StringEnd
    <3>2. CASE pc' # "hint_end"
      <4> DEFINE e == String(hint, ss)
      <4>1. built' = Append(built, e)
        BY <2>3, <3>2 DEF StringEnd, Fail, Throw
      <4>2. e \in Events /\ built \in Seq(Events)
        BY DEF TInv, TypeOK, Events, String
      <4> HIDE DEF e
      <4>3. Len(built') = Len(built) + 1 /\ Len(built) \in Nat
        BY <4>1, <4>2, PrefixOfAppend
      <4> QED
        BY <4>3
    <3> QED
      BY <3>1, <3>2
  <2>4. CASE Simple /\ ~StringEnd
    BY <2>4 DEF Simple, BeginString, BeginSimple, TokenChar, DecimalDigit, DecimalTooLong,
       DecimalEnd, BeginQuoted, BeginVerbatim, BeginCoded, IllegalCharacter, Verbatim,
       Coded, CodedEnd, HintEnd, Expect, Fail
  <2>5. CASE Quoted
    BY <2>5 DEF Quoted, QuotedEnd, QuotedChar, SimpleEscape, BeginEscape, UnknownEscape,
       EscapedLineEnd, HexEscape, OctalEscape, EscapeDigit, Fail
  <2> QED
    BY <2>1, <2>2, <2>3, <2>4, <2>5 DEF Flat
<1> QED
  BY <1>1, <1>2 DEF TreeInv, Complete, Lists

LEMMA BraceTree ==
  ASSUME TInv, NInv, TreeInv, OpenBrace \/ CloseBrace, status' = "running"
  PROVE  TreeInv'
<1>1. /\ built' = built /\ Lists(calls') = Lists(calls) /\ status = "running"
      /\ calls \in Seq({"list", "brace"})
  BY BraceNesting DEF OpenBrace, CloseBrace, At, AtNonSpace, Ready, TInv, TypeOK
<1>2. CASE OpenBrace
  <2>1. pc = "object" /\ pc' = "object"
    BY <1>2 DEF OpenBrace, At, AtNonSpace
  <2> QED
    BY <1>1, <2>1 DEF TreeInv, Complete
<1>3. CASE CloseBrace
  <2>1. /\ pc = "brace_end" /\ calls' = Front(calls) /\ pc' = Continuation(calls')
        /\ calls # <<>>
    BY <1>1, <1>3 DEF CloseBrace, At, Goto, Fail, Throw, NInv, FramesMatch
  <2>2. calls' \in Seq({"list", "brace"})
    BY <1>1, <2>1, FrontAndLast
  <2>3. Complete' <=> Complete
    BY <1>1, <2>1, <2>2, ContinuationOutside DEF Complete
  <2> QED
    BY <1>1, <2>3 DEF TreeInv
<1> QED
  BY <1>2, <1>3

LEMMA InitTree == Init => TreeInv
<1> SUFFICES ASSUME Init PROVE TreeInv
  OBVIOUS
<1>1. calls = <<>> /\ built = <<>> /\ pc = "object"
  BY DEF Init
<1>2. Unclosed(built) = 0 /\ Lists(calls) = 0
  BY <1>1, CountEmpty DEF Unclosed, Lists
<1>3. AllOpen(built)
  BY <1>1 DEF AllOpen
<1> QED
  BY <1>1, <1>2, <1>3 DEF TreeInv, Complete

LEMMA NextTree == TInv /\ NInv /\ TreeInv /\ [Next]_vars => TreeInv'
<1> SUFFICES ASSUME TInv, NInv, TreeInv, [Next]_vars, status' = "running" PROVE TreeInv'
  BY DEF TreeInv
<1>1. CASE Flat
  <2>1. CASE built' = built
    BY <1>1, <2>1, FlatTree
  <2>2. CASE built' # built
    <3>1. StringEnd
      BY <1>1, <2>2
      DEF Flat, Read, SkipWhiteSpace, OpenList, NextElement, Simple, Quoted, BeginString,
          BeginSimple, TokenChar, DecimalDigit, DecimalTooLong, DecimalEnd, BeginQuoted,
          BeginVerbatim, BeginCoded, IllegalCharacter, Verbatim, Coded, CodedEnd, HintEnd,
          QuotedEnd, QuotedChar, SimpleEscape, BeginEscape, UnknownEscape, EscapedLineEnd,
          HexEscape, OctalEscape, EscapeDigit, Expect, Fail, nestVars
    <3> QED
      BY <2>2, <3>1, StringTree
  <2> QED
    BY <2>1, <2>2
<1>2. CASE OpenBrace \/ CloseBrace
  BY <1>2, BraceTree
<1>3. CASE EnterList
  BY <1>3, EnterTree
<1>4. CASE LeaveList
  BY <1>4, LeaveTree
<1>5. CASE Stopped \/ UNCHANGED vars
  <2>1. UNCHANGED <<status, pc, calls, built>>
    BY <1>5 DEF Stopped, vars, streamVars, nestVars
  <2> QED
    BY <2>1 DEF TreeInv, Complete, Lists, Unclosed, AllOpen, IsObject
<1> QED
  BY <1>1, <1>2, <1>3, <1>4, <1>5, NextIsOneOf

(* scan_object returns exactly one object: what it has built mirrors its    *)
(* call stack at every moment, whatever the input, and braces and hints     *)
(* never add or lose a list.                                                *)
THEOREM TreeIsBuilt == Spec => []TreeMirrorsCalls
<1>1. Init => TInv /\ NInv /\ TreeInv
  BY InitTypes, InitNesting, InitTree
<1>2. TInv /\ NInv /\ TreeInv /\ [Next]_vars => TInv' /\ NInv' /\ TreeInv'
  BY NextTypes, NextNesting, NextTree
<1>3. TInv /\ NInv /\ TreeInv => TreeMirrorsCalls
  <2> SUFFICES ASSUME TInv, NInv, TreeInv, status = "running" PROVE TreeMirrorsCalls
    BY DEF TreeMirrorsCalls
  <2>1. Lists(<<>>) = 0
    BY CountEmpty DEF Lists
  <2> QED
    BY <2>1 DEF TreeMirrorsCalls, TreeInv, Complete, NInv, FramesMatch
<1> QED
  BY <1>1, <1>2, <1>3, PTL DEF Spec

=============================================================================
