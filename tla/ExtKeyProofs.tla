----------------------------- MODULE ExtKeyProofs -----------------------------
(***************************************************************************)
(* The key of an extended private key is read once, and it is whole when   *)
(* the scan succeeds.                                                      *)
(***************************************************************************)
EXTENDS ExtKey, Lemmas

(* Where the scanner may be once it has the key: neither before its first  *)
(* line nor at the value of another "Key".                                 *)
KeyBehind ==
  has_key => phase \in {"line", "name", "value_blank", "value", "done"}

LEMMA InitKeyBehind == Init => KeyBehind
BY DEF Init, KeyBehind

(* The name "Key" is only accepted without a key, and the key is complete  *)
(* when has_key is set.                                                    *)
LEMMA NextKeyBehind == KeyBehind /\ [Next]_vars => KeyBehind'
<1> SUFFICES ASSUME KeyBehind, [Next]_vars PROVE KeyBehind'
  OBVIOUS
<1> USE DEF KeyBehind
<1>1. CASE Start
  BY <1>1 DEF Start, Running, Enter
<1>2. CASE First
  BY <1>2 DEF First, BeginKey, Running, Enter
<1>3. CASE BeginName
  BY <1>3 DEF BeginName, Throw, Running, Enter, scanVars
<1>4. CASE NameChar
  BY <1>4 DEF NameChar, Throw, Running, scanVars
<1>5. CASE EndName
  BY <1>5 DEF EndName, Throw, Running, Enter, scanVars
<1>6. CASE SkipBlank
  BY <1>6 DEF SkipBlank
<1>7. CASE NamedKey
  BY <1>7 DEF NamedKey, BeginKey, Running, Enter
<1>8. CASE ReadKey
  BY <1>8 DEF ReadKey, scanVars
<1>9. CASE EndKey
  BY <1>9 DEF EndKey, Enter
<1>10. CASE BeginValue
  BY <1>10 DEF BeginValue, Enter
<1>11. CASE ValueChar
  BY <1>11 DEF ValueChar
<1>12. CASE EndValue
  BY <1>12 DEF EndValue, Enter
<1>13. CASE End
  BY <1>13 DEF End, Throw, Enter, scanVars
<1>14. CASE Stopped \/ UNCHANGED vars
  BY <1>14 DEF Stopped, vars, scanVars
<1> QED
  BY <1>1, <1>2, <1>3, <1>4, <1>5, <1>6, <1>7, <1>8, <1>9, <1>10, <1>11, <1>12, <1>13, <1>14
  DEF Next

(* A step from behind the key leaves the key and its reader alone.         *)
LEMMA NextKeepsKey ==
  KeyBehind /\ [Next]_vars => [has_key => has_key' /\ built' = built /\ pc' = pc]_vars
<1> SUFFICES ASSUME KeyBehind, Next, has_key PROVE has_key' /\ built' = built /\ pc' = pc
  OBVIOUS
<1> USE DEF KeyBehind, Running, inVars, scanVars
<1>1. ~Start /\ ~First /\ ~NamedKey /\ ~ReadKey /\ ~EndKey
  BY DEF Start, First, NamedKey, ReadKey, EndKey
<1>2. CASE BeginName \/ NameChar \/ EndName \/ End
  BY <1>2 DEF BeginName, NameChar, EndName, End, Throw
<1>3. CASE SkipBlank \/ BeginValue \/ ValueChar \/ EndValue
  BY <1>3 DEF SkipBlank, BeginValue, ValueChar, EndValue
<1>4. CASE Stopped
  BY <1>4 DEF Stopped, vars
<1> QED
  BY <1>1, <1>2, <1>3, <1>4 DEF Next

(* scan: whatever the file, once the key has been read no later line       *)
(* replaces it, adds to it or moves its reader.                            *)
THEOREM KeyIsReadOnce == Spec => KeyIsNeverReplaced
<1>1. Init => KeyBehind
  BY InitKeyBehind
<1>2. KeyBehind /\ [Next]_vars => KeyBehind'
  BY NextKeyBehind
<1>3. KeyBehind /\ [Next]_vars => [has_key => has_key' /\ built' = built /\ pc' = pc]_vars
  BY NextKeepsKey
<1> QED
  BY <1>1, <1>2, <1>3, PTL DEF Spec, KeyIsNeverReplaced

-----------------------------------------------------------------------------
(* The reader of the key is the one of Parser, so that all that has been   *)
(* proved of it is known here too.                                         *)
Known == INSTANCE ParserProofs WITH Alphabet <- Octets, MaxInput <- MaxText

LEMMA ReaderConstants ==
  /\ WordMod \in Nat /\ WordMod > 0 /\ WordMod % 65536 = 0
  /\ Octets = Known!Octets /\ EOF = Known!EOF
  /\ MaxText \in Nat /\ WarningsThrow \in BOOLEAN
  /\ MaxDepth \in 0..(WordMod - 2)
  /\ MaxVerbatim \in 0..(WordMod - 2)
  /\ DigitLimit \in Nat /\ Known!PowerOfTen[DigitLimit + 1] < WordMod
<1>1. Known!PowerOfTen = In!PowerOfTen
  BY DEF Known!PowerOfTen, In!PowerOfTen
<1>2. Octets = Known!Octets /\ EOF = Known!EOF
  BY DEF Octets, Known!Octets, EOF, Known!EOF
<1>3. /\ WordMod \in Nat /\ WordMod > 0 /\ WordMod % 65536 = 0
      /\ MaxText \in Nat /\ WarningsThrow \in BOOLEAN
      /\ MaxDepth \in 0..(WordMod - 2) /\ MaxVerbatim \in 0..(WordMod - 2)
      /\ DigitLimit \in Nat /\ In!PowerOfTen[DigitLimit + 1] < WordMod
  BY ReaderAssumption, DocumentsAssumption
<1> QED
  BY <1>1, <1>2, <1>3

(* Two instances of the same definitions.                                  *)
LEMMA SameSteps ==
  In!SkipWhiteSpace \/ In!Structure \/ In!Simple \/ In!Quoted
    => Known!SkipWhiteSpace \/ Known!Structure \/ Known!Simple \/ Known!Quoted
BY DEF In!At, In!AtNonSpace, In!BACKSLASH, In!BAR, In!Base64Digits, In!Base64Value,
       In!BeginCoded, In!BeginEscape, In!BeginQuoted, In!BeginSimple, In!BeginString,
       In!BeginVerbatim, In!COLON, In!CloseBrace, In!Closed, In!Coded, In!CodedEnd,
       In!Continuation, In!DQUOTE, In!DecDigits, In!DecValue, In!DecimalDigit,
       In!DecimalTooLong, In!DecimalEnd, In!Delimiter, In!EOF, In!EQUALS, In!EnterList,
       In!EnterRegion, In!EscapeDigit, In!EscapedLineEnd, In!EscapedOctet, In!Expect,
       In!Fail, In!Front, In!GetChar, In!Goto, In!HASH, In!HexDigits, In!HexEscape,
       In!HexValue, In!HintEnd, In!IllegalCharacter, In!LBRACE, In!LBRACKET,
       In!LETTER_X, In!LPAREN, In!Last, In!LeaveList, In!Lower, In!NEWLINE,
       In!NextElement, In!OctalDigits, In!OctalEscape, In!OpenBrace, In!OpenList,
       In!Opened, In!QUOTE, In!QuotedChar, In!QuotedEnd, In!RBRACE, In!RBRACKET,
       In!RETURN, In!RPAREN, In!Ready, In!SPACE, In!SimpleEscape, In!SimpleEscapes,
       In!SkipWhiteSpace, In!Store, In!String, In!StringEnd, In!Throw, In!TokenChar,
       In!TokenChars, In!TooManyDigits, In!UMAX, In!UnknownEscape, In!Upper,
       In!Verbatim, In!WhiteSpace, In!Width, In!Word, In!nestVars, In!streamVars,
       In!stringVars, In!Structure, In!Simple, In!Quoted, Known!At, Known!AtNonSpace,
       Known!BACKSLASH, Known!BAR, Known!Base64Digits, Known!Base64Value,
       Known!BeginCoded, Known!BeginEscape, Known!BeginQuoted, Known!BeginSimple,
       Known!BeginString, Known!BeginVerbatim, Known!COLON, Known!CloseBrace,
       Known!Closed, Known!Coded, Known!CodedEnd, Known!Continuation, Known!DQUOTE,
       Known!DecDigits, Known!DecValue, Known!DecimalDigit, Known!DecimalTooLong,
       Known!DecimalEnd, Known!Delimiter, Known!EOF, Known!EQUALS, Known!EnterList,
       Known!EnterRegion, Known!EscapeDigit, Known!EscapedLineEnd, Known!EscapedOctet,
       Known!Expect, Known!Fail, Known!Front, Known!GetChar, Known!Goto, Known!HASH,
       Known!HexDigits, Known!HexEscape, Known!HexValue, Known!HintEnd,
       Known!IllegalCharacter, Known!LBRACE, Known!LBRACKET, Known!LETTER_X,
       Known!LPAREN, Known!Last, Known!LeaveList, Known!Lower, Known!NEWLINE,
       Known!NextElement, Known!OctalDigits, Known!OctalEscape, Known!OpenBrace,
       Known!OpenList, Known!Opened, Known!QUOTE, Known!QuotedChar, Known!QuotedEnd,
       Known!RBRACE, Known!RBRACKET, Known!RETURN, Known!RPAREN, Known!Ready,
       Known!SPACE, Known!SimpleEscape, Known!SimpleEscapes, Known!SkipWhiteSpace,
       Known!Store, Known!String, Known!StringEnd, Known!Throw, Known!TokenChar,
       Known!TokenChars, Known!TooManyDigits, Known!UMAX, Known!UnknownEscape,
       Known!Upper, Known!Verbatim, Known!WhiteSpace, Known!Width, Known!Word,
       Known!nestVars, Known!streamVars, Known!stringVars, Known!Structure,
       Known!Simple, Known!Quoted

LEMMA SameRead ==
  ASSUME NEW x, In!ReadChar(x)
  PROVE  Known!ReadChar(x)
BY DEF In!ReadChar, In!ReadDigit, In!ReadEOF, In!ReadIgnored, In!ReadIllegal,
       In!ReadRaw, In!ReadTerminator, In!Terminators, In!UnusedBits, In!DigitValue,
       In!DigitsOf, In!Ignored, In!EOF, In!HASH, In!BAR, In!RBRACE, In!EQUALS,
       In!WhiteSpace, In!SPACE, In!Word, In!HexDigits, In!DecDigits, In!Upper,
       In!Lower, In!Base64Digits, In!Base64Value, In!HexValue, Known!ReadChar,
       Known!ReadDigit, Known!ReadEOF, Known!ReadIgnored, Known!ReadIllegal,
       Known!ReadRaw, Known!ReadTerminator, Known!Terminators, Known!UnusedBits,
       Known!DigitValue, Known!DigitsOf, Known!Ignored, Known!EOF, Known!HASH,
       Known!BAR, Known!RBRACE, Known!EQUALS, Known!WhiteSpace, Known!SPACE,
       Known!Word, Known!HexDigits, Known!DecDigits, Known!Upper, Known!Lower,
       Known!Base64Digits, Known!Base64Value, Known!HexValue

LEMMA SameObjects ==
  /\ In!Opened = Known!Opened
  /\ In!IsObject(built) <=> Known!IsObject(built)
  /\ In!UMAX = Known!UMAX
BY DEF In!Opened, In!Closed, In!IsObject, In!Unclosed, In!Count, In!Cardinality, In!UMAX,
       Known!Opened, Known!Closed, Known!IsObject, Known!Unclosed, Known!Count,
       Known!Cardinality, Known!UMAX

-----------------------------------------------------------------------------
(* Characters of the file.                                                 *)

FileInv ==
  /\ doc \in Documents /\ at \in 0..Len(doc.text)
  /\ c \in Octets \cup {EOF}

LEMMA RawType ==
  ASSUME doc \in Documents, NEW i \in Nat, i > 0
  PROVE  /\ Raw(i) \in Octets \cup {EOF}
         /\ i > Len(doc.text) => Raw(i) = EOF
<1>1. doc.text \in Seq(Octets)
  BY DocumentsAssumption
<1>2. Len(doc.text) \in Nat /\ \A k \in 1..Len(doc.text) : doc.text[k] \in Octets
  BY <1>1
<1>3. CASE i <= Len(doc.text)
  BY <1>2, <1>3 DEF Raw
<1>4. CASE ~(i <= Len(doc.text))
  BY <1>2, <1>4 DEF Raw
<1> QED
  BY <1>3, <1>4

(* There is always a line end to go to: the end of the file is one.        *)
LEMMA LineEndType ==
  ASSUME FileInv
  PROVE  LineEnd(at + 1) \in Nat /\ LineEnd(at + 1) > at
<1> DEFINE n == Len(doc.text)
           S == {i \in LineEnds : i >= at + 1 /\ ~Comment(i)}
<1>1. n \in Nat /\ at \in 0..n
  BY DocumentsAssumption DEF FileInv
<1>2. Raw(n + 1) = EOF /\ Raw(n + 2) = EOF
  <2>1. n + 1 \in Nat /\ n + 2 \in Nat /\ n + 1 > 0 /\ n + 2 > 0 /\ n + 1 > n /\ n + 2 > n
    BY <1>1
  <2>2. doc \in Documents
    BY DEF FileInv
  <2> HIDE DEF n
  <2> QED
    BY <2>1, <2>2, RawType DEF n
<1>3. n + 1 \in S
  <2>1. (n + 1) + 1 = n + 2 /\ n + 1 \in 1..(n + 1) /\ n + 1 >= at + 1
    BY <1>1
  <2>2. EOF # SPACE /\ EOF # RETURN
    BY DEF EOF, SPACE, RETURN
  <2>3. n + 1 \in LineEnds
    BY <1>2, <2>1, <2>2 DEF LineEnds
  <2>4. ~Comment(n + 1)
    BY <1>2, <2>1, <2>2 DEF Comment
  <2> QED
    BY <2>1, <2>3, <2>4
<1>4. S \subseteq Nat /\ S # {} /\ \A i \in S : i > at
  BY <1>1, <1>3 DEF LineEnds
<1>5. LineEnd(at + 1) = Min(S)
  BY DEF LineEnd
<1> HIDE DEF S
<1> QED
  BY <1>4, <1>5, MinType

LEMMA DeliveredType ==
  ASSUME FileInv, NEW char \in Octets \cup {EOF}, NEW i \in Nat
  PROVE  /\ Delivered(char, i).char \in Octets \cup {EOF}
         /\ Delivered(char, i).at \in 0..Len(doc.text)
<1> DEFINE n == Len(doc.text)
<1>1. n \in Nat
  BY DocumentsAssumption DEF FileInv
<1> HIDE DEF n
<1>2. {i, n} \subseteq Nat /\ {i, n} # {}
  BY <1>1
<1>3. Min({i, n}) \in {i, n} /\ Min({i, n}) <= n
  BY <1>2, MinType
<1>4. Min({i, n}) \in 0..n
  BY <1>1, <1>2, <1>3
<1> QED
  BY <1>4 DEF Delivered, n

(* read_char delivers an octet or the end of the file, and stays in it.    *)
LEMMA ReadCharType ==
  ASSUME FileInv
  PROVE  ReadChar.char \in Octets \cup {EOF} /\ ReadChar.at \in 0..Len(doc.text)
<1> DEFINE end == LineEnd(at + 1)
<1>1. doc \in Documents /\ at \in Nat /\ end \in Nat /\ end > 0
  <2>1. Len(doc.text) \in Nat
    BY DocumentsAssumption DEF FileInv
  <2> QED
    BY <2>1, LineEndType DEF FileInv
<1> HIDE DEF end
<1>2. /\ at + 1 \in Nat /\ at + 1 > 0 /\ end + 1 \in Nat
      /\ end + 2 \in Nat /\ end + 2 > 0
  BY <1>1
<1>3. {Raw(at + 1), Raw(end), Raw(end + 2)} \subseteq Octets \cup {EOF}
  BY <1>1, <1>2, RawType
<1>4. \E char \in Octets \cup {EOF}, i \in Nat : ReadChar = Delivered(char, i)
  <2>1. CASE ~is_scanning_value \/ Raw(at + 1) \notin NewLines
    BY <1>2, <1>3, <2>1 DEF ReadChar
  <2>2. CASE ~(~is_scanning_value \/ Raw(at + 1) \notin NewLines)
    BY <1>1, <1>2, <1>3, <2>2 DEF ReadChar, end
  <2> QED
    BY <2>1, <2>2
<1> QED
  BY <1>4, DeliveredType

LEMMA AdvanceKeeps ==
  ASSUME FileInv, Advance, doc' = doc
  PROVE  FileInv'
BY ReadCharType DEF Advance, FileInv

-----------------------------------------------------------------------------
(* What holds of the reader, whether it is running or not.                 *)
ReaderInv == Known!TInv /\ Known!NInv /\ Known!TreeInv

LEMMA ReaderKept ==
  ASSUME ReaderInv, UNCHANGED inVars
  PROVE  ReaderInv'
<1> USE DEF ReaderInv, inVars
<1>1. Known!TInv'
  BY DEF Known!TInv, Known!TypeOK, Known!StreamTypeOK, Known!RegisterHasRoom, Known!EscapeSoFar
<1>2. Known!NInv'
  BY DEF Known!NInv, Known!DepthIsNesting, Known!FramesMatch, Known!Lists
<1>3. Known!TreeInv'
  BY DEF Known!TreeInv, Known!Complete, Known!Lists, Known!AllOpen
<1> QED
  BY <1>1, <1>2, <1>3

LEMMA ThrowKeeps ==
  ASSUME ReaderInv, Throw
  PROVE  ReaderInv'
<1> USE DEF ReaderInv, Throw
<1>1. Known!TInv'
  BY DEF Known!TInv, Known!TypeOK, Known!StreamTypeOK, Known!RegisterHasRoom, Known!EscapeSoFar
<1>2. Known!NInv'
  BY DEF Known!NInv, Known!DepthIsNesting
<1>3. Known!TreeInv'
  BY DEF Known!TreeInv
<1> QED
  BY <1>1, <1>2, <1>3

(* The reader starts inside its first list.                                *)
LEMMA BeginKeyKeeps ==
  ASSUME ReaderInv, FileInv, BeginKey, pc = "object"
  PROVE  ReaderInv'
<1> USE DEF ReaderInv, BeginKey
<1>1. Known!TInv'
  <2>1. next_char' \in Known!Octets \cup {Known!EOF}
    BY ReaderConstants DEF FileInv
  <2>2. reading' \in BOOLEAN /\ status' \in {"running", "threw"} /\ pc' \in {"open", "object"}
    BY DEF Known!TInv, Known!TypeOK, Known!StreamTypeOK
  <2>3. Known!StreamTypeOK' /\ Known!RegisterHasRoom'
    BY <2>1, <2>2 DEF Known!TInv, Known!TypeOK, Known!StreamTypeOK, Known!RegisterHasRoom
  <2>4. Known!EscapeSoFar'
    BY <2>2 DEF Known!TInv, Known!EscapeSoFar
  <2> QED
    BY <2>2, <2>3, <2>4 DEF Known!TInv, Known!TypeOK, Known!Labels
<1>2. Known!NInv'
  BY DEF Known!NInv, Known!DepthIsNesting, Known!FramesMatch, Known!Lists
<1>3. Known!TreeInv'
  BY DEF Known!TreeInv, Known!Complete, Known!Lists, Known!AllOpen
<1> QED
  BY <1>1, <1>2, <1>3

(* A raw character for the reader, and its own steps.                      *)
LEMMA ReadKeyKeeps ==
  ASSUME ReaderInv, FileInv, ReadKey
  PROVE  ReaderInv'
<1> USE DEF ReaderInv
<1>1. CASE /\ In!ReadChar(ReadChar.char)
           /\ UNCHANGED <<pc, calls, depth, ss, length, value, ndigits, form, target, hint, built>>
  <2> DEFINE x == ReadChar.char
  <2>1. x \in Known!Octets \cup {Known!EOF}
    BY ReadCharType, ReaderConstants
  <2>2. Known!ReadChar(x)
    BY <1>1, SameRead
  <2> HIDE DEF x
  <2>3. Known!StreamTypeOK /\ Known!RegisterHasRoom /\ Known!RInv
    BY Known!TInvParts, ReaderConstants
  <2>4. Known!StreamTypeOK' /\ Known!RegisterHasRoom'
    BY <2>1, <2>2, <2>3, Known!ReadTypes, ReaderConstants
  <2>5. Known!TInv'
    BY <1>1, <2>4 DEF Known!TInv, Known!TypeOK, Known!EscapeSoFar
  <2>6. status = "running"
    BY <2>2 DEF Known!ReadChar
  <2>7. Known!NInv'
    BY <1>1, <2>6 DEF Known!NInv, Known!DepthIsNesting, Known!FramesMatch, Known!Lists
  <2>8. Known!TreeInv'
    BY <1>1, <2>6 DEF Known!TreeInv, Known!Complete, Known!Lists, Known!AllOpen
  <2> QED
    BY <2>5, <2>7, <2>8
<1>2. CASE In!SkipWhiteSpace \/ In!Structure \/ In!Simple \/ In!Quoted
  <2>1. [Known!Next]_(Known!vars)
    BY <1>2, SameSteps DEF Known!Next
  <2>2. Known!TInv'
    BY <2>1, Known!NextTypes, ReaderConstants
  <2>3. Known!NInv'
    BY <2>1, Known!NextNesting, ReaderConstants
  <2>4. Known!TreeInv'
    BY <2>1, Known!NextTree, ReaderConstants
  <2> QED
    BY <2>2, <2>3, <2>4
<1> QED
  BY <1>1, <1>2 DEF ReadKey

LEMMA InitReader == Init => ReaderInv /\ FileInv
<1> SUFFICES ASSUME Init PROVE ReaderInv /\ FileInv
  OBVIOUS
<1>1. Known!TInv
  <2>1. /\ 0 \in 0..(WordMod - 1) /\ Known!UMAX \in 0..Known!UMAX
        /\ SPACE \in Known!Octets /\ length = Known!UMAX
    BY ReaderConstants, SameObjects DEF Init, Known!UMAX, Known!Octets, SPACE
  <2>2. Known!StreamTypeOK /\ Known!RegisterHasRoom
    <3>1. /\ byte_size = 8 /\ next_char = SPACE /\ bits = 0 /\ n_bits = 0 /\ count = -1
          /\ reading = FALSE /\ status = "running"
      BY DEF Init
    <3>2. 0 \in 0..13 /\ -1 \in Int /\ 0 <= 7
      OBVIOUS
    <3> QED
      BY <2>1, <3>1, <3>2 DEF Known!StreamTypeOK, Known!RegisterHasRoom
  <2>3. Known!EscapeSoFar
    BY DEF Init, Known!EscapeSoFar
  <2>4. /\ pc \in Known!Labels /\ form \in Known!Forms /\ target \in {"hint", "data"}
        /\ calls \in Seq({"list", "brace"}) /\ built \in Seq(Known!Events)
        /\ ss \in Seq(Known!Octets) /\ hint \in Seq(Seq(Known!Octets)) /\ Len(hint) <= 1
    BY DEF Init, Known!Labels, Known!Forms
  <2> QED
    BY <2>1, <2>2, <2>3, <2>4 DEF Init, Known!TInv, Known!TypeOK
<1>2. Known!Lists(<<>>) = 0 /\ Known!Unclosed(<<>>) = 0
  BY Known!CountEmpty, ReaderConstants DEF Known!Lists, Known!Unclosed
<1>3. Known!NInv
  BY <1>2, ReaderConstants DEF Init, Known!NInv, Known!DepthIsNesting, Known!FramesMatch
<1>4. Known!TreeInv
  BY <1>2 DEF Init, Known!TreeInv, Known!Complete, Known!AllOpen
<1>5. FileInv
  <2>1. doc.text \in Seq(Octets) /\ at = 0
    BY DocumentsAssumption DEF Init
  <2>2. 0 \in 0..Len(doc.text)
    BY <2>1
  <2> QED
    BY <2>1, <2>2 DEF Init, FileInv
<1> QED
  BY <1>1, <1>3, <1>4, <1>5 DEF ReaderInv

-----------------------------------------------------------------------------
(* The scanner's part: before the key the reader has not begun; while it   *)
(* reads, its first event is the beginning of a list; once it has read,    *)
(* has_key is set, and only then is the scan over.                         *)
KeyInv ==
  /\ phase \in {"start", "first", "line", "name", "key_blank", "value_blank", "value"} /\ ~has_key
       => pc = "object" /\ built = <<>>
  /\ phase = "key" /\ status = "running"
       => IF built = <<>> THEN pc = "open" ELSE built[1] = In!Opened
  /\ has_key => In!IsObject(built) /\ built[1] = In!Opened
  /\ phase = "done" => has_key
  /\ phase \in Phases

ScanInv == ReaderInv /\ FileInv /\ KeyInv /\ KeyBehind

(* The first event of the reader is that of the list it starts with.       *)
LEMMA FirstEvent ==
  ASSUME ReaderInv, ReadKey, status' = "running",
         IF built = <<>> THEN pc = "open" ELSE built[1] = In!Opened
  PROVE  IF built' = <<>> THEN pc' = "open" ELSE built'[1] = In!Opened
<1>1. built \in Seq(Known!Events)
  BY DEF ReaderInv, Known!TInv, Known!TypeOK
<1>2. CASE built' = built /\ pc' = pc
  BY <1>2
<1>3. CASE Known!SkipWhiteSpace \/ Known!Structure \/ Known!Simple \/ Known!Quoted
  <2>1. CASE built = <<>>
    <3>1. Known!EnterList
      BY <1>3, <2>1
      DEF Known!SkipWhiteSpace, Known!Structure, Known!Simple, Known!Quoted,
          Known!At, Known!AtNonSpace, Known!OpenBrace, Known!CloseBrace, Known!OpenList,
          Known!NextElement, Known!LeaveList, Known!BeginString, Known!BeginSimple,
          Known!TokenChar, Known!DecimalDigit, Known!DecimalTooLong, Known!DecimalEnd,
          Known!BeginQuoted, Known!BeginVerbatim, Known!BeginCoded, Known!IllegalCharacter,
          Known!Verbatim, Known!Coded, Known!CodedEnd, Known!StringEnd, Known!HintEnd,
          Known!QuotedEnd, Known!QuotedChar, Known!SimpleEscape, Known!BeginEscape,
          Known!UnknownEscape, Known!EscapedLineEnd, Known!HexEscape, Known!OctalEscape
    <3>2. built' = Append(built, Known!Opened)
      BY <3>1 DEF Known!EnterList, Known!Throw
    <3>3. built' = <<In!Opened>>
      BY <2>1, <3>2, SameObjects
    <3> QED
      BY <3>3
  <2>2. CASE built # <<>>
    <3>1. built' = built \/ \E e \in Known!Events : built' = Append(built, e)
      <4>1. UNCHANGED built \/ Known!EnterList \/ Known!LeaveList \/ Known!StringEnd
        BY <1>3
        DEF Known!SkipWhiteSpace, Known!Structure, Known!Simple, Known!Quoted, Known!nestVars,
            Known!OpenBrace, Known!CloseBrace, Known!OpenList, Known!Fail, Known!Expect,
            Known!NextElement, Known!BeginString, Known!BeginSimple,
            Known!TokenChar, Known!DecimalDigit, Known!DecimalTooLong, Known!DecimalEnd,
            Known!BeginQuoted, Known!BeginVerbatim, Known!BeginCoded, Known!IllegalCharacter,
            Known!Verbatim, Known!Coded, Known!CodedEnd, Known!HintEnd, Known!EscapeDigit,
            Known!QuotedEnd, Known!QuotedChar, Known!SimpleEscape, Known!BeginEscape,
            Known!UnknownEscape, Known!EscapedLineEnd, Known!HexEscape, Known!OctalEscape
      <4>2. Known!Opened \in Known!Events /\ Known!Closed \in Known!Events
        BY DEF Known!Events
      <4>3. Known!String(hint, ss) \in Known!Events
        BY DEF ReaderInv, Known!TInv, Known!TypeOK, Known!Events, Known!String
      <4>4. CASE Known!EnterList
        BY <4>2, <4>4 DEF Known!EnterList
      <4>5. CASE Known!LeaveList
        BY <4>2, <4>5 DEF Known!LeaveList
      <4>6. CASE Known!StringEnd
        BY <4>3, <4>6 DEF Known!StringEnd, Known!nestVars, Known!Fail
      <4> QED
        BY <4>1, <4>4, <4>5, <4>6
    <3>2. \A e \in Known!Events : Append(built, e) # <<>> /\ Append(built, e)[1] = built[1]
      BY <1>1, <2>2
    <3> QED
      BY <2>2, <3>1, <3>2
  <2> QED
    BY <2>1, <2>2
<1> QED
  BY <1>2, <1>3, SameSteps DEF ReadKey

(* The key is complete when the reader has finished.                       *)
LEMMA FinishedKey ==
  ASSUME ReaderInv, In!Finished, status = "running"
  PROVE  In!IsObject(built) /\ built # <<>>
<1>1. pc = "done"
  BY DEF In!Finished
<1>2. calls = <<>> /\ Known!Lists(<<>>) = 0
  BY <1>1, Known!CountEmpty, ReaderConstants DEF ReaderInv, Known!NInv, Known!FramesMatch, Known!Lists
<1>3. Known!IsObject(built)
  BY <1>1, <1>2 DEF ReaderInv, Known!TreeInv, Known!Complete
<1> QED
  BY <1>3, SameObjects DEF Known!IsObject

LEMMA InitScan == Init => ScanInv
BY InitReader, InitKeyBehind DEF Init, ScanInv, KeyInv, Phases

LEMMA NextScan == ScanInv /\ [Next]_vars => ScanInv'
<1> SUFFICES ASSUME ScanInv, [Next]_vars PROVE ReaderInv' /\ FileInv' /\ KeyInv'
  BY NextKeyBehind DEF ScanInv
<1> USE DEF ScanInv, Running, Enter
<1>1. ASSUME Throw
      PROVE  ReaderInv' /\ FileInv' /\ KeyInv'
  BY <1>1, ThrowKeeps DEF Throw, scanVars, FileInv, KeyInv
<1>2. ASSUME UNCHANGED <<inVars, doc, at, c, has_key>>,
             \/ phase' = phase
             \/ /\ phase' \in Phases \ {"key", "done"}
                /\ phase \in Phases \ {"key", "done"}
             \/ phase' = "done" /\ has_key
      PROVE  ReaderInv' /\ FileInv' /\ KeyInv'
  BY <1>2, ReaderKept DEF inVars, FileInv, KeyInv, Phases
<1>3. ASSUME Advance, UNCHANGED <<inVars, doc, has_key>>,
             \/ phase' = phase
             \/ /\ phase' \in Phases \ {"key", "done"}
                /\ phase \in Phases \ {"key", "done"}
      PROVE  ReaderInv' /\ FileInv' /\ KeyInv'
  BY <1>3, ReaderKept, AdvanceKeeps DEF inVars, KeyInv, Phases
<1>4. ASSUME BeginKey, ~has_key, pc = "object", built = <<>>
      PROVE  ReaderInv' /\ FileInv' /\ KeyInv'
  <2>1. ReaderInv'
    BY <1>4, BeginKeyKeeps
  <2>2. FileInv'
    BY <1>4 DEF BeginKey, FileInv
  <2>3. KeyInv'
    BY <1>4 DEF BeginKey, KeyInv, Phases
  <2> QED
    BY <2>1, <2>2, <2>3
<1>5. CASE Start
  BY <1>3, <1>5 DEF Start, Phases
<1>6. CASE First
  <2>1. ~has_key /\ pc = "object" /\ built = <<>>
    BY <1>6 DEF First, KeyBehind, KeyInv
  <2> QED
    BY <1>2, <1>4, <1>6, <2>1 DEF First, Phases
<1>7. CASE BeginName \/ NameChar
  BY <1>1, <1>3, <1>7 DEF BeginName, NameChar, Phases
<1>8. CASE EndName
  <2>1. CASE Throw
    BY <1>1, <2>1
  <2>2. CASE /\ UNCHANGED <<inVars, doc, at, has_key>> /\ c' = SPACE
             /\ phase = "name" /\ phase' \in {"key_blank", "value_blank"}
    <3>1. SPACE \in Octets
      BY DEF SPACE, Octets
    <3> QED
      BY <2>2, <3>1, ReaderKept DEF inVars, FileInv, KeyInv, Phases
  <2> QED
    BY <1>8, <2>1, <2>2 DEF EndName
<1>9. CASE SkipBlank
  BY <1>3, <1>9 DEF SkipBlank
<1>10. CASE NamedKey
  <2>1. ~has_key /\ pc = "object" /\ built = <<>>
    BY <1>10 DEF NamedKey, KeyBehind, KeyInv
  <2> QED
    BY <1>4, <1>10, <2>1 DEF NamedKey
<1>11. CASE ReadKey
  <2>1. /\ phase = "key" /\ phase' = "key" /\ status = "running" /\ ~has_key
        /\ UNCHANGED <<doc, c, has_key>>
    BY <1>11 DEF ReadKey, scanVars, KeyBehind
  <2>2. ReaderInv'
    BY <1>11, ReadKeyKeeps
  <2>3. FileInv'
    BY <1>11, <2>1, ReadCharType DEF ReadKey, FileInv
  <2>4. KeyInv'
    BY <1>11, <2>1, FirstEvent DEF KeyInv, Phases
  <2> QED
    BY <2>2, <2>3, <2>4
<1>12. CASE EndKey
  <2>1. phase = "key" /\ status = "running" /\ has_key' /\ UNCHANGED <<doc, inVars>>
    BY <1>12 DEF EndKey
  <2>2. In!IsObject(built) /\ built[1] = In!Opened
    BY <1>12, <2>1, FinishedKey DEF EndKey, KeyInv
  <2>3. FileInv'
    BY <1>12, <2>1, AdvanceKeeps DEF EndKey, FileInv
  <2>4. phase' \in {"line", "done"} /\ built' = built
    BY <1>12 DEF EndKey, inVars
  <2>5. KeyInv'
    BY <2>1, <2>2, <2>4 DEF KeyInv, Phases
  <2> QED
    BY <2>1, <2>3, <2>5, ReaderKept
<1>13. CASE BeginValue
  BY <1>2, <1>13 DEF BeginValue, Phases
<1>14. CASE ValueChar
  BY <1>3, <1>14 DEF ValueChar
<1>15. CASE EndValue
  BY <1>3, <1>15 DEF EndValue, Phases
<1>16. CASE End
  BY <1>1, <1>2, <1>16 DEF End
<1>17. CASE Stopped \/ UNCHANGED vars
  BY <1>2, <1>17 DEF Stopped, vars, scanVars
<1> QED
  BY <1>5, <1>6, <1>7, <1>8, <1>9, <1>10, <1>11, <1>12, <1>13, <1>14, <1>15, <1>16, <1>17
  DEF Next

(* scan: for every set of files, when the scan succeeds there is a key and *)
(* it is one whole list; neither a file that ends early nor one that lacks *)
(* a key gets so far.                                                      *)
THEOREM KeyIsWhole == Spec => []KeyIsComplete
<1>1. ScanInv => KeyIsComplete
  BY DEF ScanInv, KeyInv, KeyIsComplete
<1> QED
  BY <1>1, InitScan, NextScan, PTL DEF Spec

=============================================================================
