-------------------------------- MODULE Parser --------------------------------
(***************************************************************************)
(* One call of sexp_input_stream_t::scan_object: the recursive-descent     *)
(* reader of S-expressions, over the octet channel of InputStream.         *)
(*                                                                         *)
(* The C++ call stack is "calls", the frames of scan_list and of the       *)
(* scan_object that read a "{"; "pc" says which function goes on when      *)
(* get_char returns.  "built" is the traversal of what has been read.      *)
(***************************************************************************)
EXTENDS InputStream, Objects

CONSTANTS
  MaxDepth,      \* max_depth; 0 is no limit
  MaxVerbatim,   \* 1024 * 1024 in scan_verbatim_string
  DigitLimit     \* 8 in scan_decimal_string: at most DigitLimit + 1 digits

ASSUME DepthAssumption == MaxDepth \in 0..(WordMod - 2)
ASSUME VerbatimAssumption == MaxVerbatim \in 0..(WordMod - 2)
(* DigitLimit + 1 digits fit a word, and are not the word that means "no    *)
(* length": 10^9 < 2^32 - 1 in the code.                                   *)
PowerOfTen[n \in Nat] == IF n = 0 THEN 1 ELSE 10 * PowerOfTen[n - 1]
ASSUME DigitAssumption == DigitLimit \in Nat /\ PowerOfTen[DigitLimit + 1] < WordMod

VARIABLES
  pc,       \* where the reader goes on
  calls,    \* the active frames, "list" and "brace", innermost last
  depth,    \* sexp_depth_manager::depth
  ss,       \* the simple string being read
  length,   \* its declared length, or UMAX
  value,    \* the number being read: a length or an escaped octet ...
  ndigits,  \* ... and how many of its digits have been read
  form,     \* the representation being read
  target,   \* what the string is for: "hint" or "data"
  hint,     \* <<>> or <<the presentation hint>>
  built     \* the object so far, as its traversal

stringVars == <<ss, length, value, ndigits, form, target, hint>>
nestVars == <<calls, depth, built>>
vars == <<streamVars, pc, stringVars, nestVars>>

(* The word that stands for "no length was declared", UINT32_MAX. *)
UMAX == WordMod - 1

Labels == {"object", "open", "list", "close", "brace_end", "simple", "token", "decimal",
           "dispatch", "verbatim", "quoted", "escape", "hex_escape", "octal_escape",
           "after_newline", "after_return", "coded", "coded_end", "string_end",
           "hint_end", "done"}
Forms == {"none", "token", "verbatim", "quoted", "hex", "base64"}

TypeOK ==
  /\ StreamTypeOK
  /\ pc \in Labels
  /\ calls \in Seq({"list", "brace"})
  /\ depth \in 0..(WordMod - 1)
  /\ ss \in Seq(Octets)
  /\ length \in 0..UMAX
  /\ value \in 0..(WordMod - 1)
  /\ ndigits \in Nat
  /\ form \in Forms
  /\ target \in {"hint", "data"}
  /\ hint \in Seq(Seq(Octets)) /\ Len(hint) <= 1
  /\ built \in Seq(Events)

Init ==
  /\ StreamInit
  /\ pc = "object"
  /\ calls = <<>> /\ depth = 0 /\ built = <<>>
  /\ ss = <<>> /\ length = UMAX /\ value = 0 /\ ndigits = 0
  /\ form = "none" /\ target = "data" /\ hint = <<>>

-----------------------------------------------------------------------------
(* Idioms of the code.                                                     *)

At(label) == Ready /\ pc = label
Goto(label) == pc' = label

(* sexp_error(sexp_exception_t::error, ...) *)
Fail == Throw /\ UNCHANGED <<pc, stringVars, nestVars>>

(* skip_char(c) and on to a label, or an error. *)
Expect(c, label) ==
  IF next_char = c THEN GetChar /\ Goto(label) /\ UNCHANGED <<stringVars, nestVars>> ELSE Fail

(* append: the low eight bits are stored, whatever c. *)
Store(c) == ss' = Append(ss, c % 256)

(* What goes on when an object is complete, given the frames that remain. *)
Continuation(frames) ==
  CASE frames = <<>> -> "done"
    [] frames # <<>> /\ Last(frames) = "list" -> "list"
    [] OTHER -> "brace_end"

(* The loops of skip_white_space, wherever a function starts with one. *)
SkipWhiteSpace ==
  /\ Ready
  /\ pc \in {"object", "list", "simple", "hint_end"}
  /\ next_char \in WhiteSpace
  /\ GetChar
  /\ UNCHANGED <<pc, stringVars, nestVars>>

AtNonSpace(label) == At(label) /\ next_char \notin WhiteSpace

-----------------------------------------------------------------------------
(* scan_object, scan_list, open_list, close_list.                          *)

OpenBrace ==
  /\ AtNonSpace("object")
  /\ next_char = LBRACE /\ byte_size # 6
  /\ EnterRegion(6)
  /\ calls' = Append(calls, "brace")
  /\ UNCHANGED <<pc, depth, built, stringVars>>

CloseBrace ==
  /\ At("brace_end")
  /\ IF next_char = RBRACE
       THEN /\ GetChar
            /\ calls' = Front(calls)
            /\ Goto(Continuation(calls'))
            /\ UNCHANGED <<depth, built, stringVars>>
       ELSE Fail

OpenList ==
  /\ AtNonSpace("object")
  /\ next_char = LPAREN
  /\ GetChar
  /\ Goto("open")
  /\ UNCHANGED <<stringVars, nestVars>>

(* Faults: an empty list returns before its ")" is read, and a limit that  *)
(* is compared before the counter is stepped.                              *)
EnterListEmptyReturns ==
  /\ At("open")
  /\ depth' = IF MaxDepth # 0 THEN Word(depth + 1) ELSE depth
  /\ IF MaxDepth # 0 /\ depth' > MaxDepth
       THEN Throw /\ UNCHANGED <<pc, calls, built>>
       ELSE /\ IF next_char = RPAREN
                 THEN Goto(Continuation(calls)) /\ UNCHANGED calls
                 ELSE Goto("list") /\ calls' = Append(calls, "list")
            /\ built' = Append(built, Opened)
            /\ UNCHANGED streamVars
  /\ UNCHANGED stringVars

EnterListComparedFirst ==
  /\ At("open")
  /\ depth' = IF MaxDepth # 0 THEN Word(depth + 1) ELSE depth
  /\ IF MaxDepth # 0 /\ depth > MaxDepth
       THEN Throw /\ UNCHANGED <<pc, calls, built>>
       ELSE /\ Goto("list")
            /\ calls' = Append(calls, "list")
            /\ built' = Append(built, Opened)
            /\ UNCHANGED streamVars
  /\ UNCHANGED stringVars

(* increase_depth, once the character after "(" has been read. *)
EnterList ==
  /\ At("open")
  /\ depth' = IF MaxDepth # 0 THEN Word(depth + 1) ELSE depth
  /\ IF MaxDepth # 0 /\ depth' > MaxDepth
       THEN Throw /\ UNCHANGED <<pc, calls, built>>
       ELSE /\ Goto("list")
            /\ calls' = Append(calls, "list")
            /\ built' = Append(built, Opened)
            /\ UNCHANGED streamVars
  /\ UNCHANGED stringVars

NextElement ==
  /\ AtNonSpace("list")
  /\ IF next_char = RPAREN THEN GetChar /\ Goto("close")
                           ELSE Goto("object") /\ UNCHANGED streamVars
  /\ UNCHANGED <<stringVars, nestVars>>

(* A fault: close_list without decrease_depth. *)
LeaveListUncounted ==
  /\ At("close")
  /\ calls' = Front(calls)
  /\ built' = Append(built, Closed)
  /\ Goto(Continuation(calls'))
  /\ UNCHANGED <<streamVars, stringVars, depth>>

(* decrease_depth, once the character after ")" has been read; depth is    *)
(* unsigned.                                                               *)
LeaveList ==
  /\ At("close")
  /\ depth' = Word(depth + WordMod - 1)
  /\ calls' = Front(calls)
  /\ built' = Append(built, Closed)
  /\ Goto(Continuation(calls'))
  /\ UNCHANGED <<streamVars, stringVars>>

-----------------------------------------------------------------------------
(* sexp_string_t::parse, scan_simple_string, scan_token and                *)
(* scan_decimal_string.                                                    *)

(* A string begins: with a presentation hint after "[". *)
BeginString ==
  /\ AtNonSpace("object")
  /\ next_char # LPAREN /\ ~(next_char = LBRACE /\ byte_size # 6)
  /\ Goto("simple")
  /\ IF next_char = LBRACKET THEN GetChar /\ target' = "hint"
                             ELSE target' = "data" /\ UNCHANGED streamVars
  /\ UNCHANGED <<ss, length, value, ndigits, form, hint, nestVars>>

(* Token-ness comes before the other cases: ":" begins a token. *)
BeginSimple ==
  /\ AtNonSpace("simple")
  /\ \/ /\ next_char \in TokenChars \ DecDigits
        /\ Goto("token") /\ form' = "token"
     \/ /\ next_char \in DecDigits
        /\ Goto("decimal") /\ UNCHANGED form
     \/ /\ next_char \notin TokenChars
        /\ Goto("dispatch") /\ UNCHANGED form
  /\ length' = UMAX
  /\ UNCHANGED <<streamVars, ss, value, ndigits, target, hint, nestVars>>

TokenChar ==
  /\ At("token")
  /\ IF next_char \in TokenChars THEN Store(next_char) /\ GetChar /\ UNCHANGED pc
                                 ELSE Goto("string_end") /\ UNCHANGED <<ss, streamVars>>
  /\ UNCHANGED <<length, value, ndigits, form, target, hint, nestVars>>

(* A fault: the counter is off by one. *)
TooManyDigitsLate == ndigits - 2 > DigitLimit

(* The digits of a length.  One digit too many is noticed once the         *)
(* character after it has been read.                                       *)
TooManyDigits == ndigits - 1 > DigitLimit

DecimalDigit ==
  /\ At("decimal")
  /\ ~TooManyDigits /\ next_char \in DecDigits
  /\ value' = Word(value * 10 + DecValue(next_char))
  /\ ndigits' = ndigits + 1
  /\ GetChar
  /\ UNCHANGED <<pc, ss, length, form, target, hint, nestVars>>

DecimalTooLong == At("decimal") /\ TooManyDigits /\ Fail

DecimalEnd ==
  /\ At("decimal")
  /\ ~TooManyDigits /\ next_char \notin DecDigits
  /\ length' = value
  /\ value' = 0 /\ ndigits' = 0
  /\ Goto("dispatch")
  /\ UNCHANGED <<streamVars, ss, form, target, hint, nestVars>>

(* The switch on the character after the length. *)
BeginQuoted ==
  /\ At("dispatch") /\ next_char = DQUOTE
  /\ GetChar /\ Goto("quoted") /\ form' = "quoted"
  /\ UNCHANGED <<ss, length, value, ndigits, target, hint, nestVars>>

BeginVerbatim ==
  /\ At("dispatch") /\ next_char = COLON
  /\ GetChar /\ Goto("verbatim") /\ form' = "verbatim"
  /\ UNCHANGED <<ss, length, value, ndigits, target, hint, nestVars>>

BeginCoded ==
  /\ At("dispatch")
  /\ \/ next_char = HASH /\ EnterRegion(4) /\ form' = "hex"
     \/ next_char = BAR /\ EnterRegion(6) /\ form' = "base64"
  /\ Goto("coded")
  /\ UNCHANGED <<ss, length, value, ndigits, target, hint, nestVars>>

(* A fault: the error is only reported, and the string tried again. *)
IllegalCharacterReported ==
  /\ At("dispatch")
  /\ next_char \notin {DQUOTE, COLON, HASH, BAR}
  /\ Goto("simple")
  /\ UNCHANGED <<streamVars, stringVars, nestVars>>

IllegalCharacter ==
  /\ At("dispatch")
  /\ next_char \notin {DQUOTE, COLON, HASH, BAR}
  /\ Fail

-----------------------------------------------------------------------------
(* scan_verbatim_string, scan_hexadecimal_string, scan_base64_string.      *)

(* A fault: the end of input is not looked for. *)
VerbatimPastEOF ==
  /\ At("verbatim")
  /\ IF length > MaxVerbatim
       THEN Fail
       ELSE /\ IF Len(ss) < length
                 THEN Store(next_char) /\ GetChar /\ UNCHANGED pc
                 ELSE Goto("string_end") /\ UNCHANGED <<ss, streamVars>>
            /\ UNCHANGED <<length, value, ndigits, form, target, hint, nestVars>>

Verbatim ==
  /\ At("verbatim")
  /\ IF length > MaxVerbatim \/ (Len(ss) < length /\ next_char = EOF)
       THEN Fail
       ELSE /\ IF Len(ss) < length
                 THEN Store(next_char) /\ GetChar /\ UNCHANGED pc
                 ELSE Goto("string_end") /\ UNCHANGED <<ss, streamVars>>
            /\ UNCHANGED <<length, value, ndigits, form, target, hint, nestVars>>

(* The width of the digits of a coded string, and the character around it. *)
Width == IF form = "hex" THEN 4 ELSE 6
Delimiter == IF form = "hex" THEN HASH ELSE BAR

(* Faults: any delimiter ends the string, and the end of input does not. *)
CodedAnyDelimiter ==
  /\ At("coded")
  /\ IF next_char # EOF /\ next_char # Delimiter
       THEN /\ Store(next_char) /\ GetChar
            /\ UNCHANGED <<pc, length, value, ndigits, form, target, hint, nestVars>>
       ELSE Expect(Delimiter, "coded_end")

CodedPastEOF ==
  /\ At("coded")
  /\ IF next_char # Delimiter \/ byte_size = Width
       THEN /\ Store(next_char) /\ GetChar
            /\ UNCHANGED <<pc, length, value, ndigits, form, target, hint, nestVars>>
       ELSE Expect(Delimiter, "coded_end")

(* A delimiter counts only once the stream has left the region. *)
Coded ==
  /\ At("coded")
  /\ IF next_char # EOF /\ (next_char # Delimiter \/ byte_size = Width)
       THEN /\ Store(next_char) /\ GetChar
            /\ UNCHANGED <<pc, length, value, ndigits, form, target, hint, nestVars>>
       ELSE Expect(Delimiter, "coded_end")

(* A wrong declared length is only a warning here. *)
CodedEnd ==
  /\ At("coded_end")
  /\ IF WarningsThrow /\ Len(ss) # length /\ length # UMAX
       THEN Fail
       ELSE Goto("string_end") /\ UNCHANGED <<streamVars, stringVars, nestVars>>

-----------------------------------------------------------------------------
(* scan_quoted_string.                                                     *)

(* The octet that a one-character escape stands for. *)
SimpleEscapes == {98, 116, 118, 110, 102, 114, DQUOTE, QUOTE, BACKSLASH}
EscapedOctet(c) ==
  CASE c = 98 -> 8 [] c = 116 -> 9 [] c = 118 -> 11 [] c = 110 -> NEWLINE
    [] c = 102 -> 12 [] c = 114 -> RETURN [] OTHER -> c
LETTER_X == 120
OctalDigits == 48..55

(* The end of the loop and of the string, at a quote and, silently, once   *)
(* there are more octets than were declared.                               *)
QuotedEnd ==
  /\ At("quoted")
  /\ IF Len(ss) > length
       THEN Goto("string_end") /\ UNCHANGED <<streamVars, stringVars, nestVars>>
       ELSE /\ next_char = DQUOTE
            /\ IF length = UMAX \/ Len(ss) = length
                 THEN GetChar /\ Goto("string_end") /\ UNCHANGED <<stringVars, nestVars>>
                 ELSE Fail

QuotedChar ==
  /\ At("quoted")
  /\ Len(ss) <= length /\ next_char # DQUOTE
  /\ CASE next_char = EOF ->
            Fail
       [] next_char = BACKSLASH ->
            GetChar /\ Goto("escape") /\ UNCHANGED <<stringVars, nestVars>>
       [] OTHER ->
            /\ Store(next_char) /\ GetChar
            /\ UNCHANGED <<pc, length, value, ndigits, form, target, hint, nestVars>>

(* After the backslash.  The digits of an octal escape begin at once. *)
SimpleEscape ==
  /\ At("escape") /\ next_char \in SimpleEscapes
  /\ Store(EscapedOctet(next_char)) /\ GetChar /\ Goto("quoted")
  /\ UNCHANGED <<length, value, ndigits, form, target, hint, nestVars>>

BeginEscape ==
  /\ At("escape")
  /\ \/ next_char = LETTER_X /\ GetChar /\ Goto("hex_escape")
     \/ next_char \in OctalDigits /\ Goto("octal_escape") /\ UNCHANGED streamVars
     \/ next_char = NEWLINE /\ GetChar /\ Goto("after_newline")
     \/ next_char = RETURN /\ GetChar /\ Goto("after_return")
  /\ UNCHANGED <<stringVars, nestVars>>

UnknownEscape ==
  /\ At("escape")
  /\ next_char \notin SimpleEscapes \cup OctalDigits \cup {LETTER_X, NEWLINE, RETURN}
  /\ Fail

(* A line end after a backslash is dropped, and the other half of a CR LF  *)
(* or LF CR pair with it.                                                  *)
EscapedLineEnd ==
  /\ \/ At("after_newline") /\ IF next_char = RETURN THEN GetChar ELSE UNCHANGED streamVars
     \/ At("after_return") /\ IF next_char = NEWLINE THEN GetChar ELSE UNCHANGED streamVars
  /\ Goto("quoted")
  /\ UNCHANGED <<stringVars, nestVars>>

(* One digit of an escaped octet of "size" digits in the given radix. *)
EscapeDigit(radix, size, digit) ==
  /\ GetChar
  /\ IF ndigits + 1 < size
       THEN /\ value' = radix * value + digit
            /\ ndigits' = ndigits + 1
            /\ UNCHANGED <<pc, ss>>
       ELSE /\ Store(radix * value + digit)
            /\ value' = 0 /\ ndigits' = 0
            /\ Goto("quoted")
  /\ UNCHANGED <<length, form, target, hint, nestVars>>

HexEscape ==
  /\ At("hex_escape")
  /\ IF next_char \in HexDigits THEN EscapeDigit(16, 2, HexValue(next_char)) ELSE Fail

(* A fault: three octal digits are stored whatever their value. *)
OctalEscapeUnchecked ==
  /\ At("octal_escape")
  /\ IF next_char \in OctalDigits
       THEN EscapeDigit(8, 3, DecValue(next_char))
       ELSE Fail

(* Three octal digits may exceed an octet. *)
OctalEscape ==
  /\ At("octal_escape")
  /\ IF next_char \in OctalDigits /\ ~(ndigits = 2 /\ 8 * value + DecValue(next_char) > 255)
       THEN EscapeDigit(8, 3, DecValue(next_char))
       ELSE Fail

-----------------------------------------------------------------------------
(* The end of scan_simple_string, and what sexp_string_t::parse does with  *)
(* the result.                                                             *)
StringEnd ==
  /\ At("string_end")
  /\ IF ss = <<>> /\ WarningsThrow
       THEN Fail
       ELSE /\ IF target = "hint"
                 THEN /\ hint' = <<ss>>
                      /\ Goto("hint_end")
                      /\ UNCHANGED <<target, nestVars>>
                 ELSE /\ hint' = <<>>
                      /\ built' = Append(built, String(hint, ss))
                      /\ Goto(Continuation(calls))
                      /\ UNCHANGED <<target, calls, depth>>
            /\ ss' = <<>> /\ length' = UMAX /\ form' = "none"
            /\ UNCHANGED <<streamVars, value, ndigits>>

HintEnd ==
  /\ AtNonSpace("hint_end")
  /\ IF next_char = RBRACKET
       THEN /\ GetChar /\ Goto("simple") /\ target' = "data"
            /\ UNCHANGED <<ss, length, value, ndigits, form, hint, nestVars>>
       ELSE Fail

-----------------------------------------------------------------------------
Read == \E c \in Available : ReadChar(c) /\ UNCHANGED <<pc, stringVars, nestVars>>

Structure == OpenBrace \/ CloseBrace \/ OpenList \/ EnterList \/ NextElement \/ LeaveList

Simple == BeginString \/ BeginSimple \/ TokenChar \/ DecimalDigit \/ DecimalTooLong
          \/ DecimalEnd \/ BeginQuoted \/ BeginVerbatim \/ BeginCoded \/ IllegalCharacter
          \/ Verbatim \/ Coded \/ CodedEnd \/ StringEnd \/ HintEnd

Quoted == QuotedEnd \/ QuotedChar \/ SimpleEscape \/ BeginEscape \/ UnknownEscape
          \/ EscapedLineEnd \/ HexEscape \/ OctalEscape

(* The object is complete once the character after it has been read. *)
Finished == pc = "done" /\ Ready
Stopped == (status = "threw" \/ Finished) /\ UNCHANGED vars

Next == Read \/ SkipWhiteSpace \/ Structure \/ Simple \/ Quoted \/ Stopped

(* The reader is one thread that runs on. *)
Spec == Init /\ [][Next]_vars /\ WF_vars(Next)

-----------------------------------------------------------------------------
(* Properties.                                                             *)

Lists(frames) == Count(frames, "list")

(* increase_depth and decrease_depth, on every path through the recursion: *)
(* with a limit, the counter is the number of lists being read, so that    *)
(* braces, hints and strings never count, and it is within the limit.      *)
DepthIsNesting ==
  MaxDepth # 0 /\ status = "running" => depth = Lists(calls) /\ depth <= MaxDepth

(* scan_object and scan_list: what has been built mirrors the call stack   *)
(* at every moment, and is exactly one object when scan_object returns.    *)
TreeMirrorsCalls ==
  status = "running" =>
    /\ Unclosed(built) = Lists(calls)
    /\ pc = "done" => calls = <<>> /\ IsObject(built)

(* The assertion of scan_verbatim_string (sexp-input.cpp:221): the word    *)
(* for "no length" never gets there, neither because ":" came without a    *)
(* number nor because the number was that large.                           *)
SomeLengthForVerbatim == pc = "verbatim" => length # UMAX

(* scan_decimal_string, which looks at the number of digits only after it  *)
(* has used them: a digit with which the number would not fit the word is  *)
(* one too many, so that no wrapped number becomes a length.               *)
LengthNeverWraps ==
  [][pc = "decimal" /\ ndigits' > ndigits
       => value' = 10 * value + DecValue(next_char) \/ TooManyDigits']_vars

(* set_byte_size and the regions' ends, from four functions: 4-bit digits  *)
(* are decoded only while a hexadecimal string is read, and the delimiter  *)
(* that ends a coded string is that of its region, not one of its octets.  *)
HexOnlyInHexString ==
  status = "running" =>
    /\ byte_size = 4 => pc = "coded" /\ form = "hex"
    /\ pc = "coded_end" => byte_size = 8

(* The readers of tokens and of verbatim, coded and quoted strings: the    *)
(* end of input, which append would store as 255, never becomes an octet.  *)
EndIsNoOctet == [][Len(ss') > Len(ss) => next_char # EOF]_vars

(* scan_quoted_string: an escaped number is read whole and stored whole:   *)
(* append never cuts it off.                                               *)
EscapesAreExact ==
  [][pc' = "quoted" =>
       /\ pc = "hex_escape" => Last(ss') = 16 * value + HexValue(next_char)
       /\ pc = "octal_escape" => Last(ss') = 8 * value + DecValue(next_char)]_vars

(* Every input, cut off anywhere, ends the call: the loops of scan_list,   *)
(* of the strings and of get_char do not spin at the end of input.         *)
Termination == <>(Finished \/ status = "threw")

(* The depth counter implements the nesting discipline. *)
Abstract == INSTANCE Nesting WITH
  Limit <- MaxDepth,
  level <- depth,
  outcome <- IF status = "threw" THEN "rejected"
             ELSE IF Finished THEN "accepted" ELSE "running"

NestingSpec == Abstract!Spec

-----------------------------------------------------------------------------
(* What a comment says of declared lengths.                                *)

(* "Reads quoted string of given length into simple string ss"             *)
(* (sexp-input.cpp:238).                                                   *)
QuotedLengthHolds ==
  pc = "string_end" /\ form = "quoted" /\ length # UMAX => Len(ss) = length

=============================================================================
