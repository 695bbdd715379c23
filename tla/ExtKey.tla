-------------------------------- MODULE ExtKey --------------------------------
(***************************************************************************)
(* ext_key_input_stream_t::scan: the reader of extended private keys, the  *)
(* "Name: value" files of GnuPG 2.3.                                       *)
(*                                                                         *)
(* The stream overrides read_char: inside a value it reads on over line    *)
(* ends, so that scan_value, and the reader of S-expressions that is run   *)
(* on the value of "Key", see the value unfolded.  The reader is Parser,   *)
(* entered at sexp_list_t::parse.  The file is stored, since read_char     *)
(* looks ahead in it.  (count, which only positions messages, counts the   *)
(* characters the reader was given.)                                       *)
(***************************************************************************)
EXTENDS SexpChars, SequencesExt

CONSTANTS
  WordMod, MaxDepth, MaxVerbatim, DigitLimit, WarningsThrow,   \* see Parser
  MaxText,      \* bound: the length of a file
  Documents     \* the files, with what was to be written in them: see below

(* A document says what kind of file it is, its text, and the fields and   *)
(* the key, as pairs of name and value and as a traversal, that the text   *)
(* was made from: "written" and "wrapped" ones are, "raw" ones are any.    *)
ASSUME DocumentsAssumption ==
  /\ MaxText \in Nat
  /\ \A d \in Documents : d.text \in Seq(Octets) /\ Len(d.text) <= MaxText

VARIABLES
  doc,                 \* the document that is read
  at,                  \* how many of its characters have been taken
  phase,               \* where the scanner goes on
  c,                   \* its local variable: the last character it read
  name, string,        \* the name and the value being read
  fields,              \* extended_private_key_t::fields, in order of insertion
  is_scanning_value,
  has_key,
  byte_size, next_char, bits, n_bits, count, reading, status,
  pc, calls, depth, ss, length, value, ndigits, form, target, hint, built

In == INSTANCE Parser WITH Alphabet <- Octets, MaxInput <- MaxText

(* What Parser assumes of its constants. *)
ASSUME ReaderAssumption ==
  /\ WordMod \in Nat /\ WordMod > 0 /\ WordMod % 65536 = 0
  /\ {MaxDepth, MaxVerbatim} \subseteq 0..(WordMod - 2)
  /\ DigitLimit \in Nat /\ In!PowerOfTen[DigitLimit + 1] < WordMod
  /\ WarningsThrow \in BOOLEAN

inVars == <<byte_size, next_char, bits, n_bits, count, reading, status,
            pc, calls, depth, ss, length, value, ndigits, form, target, hint, built>>
scanVars == <<doc, phase, c, name, string, fields, is_scanning_value, has_key>>
vars == <<scanVars, at, inVars>>

Phases == {"start", "first", "line", "name", "key_blank", "key", "value_blank", "value",
           "done"}

(* std::isalpha in the "C" locale; tolower. *)
Letters == Upper \cup Lower
Folded(s) == [i \in DOMAIN s |-> IF s[i] \in Upper THEN s[i] + 32 ELSE s[i]]

HYPHEN == 45
NameChars == Letters \cup DecDigits \cup {HYPHEN}
NewLines == {NEWLINE, RETURN}

(* iequals(name, "key") *)
IsKey(s) == Folded(s) = <<107, 101, 121>>

(* The stream before its first get_char: see StreamInit. *)
Init ==
  /\ doc \in Documents /\ at = 0 /\ phase = "start" /\ c = EOF
  /\ name = <<>> /\ string = <<>> /\ fields = <<>>
  /\ is_scanning_value = FALSE /\ has_key = FALSE
  /\ byte_size = 8 /\ next_char = SPACE /\ bits = 0 /\ n_bits = 0 /\ count = -1
  /\ reading = FALSE /\ status = "running"
  /\ pc = "object" /\ calls = <<>> /\ depth = 0 /\ built = <<>>
  /\ ss = <<>> /\ length = In!UMAX /\ value = 0 /\ ndigits = 0
  /\ form = "none" /\ target = "data" /\ hint = <<>>

-----------------------------------------------------------------------------
(* read_char, with skip_line.                                              *)

(* What std::istream::get and peek find at position i. *)
Raw(i) == IF i <= Len(doc.text) THEN doc.text[i] ELSE EOF

(* The last characters of the line ends, and the end of the file. *)
LineEnds ==
  {i \in 1..(Len(doc.text) + 1) :
     Raw(i) \in NewLines \cup {EOF} /\ ~(Raw(i) = RETURN /\ Raw(i + 1) = NEWLINE)}

(* A line that begins with " #" is skipped with its end. *)
Comment(i) == Raw(i + 1) = SPACE /\ Raw(i + 2) = HASH

(* A fault: the line after a comment is not looked at. *)
LineEndOneComment(p) ==
  LET first == Min({i \in LineEnds : i >= p})
  IN IF Comment(first) THEN Min({i \in LineEnds : i > first}) ELSE first

LineEnd(p) == Min({i \in LineEnds : i >= p /\ ~Comment(i)})

Delivered(char, i) == [char |-> char, at |-> Min({i, Len(doc.text)})]

(* A fault: CR LF in a value is two line ends. *)
ReadCharLF ==
  IF is_scanning_value /\ Raw(at + 1) \in NewLines /\ Raw(at + 2) = SPACE
    THEN Delivered(Raw(at + 3), at + 3)
    ELSE Delivered(Raw(at + 1), at + 1)

(* The next character: past a line end and one blank in a value, unless    *)
(* the next line is blank, which reads as a line end and is not consumed.  *)
ReadChar ==
  LET end == LineEnd(at + 1)
  IN CASE ~is_scanning_value \/ Raw(at + 1) \notin NewLines -> Delivered(Raw(at + 1), at + 1)
       [] is_scanning_value /\ Raw(at + 1) \in NewLines ->
            IF Raw(end + 1) # SPACE THEN Delivered(Raw(end), end)
            ELSE IF Raw(end + 2) \in NewLines THEN Delivered(Raw(end + 2), end + 1)
            ELSE Delivered(Raw(end + 2), end + 2)

(* c = read_char() *)
Advance == c' = ReadChar.char /\ at' = ReadChar.at

-----------------------------------------------------------------------------
(* Idioms of the code.                                                     *)
Running(label) == status = "running" /\ phase = label
Enter(label) == phase' = label

(* ext_key_error(sexp_exception_t::error, ...) *)
Throw ==
  /\ status' = "threw"
  /\ UNCHANGED <<scanVars, at, byte_size, next_char, bits, n_bits, count, reading,
                 pc, calls, depth, ss, length, value, ndigits, form, target, hint, built>>

(* set_next_char(c), and open_list in the parse of the key. *)
BeginKey ==
  /\ IF c = LPAREN
       THEN reading' = TRUE /\ pc' = "open" /\ UNCHANGED status
       ELSE status' = "threw" /\ UNCHANGED <<reading, pc>>
  /\ next_char' = c
  /\ Enter("key")
  /\ UNCHANGED <<doc, at, c, name, string, fields, is_scanning_value, has_key,
                 byte_size, bits, n_bits, count, calls, depth, ss, length, value,
                 ndigits, form, target, hint, built>>

-----------------------------------------------------------------------------
(* scan                                                                    *)

(* set_byte_size(8) changes nothing here. *)
Start ==
  /\ Running("start")
  /\ Advance /\ Enter("first")
  /\ UNCHANGED <<doc, name, string, fields, is_scanning_value, has_key, inVars>>

(* A file that begins with "(" is a bare S-expression. *)
First ==
  /\ Running("first")
  /\ IF c = LPAREN
       THEN BeginKey
       ELSE /\ Enter("line")
            /\ UNCHANGED <<doc, at, c, name, string, fields, is_scanning_value, has_key, inVars>>

(* The loop over the lines, and the beginning of scan_name. *)
BeginName ==
  /\ Running("line") /\ c # EOF
  /\ IF c \in Letters
       THEN /\ name' = <<c>> /\ Advance /\ Enter("name")
            /\ UNCHANGED <<doc, string, fields, is_scanning_value, has_key, inVars>>
       ELSE Throw

(* EOF and line ends are no characters of a name either. *)
NameChar ==
  /\ Running("name") /\ c # COLON
  /\ IF c \in NameChars
       THEN /\ name' = Append(name, c) /\ Advance
            /\ UNCHANGED <<doc, phase, string, fields, is_scanning_value, has_key, inVars>>
       ELSE Throw

(* A fault: a second "Key" is read like the first. *)
EndNameAgain ==
  /\ Running("name") /\ c = COLON
  /\ is_scanning_value' = TRUE
  /\ Enter(IF IsKey(name) THEN "key_blank" ELSE "value_blank")
  /\ c' = SPACE
  /\ UNCHANGED <<doc, at, name, string, fields, has_key, inVars>>

(* The name is complete.  A blank stands for what is read first after it,  *)
(* with is_scanning_value set.                                             *)
EndName ==
  /\ Running("name") /\ c = COLON
  /\ IF IsKey(name) /\ has_key
       THEN Throw
       ELSE /\ is_scanning_value' = TRUE
            /\ Enter(IF IsKey(name) THEN "key_blank" ELSE "value_blank")
            /\ c' = SPACE
            /\ UNCHANGED <<doc, at, name, string, fields, has_key, inVars>>

(* do c = read_char(); while (is_white_space(c)); for keys and values. *)
SkipBlank ==
  /\ Running("key_blank") \/ Running("value_blank")
  /\ c \in WhiteSpace
  /\ Advance
  /\ UNCHANGED <<doc, phase, name, string, fields, is_scanning_value, has_key, inVars>>

NamedKey == Running("key_blank") /\ c \notin WhiteSpace /\ BeginKey

(* The reader of S-expressions, with this stream's read_char. *)
ReadKey ==
  /\ Running("key")
  /\ \/ /\ In!ReadChar(ReadChar.char) /\ at' = ReadChar.at
        /\ UNCHANGED <<pc, calls, depth, ss, length, value, ndigits, form, target, hint, built>>
     \/ (In!SkipWhiteSpace \/ In!Structure \/ In!Simple \/ In!Quoted) /\ UNCHANGED at
  /\ UNCHANGED scanVars

(* The key is complete; a bare one ends the file. *)
EndKey ==
  /\ Running("key") /\ In!Finished
  /\ has_key' = TRUE
  /\ IF is_scanning_value
       THEN Advance /\ Enter("line")
       ELSE Enter("done") /\ UNCHANGED <<at, c>>
  /\ is_scanning_value' = FALSE
  /\ UNCHANGED <<doc, name, string, fields, inVars>>

-----------------------------------------------------------------------------
(* scan_value                                                              *)
BeginValue ==
  /\ Running("value_blank") /\ c \notin WhiteSpace
  /\ string' = <<>> /\ Enter("value")
  /\ UNCHANGED <<doc, at, c, name, fields, is_scanning_value, has_key, inVars>>

ValueChar ==
  /\ Running("value") /\ c \notin NewLines \cup {EOF}
  /\ string' = Append(string, c) /\ Advance
  /\ UNCHANGED <<doc, phase, name, fields, is_scanning_value, has_key, inVars>>

(* fields.insert, and the first character of the next line. *)
EndValue ==
  /\ Running("value") /\ c \in NewLines \cup {EOF}
  /\ fields' = Append(fields, <<name, string>>)
  /\ Advance /\ Enter("line")
  /\ is_scanning_value' = FALSE
  /\ UNCHANGED <<doc, name, string, has_key, inVars>>

(* Faults: the end of the file is always good, or the missing field is     *)
(* waited for.                                                             *)
EndReadsOn ==
  /\ Running("line") /\ c = EOF
  /\ IF has_key THEN Enter("done") /\ UNCHANGED <<at, c>> ELSE Advance /\ UNCHANGED phase
  /\ UNCHANGED <<doc, name, string, fields, is_scanning_value, has_key, inVars>>

EndAnyway ==
  /\ Running("line") /\ c = EOF
  /\ Enter("done")
  /\ UNCHANGED <<doc, at, c, name, string, fields, is_scanning_value, has_key, inVars>>

(* The end of scan: the field "Key" is mandatory. *)
End ==
  /\ Running("line") /\ c = EOF
  /\ IF has_key
       THEN /\ Enter("done")
            /\ UNCHANGED <<doc, at, c, name, string, fields, is_scanning_value, has_key, inVars>>
       ELSE Throw

-----------------------------------------------------------------------------
Over == phase = "done" \/ status = "threw"
Stopped == Over /\ UNCHANGED vars

Next ==
  \/ Start \/ First \/ BeginName \/ NameChar \/ EndName
  \/ SkipBlank \/ NamedKey \/ ReadKey \/ EndKey
  \/ BeginValue \/ ValueChar \/ EndValue \/ End
  \/ Stopped

(* The scanner is one thread that runs on. *)
Spec == Init /\ [][Next]_vars /\ WF_vars(Next)

-----------------------------------------------------------------------------
(* Properties.                                                             *)

Read == phase = "done" /\ fields = doc.fields /\ built = doc.key

(* scan, read_char and the reader together: a file is read back as it was  *)
(* written, with line ends of either kind, values and the key folded over  *)
(* several lines, comments between them, fields in any order, and with or  *)
(* without an end of the last line.                                        *)
ReadsWritten == doc.kind = "written" /\ Over => Read

(* scan: whatever the file, success means that there is a key and that it  *)
(* is one whole list: it is neither missing nor cut off.                   *)
KeyIsComplete == phase = "done" => In!IsObject(built) /\ built[1] = In!Opened

(* "must occur only once" (ext-key-format.cpp:267): once the key has been  *)
(* read no later line replaces it, adds to it or moves its reader.         *)
KeyIsNeverReplaced == [][has_key => has_key' /\ built' = built /\ pc' = pc]_vars

(* Every file, cut off anywhere, ends the scan: the loops over the lines,  *)
(* names and values stop at its end, and so does the reader of the key.    *)
Termination == <>Over

(* "Values can be wrapped at any point, and continued in the next line"    *)
(* (ext-key-format.cpp:230).                                               *)
WrapsAnywhere == doc.kind = "wrapped" /\ Over => Read

=============================================================================
