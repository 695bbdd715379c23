------------------------------- MODULE Printer -------------------------------
(***************************************************************************)
(* A client that prints objects, in canonical, base64 and advanced form,   *)
(* on one sexp_output_stream_t: print_canonical, print_base64 and          *)
(* print_advanced of the stream, of lists and of strings.                  *)
(*                                                                         *)
(* A step prints one event of an object's traversal: the beginning or end  *)
(* of a list, or a whole string.  The recursion over lists is "frames".    *)
(***************************************************************************)
EXTENDS OutputStream, Objects

CONSTANTS
  Trees,       \* the objects to print
  Kinds,       \* the forms in which the client prints
  Widths,      \* the values of max_column a client may set
  MaxPrints    \* bound: how many objects are printed on the stream

ASSUME PrinterAssumption ==
  /\ \A tree \in Trees : tree \in Seq(Events) /\ IsObject(tree)
  /\ Kinds \subseteq Modes
  /\ Widths \subseteq 0..(WordMod - 1)
  /\ MaxPrints \in Nat

VARIABLES
  os,        \* the stream
  job,       \* what is being printed: "canonical", "base64", "advanced" or "idle"
  object,    \* the object that is, or was last, printed
  todo,      \* the events of it still to print
  frames,    \* print_advanced of the open lists: their "vertical" and "firstelement"
  began,     \* the form of it, and how the stream was when its output began
  prints     \* how many objects were begun

vars == <<os, job, object, todo, frames, began, prints>>

NoOutput ==
  [kind |-> "none", at |-> 0, mode |-> "canonical", column |-> 0, width |-> 0, depth |-> 0]

Init ==
  /\ os = SetOutput
  /\ job = "idle" /\ object = <<>> /\ todo = <<>> /\ frames = <<>>
  /\ began = NoOutput
  /\ prints = 0

-----------------------------------------------------------------------------
(* Simple strings.                                                         *)

PrintCanonicalVerbatim(o, ss) == VarPutAll(o, Decimal[Len(ss)] \o <<COLON>> \o ss)

(* A fault: a token that begins with a digit. *)
CanPrintAsTokenDigit(o, ss) ==
  /\ ss # <<>>
  /\ ~(o.max_column > 0 /\ o.column + Len(ss) >= o.max_column)
  /\ ToSet(ss) \subseteq TokenChars

CanPrintAsToken(o, ss) ==
  /\ ss # <<>>
  /\ Head(ss) \notin DecDigits
  /\ ~(o.max_column > 0 /\ o.column + Len(ss) >= o.max_column)
  /\ ToSet(ss) \subseteq TokenChars

CanPrintAsQuotedString(ss) == ToSet(ss) \subseteq TokenChars \cup {SPACE}

(* The difference is one of size_t: it is large when it would be negative. *)
PrintToken(o, ss) ==
  LET near == o.max_column >= Len(ss) /\ o.column > o.max_column - Len(ss)
  IN PutAll(IF o.max_column > 0 /\ near THEN NewLine(o, "advanced") ELSE o, ss)

(* An octet of a quoted string, after a line break of its own kind. *)
QuotedOctet(o, c) ==
  PutChar(IF o.max_column > 0 /\ o.column >= Word(o.max_column - 2)
            THEN [PutAll(o, <<BACKSLASH, NEWLINE>>) EXCEPT !.column = 0] ELSE o, c)

PrintQuoted(o, ss) == PutChar(FoldLeft(QuotedOctet, PutChar(o, DQUOTE), ss), DQUOTE)

(* A fault: the stream stays in 4-bit groups. *)
PrintHexadecimalOpen(o, ss) ==
  LET begun == ChangeOutputByteSize(PutChar(o, HASH), 4, "advanced")
  IN PutChar(Flush(VarPutAll(begun, ss)), HASH)

PrintHexadecimal(o, ss) ==
  LET begun == ChangeOutputByteSize(PutChar(o, HASH), 4, "advanced")
  IN PutChar(ChangeOutputByteSize(Flush(VarPutAll(begun, ss)), 8, "advanced"), HASH)

PrintBase64(o, ss) ==
  LET begun == ChangeOutputByteSize(VarPutChar(o, BAR), 6, "advanced")
  IN VarPutChar(ChangeOutputByteSize(Flush(VarPutAll(begun, ss)), 8, "advanced"), BAR)

(* The four representations, in the order in which they are tried. *)
PrintAdvanced(o, ss) ==
  CASE CanPrintAsToken(o, ss) -> PrintToken(o, ss)
    [] ~CanPrintAsToken(o, ss) /\ CanPrintAsQuotedString(ss) -> PrintQuoted(o, ss)
    [] ~CanPrintAsQuotedString(ss) /\ o.byte_size = 8 ->
         IF Len(ss) <= 4 THEN PrintHexadecimal(o, ss) ELSE PrintBase64(o, ss)
    [] OTHER -> Fail(o)

AdvancedLength(o, ss) ==
  CASE CanPrintAsToken(o, ss) -> Len(ss)
    [] ~CanPrintAsToken(o, ss) /\ CanPrintAsQuotedString(ss) -> Len(ss) + 2
    [] ~CanPrintAsQuotedString(ss) /\ o.byte_size = 8 ->
         IF Len(ss) <= 4 THEN 2 * Len(ss) + 2 ELSE 2 + 4 * ((Len(ss) + 2) \div 3)
    [] OTHER -> 0

-----------------------------------------------------------------------------
(* Strings with their hints.                                               *)
CanonicalString(o, e) ==
  LET hinted(h) == VarPutChar(PrintCanonicalVerbatim(VarPutChar(o, LBRACKET), h), RBRACKET)
  IN PrintCanonicalVerbatim(IF e.hint = <<>> THEN o ELSE hinted(e.hint[1]), e.data)

AdvancedString(o, e) ==
  LET hinted(h) == PutChar(PrintAdvanced(PutChar(o, LBRACKET), h), RBRACKET)
  IN PrintAdvanced(IF e.hint = <<>> THEN o ELSE hinted(e.hint[1]), e.data)

(* The length of an event's image: 1 for a bracket. *)
EventLength(o, e) ==
  IF e.kind # "string" THEN 1
  ELSE AdvancedLength(o, e.data) + (IF e.hint = <<>> THEN 0 ELSE 2 + AdvancedLength(o, e.hint[1]))

(* The first list of the events, to its closing bracket. *)
FirstList(events) ==
  SubSeq(events, 1, Min({k \in DOMAIN events : Unclosed(SubSeq(events, 1, k)) = 0}))

ListLength(o, events) ==
  FoldLeft(LAMBDA n, e : n + EventLength(o, e), 0, FirstList(events))

-----------------------------------------------------------------------------
(* The client.                                                             *)
NewOutput ==
  /\ job = "idle"
  /\ os' = SetOutput
  /\ object' = <<>> /\ began' = NoOutput
  /\ UNCHANGED <<job, todo, frames, prints>>

SetMaxColumn ==
  /\ job = "idle"
  /\ \E w \in Widths : os' = [os EXCEPT !.max_column = w]
  /\ UNCHANGED <<job, object, todo, frames, began, prints>>

(* A print function is called on the stream o. print_base64 writes the     *)
(* bracket and enters its region.                                          *)
BeginPrinting(kind, tree, o) ==
  /\ job = "idle" /\ ~os.failed
  /\ job' = kind
  /\ object' = tree /\ todo' = tree
  /\ began' = [kind |-> kind, at |-> Len(o.out), mode |-> o.mode,
               column |-> o.column, width |-> o.max_column, depth |-> o.depth]
  /\ os' = IF kind = "base64"
             THEN ChangeOutputByteSize(VarPutChar(ChangeOutputByteSize(o, 8, kind), LBRACE), 6, kind)
             ELSE o
  /\ frames' = <<>>
  /\ prints' = prints + 1

Begin ==
  /\ prints < MaxPrints
  /\ \E kind \in Kinds, tree \in Trees : BeginPrinting(kind, tree, os)

Printing(kinds, event) ==
  /\ job \in kinds /\ ~os.failed /\ todo # <<>>
  /\ Head(todo).kind = event
  /\ todo' = Tail(todo)
  /\ UNCHANGED <<job, object, began, prints>>

Finish ==
  /\ job # "idle" /\ ~os.failed /\ todo = <<>>
  /\ os' = IF job = "base64"
             THEN VarPutChar(ChangeOutputByteSize(Flush(os), 8, "base64"), RBRACE)
             ELSE os
  /\ job' = "idle"
  /\ UNCHANGED <<object, todo, frames, began, prints>>

-----------------------------------------------------------------------------
(* print_canonical, within print_base64 too.                               *)
CanonicalOpen ==
  /\ Printing({"canonical", "base64"}, "open")
  /\ os' = IncreaseDepth(VarPutChar(os, LPAREN))
  /\ UNCHANGED frames

PrintCanonicalString ==
  /\ Printing({"canonical", "base64"}, "string")
  /\ os' = CanonicalString(os, Head(todo))
  /\ UNCHANGED frames

(* A fault: the end of a list is not counted. *)
CanonicalCloseUncounted ==
  /\ Printing({"canonical", "base64"}, "close")
  /\ os' = VarPutChar(os, RPAREN)
  /\ UNCHANGED frames

CanonicalClose ==
  /\ Printing({"canonical", "base64"}, "close")
  /\ os' = DecreaseDepth(VarPutChar(os, RPAREN))
  /\ UNCHANGED frames

-----------------------------------------------------------------------------
(* print_advanced.                                                         *)

(* A fault: an element may begin anywhere on the line. *)
SeparateAnywhere ==
  IF frames = <<>> \/ Last(frames).first THEN os
  ELSE IF Last(frames).vertical THEN NewLine(os, "advanced") ELSE PutChar(os, SPACE)

(* A list separates its elements, and then sexp_object_t::print_advanced   *)
(* begins a new line near the end of one.                                  *)
Separate ==
  LET o == IF frames = <<>> \/ Last(frames).first THEN os
           ELSE IF Last(frames).vertical THEN NewLine(os, "advanced") ELSE PutChar(os, SPACE)
  IN IF o.max_column > 0 /\ o.column > Word(o.max_column - 4) THEN NewLine(o, "advanced") ELSE o

NotFirst == IF frames = <<>> THEN frames
            ELSE [frames EXCEPT ![Len(frames)].first = FALSE]

AdvancedOpen ==
  /\ Printing({"advanced"}, "open")
  /\ LET o == IncreaseDepth(PutChar(Separate, LPAREN))
     IN IF o.failed
          THEN os' = o /\ UNCHANGED frames
          ELSE /\ os' = [o EXCEPT !.indent = Word(@ + 1)]
               /\ frames' = Append(NotFirst,
                    [vertical |-> ListLength(os', todo) > Word(os'.max_column - os'.column),
                     first |-> TRUE])

PrintAdvancedString ==
  /\ Printing({"advanced"}, "string")
  /\ os' = AdvancedString(Separate, Head(todo))
  /\ frames' = NotFirst

(* The bracket is put directly: close_list is not called. *)
AdvancedClose ==
  /\ Printing({"advanced"}, "close")
  /\ LET o == IF os.max_column > 0 /\ os.column > Word(os.max_column - 2)
                THEN NewLine(os, "advanced") ELSE os
     IN os' = PutChar([o EXCEPT !.indent = Word(@ + WordMod - 1)], RPAREN)
  /\ frames' = Front(frames)

-----------------------------------------------------------------------------
(* After an exception the program ends, as main does. *)
Stopped ==
  /\ os.failed \/ (job = "idle" /\ prints = MaxPrints)
  /\ UNCHANGED vars

Continue ==
  \/ CanonicalOpen \/ PrintCanonicalString \/ CanonicalClose
  \/ AdvancedOpen \/ PrintAdvancedString \/ AdvancedClose
  \/ Finish

Next == NewOutput \/ SetMaxColumn \/ Begin \/ Continue \/ Stopped

Spec == Init /\ [][Next]_vars

-----------------------------------------------------------------------------
(* Properties.                                                             *)
TypeOK ==
  /\ os.byte_size \in {4, 6, 8} /\ os.n_bits \in 0..7 /\ os.bits \in 0..(WordMod - 1)
  /\ os.mode \in Modes /\ os.failed \in BOOLEAN /\ os.out \in Seq(Octets)
  /\ {os.column, os.max_column, os.indent, os.base64_count, os.depth} \subseteq 0..(WordMod - 1)
  /\ job \in Kinds \cup {"idle"} /\ object \in Trees \cup {<<>>}
  /\ todo \in Seq(Events) /\ frames \in Seq([vertical : BOOLEAN, first : BOOLEAN])

(* The canonical form, by definition: "(", ")", and for a string its       *)
(* octets after their number and a colon, with the hint in brackets.       *)
Verbatim(ss) == Decimal[Len(ss)] \o <<COLON>> \o ss

Image(e) ==
  CASE e = Opened -> <<LPAREN>>
    [] e = Closed -> <<RPAREN>>
    [] OTHER -> (IF e.hint = <<>> THEN <<>> ELSE <<LBRACKET>> \o Verbatim(e.hint[1]) \o <<RBRACKET>>)
                  \o Verbatim(e.data)

Canonical(tree) == FoldLeft(LAMBDA text, e : text \o Image(e), <<>>, tree)

Printed(kind) == job = "idle" /\ began.kind = kind
Output == SubSeq(os.out, began.at + 1, Len(os.out))

(* print_canonical on a stream in canonical mode writes the canonical form *)
(* and nothing else, whatever the width, the brackets in the strings and   *)
(* the objects printed before.                                             *)
CanonicalIsExact ==
  Printed("canonical") /\ began.mode = "canonical" => Output = Canonical(object)

(* print_base64: between its braces are whole groups of four characters,   *)
(* as many as the canonical form needs, and line breaks count for nothing. *)
RegionIsPadded ==
  Printed("base64") =>
    Len(Output) - Count(Output, NEWLINE) = 2 + 4 * ((Len(Canonical(object)) + 2) \div 3)

(* Only a string printed as it is can hold a line feed.                    *)
NoLineFeeds ==
  "canonical" \in Kinds =>
    \A tree \in Trees : \A e \in ToSet(tree) \ {Opened, Closed} :
      \A text \in {e.data} \cup ToSet(e.hint) : NEWLINE \notin ToSet(text)

LineStarts == {0} \cup {i \in DOMAIN os.out : os.out[i] = NEWLINE}

(* column, from which every decision about the layout is taken, is where   *)
(* the output really is, after any mixture of put_char, new_line and       *)
(* reset_column by lists, tokens, quoted strings and regions: it is the    *)
(* distance to the beginning of a line, and of the last line unless there  *)
(* are line feeds in strings, which put_char counts like other octets.     *)
ColumnTracksOutput ==
  \E start \in LineStarts :
    /\ os.column = Word(Len(os.out) - start)
    /\ NoLineFeeds => \A other \in LineStarts : other <= start

(* The errors of change_output_byte_size and of print_advanced, and the    *)
(* assertion of flush, are out of reach of the three printing functions:   *)
(* the only error is that of a list nested too deeply.                     *)
OnlyDepthFails == os.failed => MaxDepth # 0 /\ os.depth > MaxDepth

(* sexp_list_t::print_advanced: the room left on the line is computed when *)
(* there is some: the unsigned difference does not wrap.                   *)
RoomIsNotNegative ==
  [][Len(frames') > Len(frames) /\ os.max_column >= 4 => os'.column <= os'.max_column]_vars

(* The lists of the object that have been begun and not ended. *)
OpenLists == Unclosed(SubSeq(object, 1, Len(object) - Len(todo)))

(* open_list and close_list from three recursive functions: while the      *)
(* canonical and the base64 writer print, the counter steps with the lists *)
(* that are open, from whatever earlier objects left in it, and is within  *)
(* the limit.                                                              *)
CanonicalDepthIsNesting ==
  MaxDepth # 0 /\ began.kind \in {"canonical", "base64"} /\ ~os.failed =>
    os.depth = began.depth + OpenLists /\ os.depth <= MaxDepth

(* The longest line of a text. *)
LongestLine(text) ==
  LET ends == {0} \cup {i \in DOMAIN text : text[i] = NEWLINE}
  IN Max({IF i \in ends THEN 0 ELSE i - Max({e \in ends : e < i}) : i \in 0..Len(text)})

(* print_base64 and flush: lines are broken as if there were one column    *)
(* more than the width, wherever the remainder, the padding and the braces *)
(* fall.  (At the greatest width of all, flush makes the column wrap.)     *)
Base64FitsLine ==
  Printed("base64") /\ began.column = 0 /\ began.width \in 1..(WordMod - 2)
    => LongestLine(Output) <= began.width + 1

-----------------------------------------------------------------------------
(* What the comments say of the writer.                                    *)

(* canonical is "standard for hashing and transmission" (sexp.h:461): what *)
(* print_canonical writes depends on the object alone.                     *)
CanonicalIsStandard == Printed("canonical") => Output = Canonical(object)

(* "current depth of nested SEXP lists" (sexp.h:399), when a list has been *)
(* printed to its end too.                                                 *)
DepthIsOpenLists == os.depth = OpenLists

=============================================================================
