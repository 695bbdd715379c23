---------------------------------- MODULE Cli ----------------------------------
(***************************************************************************)
(* main of the program "sexp": the options, and the loop that reads the    *)
(* objects of a file with one input stream and prints each in the forms    *)
(* asked for on one output stream.  The reader is Parser and the printing  *)
(* Printer; prompts and the line feeds between outputs, which main writes  *)
(* to std::cout past its output stream, are left out.                      *)
(***************************************************************************)
EXTENDS SexpChars, SequencesExt

CONSTANTS
  WordMod, MaxDepth, MaxVerbatim, DigitLimit, WarningsThrow, DefaultWidth,  \* see Parser, Printer
  Files,      \* the inputs: a text, and the objects that it is made of
  Commands    \* the command lines: sequences of options

Flags == {"a", "b", "c", "l", "p", "s", "x"}
Switches == Flags \cup {"h", "i", "o", "w", "unknown"}

(* A file's "objects" are followed by blanks only if it is "sound"; its    *)
(* "whole" is what -s reads.  An option has an operand: for -w the width   *)
(* (0 when there is no number), for -i and -o whether the file opens (1).  *)
ASSUME CliAssumption ==
  /\ \A f \in Files : f.text \in Seq(Octets) /\ f.sound \in BOOLEAN
  /\ Commands \subseteq Seq([switch : Switches, operand : 0..(WordMod - 1)])

VARIABLES
  file, command,       \* what the program is run on
  options,             \* the options still to be looked at
  sw,                  \* the switches that are on, by their letters
  phase,               \* where main goes on
  forms,               \* the forms in which the object is still to be printed
  printed,             \* history: the form, the object and the text of each print
  ret,                 \* the exit code
  os, job, object, todo, frames, began, prints,
  byte_size, next_char, bits, n_bits, count, reading, status,
  pc, calls, depth, ss, length, value, ndigits, form, target, hint, built

Out == INSTANCE Printer WITH Trees <- {}, Kinds <- {}, Widths <- {}, MaxPrints <- 0
In == INSTANCE Parser WITH Alphabet <- {}, MaxInput <- 0

(* What both streams ask of the word and the limits. *)
ASSUME StreamsAssumption ==
  /\ WordMod \in Nat /\ WordMod > 0 /\ WordMod % 65536 = 0
  /\ {MaxDepth, MaxVerbatim} \subseteq 0..(WordMod - 2)
  /\ DefaultWidth \in 0..(WordMod - 1)
  /\ DigitLimit \in Nat /\ In!PowerOfTen[DigitLimit + 1] < WordMod
  /\ WarningsThrow \in BOOLEAN

given == <<file, command>>
outVars == <<os, job, object, todo, frames, began, prints>>
streamVars == <<byte_size, next_char, bits, n_bits, count, reading, status>>
readerVars == <<pc, calls, depth, ss, length, value, ndigits, form, target, hint, built>>
mainVars == <<options, sw, phase, forms, printed, ret>>
vars == <<given, mainVars, outVars, streamVars, readerVars>>

(* The value of next_char before the first character: "this is not EOF". *)
NotYet == -2

(* Without arguments some switches are on. *)
Init ==
  /\ file \in Files /\ command \in Commands /\ options = command
  /\ sw = IF command = <<>> THEN {"a", "b", "c", "p", "x"} ELSE {}
  /\ phase = "options" /\ forms = <<>> /\ printed = <<>> /\ ret = -1
  /\ Out!Init
  /\ byte_size = 8 /\ next_char = SPACE /\ bits = 0 /\ n_bits = 0 /\ count = -1
  /\ reading = FALSE /\ status = "running"
  /\ pc = "done" /\ calls = <<>> /\ depth = 0 /\ built = <<>>
  /\ ss = <<>> /\ length = In!UMAX /\ value = 0 /\ ndigits = 0
  /\ form = "none" /\ target = "data" /\ hint = <<>>

Running(label) == In!Ready /\ ~os.failed /\ phase = label

Exit(code) == phase' = "exit" /\ ret' = code

-----------------------------------------------------------------------------
(* The loop over the arguments.                                            *)
Option(letters) ==
  /\ Running("options") /\ options # <<>>
  /\ Head(options).switch \in letters
  /\ options' = Tail(options)
  /\ UNCHANGED <<given, forms, printed, job, object, todo, frames, began, prints,
                 streamVars, readerVars>>

SetFlag ==
  /\ Option(Flags)
  /\ sw' = sw \cup {Head(options).switch}
  /\ UNCHANGED <<phase, ret, os>>

(* -w *)
SetWidth ==
  /\ Option({"w"})
  /\ os' = [os EXCEPT !.max_column = Head(options).operand]
  /\ UNCHANGED <<sw, phase, ret>>

(* -i and -o: set_input finds the stream as it is, set_output starts over. *)
OpenFile ==
  /\ Option({"i", "o"})
  /\ IF Head(options).operand = 1
       THEN os' = (IF Head(options).switch = "o" THEN Out!SetOutput ELSE os)
            /\ UNCHANGED <<phase, ret>>
       ELSE Exit(-1) /\ UNCHANGED os
  /\ UNCHANGED sw

Help == Option({"h"}) /\ Exit(0) /\ UNCHANGED <<sw, os>>

Unrecognized == Option({"unknown"}) /\ Exit(-1) /\ UNCHANGED <<sw, os>>

(* "must have some output format!" *)
(* A fault: the default is kept when another form is asked for. *)
WithFormAlways(letters) == letters \cup {"c"}

WithForm(letters) ==
  IF letters \cap {"a", "b", "c"} = {} THEN letters \cup {"c"} ELSE letters

(* The first character is read here, or in the loop, after the prompt. *)
EnterLoop ==
  /\ Running("options") /\ options = <<>>
  /\ sw' = WithForm(sw)
  /\ IF "p" \in sw
       THEN next_char' = NotYet /\ UNCHANGED <<byte_size, bits, n_bits, count, reading, status>>
       ELSE In!GetChar
  /\ phase' = "top"
  /\ UNCHANGED <<given, options, forms, printed, ret, outVars, readerVars>>

-----------------------------------------------------------------------------
(* The main loop.                                                          *)

(* What std::istream::get finds next in the file. *)
InputChar == IF count + 1 < Len(file.text) THEN file.text[count + 2] ELSE EOF

ReadChar ==
  /\ ~os.failed
  /\ In!ReadChar(InputChar)
  /\ UNCHANGED <<given, mainVars, outVars, readerVars>>

(* A fault: every turn of the loop reads its first character. *)
TopReads ==
  /\ Running("top")
  /\ IF next_char = EOF
       THEN Exit(0) /\ UNCHANGED streamVars
       ELSE /\ byte_size' = 8 /\ bits' = 0 /\ n_bits' = 0
            /\ reading' = TRUE
            /\ phase' = "blank"
            /\ UNCHANGED <<ret, next_char, count, status>>
  /\ UNCHANGED <<given, options, sw, forms, printed, outVars, readerVars>>

(* set_byte_size(8), and get_char in the first turn after a prompt. *)
Top ==
  /\ Running("top")
  /\ IF next_char = EOF
       THEN Exit(0) /\ UNCHANGED streamVars
       ELSE /\ byte_size' = 8 /\ bits' = 0 /\ n_bits' = 0
            /\ reading' = (next_char = NotYet)
            /\ phase' = "blank"
            /\ UNCHANGED <<ret, next_char, count, status>>
  /\ UNCHANGED <<given, options, sw, forms, printed, outVars, readerVars>>

(* skip_white_space, at the top and, without prompts, at the end. *)
SkipBlank ==
  /\ Running("blank") \/ Running("after")
  /\ next_char \in WhiteSpace
  /\ In!GetChar
  /\ UNCHANGED <<given, mainVars, outVars, readerVars>>

BeginObject ==
  /\ Running("blank") /\ next_char \notin WhiteSpace
  /\ IF next_char = EOF
       THEN Exit(0) /\ UNCHANGED <<pc, built>>
       ELSE /\ phase' = IF "s" \in sw THEN "eof" ELSE "object"
            /\ pc' = "object" /\ built' = <<>>
            /\ UNCHANGED ret
  /\ UNCHANGED <<given, options, sw, forms, printed, outVars, streamVars, calls, depth,
                 ss, length, value, ndigits, form, target, hint>>

(* scan_object *)
ScanObject ==
  /\ Running("object")
  /\ In!SkipWhiteSpace \/ In!Structure \/ In!Simple \/ In!Quoted
  /\ UNCHANGED <<given, mainVars, outVars>>

(* The letters among those of the three forms, in the order of their tests. *)
Selected(letters) ==
  LET one(f) == IF f \in letters THEN <<f>> ELSE <<>>
  IN one("c") \o one("b") \o one("a")

ObjectRead ==
  /\ Running("object") /\ In!Finished
  /\ phase' = "print" /\ forms' = Selected(sw)
  /\ UNCHANGED <<given, options, sw, printed, ret, outVars, streamVars, readerVars>>

(* scan_to_eof *)
ScanToEof ==
  /\ Running("eof")
  /\ IF next_char # EOF
       THEN In!Store(next_char) /\ In!GetChar /\ UNCHANGED <<phase, forms, built>>
       ELSE /\ built' = <<In!String(<<>>, ss)>> /\ ss' = <<>>
            /\ phase' = "print" /\ forms' = Selected(sw)
            /\ UNCHANGED streamVars
  /\ UNCHANGED <<given, options, sw, printed, ret, outVars, pc, calls, depth,
                 length, value, ndigits, form, target, hint>>

(* What a letter asks for. *)
Kind == [c |-> "canonical", b |-> "base64", a |-> "advanced"]

(* A fault: the stream is not set up again for base64 and advanced output. *)
PrintOnSameStream ==
  /\ Running("print") /\ forms # <<>>
  /\ Out!BeginPrinting(Kind[Head(forms)], built, os)
  /\ forms' = Tail(forms) /\ phase' = "printing"
  /\ UNCHANGED <<given, options, sw, printed, ret, streamVars, readerVars>>

(* print_canonical, or set_output and print_base64 or print_advanced. *)
PrintObject ==
  /\ Running("print") /\ forms # <<>>
  /\ Out!BeginPrinting(Kind[Head(forms)], built,
                       IF Head(forms) = "c" THEN os ELSE Out!SetOutput)
  /\ forms' = Tail(forms) /\ phase' = "printing"
  /\ UNCHANGED <<given, options, sw, printed, ret, streamVars, readerVars>>

Printing ==
  /\ Running("printing")
  /\ Out!Continue
  /\ IF job' = "idle"
       THEN /\ phase' = "print"
            /\ printed' = Append(printed, [kind |-> job, object |-> object, text |-> Out!Output'])
       ELSE UNCHANGED <<phase, printed>>
  /\ UNCHANGED <<given, options, sw, forms, ret, streamVars, readerVars>>

ObjectPrinted ==
  /\ Running("print") /\ forms = <<>>
  /\ CASE "x" \notin sw -> Exit(0)
       [] "x" \in sw /\ "p" \notin sw -> phase' = "after" /\ UNCHANGED ret
       [] "x" \in sw /\ "p" \in sw -> phase' = "top" /\ UNCHANGED ret
  /\ UNCHANGED <<given, options, sw, forms, printed, outVars, streamVars, readerVars>>

BlanksSkipped ==
  /\ Running("after") /\ next_char \notin WhiteSpace
  /\ phase' = "top"
  /\ UNCHANGED <<given, options, sw, forms, printed, ret, outVars, streamVars, readerVars>>

(* catch (sexp_exception_t &e) *)
Caught ==
  /\ status = "threw" \/ os.failed
  /\ phase # "exit" /\ Exit(-1)
  /\ UNCHANGED <<given, options, sw, forms, printed, outVars, streamVars, readerVars>>

Stopped == phase = "exit" /\ UNCHANGED vars

Main ==
  \/ SetFlag \/ SetWidth \/ OpenFile \/ Help \/ Unrecognized \/ EnterLoop
  \/ ReadChar \/ Top \/ SkipBlank \/ BeginObject \/ ScanObject \/ ObjectRead \/ ScanToEof
  \/ PrintObject \/ ObjectPrinted \/ BlanksSkipped
  \/ Caught \/ Stopped

Next == Main \/ Printing

(* The program is one thread that runs on.  The second conjunct is         *)
(* WF_vars(Printing), with the condition that enables it written out.      *)
Fairness ==
  /\ WF_vars(Main)
  /\ []<>(~Running("printing")) \/ []<><<Printing>>_vars

Spec == Init /\ [][Next]_vars /\ Fairness

-----------------------------------------------------------------------------
(* Properties.                                                             *)

(* What the help text says of a command line.                              *)
Letters == {command[i].switch : i \in DOMAIN command}
BadOption(o) == o.switch = "unknown" \/ (o.switch \in {"i", "o"} /\ o.operand = 0)
Stoppers == {i \in DOMAIN command : command[i].switch = "h" \/ BadOption(command[i])}

(* "Running without switches implies: -p -a -b -c -x"; "The output format  *)
(* is normally canonical" (sexp-main.cpp:59, 50; likewise sexpp.1:37 and   *)
(* tests.sh:124).  README.adoc:126-128 and 155-163 say otherwise, that -a  *)
(* is "enabled if no format is specified" and -c "disabled": the code does *)
(* not do that, and the properties below do not hold it to that.           *)
AskedFor ==
  CASE command = <<>> -> <<"canonical", "base64", "advanced">>
    [] command # <<>> /\ Letters \cap {"a", "b", "c"} = {} -> <<"canonical">>
    [] OTHER -> [i \in DOMAIN Selected(Letters) |-> Kind[Selected(Letters)[i]]]

Repeats == command = <<>> \/ "x" \in Letters

Asked ==
  CASE Stoppers # {} -> <<>>
    [] Stoppers = {} /\ "s" \in Letters -> file.whole
    [] Stoppers = {} /\ "s" \notin Letters /\ Repeats -> file.objects
    [] OTHER -> SubSeq(file.objects, 1, Min({1, Len(file.objects)}))

EndsWell ==
  CASE Stoppers # {} -> ~BadOption(command[Min(Stoppers)])
    [] Stoppers = {} /\ "s" \in Letters -> TRUE
    [] Stoppers = {} /\ "s" \notin Letters /\ Repeats -> file.sound
    [] OTHER -> file.sound \/ file.objects # <<>>

Abstract == INSTANCE Transcript WITH
  objects <- Asked,
  sound <- EndsWell,
  forms <- AskedFor,
  printed <- [i \in DOMAIN printed |-> <<printed[i].kind, printed[i].object>>],
  result <- IF phase # "exit" THEN "running" ELSE IF ret = 0 THEN "done" ELSE "failed"

(* main, the readers and the writers together, over any number of objects: *)
(* no object is lost, joined with the next or printed twice, whatever      *)
(* separates the two, whether or not the first character was read before   *)
(* the loop, and in spite of what each call leaves in the two streams; and *)
(* the program ends, with the exit code that the input deserves.           *)
TranscriptSpec == Abstract!Spec

(* set_output before two of the three forms: what is printed for an object *)
(* depends on the object and the form only, not on what was printed before *)
(* it.  Canonical output, printed on the stream as it is, is included as   *)
(* long as no other form is.                                               *)
SameTextEveryTime ==
  phase = "exit" => \A i, j \in DOMAIN printed :
    /\ printed[i].object = printed[j].object /\ printed[i].kind = printed[j].kind
    /\ printed[i].kind # "canonical" \/ sw \cap {"a", "b"} = {}
    => printed[i].text = printed[j].text

(* "reads one S-expression, prints it out again, and stops", or goes on    *)
(* with -x, and "more than one output format can be requested at once"     *)
(* (sexp-main.cpp:43-55): for every file and every command line, sound or  *)
(* not, what is printed are whole objects, each in all the forms of the    *)
(* command line, in turn, before the next; the last is left halfway only   *)
(* when the program fails, and without -x there is only one.               *)
EveryFormInTurn ==
  LET n == Len(AskedFor)
      turn(i) == (i - 1) % n
  IN /\ \A i \in DOMAIN printed :
          /\ In!IsObject(printed[i].object)
          /\ printed[i].kind = AskedFor[turn(i) + 1]
          /\ turn(i) > 0 => printed[i].object = printed[i - 1].object
     /\ Repeats \/ Len(printed) <= n
     /\ phase = "exit" /\ ret = 0 => Len(printed) % n = 0

(* "-w width -- changes line width to specified width"                     *)
(* (sexp-main.cpp:57).                                                     *)
WidthIsKept ==
  LET widths == {i \in DOMAIN command : command[i].switch = "w"}
  IN phase = "printing" /\ widths # {} => os.max_column = command[Max(widths)].operand

=============================================================================
