------------------------------ MODULE RoundTrip ------------------------------
(***************************************************************************)
(* The writer and the reader together, as in a program that reads what it  *)
(* has written: one object is printed in one of the three forms, with some *)
(* line width, and scan_object then reads the output.                      *)
(***************************************************************************)
EXTENDS Integers, Sequences

CONSTANTS
  WordMod, MaxDepth, MaxVerbatim, DigitLimit, WarningsThrow,
  Trees, Kinds, Widths, DefaultWidth

VARIABLES
  os, job, object, todo, frames, began, prints,
  byte_size, next_char, bits, n_bits, count, reading, status,
  pc, calls, depth, ss, length, value, ndigits, form, target, hint, built

Out == INSTANCE Printer WITH MaxPrints <- 1

(* The reader's input is the output, below: its own choice is not used. *)
In == INSTANCE Parser WITH Alphabet <- {}, MaxInput <- 0

outVars == <<os, job, object, todo, frames, began, prints>>
inVars == <<byte_size, next_char, bits, n_bits, count, reading, status,
            pc, calls, depth, ss, length, value, ndigits, form, target, hint, built>>
vars == <<outVars, inVars>>

Init == Out!Init /\ In!Init

Printed == job = "idle" /\ prints = 1

Write ==
  /\ ~Printed
  /\ Out!SetMaxColumn \/ Out!Begin \/ Out!Continue
  /\ UNCHANGED inVars

(* The raw character that read_char gets next: std::istream on the output. *)
InputChar == IF count + 1 < Len(os.out) THEN os.out[count + 2] ELSE In!EOF

Read ==
  /\ Printed
  /\ \/ In!ReadChar(InputChar) /\ UNCHANGED <<pc, calls, depth, ss, length, value, ndigits, form, target, hint, built>>
     \/ In!SkipWhiteSpace
     \/ In!Structure
     \/ In!Simple
     \/ In!Quoted
     \/ In!Stopped
  /\ UNCHANGED outVars

Next == Write \/ Read

(* One thread prints and reads; a client that has decided to print prints. *)
Spec == Init /\ [][Next]_vars /\ WF_vars(Read)

-----------------------------------------------------------------------------
(* print_canonical, print_base64 and print_advanced against scan_object:   *)
(* whatever the form, the line width, the brackets, blanks and octets in   *)
(* strings and hints, reading comes to an end without an error or a thrown *)
(* warning, gives back the object and leaves nothing of the output unread. *)
ReadsBack == Printed ~> In!Finished /\ built = object /\ next_char = In!EOF

=============================================================================
