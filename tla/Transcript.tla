------------------------------ MODULE Transcript ------------------------------
(***************************************************************************)
(* What the program "sexp" is for: every object of its input, in order, is *)
(* printed in every form that was asked for, and then the program ends, in *)
(* failure if the input did not end after its last object.                 *)
(***************************************************************************)
EXTENDS Integers, Sequences

VARIABLES
  objects,   \* the objects of the input; this and the next two never change
  sound,     \* nothing but blanks follows them
  forms,     \* the forms asked for
  printed,   \* what has been printed: pairs of form and object
  result     \* "running", "done" or "failed"

given == <<objects, sound, forms>>
transcript == <<given, printed, result>>

Init == printed = <<>> /\ result = "running"

Wanted == Len(objects) * Len(forms)

(* The n-th print, counted from 0. *)
Nth(n) == <<forms[(n % Len(forms)) + 1], objects[(n \div Len(forms)) + 1]>>

PrintNext ==
  /\ result = "running" /\ Len(printed) < Wanted
  /\ printed' = Append(printed, Nth(Len(printed)))
  /\ UNCHANGED <<given, result>>

End ==
  /\ result = "running" /\ Len(printed) = Wanted
  /\ result' = IF sound THEN "done" ELSE "failed"
  /\ UNCHANGED <<given, printed>>

Next == PrintNext \/ End

(* It runs to its end. *)
Spec == Init /\ [][Next]_transcript /\ <>(result # "running")

=============================================================================
