------------------------------- MODULE Nesting -------------------------------
(***************************************************************************)
(* What sexp_depth_manager promises its streams: "maximum allowed nesting  *)
(* of sexp lists".  Lists are entered and left one level at a time, never  *)
(* more than Limit at once, and an object is accepted only when every list *)
(* of it has been left; it may be rejected at any moment.                  *)
(***************************************************************************)
EXTENDS Integers

CONSTANT Limit   \* a natural number

VARIABLES
  level,     \* lists entered and not yet left
  outcome    \* "running", "accepted" or "rejected"

nesting == <<level, outcome>>

Init == level = 0 /\ outcome = "running"

Enter ==
  /\ outcome = "running"
  /\ level < Limit
  /\ level' = level + 1
  /\ UNCHANGED outcome

(* Leaving the outermost list may complete the object. *)
Leave ==
  /\ outcome = "running"
  /\ level > 0
  /\ level' = level - 1
  /\ outcome' \in {"running"} \cup (IF level' = 0 THEN {"accepted"} ELSE {})

Accept ==
  /\ outcome = "running"
  /\ level = 0
  /\ outcome' = "accepted"
  /\ UNCHANGED level

(* The counter has already been stepped when a list is one too many. *)
Reject ==
  /\ outcome = "running"
  /\ outcome' = "rejected"
  /\ level' \in {level, level + 1}

Next == Enter \/ Leave \/ Accept \/ Reject

Spec == Init /\ [][Next]_nesting

=============================================================================
