------------------------------- MODULE Objects -------------------------------
(***************************************************************************)
(* sexp_object_t.  An object is represented by its traversal: a list is    *)
(* the event Opened, the traversals of its elements in order, and Closed;  *)
(* a sexp_string_t is one event with its octets and, if it has one, its    *)
(* presentation hint.                                                      *)
(***************************************************************************)
EXTENDS SexpChars, SequencesExt

Opened == [kind |-> "open"]
Closed == [kind |-> "close"]
Events == {Opened, Closed}
            \cup [kind : {"string"}, hint : Seq(Seq(Octets)), data : Seq(Octets)]

(* The event of a string, with hint <<>> or <<the presentation hint>>. *)
String(hint, data) == [kind |-> "string", hint |-> hint, data |-> data]

Count(seq, e) == Cardinality({i \in DOMAIN seq : seq[i] = e})

(* The lists a traversal leaves open. *)
Unclosed(events) == Count(events, Opened) - Count(events, Closed)

(* A traversal is one object: only its last event closes what it opens. *)
IsObject(events) ==
  /\ events # <<>>
  /\ Unclosed(events) = 0
  /\ \A k \in 1..(Len(events) - 1) : Unclosed(SubSeq(events, 1, k)) > 0

=============================================================================
