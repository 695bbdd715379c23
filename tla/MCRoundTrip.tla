----------------------------- MODULE MCRoundTrip -----------------------------
(* RoundTrip over objects whose strings take each representation, hold each
   bracket, and fill the last group of a region to each length.            *)
EXTENDS RoundTrip, Objects

Str(d) == String(<<>>, d)
AB == <<97, 98>>
Blank == <<97, SPACE, 98, SPACE, SPACE, 99>>
Number == <<49, 50>>
Brackets == <<LBRACE, BAR, HASH, RBRACE>>
Lines == <<NEWLINE, BACKSLASH, RETURN, DQUOTE, LPAREN>>
Six == <<RBRACE, 255, BAR, HASH, 0, NEWLINE>>
Seven == <<255, 254, 253, 252, 251, 250, 249>>

Hints == {<<>>, <<AB>>, <<Blank>>, <<Brackets>>, <<Six>>}
Data == {AB, Blank, Number, Brackets, Lines, Six, Seven}
AllStrings == {String(h, d) : h \in Hints, d \in Data}
EmptyStrings == {Str(<<>>), String(<< <<>> >>, AB), Str(AB)}

(* All objects of at most n events of a set. *)
ObjectsOf(events, n) == {t \in UNION {[1..k -> events] : k \in 1..n} : IsObject(t)}

StringTrees == ObjectsOf({Opened, Closed} \cup AllStrings, 3)
ListTrees == ObjectsOf({Opened, Closed, Str(AB), Str(Six), String(<<Number>>, Blank)}, 5)
EmptyTrees == ObjectsOf({Opened, Closed} \cup EmptyStrings, 5)
MCTrees == StringTrees \cup ListTrees \cup EmptyTrees

MCWidths == {0, 1, 3, 4, 6, 11}
MCKinds == {"canonical", "base64", "advanced"}
=============================================================================
