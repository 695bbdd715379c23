------------------------------ MODULE MCPrinter ------------------------------
(* Objects small enough to print together, whose strings take each of the
   four representations; hints, nesting and brackets in the strings.       *)
EXTENDS Printer

AB == <<97, 98>>
Blank == <<97, SPACE, 98>>
Number == <<49, 50>>
Brackets == <<LBRACE, BAR, HASH, RBRACE>>
Long == <<0, 255, 16, LBRACE, 255>>

Str(d) == String(<<>>, d)
Strings == {Str(<<>>), Str(AB), Str(Blank), Str(Number), Str(Brackets), Str(Long),
            String(<<AB>>, Long), String(<<Blank>>, Brackets)}

(* All objects of at most n events of a set. *)
ObjectsOf(events, n) == {t \in UNION {[1..k -> events] : k \in 1..n} : IsObject(t)}

MCTrees == ObjectsOf({Opened, Closed} \cup Strings, 3)
             \cup ObjectsOf({Opened, Closed, Str(AB), Str(Brackets)}, 5)
             \cup ObjectsOf({Opened, Closed}, 6)
FewTrees == ObjectsOf({Opened, Closed, Str(AB), Str(Long), String(<<AB>>, Brackets)}, 5)
NestTrees == ObjectsOf({Opened, Closed, Str(AB)}, 7)
MCWidths == {0, 5, 9}
MCKinds == {"canonical", "base64", "advanced"}
=============================================================================
