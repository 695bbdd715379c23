------------------------------- MODULE MCExtKey -------------------------------
(* Files for ExtKey: files written in every layout from a field and a key,
   files with the key wrapped anywhere, and arbitrary files.               *)
EXTENDS ExtKey, Objects

LF == <<NEWLINE>>
Ends == {LF, <<RETURN>>, <<RETURN, NEWLINE>>}
CommentLine == <<SPACE, HASH, 40>>

Opening == <<40, 97>>
A == String(<<>>, <<97>>)
Keys ==
  {[text |-> <<40, 97, 41>>, tree |-> <<Opened, A, Closed>>],
   [text |-> <<40, 97, SPACE, HASH, 54, 49, HASH, 41>>, tree |-> <<Opened, A, A, Closed>>]}
KeyNames == {<<75, 101, 121>>, <<107, 69, 89>>}
Field == [name |-> <<97, 45>>, value |-> <<118, SPACE, HASH, 119>>]

(* The value of a line, wrapped after its first i characters, where there  *)
(* may be comments too; the whole value and comments when i is its length. *)
Wrapped(v, i, comments, eol) ==
  SubSeq(v, 1, i)
    \o FlattenSeq([k \in 1..comments |-> eol \o CommentLine])
    \o (IF i = Len(v) THEN <<>> ELSE eol \o <<SPACE>> \o SubSeq(v, i + 1, Len(v)))

Line(n, v) == n \o <<COLON, SPACE>> \o v

(* Where a value may be wrapped so that the code reads it back. *)
Places(v) == {i \in 0..Len(v) : i = Len(v) \/ v[i + 1] # HASH}

Document(kind, text, pairs, tree) == [kind |-> kind, text |-> text, fields |-> pairs, key |-> tree]

FileText(first, second, eol, ended) == first \o eol \o second \o (IF ended THEN eol ELSE <<>>)

WrittenWith(key) ==
  {LET keyLine == Line(keyName, Wrapped(key.text, i, n, eol))
       fieldLine == Line(Field.name, Wrapped(Field.value, j, n, eol))
   IN Document("written",
               IF keyFirst THEN FileText(keyLine, fieldLine, eol, ended)
                           ELSE FileText(fieldLine, keyLine, eol, ended),
               << <<Field.name, Field.value>> >>, key.tree)
     : keyName \in KeyNames, eol \in Ends, n \in 0..2,
       i \in Places(key.text), j \in Places(Field.value),
       keyFirst \in BOOLEAN, ended \in BOOLEAN}

Written == UNION {WrittenWith(key) : key \in Keys}

Bare == {Document("written", key.text \o e, <<>>, key.tree) : key \in Keys, e \in Ends \cup {<<>>}}

WrappedAt(places) ==
  {Document("wrapped", Line(keyName, Wrapped(key.text, i, n, eol)) \o eol, <<>>, key.tree)
     : keyName \in KeyNames, key \in Keys, eol \in Ends, n \in 0..1, i \in places}

Pieces == {<<75, 101, 121, COLON>>, <<65, COLON>>, Opening, <<41>>, <<HASH>>, LF, <<SPACE>>}
Mixtures == {FlattenSeq(s) : s \in UNION {[1..k -> Pieces] : k \in 0..5}}
Twice ==
  {Line(k1, Opening \o <<41>>) \o eol \o m \o Line(k2, Opening \o <<41>>)
     : k1, k2 \in KeyNames, eol \in Ends, m \in {<<>>, Line(<<65>>, <<65>>) \o LF, Opening}}
Raw5 == {Document("raw", t, <<>>, <<>>) : t \in Mixtures \cup Twice}

MCDocuments == Written \cup Bare \cup Raw5
WrappedDocuments == WrappedAt(0..3)
=============================================================================
