-------------------------------- MODULE MCCli --------------------------------
(* Command lines with every option, and files of zero to three objects that
   are told apart by blanks, brackets or nothing, sound and unsound.       *)
EXTENDS Cli, Objects

Str(d) == <<String(<<>>, d)>>
A == <<97>>
List(s) == <<Opened>> \o s \o <<Closed>>
Quoted == <<123, 124, 32>>
LPA == <<LPAREN>>
RPA == <<RPAREN>>

(* {|blank in hexadecimal, and (a) in base64 braces *)
Hex == <<HASH, 55, 98, 55, 67, 50, 48, HASH>>
Braces == <<LBRACE, 75, 71, 69, 112, RBRACE>>

Trim(text) ==
  LET solid == {i \in DOMAIN text : text[i] \notin WhiteSpace}
  IN IF solid = {} THEN <<>> ELSE SubSeq(text, Min(solid), Len(text))

File(text, trees, good) ==
  [text |-> text, objects |-> trees, sound |-> good,
   whole |-> IF Trim(text) = <<>> THEN <<>> ELSE <<Str(Trim(text))>>]

(* The pieces of the files: the text of an object, and the object. *)
Items ==
  {[text |-> LPA \o A \o RPA, tree |-> List(Str(A))],
   [text |-> LPA \o A \o <<SPACE>> \o Hex \o RPA, tree |-> List(Str(A) \o Str(Quoted))],
   [text |-> Braces, tree |-> List(Str(A))],
   [text |-> Hex, tree |-> Str(Quoted)]}

Separators == {<<>>, <<NEWLINE>>, <<SPACE, NEWLINE, SPACE>>}
(* What follows the last object: nothing, blanks, or what is no object. *)
Tails == {[text |-> <<>>, good |-> TRUE], [text |-> <<SPACE, NEWLINE>>, good |-> TRUE],
          [text |-> RPA, good |-> FALSE], [text |-> <<SPACE>> \o LPA \o A, good |-> FALSE],
          [text |-> LPA \o LPA \o LPA \o LPA \o LPA, good |-> FALSE]}

MCFiles ==
  {File(t.text, <<>>, t.good) : t \in Tails}
  \cup {File(s \o x.text \o t.text, <<x.tree>>, t.good) : s \in {<<>>, <<SPACE>>}, x \in Items, t \in Tails}
  \cup {File(x.text \o s \o y.text \o t.text, <<x.tree, y.tree>>, t.good)
          : x, y \in Items, s \in Separators, t \in Tails}
  \cup {File(x.text \o y.text \o <<NEWLINE>> \o x.text, <<x.tree, y.tree, x.tree>>, TRUE)
          : x, y \in Items}
  \cup {File(A \o x.text \o A \o s, <<Str(A), x.tree, Str(A)>>, TRUE) : x \in Items, s \in Separators}

Opt(letter) == [switch |-> letter, operand |-> 0]
Width(n) == [switch |-> "w", operand |-> n]
Opens(letter) == [switch |-> letter, operand |-> 1]

MCCommands ==
  {<<>>, <<Opt("x")>>, <<Opt("a")>>, <<Opt("p"), Opt("b")>>,
   <<Opt("x"), Opt("a"), Opt("b")>>, <<Opt("p"), Opt("x"), Opt("a"), Opt("l")>>,
   <<Opt("s")>>, <<Opt("s"), Opt("x"), Opt("b")>>,
   <<Width(3), Opt("x"), Opens("o"), Opt("c")>>, <<Opens("i"), Width(0), Opt("x"), Opt("a")>>,
   <<Opt("h"), Opt("unknown")>>, <<Opt("a"), Opt("unknown"), Opt("h")>>, <<Opt("x"), Opt("i")>>}
=============================================================================
