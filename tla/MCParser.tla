------------------------------- MODULE MCParser -------------------------------
(* Parser with the alphabets of the runs: each exercises one part of the
   grammar to a useful length of input.                                    *)
EXTENDS Parser

(* all brackets, space, hexadecimal digits that spell # and "3" (2 3), and
   base64 digits that spell "()" (K C k) *)
RegionAlphabet == {LPAREN, RPAREN, LBRACKET, RBRACKET, LBRACE, RBRACE, BAR, HASH, SPACE,
                   50, 51, 67, 75, 107}

(* 0 1 7 " : # | \ x n, line feed and carriage return: lengths, escapes *)
StringAlphabet == {48, 49, 55, DQUOTE, COLON, HASH, BAR, BACKSLASH, LETTER_X, 110,
                   NEWLINE, RETURN}
=============================================================================
