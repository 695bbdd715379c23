------------------------------ MODULE SexpChars ------------------------------
(***************************************************************************)
(* The octet classes of sexp_char_defs_t and the digit values of its       *)
(* tables.  A character is its octet code, as in the code; EOF is -1.      *)
(* Classes are sets, so that a test of the code, is_token_char(c), is the  *)
(* membership c \in TokenChars.                                            *)
(***************************************************************************)
EXTENDS Integers

Octets == 0..255
EOF == -1

NEWLINE == 10
RETURN == 13
SPACE == 32
DQUOTE == 34          \* "
HASH == 35            \* #
QUOTE == 39           \* '
LPAREN == 40          \* (
RPAREN == 41          \* )
COLON == 58           \* :
EQUALS == 61          \* =
LBRACKET == 91        \* [
BACKSLASH == 92       \* \
RBRACKET == 93        \* ]
LBRACE == 123         \* {
BAR == 124            \* |
RBRACE == 125         \* }

(* std::isspace and std::isdigit in the "C" locale. *)
WhiteSpace == (9..13) \cup {SPACE}
DecDigits == 48..57
Upper == 65..90
Lower == 97..122

HexDigits == DecDigits \cup (65..70) \cup (97..102)
Base64Digits == DecDigits \cup Upper \cup Lower \cup {43, 47}
(* A fault of the table: the colon is missing. *)
TokenCharsNoColon == DecDigits \cup Upper \cup Lower
                       \cup {42, 43, 45, 46, 47, EQUALS, 95}

(* Letters, digits and * + - . / : = _ *)
TokenChars == DecDigits \cup Upper \cup Lower
                \cup {42, 43, 45, 46, 47, COLON, EQUALS, 95}

(* The three columns of the table "values"; 0 for what is no digit. *)
DecValue(c) == IF c \in DecDigits THEN c - 48 ELSE 0

HexValue(c) ==
  CASE c \in DecDigits -> c - 48
    [] c \in 65..70    -> c - 55
    [] c \in 97..102   -> c - 87
    [] OTHER           -> 0

Base64Value(c) ==
  CASE c \in Upper     -> c - 65
    [] c \in Lower     -> c - 71
    [] c \in DecDigits -> c + 4
    [] c = 43          -> 62
    [] c = 47          -> 63
    [] OTHER           -> 0

(* The digits the writer uses, hexDigits[v] and base64Digits[v]. *)
HexDigit(v) == IF v < 10 THEN v + 48 ELSE v + 55

Base64Digit(v) ==
  CASE v < 26 -> v + 65
    [] v \in 26..51 -> v + 71
    [] v \in 52..61 -> v - 4
    [] v = 62 -> 43
    [] OTHER -> 47

=============================================================================
