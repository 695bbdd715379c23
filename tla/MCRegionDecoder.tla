--------------------------- MODULE MCRegionDecoder ---------------------------
(* The region decoder over an alphabet with digits of both kinds (1 f / A),
   a digit of base64 only (z), white space, padding and all terminators.   *)
EXTENDS RegionDecoder

MCAlphabet == {SPACE, HASH, 47, 49, EQUALS, 65, 102, 122, BAR, RBRACE}
=============================================================================
