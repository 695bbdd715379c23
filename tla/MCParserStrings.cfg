SPECIFICATION Spec
CONSTANTS
  WordMod = 65536
  Alphabet <- StringAlphabet
  MaxInput = 5
  WarningsThrow = FALSE
  MaxDepth = 1
  MaxVerbatim = 3
  DigitLimit = 3
INVARIANT SomeLengthForVerbatim
PROPERTIES EndIsNoOctet EscapesAreExact LengthNeverWraps
