SPECIFICATION Spec
CONSTANTS
  WordMod = 65536
  Alphabet <- StringAlphabet
  MaxInput = 6
  WarningsThrow = FALSE
  MaxDepth = 1
  MaxVerbatim = 3
  DigitLimit = 2
INVARIANT QuotedLengthHolds
