SPECIFICATION Spec
CONSTANTS
  WordMod = 65536
  Alphabet <- MCAlphabet
  MaxInput = 6
  WarningsThrow = TRUE
INVARIANTS TypeOK ExactDecoding
PROPERTY NoDataDropped
