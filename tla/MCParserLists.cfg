SPECIFICATION Spec
CONSTANTS
  WordMod = 65536
  Alphabet <- RegionAlphabet
  MaxInput = 6
  WarningsThrow = TRUE
  MaxDepth = 2
  MaxVerbatim = 3
  DigitLimit = 2
INVARIANTS TypeOK HexOnlyInHexString DepthIsNesting TreeMirrorsCalls
PROPERTIES Termination NestingSpec EndIsNoOctet
