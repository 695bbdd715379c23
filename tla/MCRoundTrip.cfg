SPECIFICATION Spec
CONSTANTS
  WordMod = 65536
  MaxDepth = 4
  MaxVerbatim = 100
  DigitLimit = 3
  WarningsThrow = FALSE
  DefaultWidth = 7
  Trees <- MCTrees
  Kinds <- MCKinds
  Widths <- MCWidths
PROPERTY ReadsBack
