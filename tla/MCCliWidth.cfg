SPECIFICATION Spec
CONSTANTS
  WordMod = 65536
  MaxDepth = 4
  MaxVerbatim = 30
  DigitLimit = 3
  WarningsThrow = FALSE
  DefaultWidth = 7
  Files <- MCFiles
  Commands <- MCCommands
INVARIANT WidthIsKept
