SPECIFICATION Spec
CONSTANTS
  WordMod = 65536
  MaxDepth = 0
  MaxVerbatim = 3
  DigitLimit = 2
  WarningsThrow = FALSE
  MaxText = 60
  Documents <- MCDocuments
INVARIANTS ReadsWritten KeyIsComplete
PROPERTIES KeyIsNeverReplaced Termination
