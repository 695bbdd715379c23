SPECIFICATION Spec
CONSTANTS
  WordMod = 65536
  MaxDepth = 2
  DefaultWidth = 7
  Trees <- MCTrees
  Kinds <- MCKinds
  Widths <- MCWidths
  MaxPrints = 2
INVARIANTS TypeOK CanonicalIsExact RegionIsPadded Base64FitsLine ColumnTracksOutput OnlyDepthFails CanonicalDepthIsNesting
PROPERTY RoomIsNotNegative
