SPECIFICATION Spec
CONSTANTS
  WordMod = 65536
  MaxDepth = 2
  DefaultWidth = 7
  Trees <- FewTrees
  Kinds <- MCKinds
  Widths = {5}
  MaxPrints = 2
INVARIANT CanonicalIsStandard
