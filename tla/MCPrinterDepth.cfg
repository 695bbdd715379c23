SPECIFICATION Spec
CONSTANTS
  WordMod = 65536
  MaxDepth = 2
  DefaultWidth = 7
  Trees <- NestTrees
  Kinds = {"advanced"}
  Widths = {5}
  MaxPrints = 1
INVARIANT DepthIsOpenLists
