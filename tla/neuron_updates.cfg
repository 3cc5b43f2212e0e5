SPECIFICATION Spec
CONSTANTS
  CtxIds = {0}
  Layers <- AnyLayers
  Loads <- AnyLoads
  Features <- AndShort
  Widths = {0, 1}
  Width = 3
  CoeffShift = 1
  IntWidth = 8
  MaxWidth = 5
  None = None
INVARIANTS TypeOK TableSound NothingCut
CHECK_DEADLOCK FALSE
