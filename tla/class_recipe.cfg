SPECIFICATION ReloadSpec
CONSTANTS
  CtxIds = {0}
  Layers <- OneNone
  Loads <- SameWidth
  Features <- TwoWords
  Widths = {1}
  Width = 3
  CoeffShift = 1
  IntWidth = 8
  MaxWidth = 5
  None = None
INVARIANT RecipeClassifies
