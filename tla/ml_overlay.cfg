SPECIFICATION Spec
CONSTANTS
  ProcessorCount = 12
  OverlayCount = 16
  Models <- AllModels
INVARIANTS TypeOK StagesBalanced ChunksPartition HiddenDisjoint
CHECK_DEADLOCK FALSE
