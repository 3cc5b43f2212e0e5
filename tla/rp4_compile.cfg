SPECIFICATION Spec
CONSTANTS
  ClusterCount = 2
  ClusterProcCount = 2
  SramCount = 6
  TcamCount = 3
  MaxLevel = 2
  Programs <- AllPrograms
  WildIds <- WildNumbers
  WildBlocks = {0, 1}
  UpdateActs = {1, 8}
INVARIANTS TypeOK WalkPreserved LevelsInTime MemorySound PlacedOrReported UpdateReachesTable
PROPERTY ExistingStay
CHECK_DEADLOCK FALSE
