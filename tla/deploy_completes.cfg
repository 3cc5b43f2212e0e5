SPECIFICATION DeploySpec
CONSTANTS
  f = f
  g = g
  e1 = e1
  c1 = c1
  c2 = c2
  NumProcs = 2
  NumTables = 1
  NumActions = 2
  NumLevels = 1
  NumEntries = 1
  NumRows = 1
  ProcsPerCluster = 2
  NumBlocks = 2
  MaxExps = 1
  Flows = {f, g}
  RowOf <- MCRowOf
  ZeroKey = f
  Ports = {e1}
  None = None
  Clients = {c1, c2}
  Requests <- Inserts
  MissActs = {0}
  Controller = c1
  Configs <- AllConfigs
  MaxDeployments = 2
  MaxFailures = 1
  EarlyTraffic = TRUE
INVARIANT InstalledWhenDone
PROPERTIES ColdStartSafe 
CHECK_DEADLOCK FALSE
