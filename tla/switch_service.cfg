SPECIFICATION FairHitlessSpec
CONSTANTS
  f = f
  g = g
  e1 = e1
  c1 = c1
  c2 = c2
  NumProcs = 2
  NumTables = 1
  NumActions = 2
  NumLevels = 1
  NumEntries = 1
  NumRows = 1
  ProcsPerCluster = 2
  NumBlocks = 1
  MaxExps = 1
  Flows = {f, g}
  RowOf <- MCRowOf
  ZeroKey = f
  Ports = {e1}
  None = None
  Clients = {c1}
  Requests <- ServiceRequests
  MissActs = {0}
INVARIANTS StaysAlive OwnParameters
PROPERTY PacketLeaves
