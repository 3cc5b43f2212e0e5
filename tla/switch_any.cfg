SPECIFICATION Spec
CONSTANTS
  f = f
  g = g
  e1 = e1
  c1 = c1
  c2 = c2
  NumProcs = 2
  NumTables = 1
  NumActions = 1
  NumLevels = 1
  NumEntries = 1
  NumRows = 1
  ProcsPerCluster = 2
  NumBlocks = 1
  MaxExps = 1
  Flows = {f, g}
  RowOf <- MCRowOf
  ZeroKey = f
  Ports = {e1}
  None = None
  Clients = {c1}
  Requests <- AnyRequests
  MissActs = {0}
INVARIANTS TypeOK DropIsFinal DrainsWithinOneAction
PROPERTY Forwards
CHECK_DEADLOCK FALSE
