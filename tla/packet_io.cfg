SPECIFICATION Spec
CONSTANTS
  a = a
  b = b
  None = None
  NumIf = 3
  Frames = {a, b}
  Long = {b}
  HostOrders <- Orders
  NoAddress = {1}
  MaxQueue = 1
INVARIANTS TypeOK PortsAgree
PROPERTY ServedWhenQuiet
