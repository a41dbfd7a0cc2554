SPECIFICATION Spec
CONSTANTS
  Locals = {l1, l2}
  Remotes = {r1, r2}
  MaxConnections = 2
  SendBufferSize = 1
  ServerConnections = 1
  MaxWire = 1
SYMMETRY AddressSymmetry
INVARIANTS TablesSafe WayBack OwnSocket
CHECK_DEADLOCK FALSE
