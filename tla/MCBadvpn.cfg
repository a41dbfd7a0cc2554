SPECIFICATION Spec
CONSTANTS
  Flows = {1, 2, 3}
  MaxTime = 4
  Mtu = 1
  PacketWeight = 1
  BlockSize = 2
  InputMtu = 2
  NumPackets = 2
  Packets = {a, b}
  HeaderSize = 2
  OutputMtu = 2
  Lengths = {0, 1, 2, 3}
  MaxPackets = 5
  Jobs = {j, d}
  DeviceJobs = {d}
  Timers = {t, u}
  Fds = {f, g}
  Null = Null
  After = {1, 2}
  Limit = 1
  MaxLate = 1
  IoLimit = 1
  Room = 1
  MaxArrivals = 2
  MaxInits = 2
  PacketLengths = {2, 3}
  MaxSent = 3
  MaxStreams = 3
INVARIANTS QueueSafe PacketsSafe ReactorSafe ConnectionSafe
PROPERTY NobodyStarves
CHECK_DEADLOCK FALSE
