SPECIFICATION FairSpec
CONSTANTS
  TunnelThread = tunnel
  Routers = {main, config}
  NoThread = nobody
  MaxStarts = 3
  MaxSessions = 2
INVARIANTS
  TypeOK
  SingleInstance
  TerminateAddressed
  Quiescent
  NoDroppedDescriptor
PROPERTIES
  ImplementsInterface
  StopOfRunningReturns
