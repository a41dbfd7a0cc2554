SPECIFICATION FairSpec
CONSTANTS
  Clients = {activity}
  Activities = {activity}
  OldAndroid = FALSE
  AsyncConfig = FALSE
  LateSubscribe = TRUE
  EarlyRestart = FALSE
  MaxCommands = 3
  MaxRestarts = 1
  MaxCoreEvents = 2
CHECK_DEADLOCK FALSE
INVARIANTS
  TypeOK
  ReportIsCurrent
  ConnectedMeansForwarding
  RelayMirrorsRouting
  DestroyedIsQuiescent
PROPERTY ConnectedIsActedOn
