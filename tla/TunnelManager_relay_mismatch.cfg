SPECIFICATION Spec
CONSTANTS
  Clients = {activity}
  Activities = {activity}
  OldAndroid = FALSE
  AsyncConfig = TRUE
  LateSubscribe = FALSE
  EarlyRestart = FALSE
  MaxCommands = 2
  MaxRestarts = 1
  MaxCoreEvents = 2
CHECK_DEADLOCK FALSE
INVARIANT RelayMirrorsRouting
