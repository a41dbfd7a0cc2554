SPECIFICATION FairSpec
CONSTANTS
  Clients = {activity}
  Activities = {activity}
  OldAndroid = TRUE
  AsyncConfig = TRUE
  LateSubscribe = TRUE
  EarlyRestart = TRUE
  MaxCommands = 3
  MaxRestarts = 1
  MaxCoreEvents = 1
CHECK_DEADLOCK FALSE
PROPERTY StopEndsInDestroy
