SPECIFICATION FairSpec
CONSTANTS
  Clients = {c1}
  Pausable = {c1}
  MaxBinds = 3
  MaxInbox = 2
  Faults = {"pause_in_restart"}
PROPERTY RestartCompletes
CHECK_DEADLOCK FALSE
