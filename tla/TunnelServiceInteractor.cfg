SPECIFICATION Spec
CONSTANTS
  Clients = {c1, c2}
  Pausable = {c1}
  MaxBinds = 2
  MaxInbox = 1
  Faults = {"redelivery", "early_end", "pause_in_restart"}
INVARIANT InteractorSafe
PROPERTY NoStopIgnored
CHECK_DEADLOCK FALSE
