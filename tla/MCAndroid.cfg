SPECIFICATION AndroidSpec
CONSTANTS
  MaxCommands = 2
  Period = 2
  MaxBuckets = 3
  MaxTime = 9
  MaxRunAttempts = 1
  MaxUploads = 3
  MaxChanges = 3
  Logs = {a, b, c}
  Errors = {a, b}
  MaxRetries = 2
  Threshold = 3
  Callers = {"receiver", "service", "tunnel", "handler", "worker"}
  MaxVersion = 3
  MaxBad = 1
  MaxCrashes = 1
  MaxStarts = 1
  MaxOverlaps = 1
INVARIANTS StopSafe StatsSafe FeedbackSafe LogSafe UpgradeSafe
PROPERTIES EverythingEnds LatestIsInstalled
CHECK_DEADLOCK FALSE
