SPECIFICATION Spec
CONSTANTS
  MaxDeployments = 2
  MaxStarts = 3
  Requests = {"restoring", "up"}
INVARIANT LiveIsDesired
INVARIANT WantedIsLive
PROPERTY ForegroundEnds
CHECK_DEADLOCK FALSE
