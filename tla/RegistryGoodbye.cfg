SPECIFICATION Spec
CONSTANTS
  Node = {b}
  MaxRev = 1
  MaxLives = 2
  MaxAddrs = 1
  MaxFailures = 0
  Fetch = {f1}
CHECK_DEADLOCK FALSE
PROPERTY AwayUntilAnnounced
