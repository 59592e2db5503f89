SPECIFICATION Spec
CONSTANTS
  Node = {b}
  MaxRev = 2
  MaxLives = 2
  MaxAddrs = 2
  MaxFailures = 1
  Fetch = {f1, f2}
CHECK_DEADLOCK FALSE
INVARIANTS OneFetchPerNode
PROPERTIES NewestWins KeepsUp
