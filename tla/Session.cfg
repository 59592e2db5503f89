SPECIFICATION SessionSpec
CONSTANTS
  MaxRestarts = 1
INVARIANT
  ClosingNeverStops
PROPERTY
  EndsWithDeployment
CHECK_DEADLOCK FALSE
