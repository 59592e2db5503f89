SPECIFICATION Spec
CONSTANTS
  FailureThreshold = 3
  SuccessThreshold = 2
  MaxLaunches = 2
  MaxFails = 1
INVARIANTS
  HealthIsReported
PROPERTIES
  HysteresisKept
  LiveIsProbed
CHECK_DEADLOCK FALSE
