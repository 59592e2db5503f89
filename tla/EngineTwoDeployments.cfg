SPECIFICATION Spec
CONSTANTS
  MaxDeployments = 2
  MaxInstances = 2
  MaxThreads = 2
  MaxListens = 2
  MaxRetries = 1
  RestartPolicy = "on-failure"
INVARIANTS
  TypeOK
  OneDeploymentAtATime
  OneProcessPerDeployment
  ForwardsOnlyWhenServing
  LiveIsReachable
PROPERTIES
  StopIsFinal
  StopsAfterTheProcess
  FinishedRowsStay
CHECK_DEADLOCK FALSE
