SPECIFICATION Spec
CONSTANTS
  MaxDeployments = 1
  MaxInstances = 1
  MaxThreads = 1
  MaxListens = 2
  MaxRetries = 1
  RestartPolicy = "on-failure"
INVARIANTS
  LiveMeansRunning
CHECK_DEADLOCK FALSE
