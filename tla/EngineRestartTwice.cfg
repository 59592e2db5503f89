SPECIFICATION Spec
CONSTANTS
  MaxDeployments = 1
  MaxInstances = 2
  MaxThreads = 2
  MaxListens = 2
  MaxRetries = 1
  RestartPolicy = "on-failure"
PROPERTIES
  RestartingIsRestarted
CHECK_DEADLOCK FALSE
