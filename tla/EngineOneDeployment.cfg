SPECIFICATION Spec
CONSTANTS
  MaxDeployments = 1
  MaxInstances = 3
  MaxThreads = 3
  MaxListens = 2
  MaxRetries = 1
  RestartPolicy = "on-failure"
PROPERTIES
  AlwaysSettles
  StopCompletes
CHECK_DEADLOCK FALSE
