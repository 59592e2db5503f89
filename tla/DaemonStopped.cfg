SPECIFICATION Spec
CONSTANTS
  MaxDeployments = 3
  MaxStarts = 2
  Requests = {"up"}
INVARIANT StoppedStaysStopped
CHECK_DEADLOCK FALSE
