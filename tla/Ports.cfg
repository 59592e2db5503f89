SPECIFICATION Spec
CONSTANTS
  Project = {shop, blog}
  Nobody = Nobody
  MaxPort = 2
  Low = 1
  High = 2
  ScanSpan = 1
  Avoid = {1}
  GraceRetries = 1
  MaxListens = 2
  Preferred = {1}
  MaxRuns = 2
  MaxEvents = 1
  MaxBusy = 1
PROPERTIES
  ImplementsPortTable
  KeepsItsPort
  MissesNoFreePort
SYMMETRY MCProjects
CHECK_DEADLOCK FALSE
