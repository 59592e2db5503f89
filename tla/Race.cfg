SPECIFICATION Spec
CONSTANTS
  None = None
  Daemon = {d1, d2, d3}
  Cli = {c1, c2}
SYMMETRY Symmetry
INVARIANTS
  Discoverable
  HostsAlone
PROPERTIES
  SessionsAreKept
  JoinsTheWinner
CHECK_DEADLOCK FALSE
