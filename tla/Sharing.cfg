SPECIFICATION MCSpec
CONSTANTS
  Caller = {"cli", "popup"}
  MaxTunnels = 3
  Address = {1, 2}
  MaxLaunches = 2
INVARIANTS
  PublicLinkIsExposure
  NoStrayTunnel
PROPERTIES
  LinkFollowsNetwork
CHECK_DEADLOCK FALSE
