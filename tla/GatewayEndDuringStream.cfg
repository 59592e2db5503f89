SPECIFICATION Spec
CONSTANTS
  laptop = laptop
  phone = phone
  script = script
  Client = {laptop}
  KeepsCookies = {laptop}
  Limit = {0, 1}
  Mode = {"public"}
  MaxSessions = 1
  MaxConns = 1
  MaxInflight = 1
  MaxSockets = 1
  MaxInvites = 0
  MaxUses = 1
  AddressOf <- MCAddressOf
  FingerprintOf <- MCFingerprintOf
INVARIANTS
  EndedMeansDisconnected
CHECK_DEADLOCK FALSE
