SPECIFICATION MCSpec
CONSTANTS
  laptop = laptop
  phone = phone
  script = script
  Client = {laptop, phone, script}
  KeepsCookies = {laptop}
  Limit = {0, 1}
  Mode = {"public", "protected"}
  MaxSessions = 2
  MaxConns = 1
  MaxInflight = 1
  MaxSockets = 1
  MaxInvites = 1
  MaxUses = 1
  AddressOf <- MCAddressOf
  FingerprintOf <- MCFingerprintOf
INVARIANTS
  OneJoinableSession
  ConnectedIsRemembered
  ProtectedMeansInvited
PROPERTIES
  LimitIsKept
  ConnectionsAreAdmitted
  InvitedByInvite
CHECK_DEADLOCK FALSE
