\* The same: completions of a connection that was left.
CONSTANTS
  k1 = k1
  m1 = m1
  Connections = {c1, c2}
  Keys = {k1}
  KeyOf <- OneIdentity
  Models = {m1}
  Requests = {r1}
  None = None
  MaxFrames = 2
  MaxOutbound = 1
  Self = k1
  Offering = m1
  Ephemeral = FALSE
SPECIFICATION BridgeSpec
INVARIANTS
  StopsPaying
CHECK_DEADLOCK FALSE
