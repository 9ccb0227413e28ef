\* Two sockets of one identity and one agent.
CONSTANTS
  c1 = c1
  c2 = c2
  k1 = k1
  Connections = {c1, c2}
  Keys = {k1}
  KeyOf <- OneIdentity
  Names = {1}
  None = None
  DbMayFail = TRUE
  MaxOutbound = 1
SPECIFICATION Spec
SYMMETRY Symmetry
PROPERTIES
  OfflineOnlyByItsOwnLink
CHECK_DEADLOCK FALSE
