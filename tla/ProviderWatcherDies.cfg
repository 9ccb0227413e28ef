\* The same, with a registry read that raises.
CONSTANTS
  c1 = c1
  c2 = c2
  k1 = k1
  Connections = {c1}
  Keys = {k1}
  KeyOf <- OneIdentity
  Names = {1}
  None = None
  DbMayFail = TRUE
  MaxOutbound = 1
SPECIFICATION FairSpec
PROPERTIES
  NoRosterStaysInvisible
CHECK_DEADLOCK FALSE
