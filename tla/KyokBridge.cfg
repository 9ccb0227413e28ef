\* Two successive connections of one bridge, one completion.
CONSTANTS
  k1 = k1
  m1 = m1
  Connections = {c1, c2}
  Keys = {k1}
  KeyOf <- OneIdentity
  Models = {m1}
  Requests = {r1}
  None = None
  MaxFrames = 2
  MaxOutbound = 2
  Self = k1
  Offering = m1
  Ephemeral = TRUE
SPECIFICATION BridgeFairSpec
INVARIANTS
  AttachedIsServed
  ConfirmedIsWithdrawn
  NothingCutShort
  NoLiveAnswerTurnedAway
PROPERTIES
  EveryCompletionEnds
  NothingServedAfterTheBlock
CHECK_DEADLOCK FALSE
