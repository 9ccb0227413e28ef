\* Two sockets of one identity and one completion: takeover and teardown.
CONSTANTS
  c1 = c1
  c2 = c2
  k1 = k1
  Connections = {c1, c2}
  Keys = {k1}
  KeyOf <- OneIdentity
  Models = {m1}
  Requests = {r1}
  None = None
  MaxFrames = 2
  MaxOutbound = 1
SPECIFICATION Spec
SYMMETRY Symmetry
INVARIANTS
  TypeOK
  WholeAnswers
  TableIsTheBinding
  NobodyWaitsOnAClosedSocket
  AnsweredOnItsOwnLink
PROPERTIES
  ReplacementSurvives
  ContractKept
CHECK_DEADLOCK FALSE
