\* Two conversations of two turns, two calls in all.
CONSTANTS
  Agents = {p1, p2}
  Party = party
  Stranger = stranger
  Asks = {a1}
  None = None
  Ops = {}
  MaxThreads = 2
  MaxRuns = 2
  Conversations = {c1, c2}
  Provider = None
  Limit = 1
  MaxTurns = 2
  MaxCalls = 2
SPECIFICATION FairSpec
INVARIANTS
  TypeOK
  OneThreadUnlessBlind
  ConversationsStayApart
  NeverAWinner
  EachMessageOnce
PROPERTIES
  EveryTurnEnds
CHECK_DEADLOCK FALSE
