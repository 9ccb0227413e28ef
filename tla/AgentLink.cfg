\* Two successive connections of one provider, one run, two questions in all.
CONSTANTS
  Connections = {c1, c2}
  Runs = {r1}
  None = None
  Capacity = 1
  DeliverTimesOut = FALSE
  MaxOffers = 2
  Executions = {1, 2}
  Story = 1
  MaxQueries = 2
SPECIFICATION FairSpec
INVARIANTS
  NoQueryWaitsOnADeadSocket
  RegisterIsAnsweredFirst
PROPERTIES
  RunContractKept
  EveryQueryEnds
  HeldRunsEnd
CHECK_DEADLOCK FALSE
