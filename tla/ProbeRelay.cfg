\* Two connections one after the other, one run, a capacity of one.
CONSTANTS
  Connections = {c1, c2}
  Runs = {r1}
  None = None
  Capacity = 1
  DeliverTimesOut = TRUE
  MaxOffers = 2
  Executions = {1, 2}
  MaxBackoff = 1
SPECIFICATION FairSpec
INVARIANTS
  TypeOK
  TheOpeningIsKept
PROPERTIES
  CancelReachesTheRun
  HeldRunsEnd
  RunContractKept
CHECK_DEADLOCK FALSE
