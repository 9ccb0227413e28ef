\* One agent, one thread, three runs, one ask; every request.
CONSTANTS
  Agents = {p1}
  Party = party
  Stranger = stranger
  Asks = {a1}
  None = None
  Ops <- EveryOp
  MaxThreads = 1
  MaxRuns = 3
SPECIFICATION DoorsSpec
INVARIANTS
  AsksWereOpen
  AbsenceIsOneAnswer
CHECK_DEADLOCK FALSE
