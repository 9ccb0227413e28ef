\* An answer the gateway refused once.
CONSTANTS
  Threads = {t1}
  Runs = {1, 2}
  Asks = {a1}
  None = None
  Disturbances = {"refused"}
  MaxEvents = 3
SPECIFICATION Spec
INVARIANTS
  RefusedAnswerKeepsTheTask
CHECK_DEADLOCK FALSE
