\* Every disturbance, three runs: a pause that answers a pause.
CONSTANTS
  Threads = {t1, t2}
  Runs = {1, 2, 3}
  Asks = {a1}
  None = None
  Disturbances = {"unreachable", "lost", "refused", "cut", "switch"}
  MaxEvents = 4
SYMMETRY Symmetry
SPECIFICATION Spec
INVARIANTS
  TypeOK
  AsksAreTheLastRuns
  ProofVerifies
CHECK_DEADLOCK FALSE
