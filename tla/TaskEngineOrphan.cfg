SPECIFICATION Spec
CONSTANTS
  Rows = {r1}
  NoRow = NoRow
  Workers = {w1}
  Polled = {r1}
  QueueCap = 1
  FastCap = 1
  MaxRetry = 1
  RepeatLimit = 0
  MaxRounds = 0
  MaxReprocess = 0
  MaxRestarts = 1
  MaxLost = 0
  Ops = {"interval"}
  Faults = {}
SYMMETRY WorkerSymmetry
INVARIANTS NoStrandedTask
CHECK_DEADLOCK FALSE
