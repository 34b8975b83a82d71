SPECIFICATION Spec
CONSTANTS
  Rows = {r1}
  NoRow = NoRow
  Workers = {w1, w2}
  Polled = {r1}
  QueueCap = 1
  FastCap = 1
  MaxRetry = 1
  RepeatLimit = 0
  MaxRounds = 0
  MaxReprocess = 1
  MaxRestarts = 1
  MaxLost = 0
  Ops = {"retry", "mark"}
  Faults = {}
SYMMETRY WorkerSymmetry
INVARIANTS RunningRowUntouched
CHECK_DEADLOCK FALSE
