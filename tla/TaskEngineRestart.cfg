SPECIFICATION Spec
CONSTANTS
  Rows = {r1}
  NoRow = NoRow
  Workers = {w1, w2}
  Polled = {}
  QueueCap = 1
  FastCap = 1
  MaxRetry = 1
  RepeatLimit = 0
  MaxRounds = 0
  MaxReprocess = 0
  MaxRestarts = 1
  MaxLost = 0
  Ops = {"errq", "urgent", "stop", "reap"}
  Faults = {"claimError", "claimLost", "persistLost", "release", "write", "reread", "reset", "resetLost"}
SYMMETRY WorkerSymmetry
INVARIANTS TypeOK ProcessingAccounted DrainedMeansSettled UrgentClearedByClaim ExclusiveExecution
CHECK_DEADLOCK FALSE
