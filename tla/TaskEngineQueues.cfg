SPECIFICATION Spec
CONSTANTS
  Rows = {r1}
  NoRow = NoRow
  Workers = {w1, w2}
  Polled = {r1}
  QueueCap = 1
  FastCap = 1
  MaxRetry = 1
  RepeatLimit = 2
  MaxRounds = 1
  MaxReprocess = 1
  MaxRestarts = 0
  MaxLost = 0
  Ops = {"repq", "errq", "again", "retry", "mark", "delete", "interval"}
  Faults = {"resetLost"}
SYMMETRY WorkerSymmetry
INVARIANTS ExclusiveExecution RunningRowUntouched NoStrandedTask
PROPERTIES TerminalByHolder KeepsLifeCycle
CHECK_DEADLOCK FALSE
