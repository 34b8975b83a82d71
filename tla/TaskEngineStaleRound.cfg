SPECIFICATION Spec
CONSTANTS
  Rows = {r1}
  NoRow = NoRow
  Workers = {w1, w2}
  Polled = {r1}
  QueueCap = 1
  FastCap = 1
  MaxRetry = 1
  RepeatLimit = 0
  MaxRounds = 2
  MaxReprocess = 1
  MaxRestarts = 0
  MaxLost = 0
  Ops = {"repq", "again", "urgent"}
  Faults = {"persistLost"}
SYMMETRY WorkerSymmetry
PROPERTIES TerminalByHolder
CHECK_DEADLOCK FALSE
