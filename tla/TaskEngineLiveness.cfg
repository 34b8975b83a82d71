SPECIFICATION FairSpec
CONSTANTS
  Rows = {r1, r2}
  NoRow = NoRow
  Workers = {w1}
  Polled = {r1}
  QueueCap = 1
  FastCap = 1
  MaxRetry = 1
  RepeatLimit = 2
  MaxRounds = 0
  MaxReprocess = 0
  MaxRestarts = 1
  MaxLost = 2
  Ops = {"repq", "pause", "delay"}
  Faults = {"write", "writeLost", "reread", "reset", "resetLost", "select", "insertLost"}
INVARIANTS RepeatLimitHolds NoStrandedTask
PROPERTIES SettlesOnceResumed
CHECK_DEADLOCK FALSE
