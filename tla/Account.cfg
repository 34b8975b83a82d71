SPECIFICATION Spec
CONSTANTS
  Http = {h1, h2}
  Browsers = {b}
  nil = nil
  MaxConcurrent = 2
  MaxCalls = 1
  MaxHalts = 1
  MaxRestarts = 1
SYMMETRY Interchangeable
INVARIANTS NoResurrection VersionNames SnapshotFresh WaitersAreServed
PROPERTIES NothingStale
CHECK_DEADLOCK FALSE
