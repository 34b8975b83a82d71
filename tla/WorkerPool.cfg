SPECIFICATION FairSpec
CONSTANTS
  Jobs = {j1, j2, j3}
  Urgent = {j1, j2}
  Workers = {w1, w2}
  NoJob = NoJob
  MainCap = 1
  MainMark = 1
  FastCap = 1
  FastMark = 1
  Scopes <- MCScopes
  Whole = "all"
  Home <- MCHome
INVARIANTS TypeOK NothingLeftBehind BooksBalance DrainedForGood RestMeansDone
PROPERTIES KeepsPromise StopDrains AcceptedIsRun
CHECK_DEADLOCK FALSE
