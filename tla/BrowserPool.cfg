SPECIFICATION FairSpec
CONSTANTS
  Callers = {g1, g2, g3}
  Impatient = {g3}
  Limit = 1
INVARIANTS Capacity SlotsBalance IdleIsOffered CloseLeavesNothing
PROPERTIES SleepersWake CloseReleases
CHECK_DEADLOCK FALSE
