SPECIFICATION Spec
CONSTANTS
  Callers = {g1, g2, g3}
  Impatient = {g2}
  Limit = 1
INVARIANT NoLostWakeup
CHECK_DEADLOCK FALSE
