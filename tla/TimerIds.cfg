SPECIFICATION Spec
CONSTANTS
  None = None
  Request = {r1, r2}
  Timer = {t1, t2, t3}
  Half = 2
  First = 1
  MaxId = 8
SYMMETRY Symmetry
INVARIANTS
  ClearedTimersStop
  StopsHaveACause
CHECK_DEADLOCK FALSE
