SPECIFICATION Spec
CONSTANTS
  None = None
  Request = {r1, r2}
  Object = {o1, o2}
SYMMETRY Symmetry
INVARIANTS
  TypeOK
  MadeInHeapOfHolder
  FaultsHaveACause
CHECK_DEADLOCK FALSE
