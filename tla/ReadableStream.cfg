SPECIFICATION FairSpec
CONSTANTS
  Request = {r1, r2}
  Stream = {s1, s2}
  None = None
  Habits <- MCHabits
INVARIANTS
  TypeOK
  PulledAfterStart
  PullingIsExact
  NoFault
  AssertionsHold
PROPERTIES
  EveryStartIsPulled
CHECK_DEADLOCK FALSE
