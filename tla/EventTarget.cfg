SPECIFICATION Spec
CONSTANTS
  None = None
  Request = {r1, r2, r3}
  Context = {c1, c2}
  Type = {"fetch", "message"}
  MaxListeners = 2
  Habits = {}
SYMMETRY Symmetry
INVARIANTS
  TypeOK
  
  FirstListenerIsTopLevel
PROPERTIES
  DispatchSeesFixedTarget
CHECK_DEADLOCK FALSE
