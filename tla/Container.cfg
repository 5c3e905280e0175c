SPECIFICATION Spec
CONSTANTS
  None = None
  Thread = {t1, t2}
  Key = {k1}
  Name = {n1, n2}
  Worker = {w1, w2}
  Script = {s1, s2}
SYMMETRY Symmetry
INVARIANTS
  TypeOK
  WorkersStayHome
  GoodWorkersAreCached
  ErrorsAreFresh
PROPERTIES
  AnswersStick
CHECK_DEADLOCK FALSE
