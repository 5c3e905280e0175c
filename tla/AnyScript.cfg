SPECIFICATION Spec
CONSTANTS
  None = None
  Request = {r1, r2}
  Context = {c1, c2}
  NListeners = 1
  Status = {0}
  Name = {p1}
  Fetch = {f1}
  Timer = {t1}
  Repeat = {TRUE}
  Outcome = {"response", "rejected", "other"}
  Returns = {"returned", "failed"}
  Habits = {}
SYMMETRY Symmetry
INVARIANTS
  TypeOK
  CallbacksConsistent
  ContextOwnership
  FetchReferences
  DeadScopeSettled
  TimersDieWithScope
  IdleScopesAreWaiting
PROPERTIES
  AnswersOnce
  LeaseSpec
CHECK_DEADLOCK FALSE
