SPECIFICATION Spec
CONSTANTS
  None = None
  Request = {r1, r2}
  Context = {c1, c2}
  NListeners = 1
  Status = {200}
  Name = {p1, p2}
  Fetch = {f1}
  Timer = {t1}
  Repeat = {FALSE}
  Outcome = {"shared", "other"}
  Returns = {"returned", "failed"}
  Habits = {"responds_once_in_handler", "awaits_fetches", "fulfills_with_response"}
SYMMETRY Symmetry
INVARIANTS
  NoFault
PROPERTIES
  ExchangeSpec
CHECK_DEADLOCK FALSE
