SPECIFICATION Spec
CONSTANTS
  None = None
  Request = {r1, r2}
  Context = {c1, c2}
  NListeners = 1
  Status = {200}
  Name = {p1}
  Fetch = {f1}
  Timer = {t1}
  Repeat = {FALSE}
  Outcome = {"other"}
  Returns = {"returned"}
  Habits = {"responds_once_in_handler", "awaits_fetches",  "settles_promises", "clears_own_timers", "loads_cleanly", "fetches_answered"}
INVARIANTS
  OnlyObjectsUnwrapped
CHECK_DEADLOCK FALSE
