SPECIFICATION FairSpec
CONSTANTS
  None = None
  Request = {r1, r2}
  Context = {c1, c2}
  NListeners = 2
  Status = {200}
  Name = {p1}
  Fetch = {f1}
  Timer = {t1}
  Repeat = {FALSE}
  Outcome = {"response", "shared", "other"}
  Returns = {"returned", "failed"}
  Habits = {"responds_once_in_handler", "awaits_fetches", "fulfills_with_response",
            "settles_promises", "clears_own_timers", "loads_cleanly",
            "fetches_answered"}
INVARIANTS
  NoFault
  NobodyIsForgotten
PROPERTIES
  EveryRequestAnswered
  EveryScopeFreed
  EveryFetchFreed
CHECK_DEADLOCK FALSE
