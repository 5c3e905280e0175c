SPECIFICATION FairSpec
CONSTANTS
  None = None
  Request = {r1, r2}
  Context = {c1, c2}
  Type = {"fetch", "message"}
  MaxListeners = 3
  Habits = {"first_responds", "adds_outside_dispatch", "no_top_level_timers",
            "awaits_fetches"}
INVARIANTS
  NoFault
PROPERTIES
  EveryDispatchReturns
CHECK_DEADLOCK FALSE
