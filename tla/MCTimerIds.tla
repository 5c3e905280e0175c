------------------------------ MODULE MCTimerIds ------------------------------
(* An instance of TimerIds for TLC: requests and timers are interchangeable.  *)
EXTENDS TimerIds, TLC

Symmetry == Permutations(Request) \cup Permutations(Timer)
=============================================================================
