---------------------------- MODULE TimerIdsProofs ----------------------------
(***************************************************************************)
(* Proofs about TimerIds, for every width of the integers and any number   *)
(* of timers: the ids of the loop are distinct, and the narrowed number of *)
(* an id is the id itself, or one at least 2^32 smaller, or negative.      *)
(***************************************************************************)
EXTENDS TimerIds, TLAPS

\* A timer that was set has an id of its own.
IdsAreDistinct ==
    /\ \A t \in Timer : /\ timer[t].state = "unset" => timer[t].scope = None
                        /\ timer[t].state # "unset" => timer[t].id < next /\ timer[t].id > 0
    /\ \A t, u \in Timer :
          timer[t].state # "unset" /\ timer[u].state # "unset" /\ timer[t].id = timer[u].id
             => t = u

IInv ==
    /\ TypeOK /\ next > 0
    /\ IdsAreDistinct
    /\ \A t \in asked : timer[t].state # "unset"
    /\ ClearedTimersStop
    /\ StopsHaveACause

\* The remainder is the number itself or at least a whole width below it.
LEMMA RemainderIsBelow ==
    ASSUME NEW x \in Nat, NEW m \in Nat \ {0}
    PROVE  /\ x % m \in Nat /\ x % m < m
           /\ x < m => x % m = x
           /\ x % m = x \/ x >= (x % m) + m
<1>1. x % m \in 0 .. m - 1
    OBVIOUS
<1>2. x = m * (x \div m) + (x % m) /\ x \div m \in Int
    OBVIOUS
<1> QED BY <1>1, <1>2

\* A number a script has is the id, or is at least 2^32 below it, or negative.
LEMMA NarrowFits ==
    ASSUME NEW x \in Nat
    PROVE  /\ Narrow(x) \in Int
           /\ x < Half => Narrow(x) = x
           /\ Narrow(x) \in Nat => Narrow(x) = x \/ x >= Narrow(x) + 2 * Half
<1> DEFINE m == 2 * Half
           low == x % m
<1>1. m \in Nat \ {0} /\ Half < m /\ m = 2 * Half
    BY HalfAssumption
<1> HIDE DEF m
<1>2. low \in Nat /\ low < m /\ (x < m => low = x) /\ (low = x \/ x >= low + m)
    BY <1>1, RemainderIsBelow
<1> HIDE DEF low
<1>3. Narrow(x) = IF low < Half THEN low ELSE low - m
    BY DEF Narrow, low, m
<1> QED BY <1>1, <1>2, <1>3, HalfAssumption

-----------------------------------------------------------------------------
(* The steps.                                                              *)

\* A timer that is added has the next id.
LEMMA AddTimerKeepsIInv ==
    ASSUME IInv, NEW t \in Timer, NEW r \in Request \cup {None}, NEW repeat \in BOOLEAN,
           AddTimer(t, r, repeat)
    PROVE  IInv'
<1> DEFINE x == [state |-> "armed", scope |-> r, id |-> next, repeat |-> repeat]
<1>1. /\ timer' = [timer EXCEPT ![t] = x] /\ next' = next + 1
      /\ UNCHANGED <<ended, asked>> /\ timer[t].state = "unset"
    BY DEF AddTimer
<1>2. TypeOK /\ next > 0 /\ IdsAreDistinct
    BY DEF IInv
<1>3. x \in TimerType /\ x.state = "armed" /\ x.id = next
    BY <1>2 DEF TypeOK, TimerType
<1> HIDE DEF x
<1>4. /\ timer'[t] = x /\ t \notin asked
      /\ \A u \in Timer : u # t => timer'[u] = timer[u]
    BY <1>1, <1>2 DEF TypeOK, IInv
<1>5. TypeOK' /\ next' > 0
    BY <1>1, <1>2, <1>3 DEF TypeOK
<1>6. IdsAreDistinct'
    BY <1>1, <1>2, <1>3, <1>4 DEF IdsAreDistinct, TypeOK, TimerType
<1>7. \A u \in asked : u \in Timer /\ timer'[u] = timer[u]
    BY <1>2, <1>4 DEF TypeOK
<1>8. (\A u \in asked : timer[u].state # "unset")' /\ ClearedTimersStop'
    BY <1>1, <1>7 DEF IInv, ClearedTimersStop
<1>9. StopsHaveACause'
    BY <1>1, <1>3, <1>4, <1>7 DEF IInv, StopsHaveACause
<1> QED BY <1>5, <1>6, <1>8, <1>9 DEF IInv

\* What killTimer leaves: only pending timers with one of the ids are stopped.
LEMMA KillTimerStops ==
    ASSUME IInv, NEW ids, NEW how \in {"fired", "cleared", "freed"},
           KillTimer(ids, how), UNCHANGED next
    PROVE  /\ timer' \in [Timer -> TimerType] /\ IdsAreDistinct'
           /\ \A t \in Timer :
                 /\ timer'[t].id = timer[t].id /\ timer'[t].scope = timer[t].scope
                 /\ timer'[t].state =
                       IF timer[t].state = "armed" /\ timer[t].id \in ids
                       THEN how ELSE timer[t].state
<1>1. timer \in [Timer -> TimerType] /\ IdsAreDistinct
    BY DEF IInv, TypeOK
<1>2. ASSUME NEW t \in Timer
      PROVE  /\ timer'[t] \in TimerType
             /\ timer'[t].id = timer[t].id /\ timer'[t].scope = timer[t].scope
             /\ timer'[t].state =
                    IF timer[t].state = "armed" /\ timer[t].id \in ids
                    THEN how ELSE timer[t].state
  <2> DEFINE y == [timer[t] EXCEPT !.state = how]
  <2>1. timer'[t] = IF timer[t].state = "armed" /\ timer[t].id \in ids THEN y ELSE timer[t]
    BY DEF KillTimer
  <2>2. y \in TimerType /\ y.id = timer[t].id /\ y.scope = timer[t].scope /\ y.state = how
    BY <1>1 DEF TimerType
  <2> HIDE DEF y
  <2> QED BY <1>1, <2>1, <2>2
<1>3. timer' \in [Timer -> TimerType]
    BY <1>2 DEF KillTimer
<1>4. \A t \in Timer : timer'[t].state = "unset" <=> timer[t].state = "unset"
    BY <1>2
<1>5. IdsAreDistinct'
    BY <1>1, <1>2, <1>4 DEF IdsAreDistinct
<1> QED BY <1>2, <1>3, <1>5

\* What clearTimeout stops is the timer that was meant, or one that is 2^32
\* ids older.
LEMMA ClearTimerKeepsIInv ==
    ASSUME IInv, NEW u \in Timer, ClearTimer(u)
    PROVE  IInv'
<1>1. /\ KillTimer({Handle(u)}, "cleared") /\ timer[u].scope # None
      /\ asked' = asked \cup {u} /\ UNCHANGED <<next, ended>>
    BY DEF ClearTimer
<1>2. /\ timer' \in [Timer -> TimerType] /\ IdsAreDistinct'
      /\ \A t \in Timer :
            /\ timer'[t].id = timer[t].id /\ timer'[t].scope = timer[t].scope
            /\ timer'[t].state =
                  IF timer[t].state = "armed" /\ timer[t].id = Handle(u)
                  THEN "cleared" ELSE timer[t].state
    BY <1>1, KillTimerStops
<1>3. TypeOK' /\ next' > 0
    BY <1>1, <1>2 DEF TypeOK, IInv
<1>4. /\ timer[u].id \in Nat /\ timer[u].state # "unset"
      /\ \A t \in Timer : timer[t].id \in Nat
    BY <1>1 DEF IInv, TypeOK, TimerType, IdsAreDistinct
<1>5. /\ timer[u].id < Half => Handle(u) = timer[u].id
      /\ Handle(u) \in Nat => Handle(u) = timer[u].id \/ timer[u].id >= Handle(u) + 2 * Half
    BY <1>4, NarrowFits DEF Handle
<1>6. \A t \in asked' : timer'[t].state # "unset"
    BY <1>1, <1>2, <1>4 DEF IInv, TypeOK
<1>7. ClearedTimersStop'
    BY <1>1, <1>2, <1>4, <1>5 DEF IInv, TypeOK, ClearedTimersStop
<1>8. StopsHaveACause'
  <2> SUFFICES ASSUME NEW t \in Timer
               PROVE  /\ timer'[t].state = "cleared" =>
                            \E v \in asked' : v = t \/ timer'[v].id >= timer'[t].id + 2 * Half
                      /\ timer'[t].state = "freed" => timer'[t].scope \in ended'
    BY DEF StopsHaveACause
  <2>1. CASE timer[t].state = "armed" /\ timer[t].id = Handle(u)
    <3>1. timer[t].id = timer[u].id \/ timer[u].id >= timer[t].id + 2 * Half
      BY <1>4, <1>5, <2>1
    <3>2. timer[t].id = timer[u].id => t = u
      BY <1>4, <2>1 DEF IInv, IdsAreDistinct
    <3> QED BY <1>1, <1>2, <2>1, <3>1, <3>2
  <2>2. CASE ~(timer[t].state = "armed" /\ timer[t].id = Handle(u))
    <3>1. timer'[t].state = timer[t].state
      BY <1>2, <2>2
    <3> QED BY <1>1, <1>2, <3>1 DEF IInv, TypeOK, StopsHaveACause
  <2> QED BY <2>1, <2>2
<1> QED BY <1>2, <1>3, <1>6, <1>7, <1>8 DEF IInv

\* What the destructors stop is of the scope that ends.
LEMMA ScopeEndsKeepsIInv ==
    ASSUME IInv, NEW r \in Request, ScopeEnds(r)
    PROVE  IInv'
<1>1. /\ KillTimer(FreedIds(r), "freed")
      /\ ended' = ended \cup {r} /\ UNCHANGED <<next, asked>>
    BY DEF ScopeEnds
<1>2. /\ timer' \in [Timer -> TimerType] /\ IdsAreDistinct'
      /\ \A t \in Timer :
            /\ timer'[t].id = timer[t].id /\ timer'[t].scope = timer[t].scope
            /\ timer'[t].state =
                  IF timer[t].state = "armed" /\ timer[t].id \in FreedIds(r)
                  THEN "freed" ELSE timer[t].state
    BY <1>1, KillTimerStops
<1>3. TypeOK' /\ next' > 0
    BY <1>1, <1>2 DEF TypeOK, IInv
<1>4. \A t \in asked' : t \in Timer /\ timer'[t].state # "unset"
    BY <1>1, <1>2 DEF IInv, TypeOK
<1>5. ClearedTimersStop'
    BY <1>1, <1>2, <1>4 DEF IInv, ClearedTimersStop
<1>6. StopsHaveACause'
  <2> SUFFICES ASSUME NEW t \in Timer
               PROVE  /\ timer'[t].state = "cleared" =>
                            \E v \in asked' : v = t \/ timer'[v].id >= timer'[t].id + 2 * Half
                      /\ timer'[t].state = "freed" => timer'[t].scope \in ended'
    BY DEF StopsHaveACause
  <2>1. CASE timer[t].state = "armed" /\ timer[t].id \in FreedIds(r)
    <3>1. PICK u \in Timer : timer[u].scope = r /\ timer[u].id = timer[t].id
      BY <2>1 DEF FreedIds
    <3>2. u = t
      BY <2>1, <3>1, NoneAssumption DEF IInv, IdsAreDistinct
    <3> QED BY <1>1, <1>2, <2>1, <3>1, <3>2
  <2>2. CASE ~(timer[t].state = "armed" /\ timer[t].id \in FreedIds(r))
    <3>1. timer'[t].state = timer[t].state
      BY <1>2, <2>2
    <3> QED BY <1>1, <1>2, <1>4, <3>1 DEF IInv, StopsHaveACause
  <2> QED BY <2>1, <2>2
<1> QED BY <1>2, <1>3, <1>4, <1>5, <1>6 DEF IInv

\* A timer that fires is gone, unless it repeats.
LEMMA FireKeepsIInv ==
    ASSUME IInv, NEW t \in Timer, Fire(t)
    PROVE  IInv'
<1> DEFINE ids == IF timer[t].repeat THEN {} ELSE {timer[t].id}
<1>1. /\ timer[t].state = "armed" /\ UNCHANGED <<next, ended, asked>>
      /\ timer \in [Timer -> TimerType] /\ IdsAreDistinct
    BY DEF Fire, IInv, TypeOK
<1>2. /\ timer' \in [Timer -> TimerType]
      /\ \A u \in Timer :
            /\ timer'[u].id = timer[u].id /\ timer'[u].scope = timer[u].scope
            /\ timer'[u].state \in {timer[u].state, "fired"}
            /\ timer'[u].state # timer[u].state => timer[u].state = "armed"
  <2> DEFINE y == [timer[t] EXCEPT !.state = IF timer[t].repeat THEN @ ELSE "fired"]
  <2>1. timer' = [timer EXCEPT ![t] = y]
    BY <1>1 DEF Fire
  <2>2. /\ y \in TimerType /\ y.id = timer[t].id /\ y.scope = timer[t].scope
        /\ y.state \in {timer[t].state, "fired"}
    BY <1>1 DEF TimerType
  <2> HIDE DEF y
  <2> QED BY <1>1, <2>1, <2>2
<1>3. \A u \in Timer : timer'[u].state = "unset" <=> timer[u].state = "unset"
    BY <1>2
<1>4. TypeOK' /\ next' > 0 /\ IdsAreDistinct'
    BY <1>1, <1>2, <1>3 DEF IInv, TypeOK, IdsAreDistinct
<1>5. \A u \in asked : u \in Timer
    BY DEF IInv, TypeOK
<1>6. (\A u \in asked : timer[u].state # "unset")' /\ ClearedTimersStop'
    BY <1>1, <1>2, <1>3, <1>5 DEF IInv, ClearedTimersStop
<1>7. StopsHaveACause'
    BY <1>1, <1>2, <1>5 DEF IInv, StopsHaveACause
<1> QED BY <1>4, <1>6, <1>7 DEF IInv

\* The ids stay distinct and below the next one, over any number of timers.
LEMMA Invariance == Spec => []IInv
<1>1. Init => IInv
  <2> SUFFICES ASSUME Init PROVE IInv
    OBVIOUS
  <2>1. \A t \in Timer : timer[t].state = "unset" /\ timer[t].scope = None
    BY DEF Init, NoTimer
  <2>2. TypeOK /\ next > 0
    BY FirstAssumption DEF Init, TypeOK, NoTimer, TimerType
  <2>3. asked = {}
    BY DEF Init
  <2> QED BY <2>1, <2>2, <2>3 DEF IInv, IdsAreDistinct, ClearedTimersStop, StopsHaveACause
<1>2. IInv /\ [Next]_vars => IInv'
  <2> SUFFICES ASSUME IInv, [Next]_vars PROVE IInv'
    OBVIOUS
  <2>1. CASE IdsAreTaken \/ UNCHANGED vars
    <3>1. UNCHANGED <<timer, ended, asked>> /\ next' \in {next, next + 1}
      BY <2>1 DEF IdsAreTaken, vars
    <3> QED BY <3>1 DEF IInv, TypeOK, TimerType, IdsAreDistinct, ClearedTimersStop,
                        StopsHaveACause
  <2> QED BY <2>1, AddTimerKeepsIInv, ClearTimerKeepsIInv, ScopeEndsKeepsIInv, FireKeepsIInv
          DEF Next, SetTimer, ServerSetsTimer
<1> QED BY <1>1, <1>2, PTL DEF Spec

\* While ids fit an int32, clearTimeout stops the timer it was given, whatever
\* else was set, cleared or freed (js_set_timer, js_kill_timer).
THEOREM ClearingWorks == Spec => []ClearedTimersStop
<1>1. IInv => ClearedTimersStop
    BY DEF IInv
<1> QED BY Invariance, <1>1, PTL

\* A timer of another script, or of the server, is stopped only if its id and
\* that of the timer that was meant are at least 2^32 apart.
THEOREM OthersAreSpared == Spec => []StopsHaveACause
<1>1. IInv => StopsHaveACause
    BY DEF IInv
<1> QED BY Invariance, <1>1, PTL
=============================================================================
