------------------------------ MODULE TimerIds ------------------------------
(***************************************************************************)
(* The numbers of timers: what setTimeout and setInterval return, and what *)
(* clearTimeout and clearInterval stop.                                    *)
(*                                                                         *)
(* The event loop of libhv gives every timer a 64 bit id, and never one    *)
(* twice.  JsTimer keeps it whole; the script gets it as an int32, passes  *)
(* the int32 back, and js_kill_timer widens it again.  The ids are shared: *)
(* all scripts on the loop and the HTTP server itself take their timers    *)
(* from one count.                                                         *)
(*                                                                         *)
(* What the callbacks of timers do is the subject of WorkerLoop, where an  *)
(* id is abstract.                                                         *)
(***************************************************************************)
EXTENDS Integers

CONSTANTS Request,   \* requests, each with its RequestScope
          Timer,     \* timers of the loop, of scripts and of the server
          None,      \* the scope of a timer the server set for itself
          Half,      \* 2^31: an int32 is in -Half .. Half - 1
          First,     \* the first id the loop gives
          MaxId      \* bound of the model: ids are below it

ASSUME NoneAssumption == None \notin Request
ASSUME HalfAssumption == Half \in Nat \ {0}
ASSUME FirstAssumption == First \in Nat \ {0}
ASSUME MaxIdAssumption == MaxId \in Nat

VARIABLES
    next,      \* the id the loop gives next
    timer,     \* the timers: scope, timer_id_, whether it repeats, state
    ended,     \* requests whose scope was deleted
    asked      \* timers whose number a script has passed to clearTimeout

vars == <<next, timer, ended, asked>>

TimerType ==
    [state : {"unset", "armed", "fired", "cleared", "freed"},
     scope : Request \cup {None},
     id : Nat,
     repeat : BOOLEAN]

NoTimer == [state |-> "unset", scope |-> None, id |-> 0, repeat |-> FALSE]

Init ==
    /\ next = First
    /\ timer = [t \in Timer |-> NoTimer]
    /\ ended = {}
    /\ asked = {}

-----------------------------------------------------------------------------
\* The conversion of a 64 bit id to the int32 that new_int32 takes.
Narrow(id) ==
    LET low == id % (2 * Half)
    IN  IF low < Half THEN low ELSE low - 2 * Half

\* Bug: the script gets the timer_id_ of a timer that was not started yet.
HandleBeforeStart(t) == 0

\* What setTimeout returned for the timer t.
Handle(t) == Narrow(timer[t].id)

\* killTimer of the loop.  A number that is no id of a pending timer stops
\* nothing; a negative int32, widened to 64 bits, is none.
KillTimer(ids, how) ==
    timer' = [t \in Timer |->
        IF timer[t].state = "armed" /\ timer[t].id \in ids
        THEN [timer[t] EXCEPT !.state = how] ELSE timer[t]]

\* The loop gives the next id to a new timer.
AddTimer(t, r, repeat) ==
    /\ timer[t].state = "unset"
    /\ next < MaxId
    /\ timer' = [timer EXCEPT ![t] = [state |-> "armed", scope |-> r,
                                      id |-> next, repeat |-> repeat]]
    /\ next' = next + 1
    /\ UNCHANGED <<ended, asked>>

\* setTimeout and setInterval, called for the request r.
SetTimer(t, r, repeat) ==
    /\ r \notin ended
    /\ AddTimer(t, r, repeat)

\* The server sets a timer of its own.
ServerSetsTimer(t) == \E repeat \in BOOLEAN : AddTimer(t, None, repeat)

\* Timers that are of no interest take ids.
IdsAreTaken ==
    /\ next < MaxId
    /\ next' = next + 1
    /\ UNCHANGED <<timer, ended, asked>>

\* A timer that does not repeat is gone from the loop when it fires.
Fire(t) ==
    /\ timer[t].state = "armed"
    /\ timer' = [timer EXCEPT ![t].state = IF timer[t].repeat THEN @ ELSE "fired"]
    /\ UNCHANGED <<next, ended, asked>>

\* clearTimeout and clearInterval: a script passes the number it got for t.
ClearTimer(t) ==
    /\ timer[t].scope # None
    /\ KillTimer({Handle(t)}, "cleared")
    /\ asked' = asked \cup {t}
    /\ UNCHANGED <<next, ended>>

\* Bug: ~JsTimer kills what the script would.
FreedIdsNarrow(r) == {Handle(t) : t \in {u \in Timer : timer[u].scope = r}}

\* The destructors of the timers in the heap of the scope of r kill by the
\* whole id.
FreedIds(r) == {timer[t].id : t \in {u \in Timer : timer[u].scope = r}}

\* ~RequestScope.
ScopeEnds(r) ==
    /\ r \notin ended
    /\ KillTimer(FreedIds(r), "freed")
    /\ ended' = ended \cup {r}
    /\ UNCHANGED <<next, asked>>

Next ==
    \/ \E t \in Timer, r \in Request, repeat \in BOOLEAN : SetTimer(t, r, repeat)
    \/ \E t \in Timer : ServerSetsTimer(t)
    \/ IdsAreTaken
    \/ \E t \in Timer : Fire(t)
    \/ \E t \in Timer : ClearTimer(t)
    \/ \E r \in Request : ScopeEnds(r)

Spec == Init /\ [][Next]_vars

-----------------------------------------------------------------------------
TypeOK ==
    /\ next \in Nat
    /\ timer \in [Timer -> TimerType]
    /\ ended \subseteq Request
    /\ asked \subseteq Timer

\* An id below 2^31 survives the way through the script: a timer that was
\* cleared does not run any more, in whatever order it was set, cleared and
\* others took their ids (js_set_timer, js_kill_timer).
ClearedTimersStop ==
    \A t \in asked : timer[t].id < Half => timer[t].state # "armed"

\* No timer stops for the wrong reason.  One that clearTimeout stopped is the
\* one that was meant, or 2^32 ids older than that; one that a destructor
\* stopped is of a scope that was deleted.  The timers of the server, whose
\* numbers no script has, are stopped by no destructor.
StopsHaveACause ==
    \A t \in Timer :
        /\ timer[t].state = "cleared" =>
              \E u \in asked : u = t \/ timer[u].id >= timer[t].id + 2 * Half
        /\ timer[t].state = "freed" => timer[t].scope \in ended
=============================================================================
