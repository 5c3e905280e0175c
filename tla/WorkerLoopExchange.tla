------------------------- MODULE WorkerLoopExchange -------------------------
(***************************************************************************)
(* The event loop answers its clients as HttpExchange says, if the script  *)
(* has the first three habits: a request is open while its scope has not   *)
(* sent, and closed when the scope is deleted.                             *)
(***************************************************************************)
EXTENDS WorkerLoop

PhaseOf(s) ==
    CASE s.life = "none" -> "none"
      [] s.life = "live" -> IF s.sent THEN "answered" ELSE "open"
      [] s.life = "dead" -> "closed"

RequestPhase == [r \in Request |-> PhaseOf(scope[r])]

Exchange == INSTANCE HttpExchange WITH phase <- RequestPhase, answers <- wire

\* A scope is marked as sent by the step that writes the answer its own script
\* built, and deleted only then or later, over every order of the handler, the
\* callbacks and the end of the scope (handle_response, handle_waitings).
ExchangeSpec == Exchange!Spec

\* Between callbacks no request waits for nothing: a scope that is kept has a
\* fetch that was sent, or a timer, that will run its script again, so that it
\* is answered and deleted in the end if these come (handle_waitings and
\* do_fetch_requests end every turn, whatever the script left to do).
NobodyIsForgotten ==
    turn.kind = "idle" => \A r \in Request : Live(r) =>
        \/ \E f \in FetchesOf(r) : fetch[f].state \in {"sent", "queued"}
        \/ TimerDue(r)
=============================================================================
