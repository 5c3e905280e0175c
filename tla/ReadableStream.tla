--------------------------- MODULE ReadableStream ---------------------------
(***************************************************************************)
(* ReadableStream and its ReadableStreamDefaultController: new             *)
(* ReadableStream(source) calls source.start, and when its promise is      *)
(* fulfilled source.pull.  The controller lives in the heap of the request *)
(* that made the stream, while the reactions to the promises of start and  *)
(* pull, which hold a pointer to it, live as long as the script can settle *)
(* the promises.                                                            *)
(*                                                                         *)
(* The state of a stream never changes from readable, it never has a       *)
(* reader, and enqueue, close and error do nothing yet: they are left out. *)
(***************************************************************************)
EXTENDS Naturals, Sequences

CONSTANTS Request, Stream, None,
          Habits          \* what the scripts do, a subset of AllHabits

AllHabits == {
    "settles_in_time"}    \* no promise of a stream is settled after its request

ASSUME NoneAssumption == None \notin Request
ASSUME HabitsAssumption == Habits \subseteq AllHabits

VARIABLES life,       \* of the request scopes
          turn,       \* the request whose callback runs, or None
          owner,      \* the request in whose heap a stream is, None: not made yet
          start,      \* the promise that start gave
          pull,       \* the promise that the last pull gave
          jobs,       \* microtasks: the reactions that have not run yet
          started, pulling, pullAgain,  \* started_, pulling_, pull_again_
          fault       \* "none", or "use_after_free"

promises == <<start, pull, jobs>>
controllers == <<started, pulling, pullAgain>>
vars == <<life, turn, owner, start, pull, jobs, started, pulling, pullAgain, fault>>

Promise == {"none", "pending", "fulfilled", "rejected"}
Reaction == [stream : Stream, of : {"start", "pull"}, rejected : BOOLEAN]

\* What call_algorithm makes of a call: a promise the function returned, or one
\* that is fulfilled, with its result or because it threw.
CallAlgorithm == {"pending", "fulfilled", "rejected"}

Init ==
    /\ life = [r \in Request |-> "none"]
    /\ turn = None
    /\ owner = [s \in Stream |-> None]
    /\ start = [s \in Stream |-> "none"] /\ pull = [s \in Stream |-> "none"]
    /\ jobs = <<>>
    /\ started = [s \in Stream |-> FALSE]
    /\ pulling = [s \in Stream |-> FALSE]
    /\ pullAgain = [s \in Stream |-> FALSE]
    /\ fault = "none"

-----------------------------------------------------------------------------
(* The turns of the loop.                                                  *)

\* A request, or a timer or fetch of one that waits, calls the script.
TurnBegins(r) ==
    /\ turn = None /\ life[r] # "dead"
    /\ turn' = r
    /\ life' = [life EXCEPT ![r] = "live"]
    /\ UNCHANGED <<owner, promises, controllers, fault>>

\* Bug: the microtasks do not run before handle_waitings.
CheckpointDoneEarly == TRUE

\* PerformMicrotaskCheckpoint runs until there are no more of them.
CheckpointDone == jobs = <<>>

\* The turn ends, and the scope waits or is deleted with its heap.
TurnEnds ==
    /\ turn # None /\ CheckpointDone
    /\ \E l \in {"live", "dead"} : life' = [life EXCEPT ![turn] = l]
    /\ turn' = None
    /\ UNCHANGED <<owner, promises, controllers, fault>>

-----------------------------------------------------------------------------
(* Promises and their reactions.                                           *)

React(s, of, state) == [stream |-> s, of |-> of, rejected |-> state = "rejected"]

\* Bug: the reaction is registered twice.
ReactionsTwice(s, of, state) ==
    IF state = "pending" THEN <<>> ELSE <<React(s, of, state), React(s, of, state)>>

\* promise_then: the reactions to a promise that is settled are due at once.
Reactions(s, of, state) ==
    IF state = "pending" THEN <<>> ELSE <<React(s, of, state)>>

\* The script settles a promise that start or pull returned.
Settle(s, of) ==
    LET promise == IF of = "start" THEN start[s] ELSE pull[s]
    IN  /\ turn # None /\ promise = "pending"
        /\ "settles_in_time" \in Habits => life[owner[s]] # "dead"
        /\ \E state \in {"fulfilled", "rejected"} :
              /\ IF of = "start"
                 THEN start' = [start EXCEPT ![s] = state] /\ UNCHANGED pull
                 ELSE pull' = [pull EXCEPT ![s] = state] /\ UNCHANGED start
              /\ jobs' = jobs \o Reactions(s, of, state)
        /\ UNCHANGED <<life, turn, owner, controllers, fault>>

-----------------------------------------------------------------------------
(* The stream and its controller.                                          *)

\* new ReadableStream(source), in a callback of a request.
NewStream(s) ==
    /\ turn # None /\ owner[s] = None
    /\ owner' = [owner EXCEPT ![s] = turn]
    /\ \E state \in CallAlgorithm :
          /\ start' = [start EXCEPT ![s] = state]
          /\ jobs' = jobs \o Reactions(s, "start", state)
    /\ UNCHANGED <<life, turn, pull, controllers, fault>>

HighWaterMark == 1

\* Bug: the size of the queue is compared with a mark of zero.
ShouldCallPullNever(isStarted) == isStarted /\ HighWaterMark - 1 > 0

\* readableStreamDefaultControllerShouldCallPull: the stream is readable and has
\* no reader, and the queue is empty, so that getDesiredSize is the mark.
ShouldCallPull(isStarted) == isStarted /\ HighWaterMark > 0

\* readableStreamDefaultControllerCallPullIfNeeded, with what the reaction has
\* made of started_, pulling_ and pull_again_.
CallPullIfNeeded(s, isStarted, isPulling, again) ==
    LET calls == ShouldCallPull(isStarted) /\ ~isPulling
    IN  /\ pulling' = [pulling EXCEPT ![s] = isPulling \/ calls]
        /\ pullAgain' = [pullAgain EXCEPT
                            ![s] = again \/ (ShouldCallPull(isStarted) /\ isPulling)]
        /\ IF calls
           THEN \E state \in CallAlgorithm :
                   /\ pull' = [pull EXCEPT ![s] = state]
                   /\ jobs' = Tail(jobs) \o Reactions(s, "pull", state)
           ELSE jobs' = Tail(jobs) /\ UNCHANGED pull

\* Bug: both reactions start the controller.
StartsAlways(job) == job.of = "start"

\* controller_startAlgorithm_resolved, and not _rejected, is called.
Starts(job) == job.of = "start" /\ ~job.rejected

StartResolved(s) ==
    /\ started' = [started EXCEPT ![s] = TRUE]
    /\ CallPullIfNeeded(s, TRUE, pulling[s], pullAgain[s])

\* Bug: pulling_ is not reset.
AfterPullKept(s) == pulling[s]

\* controller_pullAlgorithm_resolved resets pulling_.
AfterPull(s) == FALSE

PullResolved(s) ==
    /\ UNCHANGED started
    /\ IF pullAgain[s]
       THEN CallPullIfNeeded(s, started[s], AfterPull(s), FALSE)
       ELSE /\ pulling' = [pulling EXCEPT ![s] = AfterPull(s)]
            /\ jobs' = Tail(jobs)
            /\ UNCHANGED <<pull, pullAgain>>

\* controller_startAlgorithm_rejected finds nothing to do, as does that of pull.
Rejected == jobs' = Tail(jobs) /\ UNCHANGED <<pull, controllers>>

\* The first microtask runs, if the controller it points to still exists.
RunReaction ==
    LET job == Head(jobs)
    IN  /\ turn # None /\ jobs # <<>>
        /\ IF life[owner[job.stream]] = "dead"
           THEN /\ fault' = "use_after_free"
                /\ UNCHANGED <<pull, jobs, controllers>>
           ELSE /\ UNCHANGED fault
                /\ \/ Starts(job) /\ StartResolved(job.stream)
                   \/ job.of = "pull" /\ ~job.rejected /\ PullResolved(job.stream)
                   \/ job.rejected /\ ~Starts(job) /\ Rejected
        /\ UNCHANGED <<life, turn, owner, start>>

Next ==
    /\ fault = "none"
    /\ \/ \E r \in Request : TurnBegins(r)
       \/ \E s \in Stream : NewStream(s)
       \/ \E s \in Stream, of \in {"start", "pull"} : Settle(s, of)
       \/ RunReaction
       \/ TurnEnds

Spec == Init /\ [][Next]_vars

\* The checkpoint of a turn runs all microtasks.
FairSpec == Spec /\ WF_vars(fault = "none" /\ RunReaction)

-----------------------------------------------------------------------------
(* Properties.                                                             *)

\* Types, and that at most one reaction of a stream is due at a time.
TypeOK ==
    /\ life \in [Request -> {"none", "live", "dead"}]
    /\ turn \in Request \cup {None}
    /\ owner \in [Stream -> Request \cup {None}]
    /\ start \in [Stream -> Promise] /\ pull \in [Stream -> Promise]
    /\ jobs \in Seq(Reaction)
    /\ \A i, j \in DOMAIN jobs : jobs[i].stream = jobs[j].stream => i = j
    /\ started \in [Stream -> BOOLEAN]
    /\ pulling \in [Stream -> BOOLEAN]
    /\ pullAgain \in [Stream -> BOOLEAN]
    /\ fault \in {"none", "use_after_free"}

\* A source is pulled only when its start was fulfilled, whichever promises of
\* whichever streams are settled in between, and never when start was rejected
\* (readableStreamDefaultControllerCallPullIfNeeded, step 3).
PulledAfterStart ==
    \A s \in Stream : pull[s] # "none" => started[s] /\ start[s] = "fulfilled"

\* pulling_ is set exactly from the call of pull until the reaction to its
\* promise has run; after a rejected one it is set for ever.
PullingIsExact ==
    \A s \in Stream :
        pulling[s] <=>
            \/ pull[s] \in {"pending", "rejected"}
            \/ \E i \in DOMAIN jobs : jobs[i].stream = s /\ jobs[i].of = "pull"

\* Of scripts that settle the promises of a stream in time no reaction finds its
\* controller deleted: the checkpoint comes before the scope can be deleted.
NoFault == fault = "none"

\* The assertion the comments quote from the standard and the code does not check:
\* whenever the reaction to the promise of start runs, its controller is not
\* pulling, nor was it started before (controller_startAlgorithm_resolved).
AssertionsHold ==
    \A i \in DOMAIN jobs :
        jobs[i].of = "start" => ~pulling[jobs[i].stream] /\ ~started[jobs[i].stream]

\* Every source whose start is fulfilled is pulled.
EveryStartIsPulled ==
    \A s \in Stream : start[s] = "fulfilled" ~> pull[s] # "none"
=============================================================================
