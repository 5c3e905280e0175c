----------------------------- MODULE WorkerLoop -----------------------------
(***************************************************************************)
(* One worker on one event loop of the HTTP server: what happens from the  *)
(* arrival of a request to the deletion of its RequestScope.               *)
(*                                                                         *)
(* The loop runs one callback at a time ("turn"): the HTTP handler         *)
(* (Worker::handle_http_request, which calls the "fetch" listeners of the  *)
(* script), the callback of a timer (JsTimer::execute), or                 *)
(* V8FetchContext::fulfill_promise.  Other threads only answer fetches:    *)
(* SendAsyncDone and SendAsyncFailed may happen between any two steps.     *)
(*                                                                         *)
(* Between the entry and the end of a callback the script runs.  A script  *)
(* is any sequence of the calls the bindings offer: the module says        *)
(* nothing of the script but which HABITS it has.  A habit is an           *)
(* assumption on the environment; with Habits = {} every script is one of  *)
(* the behaviours.                                                         *)
(*                                                                         *)
(* A use of freed memory and a failed cast are undefined: the loop has no  *)
(* step after one ("fault").                                               *)
(***************************************************************************)
EXTENDS Sequences, RequestScope

CONSTANTS Fetch,      \* calls of fetch()
          Timer,      \* calls of setTimeout and setInterval
          Repeat,     \* {FALSE}: no setInterval; BOOLEAN: both
          Outcome,    \* values scripts settle their promises with
          Returns,    \* how the functions of listeners return
          Habits      \* what is assumed of the script and of the network

AllHabits ==
    {"responds_once_in_handler", "awaits_fetches", "fulfills_with_response",
     "settles_promises", "clears_own_timers", "loads_cleanly",
     "fetches_answered"}

ASSUME NoneAssumption ==
    None \notin Request \cup Context \cup (Request \X Name)
ASSUME ListenerAssumption == NListeners \in Nat \ {0}
ASSUME StatusAssumption == Status \subseteq Nat
ASSUME RepeatAssumption == Repeat \subseteq BOOLEAN
ASSUME OutcomeAssumption == Outcome \subseteq PromiseValue \ {"pending"}
ASSUME ReturnsAssumption == Returns \subseteq {"returned", "pending", "failed"}
ASSUME HabitsAssumption == Habits \subseteq AllHabits

VARIABLES
    pool,       \* V8Runtime::context_queue_
    ctx,        \* the V8JsContext objects
    scope,      \* the RequestScope of each request
    fetch,      \* the V8FetchContext objects
    timer,      \* the JsTimer objects
    promise,    \* the promises of the run of the script for a request
    turn,       \* the callback the loop is in
    wire,       \* the answers a client got: who built each
    fault       \* the undefined behaviour the loop ran into

vars == <<pool, ctx, scope, fetch, timer, promise, turn, wire, fault>>

-----------------------------------------------------------------------------
(* Contexts.  "scope" is the pointer in V8_JS_CONTEXT_REQUEST_SCOPE_INDEX, *)
(* "promise" is respose_promise_, "error" is error_code_ # 0.              *)

ContextType ==
    [state : {"unused", "ready", "deleted"},
     scope : Request \cup {None},
     promise : (Request \X Name) \cup {None},
     error : BOOLEAN,
     listeners : 0 .. NListeners]

MakeContext(state, error, n) ==
    [state |-> state, scope |-> None, promise |-> None, error |-> error,
     listeners |-> n]

NoContext == MakeContext("unused", FALSE, 0)

\* V8JsContext::Create runs the script again.  It may throw before or after
\* it registered listeners; a script that registers none is an error too.
FreshContexts ==
    {x \in {MakeContext("ready", e, n) : e \in BOOLEAN, n \in 0 .. NListeners} :
        /\ x.error \/ x.listeners > 0
        /\ "loads_cleanly" \in Habits => ~x.error /\ x.listeners = NListeners}

TimerType ==
    [state : {"unused", "armed", "stopped", "freed"},
     scope : Request \cup {None},
     repeat : BOOLEAN]

NoTimer == [state |-> "unused", scope |-> None, repeat |-> FALSE]

\* JsTimer::create and start: the loop has the timer.
NewTimer(r, repeat) == [state |-> "armed", scope |-> r, repeat |-> repeat]

\* "cancelled" is is_cancelled_ of the fetch event: only dispatchEvent reads it.
TurnType ==
    [kind : {"idle", "listener", "respond", "timer", "fetch"},
     req : Request \cup {None},
     listener : 0 .. NListeners,
     cancelled : BOOLEAN]

NewTurn(kind, r, i) ==
    [kind |-> kind, req |-> r, listener |-> i, cancelled |-> FALSE]
Idle == NewTurn("idle", None, 0)

\* compile() leaves one good context in the queue.
Init ==
    \E c \in Context :
        /\ pool = <<c>>
        /\ ctx = [d \in Context |->
                    IF d = c THEN MakeContext("ready", FALSE, NListeners)
                             ELSE NoContext]
        /\ scope = [r \in Request |-> NoScope]
        /\ fetch = [f \in Fetch |-> NoFetch]
        /\ timer = [t \in Timer |-> NoTimer]
        /\ promise = [r \in Request |-> [n \in Name |-> "pending"]]
        /\ turn = Idle
        /\ wire = [r \in Request |-> <<>>]
        /\ fault = "none"

-----------------------------------------------------------------------------
(* The script.  It runs in the turns below; the scope its calls reach is   *)
(* the one its context points at.                                          *)

InScript == turn.kind \in {"listener", "timer", "fetch"}

\* getRequestScope of the context that runs.
CurrentScope == ctx[scope[turn.req].context].scope

FetchesOf(r) == {f \in Fetch : fetch[f].scope = r}
TimersOf(r) == {t \in Timer : timer[t].scope = r}

\* A promise keeps the scope s of r alive: one given to waitUntil, or the
\* promised response while nothing was sent.
AwaitsPromise(r, s, values) ==
    \E n \in Name :
        /\ values[n] = "pending"
        /\ \/ n \in s.waits
           \/ /\ ~s.sent /\ ~s.error /\ s.response = None
              /\ ctx[s.context].promise = <<r, n>>

\* A fetch, or anything at all, will call the script of r again.
FetchDue(r) == \E f \in FetchesOf(r) : Unfinished(fetch[f])
TimerDue(r) == \E t \in TimersOf(r) : timer[t].state = "armed"

\* Habit: as long as a fetch is due, a promise keeps the scope alive.
AwaitsFetches(r, s, values) ==
    "awaits_fetches" \in Habits => (FetchDue(r) => AwaitsPromise(r, s, values))

\* Habit: a turn ends with a promise pending only if something is due that
\* can settle it.
SettlesPromises(r, s) ==
    "settles_promises" \in Habits =>
        (AwaitsPromise(r, s, promise[r]) => FetchDue(r) \/ TimerDue(r))

\* Habit: respondWith is called once, before the handler returns.
MayRespond ==
    "responds_once_in_handler" \in Habits =>
        turn.kind = "listener" /\ ~turn.cancelled

\* respondWith cancels its event first: no other listener is called.
Cancel == turn' = [turn EXCEPT !.cancelled = TRUE]

\* respondWith(new Response(...)).
RespondWithResponse(st) ==
    /\ InScript /\ MayRespond
    /\ Cancel
    /\ scope' = [scope EXCEPT ![CurrentScope] = SetResponse(@, turn.req, st)]
    /\ UNCHANGED <<pool, ctx, fetch, timer, promise, wire, fault>>

\* respondWith() of nothing, or of a value that is no Response and no promise:
\* the script gets a TypeError.
RespondWithInvalid ==
    /\ InScript
    /\ "responds_once_in_handler" \notin Habits
    /\ Cancel
    /\ UNCHANGED <<pool, ctx, scope, fetch, timer, promise, wire, fault>>

\* Bug: a promise saved for an earlier request is kept.
SavePromiseOnce(c, saved) ==
    IF ctx[c].promise = None THEN [ctx EXCEPT ![c].promise = saved] ELSE ctx

\* save_response_promise: the promise replaces the one saved before.
SavePromise(c, saved) == [ctx EXCEPT ![c].promise = saved]

\* respondWith(promise): a pending promise is saved in the context; a settled
\* one sets the response, or the error, at once.
RespondWithPromise(n, st) ==
    LET value == promise[turn.req][n]
        c == scope[turn.req].context
    IN  /\ InScript /\ MayRespond
        /\ "fulfills_with_response" \in Habits =>
              value \notin {"other", "rejected"}
        /\ Cancel
        /\ scope' = [scope EXCEPT ![CurrentScope] =
                  CASE value \in {"response", "shared"} ->
                           SetResponse(@, turn.req, st)
                    [] value = "rejected" -> SetError(@)
                    [] OTHER -> @]
        /\ ctx' = IF value = "pending" THEN SavePromise(c, <<turn.req, n>>)
                  ELSE ctx
        /\ UNCHANGED <<pool, fetch, timer, promise, wire, fault>>

\* event.waitUntil(promise).
WaitUntil(n) ==
    /\ InScript
    /\ scope' = [scope EXCEPT ![CurrentScope].waits = @ \cup {n}]
    /\ UNCHANGED <<pool, ctx, fetch, timer, promise, turn, wire, fault>>

\* The script settles a promise of its own.
SettlePromise(n, v) ==
    /\ InScript
    /\ promise[turn.req][n] = "pending"
    /\ AwaitsFetches(turn.req, scope[turn.req], [promise[turn.req] EXCEPT ![n] = v])
    /\ "fulfills_with_response" \in Habits =>
          /\ v # "rejected"
          /\ v = "other" =>
                ctx[scope[turn.req].context].promise # <<turn.req, n>>
    /\ promise' = [promise EXCEPT ![turn.req][n] = v]
    /\ UNCHANGED <<pool, ctx, scope, fetch, timer, turn, wire, fault>>

\* The promise of an async listener is rejected after the listener returned.
\* No code observes it.
RejectListener(i) ==
    /\ InScript
    /\ i \in scope[turn.req].pending
    /\ scope' = [scope EXCEPT ![turn.req].pending = @ \ {i},
                              ![turn.req].rejected = @ \cup {i}]
    /\ UNCHANGED <<pool, ctx, fetch, timer, promise, turn, wire, fault>>

\* fetch(url): the request is saved in the scope and sent by a later
\* handle_waitings.
GlobalFetch(f) ==
    /\ InScript
    /\ fetch[f].state = "unused"
    /\ "awaits_fetches" \in Habits =>
          AwaitsPromise(turn.req, scope[turn.req], promise[turn.req])
    /\ fetch' = [fetch EXCEPT ![f] = NewFetch(CurrentScope)]
    /\ UNCHANGED <<pool, ctx, scope, timer, promise, turn, wire, fault>>

\* setTimeout and setInterval.  The timer is allocated in the scope's heap.
SetTimer(t, repeat) ==
    /\ InScript
    /\ timer[t].state = "unused"
    /\ timer' = [timer EXCEPT ![t] = NewTimer(CurrentScope, repeat)]
    /\ UNCHANGED <<pool, ctx, scope, fetch, promise, turn, wire, fault>>

\* clearTimeout and clearInterval take any timer id of the loop.
KillTimer(t) ==
    /\ InScript
    /\ timer[t].state = "armed"
    /\ "clears_own_timers" \in Habits => timer[t].scope = turn.req
    /\ timer' = [timer EXCEPT ![t].state = "stopped"]
    /\ UNCHANGED <<pool, ctx, scope, fetch, promise, turn, wire, fault>>

-----------------------------------------------------------------------------
(* handle_waitings and the end of a scope.                                 *)

\* Bug: the loop over the fetches of the scope is missing.
DoNoFetchRequests(fs, r) == fs

\* do_fetch_requests: the fetches of the scope that were not sent yet are.
DoFetchRequests(fs, r) ==
    [f \in Fetch |-> IF fs[f].scope = r THEN DoRequest(fs[f]) ELSE fs[f]]

\* terminate_fetch_requests: the scope gives up its references.
TerminateFetches(fs, r) ==
    [f \in Fetch |-> IF fs[f].scope = r THEN Release(fs[f]) ELSE fs[f]]

\* The fulfill_promise calls in fin return.
FinishFetches(fs, fin) ==
    [f \in Fetch |-> IF f \in fin THEN Finished(fs[f]) ELSE fs[f]]

\* Bug: the destructor of JsTimer does not kill the timer of the loop.
FreeTimersLeaveArmed(ts, r) == ts

\* The heap of the scope is freed and its timers with it.
FreeTimers(ts, r) ==
    [t \in Timer |-> IF ts[t].scope = r THEN [ts[t] EXCEPT !.state = "freed"]
                                        ELSE ts[t]]

\* Bug: a context with an error goes back to the queue.
RecycleBroken(c) == /\ pool' = Append(pool, c)
                    /\ UNCHANGED ctx

\* recycle_context: a context whose script failed is deleted.
Recycle(c) ==
    IF ctx[c].error
    THEN /\ ctx' = [ctx EXCEPT ![c].state = "deleted"]
         /\ UNCHANGED pool
    ELSE /\ pool' = Append(pool, c)
         /\ UNCHANGED ctx

\* RequestScope::destroy with every waitUntil done: ~RequestScope, which
\* recycles the context c if there is one to recycle.
Destroy(r, s, fs, c) ==
    /\ scope' = [scope EXCEPT ![r] = DeadScope(s)]
    /\ fetch' = TerminateFetches(fs, r)
    /\ timer' = FreeTimers(timer, r)
    /\ IF c = None THEN UNCHANGED <<pool, ctx>> ELSE Recycle(c)

\* The scope goes on waiting.
Keep(r, s, fs) ==
    /\ scope' = [scope EXCEPT ![r] = s]
    /\ fetch' = fs
    /\ UNCHANGED <<pool, ctx, timer>>

\* What handle_waitings gets from get_promised_respose: the promise saved in
\* the context, once it is fulfilled, or None.  It asks only while nothing is
\* sent.  Nothing clears the promise when the context is recycled.
Promised(s) ==
    IF s.sent \/ s.runtime = None THEN None
    ELSE LET saved == ctx[s.runtime].promise
         IN  IF saved # None /\ promise[saved[1]][saved[2]] \in Fulfilled
             THEN saved ELSE None

\* What goes wrong when handle_waitings uses the promised response: its
\* value is cast without a check, and it may be gone with another scope.
WaitingsFault(s) ==
    LET saved == Promised(s)
        value == promise[saved[1]][saved[2]]
    IN  IF saved = None THEN "none"
        ELSE IF value = "other" THEN "bad_cast"
        ELSE IF value = "response" /\ scope[saved[1]].life = "dead" /\ ~s.error
             THEN "use_after_free"
        ELSE "none"

\* handle_waitings of the scope r, whose fields are s.  A promised response
\* is sent, and an error is handled; the error reaches nobody, because the
\* handler has returned.  A response_ set since then is not sent.  said is what
\* the client was told before, fin are the fetches whose fulfill_promise
\* returns right after it.
HandleWaitings(r, s, said, fin) ==
    LET sentAll == DoFetchRequests(fetch, r)
        saved == Promised(s)
        took == IF saved = None THEN s ELSE [s EXCEPT !.response = saved[1]]
        handles == saved # None \/ s.error
        after == IF handles THEN HandleResponse(took) ELSE s
        left == FinishFetches(sentAll, fin)
    IN  IF WaitingsFault(s) # "none"
        THEN /\ fault' = WaitingsFault(s)
             /\ Keep(r, s, sentAll)
             /\ UNCHANGED wire
        ELSE /\ wire' = [wire EXCEPT ![r] =
                            IF handles /\ Writes(took)
                            THEN Append(said, took.response) ELSE said]
             /\ IF after.sent /\ AllWaitUntilsDone(after, promise[r])
                THEN Destroy(r, after, left, s.runtime)
                ELSE Keep(r, after, left)
             /\ UNCHANGED fault

-----------------------------------------------------------------------------
(* The callbacks of the loop.                                              *)

\* get_context: the context at the head of the queue, or a new one.  The
\* error of a new one is not looked at.
GetContext(c, x) ==
    \/ /\ pool # <<>> /\ c = Head(pool) /\ x = ctx[c]
       /\ pool' = Tail(pool)
    \/ /\ pool = <<>> /\ ctx[c].state = "unused" /\ x \in FreshContexts
       /\ UNCHANGED pool

\* Worker::handle_http_request up to the first listener.
HandleHttpRequest(r) ==
    /\ turn.kind = "idle"
    /\ scope[r].life = "none"
    /\ \E c \in Context : \E x \in FreshContexts \cup {ctx[c]} :
          /\ GetContext(c, x)
          /\ ctx' = [ctx EXCEPT ![c] = [x EXCEPT !.scope = r]]
          /\ scope' = [scope EXCEPT ![r] = NewScope(c)]
          /\ turn' = IF x.listeners = 0 THEN NewTurn("respond", r, 0)
                     ELSE NewTurn("listener", r, 1)
    /\ UNCHANGED <<fetch, timer, promise, wire, fault>>

\* Bug: the loop over the listeners goes one too far.
LastListenerPassed(c, i) == i > ctx[c].listeners

\* dispatchEvent: its loop ends with the listener i of the context c.
LastListener(c, i) == i = ctx[c].listeners

\* The listener's function returns: a value, a promise still pending, or an
\* exception (or a promise already rejected).  dispatchEvent goes to the next
\* listener unless the event is cancelled.
ListenerReturns(out) ==
    LET r == turn.req
        s == IF out = "failed" THEN SetError(scope[r])
             ELSE IF out = "pending"
                  THEN [scope[r] EXCEPT !.pending = @ \cup {turn.listener}]
             ELSE scope[r]
        c == s.context
        last == turn.cancelled \/ LastListener(c, turn.listener)
    IN  /\ turn.kind = "listener"
        /\ AwaitsFetches(r, s, promise[r])
        /\ last => SettlesPromises(r, s)
        /\ last /\ "responds_once_in_handler" \in Habits =>
              s.error \/ turn.cancelled
        /\ scope' = [scope EXCEPT ![r] = s]
        /\ turn' = IF last THEN NewTurn("respond", r, 0)
                   ELSE NewTurn("listener", r, turn.listener + 1)
        /\ UNCHANGED <<pool, ctx, fetch, timer, promise, wire, fault>>

\* The rest of handle_http_request: handle_response; with a status and no
\* waitUntil left the scope is destroyed and the context recycled, else the
\* scope gets the context and waits.  If the handler returns a status and has
\* not written a response, the framework sends the body it has set.
Respond ==
    LET r == turn.req
        before == scope[r]
        s == HandleResponse(before)
        status == ResponseStatus(before)
        said == IF Writes(before) THEN Append(wire[r], before.response)
                ELSE IF status # 0 THEN Append(wire[r], r)
                ELSE wire[r]
    IN  /\ turn.kind = "respond"
        /\ turn' = Idle
        /\ UNCHANGED promise
        /\ IF status # 0 /\ AllWaitUntilsDone(s, promise[r])
           THEN /\ Destroy(r, s, fetch, s.context)
                /\ wire' = [wire EXCEPT ![r] = said]
                /\ UNCHANGED fault
           ELSE HandleWaitings(r, SetRuntimeContext(s), said, {})

\* JsTimer::execute begins; the loop drops a timer that does not repeat.
TimerExecute(t) ==
    /\ turn.kind = "idle"
    /\ timer[t].state = "armed"
    /\ IF scope[timer[t].scope].life = "dead"
       THEN /\ fault' = "use_after_free"
            /\ UNCHANGED <<timer, turn>>
       ELSE /\ turn' = NewTurn("timer", timer[t].scope, 0)
            /\ timer' = IF timer[t].repeat THEN timer
                        ELSE [timer EXCEPT ![t].state = "stopped"]
            /\ UNCHANGED fault
    /\ UNCHANGED <<pool, ctx, scope, fetch, promise, wire>>

\* V8FetchContext::fulfill_promise begins.  It ends in handle_waitings of the
\* scope it was made for, whether that scope still exists or not.
FulfillPromise(f) ==
    /\ turn.kind = "idle"
    /\ fetch[f].state = "queued"
    /\ IF scope[fetch[f].scope].life = "dead"
       THEN /\ fault' = "use_after_free"
            /\ UNCHANGED <<fetch, turn>>
       ELSE /\ turn' = NewTurn("fetch", fetch[f].scope, 0)
            /\ fetch' = [fetch EXCEPT ![f] = Started(@)]
            /\ UNCHANGED fault
    /\ UNCHANGED <<pool, ctx, scope, timer, promise, wire>>

\* The end of both: handle_waitings, and for fulfill_promise release().
CallbackReturns ==
    LET r == turn.req
        fin == {f \in Fetch : fetch[f].state = "running"}
    IN  /\ turn.kind \in {"timer", "fetch"}
        /\ SettlesPromises(r, scope[r])
        /\ turn' = Idle
        /\ UNCHANGED promise
        /\ HandleWaitings(r, scope[r], wire[r], fin)

-----------------------------------------------------------------------------
(* The HTTP client's thread.  Answers reach the loop in any order.         *)

\* The callback with a response: fulfill_promise is queued.
SendAsyncDone(f) ==
    /\ fetch[f].state = "sent"
    /\ fetch' = [fetch EXCEPT ![f] = Answered(@)]
    /\ UNCHANGED <<pool, ctx, scope, timer, promise, turn, wire, fault>>

\* The callback with nullptr (no connection, timeout): it returns.
SendAsyncFailed(f) ==
    /\ "fetches_answered" \notin Habits
    /\ fetch[f].state = "sent"
    /\ fetch' = [fetch EXCEPT ![f] = Unanswered(@)]
    /\ UNCHANGED <<pool, ctx, scope, timer, promise, turn, wire, fault>>

-----------------------------------------------------------------------------
Script ==
    \/ \E st \in Status : RespondWithResponse(st)
    \/ RespondWithInvalid
    \/ \E n \in Name, st \in Status : RespondWithPromise(n, st)
    \/ \E n \in Name : WaitUntil(n)
    \/ \E n \in Name, v \in Outcome : SettlePromise(n, v)
    \/ \E i \in 1 .. NListeners : RejectListener(i)
    \/ \E f \in Fetch : GlobalFetch(f)
    \/ \E t \in Timer, repeat \in Repeat : SetTimer(t, repeat)
    \/ \E t \in Timer : KillTimer(t)

EndOfTurn ==
    \/ \E out \in Returns : ListenerReturns(out)
    \/ Respond
    \/ CallbackReturns

Loop ==
    \/ \E r \in Request : HandleHttpRequest(r)
    \/ \E t \in Timer : TimerExecute(t)
    \/ \E f \in Fetch : FulfillPromise(f)

Client == \E f \in Fetch : SendAsyncDone(f) \/ SendAsyncFailed(f)

Next == fault = "none" /\ (Script \/ EndOfTurn \/ Loop \/ Client)

Spec == Init /\ [][Next]_vars

\* A turn of the script ends, the loop gets to every callback that is due,
\* and the client answers every fetch it was given.  Whether a request comes,
\* and what a script calls before its turn ends, is up to the environment.
Fairness ==
    /\ WF_vars(fault = "none" /\ EndOfTurn)
    /\ WF_vars(fault = "none" /\ \E n \in Name, v \in Outcome : SettlePromise(n, v))
    /\ \A t \in Timer : WF_vars(fault = "none" /\ TimerExecute(t))
    /\ \A f \in Fetch : WF_vars(fault = "none" /\ FulfillPromise(f))
    /\ \A f \in Fetch : WF_vars(fault = "none" /\ SendAsyncDone(f))

FairSpec == Spec /\ Fairness

-----------------------------------------------------------------------------
(* Properties of every script.                                             *)

TypeOK ==
    /\ pool \in Seq(Context)
    /\ ctx \in [Context -> ContextType]
    /\ scope \in [Request -> ScopeType]
    /\ fetch \in [Fetch -> FetchType]
    /\ timer \in [Timer -> TimerType]
    /\ promise \in [Request -> [Name -> PromiseValue]]
    /\ turn \in TurnType
    /\ wire \in [Request -> Seq(Request)]
    /\ fault \in {"none", "use_after_free", "bad_cast"}

Live(r) == scope[r].life = "live"
Pooled(c) == \E i \in DOMAIN pool : pool[i] = c
Held(c) == \E r \in Request : Live(r) /\ scope[r].context = c

\* A context is lent to one request at a time: it is once in the queue, or
\* held by one live scope, which is the scope its script reaches; it is not
\* lost before it is deleted, and one with an error never gets into the queue.
\* (Worker::handle_http_request and ~RequestScope both recycle.)
ContextOwnership ==
    /\ \A i, j \in DOMAIN pool : pool[i] = pool[j] => i = j
    /\ \A c \in Context : Pooled(c) =>
          ctx[c].state = "ready" /\ ~ctx[c].error /\ ~Held(c)
    /\ \A r \in Request : Live(r) =>
          /\ scope[r].context \in Context
          /\ ctx[scope[r].context].state = "ready"
          /\ ctx[scope[r].context].scope = r
    /\ \A c \in Context : ctx[c].state = "ready" => Pooled(c) \/ Held(c)

\* A fetch belongs to a scope that was made before it, and its references are
\* one for that scope while it lives, and one for the callback the client has:
\* retain and release pair up over every order of the answer and the end of
\* the scope.
FetchReferences ==
    \A f \in Fetch :
        IF fetch[f].state = "unused" THEN fetch[f] = NoFetch
        ELSE /\ fetch[f].scope \in Request
             /\ scope[fetch[f].scope].life # "none"
             /\ fetch[f].refs = (IF Live(fetch[f].scope) THEN 1 ELSE 0)
                              + (IF HeldByCallback(fetch[f]) THEN 1 ELSE 0)

\* A callback runs for a live scope, and only there: the listener that runs is
\* one the context has; a scope has its runtime_context_ exactly when its
\* handler has returned, so that destroy() in the handler and ~RequestScope
\* later never both recycle; fulfill_promise is on the stack for the scope of
\* its turn only.
CallbacksConsistent ==
    /\ turn.kind # "idle" => turn.req \in Request /\ Live(turn.req)
    /\ turn.kind = "listener" =>
          turn.listener \in 1 .. ctx[scope[turn.req].context].listeners
    /\ \A r \in Request : Live(r) =>
          scope[r].runtime =
              IF turn.kind \in {"listener", "respond"} /\ turn.req = r
              THEN None ELSE scope[r].context
    /\ \A f \in Fetch : fetch[f].state = "running" /\ fault = "none" =>
          turn.kind = "fetch" /\ fetch[f].scope = turn.req

\* A scope is deleted only once its response was sent and every promise given
\* to waitUntil is fulfilled (destroy, handle_waitings).
DeadScopeSettled ==
    \A r \in Request : scope[r].life = "dead" =>
        /\ scope[r].sent
        /\ \A n \in scope[r].waits : promise[r][n] \in Fulfilled

\* No timer of a deleted scope can fire: ~JsTimer kills it (JsTimer::execute
\* uses the scope without a check).
TimersDieWithScope ==
    \A t \in Timer : timer[t].state = "armed" =>
        timer[t].scope \in Request /\ Live(timer[t].scope)

\* Between callbacks no scope is left with something to do that nobody will
\* do: its fetches are sent; a promised response or an error is handled; a
\* scope with everything done is gone (handle_waitings ends every callback).
IdleScopesAreWaiting ==
    turn.kind = "idle" /\ fault = "none" => \A r \in Request : Live(r) =>
        LET saved == ctx[scope[r].context].promise
            open == \E n \in scope[r].waits : promise[r][n] \notin Fulfilled
        IN  /\ \A f \in FetchesOf(r) : fetch[f].state # "created"
            /\ scope[r].sent => open
            /\ scope[r].error => scope[r].sent
            /\ saved # None /\ promise[saved[1]][saved[2]] \in Fulfilled
                  => scope[r].sent

\* A client is answered at most once, by the step that marks the response as
\* sent (is_response_sent_ guards the writer and the status of the handler).
AnswersOnce ==
    [][\A r \in Request : wire'[r] # wire[r] =>
          /\ ~scope[r].sent /\ scope'[r].sent
          /\ wire[r] = <<>> /\ Len(wire'[r]) = 1]_vars

-----------------------------------------------------------------------------
(* Properties of scripts with every habit.                                 *)

\* Nothing undefined happens: no callback uses a scope, a response or a
\* context that is gone, and no promised value is cast wrongly.
NoFault == fault = "none"

\* A response marked as sent has reached the client (is_response_sent_).
SentReachesClient ==
    \A r \in Request : scope[r].sent => Len(wire[r]) = 1

\* A client gets an answer its own request built, never one that a promise
\* left in the pooled context built for another request (respose_promise_).
OwnAnswer ==
    \A r \in Request : \A i \in DOMAIN wire[r] : wire[r][i] = r

\* Every request is answered.
EveryRequestAnswered ==
    \A r \in Request : Live(r) ~> wire[r] # <<>>

\* Every scope is deleted in the end, and with it the context is back.
EveryScopeFreed ==
    \A r \in Request : Live(r) ~> scope[r].life = "dead"

\* Every fetch is deleted in the end.
EveryFetchFreed ==
    \A f \in Fetch : fetch[f].state # "unused" ~> fetch[f].refs = 0

-----------------------------------------------------------------------------
(* What the comments of the code say, and the code does not do.            *)

\* "if promise is rejected, it will set req_scope->error_msg", of the promise
\* an async listener returns.
LateRejectionReported ==
    \A r \in Request :
        turn.kind = "idle" /\ Live(r) /\ scope[r].rejected # {}
            => scope[r].error

\* The assertion that what is unwrapped is an object with an internal field.
OnlyObjectsUnwrapped == fault # "bad_cast"
=============================================================================
