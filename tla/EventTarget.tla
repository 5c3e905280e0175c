---------------------------- MODULE EventTarget -----------------------------
(***************************************************************************)
(* The global event target of each V8JsContext: its listeners, the mutex   *)
(* that dispatchEvent holds while the script runs, and the heaps in which  *)
(* the listeners are allocated.  A listener added while a request uses the *)
(* context is allocated in the heap of that request, but the target keeps  *)
(* it for as long as the context lives; and a fetch goes on when its scope *)
(* has ended, until its answer calls the script once more, in the context  *)
(* it was made in.  Which request has which context is ContextLease;       *)
(* WorkerLoop says in detail when a scope ends, here it may end with any   *)
(* of its turns.                                                           *)
(***************************************************************************)
EXTENDS Naturals, Sequences

CONSTANTS Request, Context, None,
          Type,           \* names of events; "fetch" is the only one dispatched
          MaxListeners,   \* bound on the listeners of a target
          Habits          \* what the scripts do, a subset of AllHabits

AllHabits == {
    "first_responds",         \* a listener that is called responds
    "adds_outside_dispatch",  \* addEventListener is not called in a listener
    "no_top_level_timers",    \* setTimeout is not called while loading
    "awaits_fetches"}         \* a scope does not end while it has a fetch under way

ASSUME NoneAssumption == None \notin Request /\ None \notin Context
ASSUME TypeAssumption == "fetch" \in Type
ASSUME MaxAssumption == MaxListeners \in Nat \ {0}
ASSUME HabitsAssumption == Habits \subseteq AllHabits

VARIABLES idle, held, made, bad,   \* of ContextLease
          listeners,  \* listeners_ of each target: an event name and the heap
                      \* of the JsEventListener, None for that of the script
          locked,     \* lock_ of each target
          embedded,   \* the request scope in the embedder data of each context
          life,       \* of the request scopes
          fetching,   \* the scope and the context of each fetch under way
          armed,      \* contexts whose script set a timer while it was loaded
          turn,       \* the callback that runs
          fault       \* "none", or what went wrong for good

leaseVars == <<idle, held, made, bad>>
vars == <<idle, held, made, bad, listeners, locked, embedded, life, fetching, armed,
          turn, fault>>

Lease == INSTANCE ContextLease

Item == [type : Type, heap : Request \cup {None}]

\* The callback that runs: "dispatch" between listeners, "listener" in the
\* listener at, "respond" after dispatchEvent, "task" in a timer of the request,
\* "fetch" in the answer to a fetch of the request, which may be gone, "top" in
\* a timer of the script itself.
Turn(kind, c, r) ==
    [kind |-> kind, context |-> c, req |-> r, at |-> 0, cancelled |-> FALSE]
NoTurn == Turn("idle", None, None)
TurnType ==
    {NoTurn} \cup [kind : {"dispatch", "listener", "respond", "task", "fetch", "top"},
                 context : Context, req : Request \cup {None},
                 at : Nat, cancelled : BOOLEAN]

\* hasListener.
HasListener(items, name) == \E i \in DOMAIN items : items[i].type = name

\* What a script can leave in its target while it is loaded: no request is in
\* the embedder data of a new context, so all of it is in the script's heap.
TopLevelItems ==
    UNION {[1 .. n -> [type : Type, heap : {None}]] : n \in 0 .. MaxListeners}

\* Bug: the check that there is a handler is forgotten.
LoadFailsByException(items, threw) == threw

\* V8JsContext::Create fails: an exception, or no listener for fetch.
LoadFails(items, threw) == threw \/ ~HasListener(items, "fetch")

MayArm(b) == b => "no_top_level_timers" \notin Habits

Init ==
    /\ Lease!Init
    /\ listeners \in {l \in [Context -> TopLevelItems] :
                        \A c \in Context : IF c \in made THEN HasListener(l[c], "fetch")
                                           ELSE l[c] = <<>>}
    /\ locked = [c \in Context |-> FALSE]
    /\ embedded = [c \in Context |-> None]
    /\ life = [r \in Request |-> "none"]
    /\ fetching = {}
    /\ armed \in {a \in SUBSET made : MayArm(a # {})}
    /\ turn = NoTurn
    /\ fault = "none"

-----------------------------------------------------------------------------
(* A request.                                                              *)

\* Bug: addListener does not take the mutex.
WouldBlockNever(c) == FALSE

\* The mutex is not recursive, and only the thread that waits would release it.
WouldBlock(c) == locked[c]

\* Bug: the scope is not put into the embedder data.
EmbedNothing(c, r) == embedded

\* The first lines of V8JsContext::handle_http_request.
Embed(c, r) == [embedded EXCEPT ![c] = r]

\* The part of a request that is the same for every context: its scope is put
\* into the context, and dispatchEvent takes the mutex of the target.
BeginDispatch(c, r) ==
    /\ embedded' = Embed(c, r)
    /\ life' = [life EXCEPT ![r] = "live"]
    /\ turn' = Turn("dispatch", c, r)
    /\ locked' = [locked EXCEPT ![c] = TRUE]
    /\ fault' = IF WouldBlock(c) THEN "deadlock" ELSE "none"

\* A request on a context of the queue.
HandleHttpRequest(r) ==
    /\ turn.kind = "idle" /\ life[r] = "none"
    /\ Lease!Lend(r)
    /\ BeginDispatch(Head(idle), r)
    /\ UNCHANGED <<listeners, fetching, armed>>

\* A request for which get_context loads the script again, to the end or to an
\* exception.
HandleOnNewContext(r, c) ==
    /\ turn.kind = "idle" /\ life[r] = "none"
    /\ Lease!LendNew(r, c)
    /\ \E items \in TopLevelItems, threw, arms \in BOOLEAN :
          /\ MayArm(arms)
          /\ listeners' = [listeners EXCEPT ![c] = items]
          /\ bad' = IF LoadFails(items, threw) THEN bad \cup {c} ELSE bad
          /\ armed' = IF arms THEN armed \cup {c} ELSE armed
    /\ BeginDispatch(c, r)
    /\ UNCHANGED fetching

-----------------------------------------------------------------------------
(* dispatchEvent.                                                          *)

\* The listener the loop calls next: those of other events are passed over.
ComesNext(c, i) ==
    /\ i \in DOMAIN listeners[c] /\ i > turn.at
    /\ listeners[c][i].type = "fetch"
    /\ \A j \in DOMAIN listeners[c] :
          turn.at < j /\ j < i => listeners[c][j].type # "fetch"

\* A heap, if it is not that of the script, is freed with its scope.
Freed(heap) == heap # None /\ life[heap] = "dead"

\* The loop calls a listener, if it still exists.
CallListener ==
    LET c == turn.context
    IN  /\ turn.kind = "dispatch"
        /\ \E i \in DOMAIN listeners[c] :
              /\ ComesNext(c, i)
              /\ IF Freed(listeners[c][i].heap)
                 THEN fault' = "use_after_free" /\ UNCHANGED turn
                 ELSE /\ turn' = [turn EXCEPT !.kind = "listener", !.at = i]
                      /\ UNCHANGED fault
        /\ UNCHANGED <<leaseVars, listeners, locked, embedded, life, fetching, armed>>

\* Bug: the mutex is not released.
UnlockForgotten(c) == locked

\* ~lock_guard.
Unlock(c) == [locked EXCEPT ![c] = FALSE]

\* The loop is over.
DispatchEnds ==
    /\ turn.kind = "dispatch"
    /\ \A i \in DOMAIN listeners[turn.context] : ~ComesNext(turn.context, i)
    /\ locked' = Unlock(turn.context)
    /\ turn' = Turn("respond", turn.context, turn.req)
    /\ UNCHANGED <<leaseVars, listeners, embedded, life, fetching, armed, fault>>

\* Bug: the loop goes on after respondWith.
StopsNever == FALSE

\* Event::isCancelled, after the call of a listener.
Stops == turn.cancelled

\* A listener returns, or throws: the loop goes on, or dispatchEvent returns.
ListenerReturns ==
    /\ turn.kind = "listener"
    /\ "first_responds" \in Habits => turn.cancelled
    /\ IF Stops
       THEN /\ locked' = Unlock(turn.context)
            /\ turn' = Turn("respond", turn.context, turn.req)
       ELSE /\ turn' = [turn EXCEPT !.kind = "dispatch"]
            /\ UNCHANGED locked
    /\ UNCHANGED <<leaseVars, listeners, embedded, life, fetching, armed, fault>>

-----------------------------------------------------------------------------
(* What the script calls.                                                  *)

\* event.respondWith, in a listener of the event, cancels the event.
RespondWith ==
    /\ turn.kind = "listener"
    /\ turn' = [turn EXCEPT !.cancelled = TRUE]
    /\ UNCHANGED <<leaseVars, listeners, locked, embedded, life, fetching, armed, fault>>

\* getHeap: that of the scope in the embedder data, or None, that of the script.
HeapFor(c) == embedded[c]

\* addEventListener(name, ...) on the global object: the listener is allocated,
\* then the mutex is taken.
AddEventListener(name) ==
    LET c == turn.context
        heap == HeapFor(c)
    IN  /\ turn.kind \in {"listener", "task", "fetch", "top"}
        /\ "adds_outside_dispatch" \in Habits => turn.kind # "listener"
        /\ Len(listeners[c]) < MaxListeners
        /\ IF Freed(heap)
           THEN fault' = "use_after_free" /\ UNCHANGED listeners
           ELSE IF WouldBlock(c) THEN fault' = "deadlock" /\ UNCHANGED listeners
           ELSE /\ listeners' = [listeners EXCEPT
                                    ![c] = Append(@, [type |-> name, heap |-> heap])]
                /\ UNCHANGED fault
        /\ UNCHANGED <<leaseVars, locked, embedded, life, fetching, armed, turn>>

\* fetch(url): the scope in the embedder data saves the new fetch.  Without a
\* scope the script gets a TypeError.
GlobalFetch ==
    LET c == turn.context
        scope == embedded[c]
    IN  /\ turn.kind \in {"listener", "task", "fetch", "top"}
        /\ scope # None
        /\ IF Freed(scope)
           THEN fault' = "use_after_free" /\ UNCHANGED fetching
           ELSE fetching' = fetching \cup {<<scope, c>>} /\ UNCHANGED fault
        /\ UNCHANGED <<leaseVars, listeners, locked, embedded, life, armed, turn>>

-----------------------------------------------------------------------------
(* The rest of the loop.                                                   *)

\* Bug: the timers of a scope run on after it.
HasTimersLong(r) == life[r] # "none"

\* The timers of a scope end with its heap.
HasTimers(r) == life[r] = "live"

\* A timer of a request that waits calls the script.
TaskBegins(r) ==
    /\ turn.kind = "idle" /\ HasTimers(r)
    /\ turn' = Turn("task", held[r], r)
    /\ UNCHANGED <<leaseVars, listeners, locked, embedded, life, fetching, armed, fault>>

\* fulfill_promise, also for a scope that is gone: the Response is allocated in
\* the heap of the scope that is in the context by now, and then the script
\* runs.  The scope may have more fetches under way in that context.
FulfillPromise(r, c) ==
    /\ turn.kind = "idle" /\ <<r, c>> \in fetching
    /\ fetching' \in {fetching, fetching \ {<<r, c>>}}
    /\ IF Freed(HeapFor(c))
       THEN fault' = "use_after_free" /\ UNCHANGED turn
       ELSE turn' = Turn("fetch", c, r) /\ UNCHANGED fault
    /\ UNCHANGED <<leaseVars, listeners, locked, embedded, life, armed>>

\* reqScope_->handle_waitings() at the end of it, on a scope that is gone.
FetchEndsLate ==
    /\ turn.kind = "fetch" /\ life[turn.req] = "dead"
    /\ fault' = "use_after_free"
    /\ UNCHANGED <<leaseVars, listeners, locked, embedded, life, fetching, armed, turn>>

InOwnTurn ==
    turn.kind \in {"respond", "task", "fetch"} /\ life[turn.req] = "live"

\* The turn ends with RequestScope::destroy; the context goes back, or is
\* deleted.  The fetches go on, unless the scope ends right after its handler,
\* before handle_waitings could send them.
TurnEndsScope ==
    LET others == {f \in fetching : f[1] # turn.req}
    IN  /\ InOwnTurn
        /\ Lease!Return(turn.req) \/ Lease!Discard(turn.req)
        /\ life' = [life EXCEPT ![turn.req] = "dead"]
        /\ UNCHANGED fetching \/ (turn.kind = "respond" /\ fetching' = others)
        /\ "awaits_fetches" \in Habits => fetching' = others
        /\ turn' = NoTurn
        /\ UNCHANGED <<listeners, locked, embedded, armed, fault>>

\* The turn ends, the scope waits.
TurnEnds ==
    /\ InOwnTurn
    /\ turn' = NoTurn
    /\ UNCHANGED <<leaseVars, listeners, locked, embedded, life, fetching, armed, fault>>

\* A timer of the script itself: its reqScope_ is null.
TopTimerBegins(c) ==
    /\ turn.kind = "idle" /\ c \in armed
    /\ turn' = Turn("top", c, None)
    /\ UNCHANGED <<leaseVars, listeners, locked, embedded, life, fetching, armed, fault>>

\* reqScope_->handle_waitings().
TopTimerEnds ==
    /\ turn.kind = "top"
    /\ fault' = "null_scope"
    /\ UNCHANGED <<leaseVars, listeners, locked, embedded, life, fetching, armed, turn>>

EndOfTurn ==
    \/ CallListener \/ DispatchEnds \/ ListenerReturns
    \/ TurnEndsScope \/ TurnEnds \/ FetchEndsLate

Next ==
    /\ fault = "none"
    /\ \/ \E r \in Request : HandleHttpRequest(r) \/ TaskBegins(r)
       \/ \E r \in Request, c \in Context :
             HandleOnNewContext(r, c) \/ FulfillPromise(r, c)
       \/ RespondWith \/ GlobalFetch
       \/ \E name \in Type : AddEventListener(name)
       \/ EndOfTurn
       \/ \E c \in Context : TopTimerBegins(c)
       \/ TopTimerEnds

Spec == Init /\ [][Next]_vars

\* A script that is called returns.
FairSpec ==
    /\ Spec
    /\ WF_vars(fault = "none" /\ EndOfTurn)
    /\ WF_vars(fault = "none" /\ RespondWith)

-----------------------------------------------------------------------------
(* Properties.                                                             *)

TypeOK ==
    /\ idle \in Seq(Context)
    /\ held \in [Request -> Context \cup {None}]
    /\ made \subseteq Context /\ bad \subseteq made
    /\ listeners \in [Context -> Seq(Item)]
    /\ locked \in [Context -> BOOLEAN]
    /\ embedded \in [Context -> Request \cup {None}]
    /\ life \in [Request -> {"none", "live", "dead"}]
    /\ fetching \subseteq Request \X Context
    /\ armed \subseteq made
    /\ turn \in TurnType
    /\ fault \in {"none", "use_after_free", "deadlock", "null_scope"}

\* Whatever a listener, a timer or the answer to a fetch allocates goes into the
\* heap of the request that has the context, which lives.  That is the request
\* whose callback it is, for as long as it lives; only a fetch goes on after it
\* and may put its Response into the heap of another (v8rt::getHeap: the scope
\* in the embedder data of a context is never reset).
AllocatesInLiveHeap ==
    turn.kind \in {"dispatch", "listener", "respond", "task", "fetch"} =>
        LET heap == HeapFor(turn.context)
        IN  /\ heap \in Request /\ life[heap] = "live"
            /\ held[heap] = turn.context
            /\ turn.kind # "fetch" \/ life[turn.req] = "live" => heap = turn.req

\* The mutex of a target is held exactly while dispatchEvent goes through it,
\* however it ends: another callback never finds it taken.
LockedDuringDispatch ==
    \A c \in Context :
        locked[c] <=> turn.kind \in {"dispatch", "listener"} /\ turn.context = c

\* A target does not change under the loop of dispatchEvent, whose iterators a
\* new listener would invalidate.
DispatchSeesFixedTarget ==
    [][\A c \in Context : locked[c] /\ locked'[c] => listeners'[c] = listeners[c]]_vars

\* In every context that may be lent again, the first listener of an event is
\* one of the script's top level, which is never freed: what requests add comes
\* after it (check_handler_registered, addListener).
FirstListenerIsTopLevel ==
    \A c \in made \ bad :
        \E i \in DOMAIN listeners[c] :
            /\ listeners[c][i].type = "fetch"
            /\ \A j \in 1 .. i : listeners[c][j].heap = None

\* Nothing goes wrong for scripts with every habit, even though requests leave
\* listeners behind that are gone, and the scope in a context is often a dead
\* one: the event is cancelled before the loop reaches such a listener, and no
\* callback but those of the request that has the context allocates in it
\* (dispatchEvent, addListener, fulfill_promise, JsTimer::execute).
NoFault == fault = "none"

\* dispatchEvent returns, and the request gets to its answer.
EveryDispatchReturns ==
    \A r \in Request :
        turn.kind = "dispatch" /\ turn.req = r ~> turn.kind = "respond" /\ turn.req = r
=============================================================================
